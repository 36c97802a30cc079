------------------------- MODULE ScriptRunnerProofs -------------------------
(***************************************************************************)
(* Proofs about ScriptRunner for every page size, batch size, region,      *)
(* script and number of faults: its type invariant, that no reply is ever  *)
(* taken for that of another request, that batching keeps its bound, and   *)
(* that "OK" means the region is blessed.  All follow from IInv.           *)
(***************************************************************************)
EXTENDS ScriptRunner, TLAPS

-----------------------------------------------------------------------------
(* Arithmetic.                                                             *)

LEMMA DivisionTypes ==
  ASSUME NEW x \in Nat, NEW s \in Nat \ {0}
  PROVE  /\ x \div s \in Nat
         /\ x % s \in 0..(s - 1)
         /\ x = s * (x \div s) + (x % s)
OBVIOUS

LEMMA DivisionUnique ==
  ASSUME NEW s \in Nat \ {0}, NEW q \in Int, NEW r \in 0..(s - 1)
  PROVE  (s * q + r) \div s = q
OBVIOUS

LEMMA ModuloSmall ==
  ASSUME NEW x \in Nat, NEW s \in Nat \ {0}, x < s
  PROVE  x % s = x
OBVIOUS

LEMMA ProductType ==
  ASSUME NEW x \in Nat, NEW s \in Nat
  PROVE  x * s \in Nat
OBVIOUS

\* A nonempty region has at least one page.
LEMMA PageCountType ==
  ASSUME NEW length \in Nat
  PROVE  /\ PageCount(length) \in Int
         /\ length > 0 => PageCount(length) \in Nat \ {0}
<1>1. JitPageSize \in Nat \ {0}
  BY ScriptRunnerAssumption
<1>2. CASE length > 0
  <2>1. length - 1 \in Nat
    BY <1>2
  <2>2. (length - 1) \div JitPageSize \in Nat
    BY <1>1, <2>1, DivisionTypes
  <2> QED BY <2>2 DEF PageCount
<1>3. CASE length = 0
  <2>1. (0 - 1) \div JitPageSize \in Int
    BY <1>1
  <2> QED BY <1>3, <2>1 DEF PageCount
<1> QED BY <1>2, <1>3

LEMMA WriteAddressType ==
  ASSUME NEW r \in [address : Nat, length : Nat], NEW page \in Nat
  PROVE  WriteAddress(r, page) \in Nat
<1>1. r.address + page * JitPageSize \in Nat
  BY ProductType, ScriptRunnerAssumption
<1>2. WireSpace \in Nat \ {0}
  BY ScriptRunnerAssumption
<1>3. (r.address + page * JitPageSize) % WireSpace \in 0..(WireSpace - 1)
  BY <1>1, <1>2, DivisionTypes
<1> QED BY <1>2, <1>3 DEF WriteAddress

\* Inside the region a batch is a nonempty sequence of at most CommandsPerBatch
\* writes.
LEMMA BatchType ==
  ASSUME TypeOK, BatchInside, calling \in {"send", "read"}
  PROVE  /\ BatchSize \in 1..CommandsPerBatch
         /\ PageCount(region.length) \in Nat
         /\ batchStart + BatchSize <= PageCount(region.length)
         /\ BatchCommands \in Seq(Writes)
         /\ Len(BatchCommands) = BatchSize
         /\ \A i \in 1..BatchSize :
              BatchCommands[i] = [op |-> "M", at |-> WriteAddress(region, batchStart + i - 1)]
<1>1. region \in [address : Nat, length : Nat] /\ batchStart \in Nat
  BY DEF TypeOK
<1>2. region.length > 0 /\ batchStart < PageCount(region.length)
  BY DEF BatchInside
<1>3. PageCount(region.length) \in Nat
  BY <1>1, <1>2, PageCountType
<1>4. CommandsPerBatch \in Nat \ {0}
  BY ScriptRunnerAssumption
<1>5. BatchSize \in 1..CommandsPerBatch /\ batchStart + BatchSize <= PageCount(region.length)
  BY <1>1, <1>2, <1>3, <1>4 DEF BatchSize
<1>6. ASSUME NEW i \in 1..BatchSize
      PROVE  WriteCommand(batchStart + i - 1) \in Writes
  <2>1. batchStart + i - 1 \in Nat
    BY <1>1, <1>5
  <2>2. WriteAddress(region, batchStart + i - 1) \in Nat
    BY <1>1, <2>1, WriteAddressType
  <2> QED BY <2>2 DEF WriteCommand, Writes
<1>7. BatchCommands \in Seq(Writes) /\ Len(BatchCommands) = BatchSize
  BY <1>5, <1>6 DEF BatchCommands
<1>8. \A i \in 1..BatchSize :
        BatchCommands[i] = [op |-> "M", at |-> WriteAddress(region, batchStart + i - 1)]
  BY DEF BatchCommands, WriteCommand
<1> QED BY <1>3, <1>5, <1>7, <1>8

-----------------------------------------------------------------------------
(* The parts of the induction step, one lemma per conjunct of IInv.        *)

LEMMA ReadFailsType ==
  ASSUME TypeOK, ReadFails
  PROVE  replies' \in Seq(Bodies) /\ link' \in {"up", "down"} /\ faults' \in 0..MaxFaults
<1>1. MaxFaults \in Nat
  BY ScriptRunnerAssumption
<1>2. CASE LinkLost /\ UNCHANGED replies
  BY <1>1, <1>2 DEF LinkLost, TypeOK
<1>3. CASE ReplyGarbled
  <2>1. Tail(replies) \in Seq(Bodies)
    BY <1>3 DEF ReplyGarbled, TypeOK
  <2> QED BY <1>1, <1>3, <2>1 DEF ReplyGarbled, TypeOK
<1> QED BY <1>2, <1>3 DEF ReadFails

\* Each step keeps the types; a batch must lie inside its region for the
\* commands appended to be writes.
LEMMA TypeStep ==
  ASSUME TypeOK, BatchInside, [Next]_vars
  PROVE  TypeOK'
<1> USE DEF TypeOK, locals, channel
<1>1. CASE LoadScript
  BY <1>1 DEF LoadScript
<1>2. CASE ScriptThrows
  BY <1>2 DEF ScriptThrows, RecordExecutionError
<1>3. CASE ScriptEnds
  BY <1>3 DEF ScriptEnds
<1>4. ASSUME NEW c \in Commands, SendCommand(c)
      PROVE  TypeOK'
  BY <1>4 DEF SendCommand
<1>5. CASE SendCommandFails
  BY <1>5, ScriptRunnerAssumption
     DEF SendCommandFails, LinkLost, CallFails, RecordExecutionError
<1>6. CASE ReceiveReply
  BY <1>6 DEF ReceiveReply
<1>7. CASE ReceiveReplyFails
  BY <1>7, ReadFailsType, ScriptRunnerAssumption
     DEF ReceiveReplyFails, CallFails, RecordExecutionError
<1>8. ASSUME NEW r \in Regions, BeginPrepare(r)
      PROVE  TypeOK'
  BY <1>8, ScriptRunnerAssumption DEF BeginPrepare
<1>9. CASE SendBatch
  <2>1. BatchCommands \in Seq(Commands \cup Writes)
    BY <1>9, BatchType DEF SendBatch
  <2> QED BY <1>9, <2>1 DEF SendBatch
<1>10. CASE SendBatchFails
  <2>1. BatchCommands \in Seq(Commands \cup Writes) /\ Len(BatchCommands) = BatchSize
    BY <1>10, BatchType DEF SendBatchFails
  <2>2. PICK k \in 0..BatchSize : inbox' = inbox \o SubSeq(BatchCommands, 1, k)
    BY <1>10 DEF SendBatchFails
  <2>3. SubSeq(BatchCommands, 1, k) \in Seq(Commands \cup Writes)
    BY <2>1
  <2>4. inbox' \in Seq(Commands \cup Writes)
    BY <2>2, <2>3
  <2> QED BY <1>10, <2>4, ScriptRunnerAssumption
          DEF SendBatchFails, LinkLost, CallFails, RecordExecutionError
<1>11. CASE ReadResponse
  <2>1. Tail(replies) \in Seq(Bodies)
    BY <1>11 DEF ReadResponse
  <2>2. calling' \in {"nothing", "read", "send"} /\ batchStart' \in Nat /\ got' \in Nat
    <3>1. CommandsPerBatch \in Nat
      BY ScriptRunnerAssumption
    <3> QED BY <1>11, <3>1 DEF ReadResponse
  <2>3. answer' \in Bodies /\ prepared' \subseteq [address : Nat, length : Nat]
    BY <1>11, ScriptRunnerAssumption DEF ReadResponse
  <2> QED BY <1>11, <2>1, <2>2, <2>3 DEF ReadResponse
<1>12. CASE ReadResponseFails
  BY <1>12, ReadFailsType, ScriptRunnerAssumption
     DEF ReadResponseFails, CallFails, RecordExecutionError
<1>13. CASE ServeWrite
  <2>1. inbox # <<>> /\ Head(inbox).at \in Nat
    BY <1>13 DEF ServeWrite, Writes
  <2>2. written' \subseteq Nat
    BY <1>13, <2>1 DEF ServeWrite
  <2>3. PICK body \in {OK, Refused} : Reply(body)
    BY <1>13 DEF ServeWrite
  <2>4. body \in Bodies
    BY ScriptRunnerAssumption
  <2> QED BY <2>1, <2>2, <2>3, <2>4 DEF Reply
<1>14. CASE ServeCommand
  BY <1>14 DEF ServeCommand, Reply
<1>15. CASE SendNothing
  BY <1>15, ScriptRunnerAssumption DEF SendNothing
<1>16. CASE UNCHANGED vars
  BY <1>16 DEF vars
<1> QED
  BY <1>1, <1>2, <1>3, <1>4, <1>5, <1>6, <1>7, <1>8, <1>9, <1>10, <1>11, <1>12,
     <1>13, <1>14, <1>15, <1>16 DEF Next, Runner, Returned

\* A loop over batches starts with batch 0 of a nonempty region and goes on only
\* to a batch that begins before its last page.
LEMMA BatchInsideStep ==
  ASSUME TypeOK, BatchInside, [Next]_vars
  PROVE  BatchInside'
<1> USE DEF BatchInside, PageCount, locals
<1>1. ASSUME NEW r \in Regions, BeginPrepare(r)
      PROVE  BatchInside'
  <2>1. r.length \in Nat
    BY ScriptRunnerAssumption
  <2>2. r.length > 0 => PageCount(r.length) > 0
    BY <2>1, PageCountType
  <2> QED BY <1>1, <2>2 DEF BeginPrepare, Scripting
<1>2. CASE ReadResponse
  BY <1>2 DEF ReadResponse
<1>3. CASE SendBatch
  BY <1>3 DEF SendBatch
<1>4. CASE UNCHANGED <<calling, locals>>
  BY <1>4
<1>5. CASE calling' \in {"nothing", "command"}
  BY <1>5
<1> QED
  BY <1>1, <1>2, <1>3, <1>4, <1>5
     DEF Next, Runner, Returned, vars, LoadScript, ScriptThrows, ScriptEnds, SendCommand,
         SendNothing, SendCommandFails, ReceiveReply, ReceiveReplyFails, SendBatchFails,
         ReadResponseFails, CallFails, ServeWrite, ServeCommand, Reply

\* run() finishes only with no call open and no error, and does nothing after.
LEMMA FinishedIsIdleStep ==
  ASSUME FinishedIsIdle, [Next]_vars
  PROVE  FinishedIsIdle'
BY DEF FinishedIsIdle, Next, Runner, Returned, vars, LoadScript, ScriptThrows, ScriptEnds,
       Scripting, SendCommand, SendNothing, SendCommandFails, ReceiveReply, ReceiveReplyFails,
       BeginPrepare, SendBatch, SendBatchFails, ReadResponse, ReadResponseFails,
       CallFails, RecordExecutionError, ServeWrite, ServeCommand, Reply, locals

\* A call that fails leaves an error behind.
LEMMA FailureIsRecorded ==
  ASSUME TypeOK, CallFails
  PROVE  executionError' # "none"
BY DEF TypeOK, CallFails, RecordExecutionError

LEMMA InFlightType ==
  ASSUME TypeOK
  PROVE  /\ Len(inbox) \in Nat /\ Len(replies) \in Nat
         /\ inbox # <<>> => Len(inbox) > 0 /\ Len(Tail(inbox)) = Len(inbox) - 1
         /\ replies # <<>> => Len(replies) > 0 /\ Len(Tail(replies)) = Len(replies) - 1
         /\ \A body : Len(Append(replies, body)) = Len(replies) + 1
<1>1. inbox \in Seq(Commands \cup Writes) /\ replies \in Seq(Bodies)
  BY DEF TypeOK
<1> QED BY <1>1

LEMMA ConcatLength ==
  ASSUME NEW S, NEW s \in Seq(S), NEW t \in Seq(S)
  PROVE  Len(s \o t) = Len(s) + Len(t)
OBVIOUS

LEMMA BatchSizeStays ==
  ASSUME UNCHANGED <<region, batchStart>>
  PROVE  BatchSize' = BatchSize
BY DEF BatchSize, PageCount

\* What is sent is awaited at once, and what is read was awaited; the debug server
\* moves one request to one reply.
LEMMA AnswersMatchStep ==
  ASSUME TypeOK, BatchInside, AnswersMatch, [Next]_vars
  PROVE  AnswersMatch'
<1> SUFFICES ASSUME executionError' = "none"
             PROVE  InFlight' = Awaited'
  BY DEF AnswersMatch
<1> USE InFlightType
<1>1. CASE UNCHANGED <<calling, locals, executionError, inbox, replies>>
  BY <1>1 DEF AnswersMatch, InFlight, Awaited, BatchSize, PageCount, locals
<1>2. CASE LoadScript \/ SendNothing \/ ScriptEnds \/ Returned \/ UNCHANGED vars
  BY <1>1, <1>2 DEF LoadScript, SendNothing, ScriptEnds, Returned, vars, channel, locals
<1>3. CASE SendCommandFails \/ ReceiveReplyFails \/ SendBatchFails \/ ReadResponseFails
  BY <1>3, FailureIsRecorded
     DEF SendCommandFails, ReceiveReplyFails, SendBatchFails, ReadResponseFails
<1>4. CASE ScriptThrows
  BY <1>4 DEF ScriptThrows, RecordExecutionError
<1>5. ASSUME NEW c \in Commands, SendCommand(c)
      PROVE  InFlight' = Awaited'
  <2>1. Len(inbox') = Len(inbox) + 1
    BY <1>5 DEF SendCommand, TypeOK
  <2> QED BY <1>5, <2>1 DEF SendCommand, Scripting, AnswersMatch, InFlight, Awaited
<1>6. CASE ReceiveReply
  BY <1>6 DEF ReceiveReply, AnswersMatch, InFlight, Awaited
<1>7. ASSUME NEW r \in Regions, BeginPrepare(r)
      PROVE  InFlight' = Awaited'
  BY <1>7 DEF BeginPrepare, Scripting, channel, AnswersMatch, InFlight, Awaited
<1>8. CASE SendBatch
  <2>1. BatchSize \in Nat /\ BatchCommands \in Seq(Writes) /\ Len(BatchCommands) = BatchSize
    BY <1>8, BatchType DEF SendBatch
  <2>2. Len(inbox') = Len(inbox) + BatchSize
    <3>1. inbox \in Seq(Commands \cup Writes) /\ BatchCommands \in Seq(Commands \cup Writes)
      BY <2>1 DEF TypeOK
    <3>2. inbox' = inbox \o BatchCommands
      BY <1>8 DEF SendBatch
    <3>3. Len(inbox \o BatchCommands) = Len(inbox) + Len(BatchCommands)
      BY <3>1, ConcatLength
    <3> QED BY <2>1, <3>2, <3>3
  <2>3. BatchSize' = BatchSize
    BY <1>8, BatchSizeStays DEF SendBatch
  <2>4. InFlight = 0
    BY <1>8 DEF SendBatch, AnswersMatch, Awaited
  <2> QED BY <1>8, <2>1, <2>2, <2>3, <2>4 DEF SendBatch, InFlight, Awaited
<1>9. CASE ReadResponse
  <2>1. BatchSize \in Nat
    BY <1>9, BatchType DEF ReadResponse
  <2>2. got \in Nat /\ InFlight = BatchSize - got
    BY <1>9 DEF ReadResponse, AnswersMatch, Awaited, TypeOK
  <2>3. InFlight' = InFlight - 1
    BY <1>9 DEF ReadResponse, InFlight
  <2>4. CASE got + 1 < BatchSize
    <3>1. calling' = "read" /\ got' = got + 1 /\ BatchSize' = BatchSize
      <4>1. calling' = "read" /\ got' = got + 1 /\ UNCHANGED <<region, batchStart>>
        BY <1>9, <2>1, <2>2, <2>4 DEF ReadResponse
      <4> QED BY <4>1, BatchSizeStays
    <3> QED BY <2>1, <2>2, <2>3, <3>1 DEF Awaited
  <2>5. CASE got + 1 = BatchSize
    <3>1. calling' \in {"send", "nothing"}
      BY <1>9, <2>5, <2>1 DEF ReadResponse
    <3> QED BY <2>1, <2>2, <2>3, <2>5, <3>1 DEF Awaited
  <2> QED BY <1>9, <2>4, <2>5 DEF ReadResponse
<1>10. ASSUME NEW body, inbox # <<>>, Reply(body)
       PROVE  InFlight' = Awaited'
  <2>1. InFlight' = InFlight
    BY <1>10 DEF Reply, InFlight
  <2>2. UNCHANGED <<calling, region, batchStart, got, executionError>>
    BY <1>10 DEF Reply, locals
  <2>3. BatchSize' = BatchSize
    BY <2>2, BatchSizeStays
  <2> QED BY <2>1, <2>2, <2>3 DEF AnswersMatch, Awaited
<1> QED
  BY <1>2, <1>3, <1>4, <1>5, <1>6, <1>7, <1>8, <1>9, <1>10
     DEF Next, Runner, ServeWrite, ServeCommand

\* An address that is written stays written, and a write at the head of the queue
\* is the one the debug server carries out.
LEMMA TailKeepsRest ==
  ASSUME NEW S, NEW q \in Seq(S), q # <<>>, NEW i \in 1..Len(q), i # 1
  PROVE  i - 1 \in 1..Len(Tail(q)) /\ Tail(q)[i - 1] = q[i]
OBVIOUS

LEMMA ServingKeepsWrites ==
  ASSUME TypeOK, ServeWrite \/ ServeCommand, ~RefusesWrites,
         NEW a \in Nat, OnItsWay(a)
  PROVE  OnItsWay(a)'
<1>1. inbox \in Seq(Commands \cup Writes) /\ inbox # <<>> /\ inbox' = Tail(inbox)
  BY DEF TypeOK, ServeWrite, ServeCommand, Reply
<1>2. written \subseteq written'
  BY DEF ServeWrite, ServeCommand
<1>3. CASE a \in written
  BY <1>2, <1>3 DEF OnItsWay
<1>4. ASSUME NEW i \in 1..Len(inbox), inbox[i] = [op |-> "M", at |-> a], i # 1
      PROVE  OnItsWay(a)'
  <2>1. i - 1 \in 1..Len(inbox') /\ inbox'[i - 1] = [op |-> "M", at |-> a]
    BY <1>1, <1>4, TailKeepsRest
  <2> QED BY <2>1 DEF OnItsWay
<1>5. CASE Head(inbox) = [op |-> "M", at |-> a]
  <2>1. Head(inbox) \in Writes
    BY <1>5 DEF Writes
  <2>2. ServeWrite
    BY <2>1, ScriptRunnerAssumption DEF ServeCommand
  <2>3. a \in written'
    BY <1>5, <2>2 DEF ServeWrite
  <2> QED BY <2>3 DEF OnItsWay
<1>6. inbox[1] = Head(inbox)
  BY <1>1
<1> QED BY <1>3, <1>4, <1>5, <1>6 DEF OnItsWay

\* With every reply of a call read and no error, no request is left to serve.
LEMMA NothingLeftToServe ==
  ASSUME TypeOK, AnswersMatch, executionError = "none",
         Awaited \in Int, Awaited <= Len(replies)
  PROVE  inbox = <<>>
<1>1. inbox \in Seq(Commands \cup Writes) /\ Len(replies) \in Nat
  BY DEF TypeOK
<1>2. Len(inbox) = 0
  BY <1>1 DEF AnswersMatch, InFlight
<1> QED BY <1>1, <1>2

LEMMA ErrorsStay ==
  ASSUME TypeOK, [Next]_vars, executionError' = "none"
  PROVE  executionError = "none"
BY DEF TypeOK, Next, Runner, Returned, vars, LoadScript, ScriptThrows, ScriptEnds,
       SendCommand, SendNothing, SendCommandFails, ReceiveReply, ReceiveReplyFails, BeginPrepare,
       SendBatch, SendBatchFails, ReadResponse, ReadResponseFails, CallFails,
       RecordExecutionError, ServeWrite, ServeCommand, Reply

\* What is written for the regions prepared so far stays written.
LEMMA PreparedStayWritten ==
  ASSUME WritesArrive, executionError = "none", ~RefusesWrites,
         NEW r \in prepared, r.length > 0, NEW p \in 0..(PageCount(r.length) - 1),
         written \subseteq written'
  PROVE  WriteAddress(r, p) \in written'
BY DEF WritesArrive

\* A batch is sent when the previous one has been answered; the last reply of the
\* last batch finds all pages of the region written.
LEMMA WritesArriveStep ==
  ASSUME TypeOK, BatchInside, AnswersMatch, WritesArrive, [Next]_vars
  PROVE  WritesArrive'
<1> SUFFICES ASSUME executionError' = "none", ~RefusesWrites
             PROVE  WritesArrive'
  BY DEF WritesArrive
<1>a. executionError = "none"
  BY ErrorsStay
<1>b. \A p \in 0..(PagesSent - 1) : OnItsWay(WriteAddress(region, p))
  BY <1>a DEF WritesArrive
<1>1. ASSUME UNCHANGED <<calling, region, batchStart, prepared, inbox, written>>
      PROVE  WritesArrive'
  <2>1. PagesSent' = PagesSent
    BY <1>1, BatchSizeStays DEF PagesSent
  <2> QED BY <1>1, <1>a, <2>1 DEF WritesArrive, OnItsWay, WriteAddress
<1>2. ASSUME calling' \in {"nothing", "command"}, UNCHANGED <<prepared, written>>
      PROVE  WritesArrive'
  <2>1. PagesSent' = 0
    BY <1>2 DEF PagesSent
  <2> QED BY <1>2, <1>a, <2>1 DEF WritesArrive, WriteAddress
<1>3. ASSUME NEW r \in Regions, BeginPrepare(r)
      PROVE  WritesArrive'
  <2>1. PagesSent' = 0
    BY <1>3 DEF BeginPrepare, Scripting, PagesSent
  <2>2. written' = written /\ \A s \in prepared' : s \in prepared \/ s.length <= 0
    <3>1. r.length \in Nat
      BY ScriptRunnerAssumption
    <3> QED BY <1>3, <3>1 DEF BeginPrepare
  <2>3. \A s \in prepared' : s.length > 0 => s \in prepared
    <3>1. \A s \in prepared' : s \in prepared \/ s = r
      BY <1>3 DEF BeginPrepare
    <3>2. r.length \in Nat
      BY ScriptRunnerAssumption
    <3> QED BY <1>3, <3>1, <3>2 DEF BeginPrepare
  <2> QED BY <1>a, <2>1, <2>2, <2>3, PreparedStayWritten DEF WritesArrive, WriteAddress
<1>4. CASE SendBatch
  <2>1. inbox = <<>>
    BY <1>4, <1>a, NothingLeftToServe, InFlightType DEF SendBatch, Awaited
  <2>2. /\ BatchSize \in Nat /\ BatchCommands \in Seq(Writes) /\ Len(BatchCommands) = BatchSize
        /\ \A i \in 1..BatchSize :
             BatchCommands[i] = [op |-> "M", at |-> WriteAddress(region, batchStart + i - 1)]
    BY <1>4, BatchType DEF SendBatch
  <2>3. inbox' = BatchCommands
    BY <1>4, <2>1, <2>2 DEF SendBatch
  <2>4. PagesSent' = batchStart + BatchSize /\ PagesSent = batchStart
    BY <1>4, BatchSizeStays DEF SendBatch, PagesSent
  <2>5. UNCHANGED <<region, batchStart, prepared, written>> /\ batchStart \in Nat
    BY <1>4 DEF SendBatch, TypeOK
  <2>6. ASSUME NEW p \in 0..(PagesSent' - 1)
        PROVE  OnItsWay(WriteAddress(region, p))'
    <3>1. CASE p < batchStart
      <4>1. OnItsWay(WriteAddress(region, p))
        BY <1>b, <2>4, <2>5, <3>1
      <4> QED BY <2>1, <2>5, <4>1 DEF OnItsWay, WriteAddress
    <3>2. CASE p >= batchStart
      <4> DEFINE i == p - batchStart + 1
      <4>1. i \in 1..BatchSize /\ batchStart + i - 1 = p
        BY <2>2, <2>4, <2>5, <3>2
      <4>2. BatchCommands[i] = [op |-> "M", at |-> WriteAddress(region, p)]
        BY <2>2, <4>1
      <4>3. i \in 1..Len(inbox') /\ inbox'[i] = [op |-> "M", at |-> WriteAddress(region, p)]
        BY <2>2, <2>3, <4>1, <4>2
      <4>4. WriteAddress(region, p)' = WriteAddress(region, p)
        BY <2>5 DEF WriteAddress
      <4> QED BY <4>3, <4>4 DEF OnItsWay
    <3> QED BY <2>2, <2>4, <2>5, <3>1, <3>2
  <2> QED BY <1>a, <2>5, <2>6 DEF WritesArrive, WriteAddress
<1>5. CASE ReadResponse
  <2>1. /\ BatchSize \in 1..CommandsPerBatch /\ CommandsPerBatch \in Nat
        /\ PageCount(region.length) \in Nat /\ batchStart \in Nat /\ got \in Nat
    BY <1>5, BatchType, ScriptRunnerAssumption DEF ReadResponse, TypeOK
  <2>2. CASE got + 1 < BatchSize
    <3>1. UNCHANGED <<calling, region, batchStart, prepared, inbox, written>>
      BY <1>5, <2>1, <2>2 DEF ReadResponse
    <3> QED BY <1>1, <3>1
  <2>3. CASE got + 1 = BatchSize /\ batchStart + CommandsPerBatch < PageCount(region.length)
    <3>1. /\ calling = "read" /\ calling' = "send"
          /\ batchStart' = batchStart + CommandsPerBatch
          /\ UNCHANGED <<region, prepared, inbox, written>>
      BY <1>5, <2>1, <2>3 DEF ReadResponse
    <3>2. BatchSize = CommandsPerBatch
      BY <2>1, <2>3 DEF BatchSize
    <3>3. PagesSent' = PagesSent
      BY <3>1, <3>2 DEF PagesSent
    <3> QED BY <1>a, <3>1, <3>3 DEF WritesArrive, OnItsWay, WriteAddress
  <2>4. CASE got + 1 = BatchSize /\ batchStart + CommandsPerBatch >= PageCount(region.length)
    <3>1. /\ calling = "read" /\ calling' = "nothing" /\ replies # <<>>
          /\ prepared' = prepared \cup {region} /\ UNCHANGED written
      BY <1>5, <2>1, <2>4 DEF ReadResponse
    <3>2. inbox = <<>>
      BY <1>a, <2>1, <2>4, <3>1, NothingLeftToServe, InFlightType DEF Awaited
    <3>3. BatchSize = PageCount(region.length) - batchStart
      BY <2>1, <2>4 DEF BatchSize
    <3>4. PagesSent = PageCount(region.length)
      BY <2>1, <3>1, <3>3 DEF PagesSent
    <3>5. \A p \in 0..(PageCount(region.length) - 1) : WriteAddress(region, p) \in written
      BY <1>b, <3>2, <3>4 DEF OnItsWay
    <3>6. PagesSent' = 0
      BY <3>1 DEF PagesSent
    <3> QED BY <1>a, <3>1, <3>5, <3>6, PreparedStayWritten DEF WritesArrive, WriteAddress
  <2> QED BY <1>5, <2>2, <2>3, <2>4 DEF ReadResponse
<1>6. CASE ServeWrite \/ ServeCommand
  <2>1. UNCHANGED <<calling, region, batchStart, prepared>> /\ written \subseteq written'
    BY <1>6 DEF ServeWrite, ServeCommand, Reply, locals
  <2>2. PagesSent' = PagesSent
    BY <2>1, BatchSizeStays DEF PagesSent
  <2>3. ASSUME NEW p \in 0..(PagesSent - 1)
        PROVE  OnItsWay(WriteAddress(region, p))'
    <3>1. region \in [address : Nat, length : Nat] /\ p \in Nat
      BY DEF TypeOK
    <3>2. WriteAddress(region, p) \in Nat /\ OnItsWay(WriteAddress(region, p))
      BY <1>b, <3>1, WriteAddressType
    <3>3. WriteAddress(region, p)' = WriteAddress(region, p)
      BY <2>1 DEF WriteAddress
    <3> DEFINE a == WriteAddress(region, p)
    <3>4. a \in written' \/ \E i \in 1..Len(inbox') : inbox'[i] = [op |-> "M", at |-> a]
      <4> HIDE DEF a
      <4> QED BY <1>6, <3>2, ServingKeepsWrites DEF OnItsWay, a
    <3> QED BY <3>3, <3>4 DEF OnItsWay
  <2> QED BY <1>a, <2>1, <2>2, <2>3, PreparedStayWritten DEF WritesArrive, WriteAddress
<1> QED
  BY <1>1, <1>2, <1>3, <1>4, <1>5, <1>6, <1>a
     DEF Next, Runner, Returned, vars, channel, locals, LoadScript, ScriptThrows, ScriptEnds,
         SendCommand, SendNothing, SendCommandFails, ReceiveReply, ReceiveReplyFails, SendBatchFails,
         ReadResponseFails, CallFails

-----------------------------------------------------------------------------
(* The theorems.                                                           *)

LEMMA InitIInv ==
  ASSUME Init
  PROVE  IInv
<1>1. TypeOK
  BY ScriptRunnerAssumption DEF Init, TypeOK
<1>2. BatchInside /\ FinishedIsIdle
  BY DEF Init, BatchInside, FinishedIsIdle
<1>3. AnswersMatch
  BY DEF Init, AnswersMatch, InFlight, Awaited
<1>4. WritesArrive
  BY DEF Init, WritesArrive, PagesSent
<1> QED BY <1>1, <1>2, <1>3, <1>4 DEF IInv

LEMMA NextIInv ==
  ASSUME IInv, [Next]_vars
  PROVE  IInv'
BY TypeStep, BatchInsideStep, FinishedIsIdleStep, AnswersMatchStep, WritesArriveStep DEF IInv

\* IInv is an invariant: everything below follows from it.
THEOREM Invariance == Spec => []IInv
<1>1. Init => IInv
  BY InitIInv
<1>2. IInv /\ [Next]_vars => IInv'
  BY NextIInv
<1> QED BY <1>1, <1>2, PTL DEF Spec

\* The variables keep their types in every run of ScriptRunner.
THEOREM TypeCorrect == Spec => []TypeOK
<1>1. IInv => TypeOK
  BY DEF IInv
<1> QED BY <1>1, Invariance, PTL

\* No reply is ever taken for the answer to another request while no error has
\* been recorded: send_command and prepare_memory_region stay in step with the
\* debug server for every script, batch size and region.
THEOREM AnswersAlwaysMatch == Spec => []AnswersMatch
<1>1. IInv => AnswersMatch
  BY DEF IInv
<1> QED BY <1>1, Invariance, PTL

\* A batch never leaves more than commandsPerBatch requests outstanding.
THEOREM BatchesAreBounded == Spec => []BatchBound
<1>1. IInv => BatchBound
  <2> SUFFICES ASSUME IInv, executionError = "none"
               PROVE  InFlight <= CommandsPerBatch
    BY DEF BatchBound
  <2>1. InFlight = Awaited /\ CommandsPerBatch \in Nat \ {0}
    BY ScriptRunnerAssumption DEF IInv, AnswersMatch
  <2>2. CASE calling # "read"
    BY <2>1, <2>2 DEF Awaited, IInv, TypeOK
  <2>3. CASE calling = "read"
    <3>1. BatchSize \in 1..CommandsPerBatch /\ got \in Nat
      BY <2>3, BatchType DEF IInv, TypeOK
    <3> QED BY <2>1, <2>3, <3>1 DEF Awaited
  <2> QED BY <2>2, <2>3
<1> QED BY <1>1, Invariance, PTL

\* run() that returns without throwing leaves no request and no reply behind.
THEOREM FinishedRunsAreQuiet == Spec => []FinishedIsQuiet
<1>1. IInv => FinishedIsQuiet
  <2> SUFFICES ASSUME IInv, stage = "finished"
               PROVE  inbox = <<>> /\ replies = <<>>
    BY DEF FinishedIsQuiet
  <2>1. InFlight = 0
    BY DEF IInv, FinishedIsIdle, AnswersMatch, Awaited
  <2>2. inbox \in Seq(Commands \cup Writes) /\ replies \in Seq(Bodies)
    BY DEF IInv, TypeOK
  <2>3. Len(inbox) = 0 /\ Len(replies) = 0
    BY <2>1, <2>2 DEF InFlight
  <2> QED BY <2>2, <2>3
<1> QED BY <1>1, Invariance, PTL

\* The page at index p of an aligned region starts where page p of it is written.
LEMMA WritesCoverPages ==
  ASSUME NEW r \in [address : Nat, length : Nat], r.length > 0,
         Aligned(r), Addressable(r), NEW page \in RegionPages(r)
  PROVE  \E p \in 0..(PageCount(r.length) - 1) : WriteAddress(r, p) \div JitPageSize = page
<1>1. PICK S \in Nat \ {0} : S = JitPageSize
  BY ScriptRunnerAssumption
<1>2. PICK first \in Nat : r.address = S * first
  <2>1. r.address = S * (r.address \div S) + 0 /\ r.address \div S \in Nat
    BY <1>1, DivisionTypes DEF Aligned
  <2> QED BY <2>1
<1>3. PICK last \in Nat, m \in 0..(S - 1) : r.length - 1 = S * last + m
  <2>1. r.length - 1 \in Nat
    OBVIOUS
  <2>2. /\ (r.length - 1) \div S \in Nat /\ (r.length - 1) % S \in 0..(S - 1)
        /\ r.length - 1 = S * ((r.length - 1) \div S) + ((r.length - 1) % S)
    BY <2>1, DivisionTypes
  <2> QED BY <2>2
<1>4. page \in first..(first + last)
  <2>1. r.address \div S = first
    <3>1. (S * first + 0) \div S = first
      BY DivisionUnique
    <3> QED BY <1>2, <3>1
  <2>2. (S * (first + last) + m) \div S = first + last
    BY DivisionUnique
  <2>3. r.address + r.length - 1 = S * (first + last) + m
    BY <1>2, <1>3
  <2> QED BY <1>1, <2>1, <2>2, <2>3 DEF RegionPages
<1>5. PICK p \in 0..last : page = first + p
  BY <1>4
<1>6. PageCount(r.length) - 1 = last
  <2>1. (S * last + m) \div S = last
    BY DivisionUnique
  <2>2. (r.length - 1) \div JitPageSize = last
    BY <1>1, <1>3, <2>1
  <2> QED BY <2>2 DEF PageCount
<1>7. WriteAddress(r, p) = S * page
  <2>1. r.address + p * S = S * page
    BY <1>2, <1>5
  <2>2. S * p <= S * last
    BY <1>5
  <2>3. r.address + p * S \in Nat
    BY ProductType
  <2>4. r.address + p * S <= r.address + r.length - 1
    BY <1>3, <2>2
  <2>5. WireSpace \in Nat \ {0} /\ r.address + r.length <= WireSpace
    BY ScriptRunnerAssumption DEF Addressable
  <2>6. (r.address + p * S) % WireSpace = r.address + p * S
    <3>1. r.address + p * S < WireSpace
      BY <2>3, <2>4, <2>5
    <3> QED BY <2>3, <2>5, <3>1, ModuloSmall
  <2> QED BY <1>1, <2>1, <2>6 DEF WriteAddress
<1>8. (S * page) \div S = page
  <2>1. (S * page + 0) \div S = page
    BY <1>5, DivisionUnique
  <2> QED BY <1>5, <2>1
<1> QED BY <1>1, <1>5, <1>6, <1>7, <1>8

\* "OK" means blessed: unless run() is going to throw, every page of a region for
\* which prepare_memory_region answered "OK" has been written through the debug
\* server, provided that the region is page-aligned and within reach of nine hex
\* digits and that the debug server refuses no write.
THEOREM PreparedRegionsAreBlessed == Spec => []PreparedIsBlessed
<1>1. IInv => PreparedIsBlessed
  <2> SUFFICES ASSUME IInv, executionError = "none", ~RefusesWrites,
                      NEW r \in prepared, Aligned(r), Addressable(r)
               PROVE  Blessed(r)
    BY DEF PreparedIsBlessed
  <2>1. r \in [address : Nat, length : Nat]
    BY DEF IInv, TypeOK
  <2>2. CASE r.length = 0
    BY <2>2 DEF Blessed, RegionPages
  <2>3. CASE r.length > 0
    <3>1. \A p \in 0..(PageCount(r.length) - 1) : WriteAddress(r, p) \in written
      BY <2>3 DEF IInv, WritesArrive
    <3>2. ASSUME NEW page \in RegionPages(r)
          PROVE  page \in TouchedPages
      BY <2>1, <2>3, <3>1, <3>2, WritesCoverPages DEF TouchedPages
    <3> QED BY <3>2 DEF Blessed
  <2> QED BY <2>1, <2>2, <2>3
<1> QED BY <1>1, Invariance, PTL

-----------------------------------------------------------------------------
(* Why no call blocks for ever: nothing is awaited that is not on its way, *)
(* and each step of a call uses up one of finitely many.                   *)

CallsAreScripted == calling # "nothing" => stage = "script"

LEMMA ScriptedStep ==
  ASSUME CallsAreScripted, [Next]_vars
  PROVE  CallsAreScripted'
BY DEF CallsAreScripted, Next, Runner, Returned, vars, LoadScript, ScriptThrows, ScriptEnds,
       Scripting, SendCommand, SendNothing, SendCommandFails, ReceiveReply, ReceiveReplyFails,
       BeginPrepare, SendBatch, SendBatchFails, ReadResponse, ReadResponseFails,
       CallFails, ServeWrite, ServeCommand, Reply

LEMMA AwaitedType ==
  ASSUME TypeOK, BatchInside
  PROVE  Awaited \in Int
<1>1. CASE calling = "read"
  BY <1>1, BatchType DEF Awaited, TypeOK
<1>2. CASE calling # "read"
  BY <1>2 DEF Awaited, TypeOK
<1> QED BY <1>1, <1>2

\* The length of the stream to the debug server after a batch.
LEMMA BatchSent ==
  ASSUME TypeOK, BatchInside, SendBatch
  PROVE  BatchSize \in 1..CommandsPerBatch /\ BatchSize' = BatchSize
         /\ Len(inbox') = Len(inbox) + BatchSize
<1>1. /\ BatchSize \in 1..CommandsPerBatch
      /\ BatchCommands \in Seq(Writes) /\ Len(BatchCommands) = BatchSize
  BY BatchType DEF SendBatch
<1>2. Len(inbox') = Len(inbox) + BatchSize
  <2>1. inbox \in Seq(Commands \cup Writes) /\ BatchCommands \in Seq(Commands \cup Writes)
    BY <1>1 DEF TypeOK
  <2>2. inbox' = inbox \o BatchCommands
    BY DEF SendBatch
  <2>3. Len(inbox \o BatchCommands) = Len(inbox) + Len(BatchCommands)
    BY <2>1, ConcatLength
  <2> QED BY <1>1, <2>2, <2>3
<1> QED BY <1>1, <1>2, BatchSizeStays DEF SendBatch

LEMMA NoReadInVainStep ==
  ASSUME TypeOK, BatchInside, NoReadInVain, [Next]_vars
  PROVE  NoReadInVain'
<1> USE InFlightType
<1>a. InFlight \in Nat /\ Awaited \in Int
  BY AwaitedType DEF InFlight
<1>1. CASE UNCHANGED <<calling, locals, inbox, replies, link>>
  BY <1>1 DEF NoReadInVain, InFlight, Awaited, BatchSize, PageCount, locals
<1>2. CASE LoadScript \/ SendNothing \/ ScriptThrows \/ ScriptEnds \/ Returned \/ UNCHANGED vars
  BY <1>1, <1>2 DEF LoadScript, SendNothing, ScriptThrows, ScriptEnds, Returned, vars, channel, locals
<1>3. ASSUME calling' \in {"nothing", "send"}, InFlight' \in Nat
      PROVE  NoReadInVain'
  BY <1>3 DEF NoReadInVain, Awaited
<1>4. CASE SendCommandFails \/ ReceiveReplyFails \/ SendBatchFails \/ ReadResponseFails
  <2>1. calling' = "nothing"
    BY <1>4 DEF SendCommandFails, ReceiveReplyFails, SendBatchFails, ReadResponseFails, CallFails
  <2>2. TypeOK'
    BY TypeStep
  <2>3. InFlight' \in Nat
    BY <2>2 DEF TypeOK, InFlight
  <2> QED BY <1>3, <2>1, <2>3
<1>5. ASSUME NEW c \in Commands, SendCommand(c)
      PROVE  NoReadInVain'
  <2>1. Len(inbox') = Len(inbox) + 1
    BY <1>5 DEF SendCommand, TypeOK
  <2> QED BY <1>5, <2>1 DEF SendCommand, NoReadInVain, InFlight, Awaited
<1>6. CASE ReceiveReply
  BY <1>3, <1>6 DEF ReceiveReply, InFlight
<1>7. ASSUME NEW r \in Regions, BeginPrepare(r)
      PROVE  NoReadInVain'
  BY <1>a, <1>3, <1>7 DEF BeginPrepare, Scripting, channel, InFlight
<1>8. CASE SendBatch
  BY <1>8, BatchSent DEF SendBatch, NoReadInVain, InFlight, Awaited
<1>9. CASE ReadResponse
  <2>1. BatchSize \in Nat /\ got \in Nat
    BY <1>9, BatchType DEF ReadResponse, TypeOK
  <2>2. BatchSize - got <= InFlight /\ InFlight' = InFlight - 1 /\ InFlight' \in Nat /\ link' = "up"
    BY <1>9 DEF ReadResponse, NoReadInVain, Awaited, InFlight
  <2>3. CASE got + 1 < BatchSize
    <3>1. calling' = "read" /\ got' = got + 1 /\ UNCHANGED <<region, batchStart>>
      BY <1>9, <2>1, <2>3 DEF ReadResponse
    <3>2. BatchSize' = BatchSize
      BY <3>1, BatchSizeStays
    <3> QED BY <1>a, <2>1, <2>2, <3>1, <3>2 DEF NoReadInVain, Awaited
  <2>4. CASE got + 1 = BatchSize
    <3>1. calling' \in {"send", "nothing"}
      BY <1>9, <2>4, <2>1 DEF ReadResponse
    <3> QED BY <1>3, <2>2, <3>1
  <2> QED BY <1>9, <2>3, <2>4 DEF ReadResponse
<1>10. ASSUME NEW body, inbox # <<>>, Reply(body)
       PROVE  NoReadInVain'
  <2>1. InFlight' = InFlight
    BY <1>10 DEF Reply, InFlight
  <2>2. UNCHANGED <<calling, region, batchStart, got, link>>
    BY <1>10 DEF Reply, locals
  <2>3. BatchSize' = BatchSize
    BY <2>2, BatchSizeStays
  <2> QED BY <2>1, <2>2, <2>3 DEF NoReadInVain, Awaited
<1> QED
  BY <1>2, <1>4, <1>5, <1>6, <1>7, <1>8, <1>9, <1>10 DEF Next, Runner, ServeWrite, ServeCommand

\* run() never blocks for a reply that nothing it has sent will bring, whatever has
\* failed before: the wait for the debug server is one the debug server can end.
THEOREM NoReadIsInVain == Spec => []NoReadInVain
<1>1. Init => NoReadInVain
  BY DEF Init, NoReadInVain, InFlight, Awaited
<1>2. IInv /\ NoReadInVain /\ [Next]_vars => NoReadInVain'
  BY NoReadInVainStep DEF IInv
<1> QED BY <1>1, <1>2, Invariance, PTL DEF Spec

\* What a call has left to do, by where it is.
LEMMA StepsLeftType ==
  ASSUME TypeOK, BatchInside
  PROVE  /\ UnsentPages \in Nat
         /\ StepsLeft \in Nat
         /\ calling = "send" => UnsentPages = PageCount(region.length) - batchStart
         /\ calling = "read" => UnsentPages = PageCount(region.length) - batchStart - BatchSize
<1>1. Len(inbox) \in Nat /\ Len(replies) \in Nat
  BY InFlightType
<1>2. CASE calling \in {"send", "read"}
  <2>1. batchStart \in Nat
    BY DEF TypeOK
  <2>2. BatchSize \in 1..CommandsPerBatch /\ CommandsPerBatch \in Nat
    BY <1>2, BatchType, ScriptRunnerAssumption
  <2>3. /\ PageCount(region.length) \in Nat
        /\ batchStart + BatchSize <= PageCount(region.length)
    BY <1>2, BatchType
  <2>4. UnsentPages \in Nat
    BY <1>2, <2>1, <2>2, <2>3 DEF UnsentPages
  <2> QED BY <1>1, <1>2, <2>4 DEF UnsentPages, StepsLeft
<1>3. CASE calling \notin {"send", "read"}
  BY <1>1, <1>3 DEF UnsentPages, StepsLeft
<1> QED BY <1>2, <1>3

LEMMA CallsAdvanceStep ==
  ASSUME TypeOK, BatchInside, CallsAreScripted, Next, calling # "nothing", calling' # "nothing"
  PROVE  UNCHANGED vars \/ StepsLeft' \in 0..(StepsLeft - 1)
<1> USE InFlightType
<1>a. UnsentPages \in Nat /\ StepsLeft \in Nat /\ Len(inbox) \in Nat /\ Len(replies) \in Nat
  BY StepsLeftType
<1>1. CASE SendBatch
  <2>1. UnsentPages' = UnsentPages - BatchSize
    <3>1. calling = "send" /\ calling' = "read" /\ UNCHANGED <<region, batchStart>>
      BY <1>1 DEF SendBatch
    <3>2. UnsentPages = PageCount(region.length) - batchStart
      BY <3>1 DEF UnsentPages
    <3>3. UnsentPages' = PageCount(region'.length) - batchStart' - BatchSize'
      BY <3>1 DEF UnsentPages
    <3> QED BY <1>1, <3>1, <3>2, <3>3, BatchSent
  <2>2. Len(inbox') = Len(inbox) + BatchSize /\ BatchSize \in Nat \ {0} /\ replies' = replies
    BY <1>1, BatchSent, ScriptRunnerAssumption DEF SendBatch
  <2>3. UnsentPages' \in Nat
    <3>1. /\ calling = "send" /\ batchStart \in Nat /\ PageCount(region.length) \in Nat
          /\ batchStart + BatchSize <= PageCount(region.length)
      BY <1>1, BatchType DEF SendBatch, TypeOK
    <3>2. UnsentPages = PageCount(region.length) - batchStart
      BY <3>1 DEF UnsentPages
    <3> QED BY <1>a, <2>1, <2>2, <3>1, <3>2
  <2> QED BY <1>a, <2>1, <2>2, <2>3 DEF StepsLeft
<1>2. CASE ReadResponse
  <2>1. Len(replies') = Len(replies) - 1 /\ Len(replies) \in Nat /\ inbox' = inbox
    BY <1>2 DEF ReadResponse
  <2>2. UnsentPages' = UnsentPages
    <3>1. /\ calling = "read" /\ batchStart \in Nat /\ region' = region
          /\ BatchSize \in Nat /\ PageCount(region.length) \in Nat
          /\ CommandsPerBatch \in Nat
      BY <1>2, BatchType, ScriptRunnerAssumption DEF ReadResponse, TypeOK
    <3>2. CASE calling' = "read" /\ batchStart' = batchStart
      BY <3>1, <3>2, BatchSizeStays DEF UnsentPages
    \* The batch after this one begins where this one ends: it was a full one.
    <3>3. CASE /\ calling' = "send" /\ batchStart' = batchStart + CommandsPerBatch
               /\ batchStart + CommandsPerBatch < PageCount(region.length)
      <4>1. BatchSize = CommandsPerBatch
        BY <3>1, <3>3 DEF BatchSize
      <4> QED BY <3>1, <3>3, <4>1 DEF UnsentPages
    <3> QED BY <1>2, <3>2, <3>3 DEF ReadResponse
  <2> QED BY <1>a, <2>1, <2>2 DEF StepsLeft
<1>3. ASSUME NEW body, inbox # <<>>, Reply(body)
      PROVE  StepsLeft' \in 0..(StepsLeft - 1)
  <2>1. Len(inbox') = Len(inbox) - 1 /\ Len(inbox) > 0 /\ Len(replies') = Len(replies) + 1
    BY <1>3 DEF Reply
  <2>2. UnsentPages' = UnsentPages
    <3>1. UNCHANGED <<calling, region, batchStart>>
      BY <1>3 DEF Reply, locals
    <3> QED BY <3>1, BatchSizeStays DEF UnsentPages, PageCount
  <2> QED BY <1>a, <2>1, <2>2 DEF StepsLeft
<1> QED
  BY <1>1, <1>2, <1>3
     DEF Next, Runner, Returned, LoadScript, ScriptThrows, ScriptEnds, Scripting, SendCommand,
         SendNothing, SendCommandFails, ReceiveReply, ReceiveReplyFails, BeginPrepare,
         SendBatchFails, ReadResponseFails, CallFails, ServeWrite, ServeCommand, CallsAreScripted

\* A call takes finitely many steps, for every region and batch size: every one of them
\* brings it nearer to its end.
THEOREM CallsAlwaysAdvance == Spec => CallsAdvance
<1>1. Init => CallsAreScripted
  BY DEF Init, CallsAreScripted
<1>2. CallsAreScripted /\ [Next]_vars => CallsAreScripted'
  BY ScriptedStep
<1>3. IInv /\ CallsAreScripted /\ [Next]_vars =>
        [calling # "nothing" /\ calling' # "nothing" => StepsLeft' \in 0..(StepsLeft - 1)]_vars
  BY CallsAdvanceStep DEF IInv
<1> QED BY <1>1, <1>2, <1>3, Invariance, PTL DEF Spec, CallsAdvance
=============================================================================
