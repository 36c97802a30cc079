---------------------------- MODULE JITGrantsProofs ----------------------------
(***************************************************************************)
(* Proofs about what an app is given back, for any app whose registers     *)
(* survive the scripts' five bytes: a region it asked for, and blessed.    *)
(* Promised follows a call from the stop at its brk to its return; what    *)
(* is prepared for it is written by WritesArrive, proved here for the      *)
(* instance as in ScriptRunnerProofs.  The last part shows that a session  *)
(* without faults implements JITGrants.                                    *)
(***************************************************************************)
EXTENDS JITScriptsProofs

LEMMA DivisionUnique ==
  ASSUME NEW s \in Nat \ {0}, NEW q \in Int, NEW r \in 0..(s - 1)
  PROVE  (s * q + r) \div s = q
OBVIOUS

LEMMA ModuloSmall ==
  ASSUME NEW x \in Nat, NEW s \in Nat \ {0}, x < s
  PROVE  x % s = x
OBVIOUS

\* An address that is written stays written, and a write at the head of the queue
\* is the one the debug server carries out.
LEMMA TailKeepsRest ==
  ASSUME NEW S, NEW q \in Seq(S), q # <<>>, NEW i \in 1..Len(q), i # 1
  PROVE  i - 1 \in 1..Len(Tail(q)) /\ Tail(q)[i - 1] = q[i]
OBVIOUS

LEMMA ServingKeepsWrites ==
  ASSUME Runner!TypeOK, Runner!ServeWrite \/ Runner!ServeCommand, ~RefusesWrites,
         NEW a \in Nat, Runner!OnItsWay(a)
  PROVE  Runner!OnItsWay(a)'
<1>1. inbox \in Seq(ScriptCommands \cup Runner!Writes) /\ inbox # <<>> /\ inbox' = Tail(inbox)
  BY DEF Runner!TypeOK, Runner!ServeWrite, Runner!ServeCommand, Runner!Reply
<1>2. written \subseteq written'
  BY DEF Runner!ServeWrite, Runner!ServeCommand
<1>3. CASE a \in written
  BY <1>2, <1>3 DEF Runner!OnItsWay
<1>4. ASSUME NEW i \in 1..Len(inbox), inbox[i] = [op |-> "M", at |-> a], i # 1
      PROVE  Runner!OnItsWay(a)'
  <2>1. i - 1 \in 1..Len(inbox') /\ inbox'[i - 1] = [op |-> "M", at |-> a]
    BY <1>1, <1>4, TailKeepsRest
  <2> QED BY <2>1 DEF Runner!OnItsWay
<1>5. CASE Head(inbox) = [op |-> "M", at |-> a]
  <2>1. Head(inbox) \in Runner!Writes
    BY <1>5 DEF Runner!Writes
  <2>2. Runner!ServeWrite
    BY <2>1, RunnerAssumption DEF Runner!ServeCommand
  <2>3. a \in written'
    BY <1>5, <2>2 DEF Runner!ServeWrite
  <2> QED BY <2>3 DEF Runner!OnItsWay
<1>6. inbox[1] = Head(inbox)
  BY <1>1
<1> QED BY <1>3, <1>4, <1>5, <1>6 DEF Runner!OnItsWay

\* With every reply of a call read and no error, no request is left to serve.
LEMMA NothingLeftToServe ==
  ASSUME Runner!TypeOK, Runner!AnswersMatch, executionError = "none",
         Runner!Awaited \in Int, Runner!Awaited <= Len(replies)
  PROVE  inbox = <<>>
<1>1. inbox \in Seq(ScriptCommands \cup Runner!Writes) /\ Len(replies) \in Nat
  BY DEF Runner!TypeOK
<1>2. Len(inbox) = 0
  BY <1>1 DEF Runner!AnswersMatch, Runner!InFlight
<1> QED BY <1>1, <1>2

LEMMA ErrorsStay ==
  ASSUME Runner!TypeOK, [Runner!Next]_(Runner!vars), executionError' = "none"
  PROVE  executionError = "none"
BY DEF Runner!TypeOK, Runner!Next, Runner!Runner, Runner!Returned, Runner!vars, Runner!LoadScript,
    Runner!ScriptThrows, Runner!ScriptEnds,
       Runner!SendCommand, Runner!SendNothing, Runner!SendCommandFails, Runner!ReceiveReply,
       Runner!ReceiveReplyFails, Runner!BeginPrepare,
       Runner!SendBatch, Runner!SendBatchFails, Runner!ReadResponse, Runner!ReadResponseFails,
       Runner!CallFails,
       Runner!RecordExecutionError, Runner!ServeWrite, Runner!ServeCommand, Runner!Reply

\* What is written for the regions prepared so far stays written.
LEMMA PreparedStayWritten ==
  ASSUME Runner!WritesArrive, executionError = "none", ~RefusesWrites,
         NEW r \in prepared, r.length > 0, NEW p \in 0..(Runner!PageCount(r.length) - 1),
         written \subseteq written'
  PROVE  Runner!WriteAddress(r, p) \in written'
BY DEF Runner!WritesArrive

\* A batch is sent when the previous one has been answered; the last reply of the
\* last batch finds all pages of the region written.
LEMMA WritesArriveStep ==
  ASSUME Runner!TypeOK, Runner!BatchInside, Runner!AnswersMatch, Runner!WritesArrive,
         [Runner!Next]_(Runner!vars)
  PROVE  Runner!WritesArrive'
<1> SUFFICES ASSUME executionError' = "none", ~RefusesWrites
             PROVE  Runner!WritesArrive'
  BY DEF Runner!WritesArrive
<1>a. executionError = "none"
  BY ErrorsStay
<1>b. \A p \in 0..(Runner!PagesSent - 1) : Runner!OnItsWay(Runner!WriteAddress(region, p))
  BY <1>a DEF Runner!WritesArrive
<1>1. ASSUME UNCHANGED <<calling, region, batchStart, prepared, inbox, written>>
      PROVE  Runner!WritesArrive'
  <2>1. Runner!PagesSent' = Runner!PagesSent
    BY <1>1, BatchSizeStays DEF Runner!PagesSent
  <2> QED BY <1>1, <1>a, <2>1 DEF Runner!WritesArrive, Runner!OnItsWay, Runner!WriteAddress
<1>2. ASSUME calling' \in {"nothing", "command"}, UNCHANGED <<prepared, written>>
      PROVE  Runner!WritesArrive'
  <2>1. Runner!PagesSent' = 0
    BY <1>2 DEF Runner!PagesSent
  <2> QED BY <1>2, <1>a, <2>1 DEF Runner!WritesArrive, Runner!WriteAddress
<1>3. ASSUME NEW r \in ScriptRegions, Runner!BeginPrepare(r)
      PROVE  Runner!WritesArrive'
  <2>1. Runner!PagesSent' = 0
    BY <1>3 DEF Runner!BeginPrepare, Runner!Scripting, Runner!PagesSent
  <2>2. written' = written /\ \A s \in prepared' : s \in prepared \/ s.length <= 0
    <3>1. r.length \in Nat
      BY RunnerAssumption
    <3> QED BY <1>3, <3>1 DEF Runner!BeginPrepare
  <2>3. \A s \in prepared' : s.length > 0 => s \in prepared
    <3>1. \A s \in prepared' : s \in prepared \/ s = r
      BY <1>3 DEF Runner!BeginPrepare
    <3>2. r.length \in Nat
      BY RunnerAssumption
    <3> QED BY <1>3, <3>1, <3>2 DEF Runner!BeginPrepare
  <2> QED BY <1>a, <2>1, <2>2, <2>3, PreparedStayWritten DEF Runner!WritesArrive, Runner!WriteAddress
<1>4. CASE Runner!SendBatch
  <2>1. inbox = <<>>
    BY <1>4, <1>a, NothingLeftToServe, InFlightType DEF Runner!SendBatch, Runner!Awaited
  <2>2. /\ Runner!BatchSize \in Nat /\ Runner!BatchCommands \in Seq(Runner!Writes)
          /\ Len(Runner!BatchCommands) = Runner!BatchSize
        /\ \A i \in 1..Runner!BatchSize :
             Runner!BatchCommands[i] = [op |-> "M", at |-> Runner!WriteAddress(region, batchStart + i - 1)]
    BY <1>4, BatchType DEF Runner!SendBatch
  <2>3. inbox' = Runner!BatchCommands
    BY <1>4, <2>1, <2>2 DEF Runner!SendBatch
  <2>4. Runner!PagesSent' = batchStart + Runner!BatchSize /\ Runner!PagesSent = batchStart
    BY <1>4, BatchSizeStays DEF Runner!SendBatch, Runner!PagesSent
  <2>5. UNCHANGED <<region, batchStart, prepared, written>> /\ batchStart \in Nat
    BY <1>4 DEF Runner!SendBatch, Runner!TypeOK
  <2>6. ASSUME NEW p \in 0..(Runner!PagesSent' - 1)
        PROVE  Runner!OnItsWay(Runner!WriteAddress(region, p))'
    <3>1. CASE p < batchStart
      <4>1. Runner!OnItsWay(Runner!WriteAddress(region, p))
        BY <1>b, <2>4, <2>5, <3>1
      <4> QED BY <2>1, <2>5, <4>1 DEF Runner!OnItsWay, Runner!WriteAddress
    <3>2. CASE p >= batchStart
      <4> DEFINE i == p - batchStart + 1
      <4>1. i \in 1..Runner!BatchSize /\ batchStart + i - 1 = p
        BY <2>2, <2>4, <2>5, <3>2
      <4>2. Runner!BatchCommands[i] = [op |-> "M", at |-> Runner!WriteAddress(region, p)]
        BY <2>2, <4>1
      <4>3. i \in 1..Len(inbox') /\ inbox'[i] = [op |-> "M", at |-> Runner!WriteAddress(region, p)]
        BY <2>2, <2>3, <4>1, <4>2
      <4>4. Runner!WriteAddress(region, p)' = Runner!WriteAddress(region, p)
        BY <2>5 DEF Runner!WriteAddress
      <4> QED BY <4>3, <4>4 DEF Runner!OnItsWay
    <3> QED BY <2>2, <2>4, <2>5, <3>1, <3>2
  <2> QED BY <1>a, <2>5, <2>6 DEF Runner!WritesArrive, Runner!WriteAddress
<1>5. CASE Runner!ReadResponse
  <2>1. /\ Runner!BatchSize \in 1..CommandsPerBatch /\ CommandsPerBatch \in Nat
        /\ Runner!PageCount(region.length) \in Nat /\ batchStart \in Nat /\ got \in Nat
    BY <1>5, BatchType, RunnerAssumption DEF Runner!ReadResponse, Runner!TypeOK
  <2>2. CASE got + 1 < Runner!BatchSize
    <3>1. UNCHANGED <<calling, region, batchStart, prepared, inbox, written>>
      BY <1>5, <2>1, <2>2 DEF Runner!ReadResponse
    <3> QED BY <1>1, <3>1
  <2>3. CASE got + 1 = Runner!BatchSize /\ batchStart + CommandsPerBatch < Runner!PageCount(region.length)
    <3>1. /\ calling = "read" /\ calling' = "send"
          /\ batchStart' = batchStart + CommandsPerBatch
          /\ UNCHANGED <<region, prepared, inbox, written>>
      BY <1>5, <2>1, <2>3 DEF Runner!ReadResponse
    <3>2. Runner!BatchSize = CommandsPerBatch
      BY <2>1, <2>3 DEF Runner!BatchSize
    <3>3. Runner!PagesSent' = Runner!PagesSent
      BY <3>1, <3>2 DEF Runner!PagesSent
    <3> QED BY <1>a, <3>1, <3>3 DEF Runner!WritesArrive, Runner!OnItsWay, Runner!WriteAddress
  <2>4. CASE got + 1 = Runner!BatchSize /\ batchStart + CommandsPerBatch >= Runner!PageCount(region.length)
    <3>1. /\ calling = "read" /\ calling' = "nothing" /\ replies # <<>>
          /\ prepared' = prepared \cup {region} /\ UNCHANGED written
      BY <1>5, <2>1, <2>4 DEF Runner!ReadResponse
    <3>2. inbox = <<>>
      BY <1>a, <2>1, <2>4, <3>1, NothingLeftToServe, InFlightType DEF Runner!Awaited
    <3>3. Runner!BatchSize = Runner!PageCount(region.length) - batchStart
      BY <2>1, <2>4 DEF Runner!BatchSize
    <3>4. Runner!PagesSent = Runner!PageCount(region.length)
      BY <2>1, <3>1, <3>3 DEF Runner!PagesSent
    <3>5. \A p \in 0..(Runner!PageCount(region.length) - 1) : Runner!WriteAddress(region, p) \in written
      BY <1>b, <3>2, <3>4 DEF Runner!OnItsWay
    <3>6. Runner!PagesSent' = 0
      BY <3>1 DEF Runner!PagesSent
    <3> QED BY <1>a, <3>1, <3>5, <3>6, PreparedStayWritten DEF Runner!WritesArrive, Runner!WriteAddress
  <2> QED BY <1>5, <2>2, <2>3, <2>4 DEF Runner!ReadResponse
<1>6. CASE Runner!ServeWrite \/ Runner!ServeCommand
  <2>1. UNCHANGED <<calling, region, batchStart, prepared>> /\ written \subseteq written'
    BY <1>6 DEF Runner!ServeWrite, Runner!ServeCommand, Runner!Reply, Runner!locals
  <2>2. Runner!PagesSent' = Runner!PagesSent
    BY <2>1, BatchSizeStays DEF Runner!PagesSent
  <2>3. ASSUME NEW p \in 0..(Runner!PagesSent - 1)
        PROVE  Runner!OnItsWay(Runner!WriteAddress(region, p))'
    <3>1. region \in [address : Nat, length : Nat] /\ p \in Nat
      BY DEF Runner!TypeOK
    <3>2. Runner!WriteAddress(region, p) \in Nat /\ Runner!OnItsWay(Runner!WriteAddress(region, p))
      BY <1>b, <3>1, WriteAddressType
    <3>3. Runner!WriteAddress(region, p)' = Runner!WriteAddress(region, p)
      BY <2>1 DEF Runner!WriteAddress
    <3> DEFINE a == Runner!WriteAddress(region, p)
    <3>4. a \in written' \/ \E i \in 1..Len(inbox') : inbox'[i] = [op |-> "M", at |-> a]
      <4> HIDE DEF a
      <4> QED BY <1>6, <3>2, ServingKeepsWrites DEF Runner!OnItsWay, a
    <3> QED BY <3>3, <3>4 DEF Runner!OnItsWay
  <2> QED BY <1>a, <2>1, <2>2, <2>3, PreparedStayWritten DEF Runner!WritesArrive, Runner!WriteAddress
<1> QED
  BY <1>1, <1>2, <1>3, <1>4, <1>5, <1>6, <1>a
     DEF Runner!Next, Runner!Runner, Runner!Returned, Runner!vars, Runner!channel, Runner!locals,
         Runner!LoadScript, Runner!ScriptThrows, Runner!ScriptEnds,
         Runner!SendCommand, Runner!SendNothing, Runner!SendCommandFails, Runner!ReceiveReply,
         Runner!ReceiveReplyFails, Runner!SendBatchFails,
         Runner!ReadResponseFails, Runner!CallFails

\* The page at index p of an aligned region starts where page p of it is written.
LEMMA WritesCoverPages ==
  ASSUME NEW r \in [address : Nat, length : Nat], r.length > 0,
         Runner!Aligned(r), Runner!Addressable(r), NEW page \in Runner!RegionPages(r)
  PROVE  \E p \in 0..(Runner!PageCount(r.length) - 1) : Runner!WriteAddress(r, p) \div JitPageSize = page
<1>1. PICK S \in Nat \ {0} : S = JitPageSize
  BY RunnerAssumption
<1>2. PICK first \in Nat : r.address = S * first
  <2>1. r.address = S * (r.address \div S) + 0 /\ r.address \div S \in Nat
    BY <1>1, DivisionTypes DEF Runner!Aligned
  <2> QED BY <2>1
<1>3. PICK last \in Nat, m \in 0..(S - 1) : r.length - 1 = S * last + m
  <2>1. r.length - 1 \in Nat
    OBVIOUS
  <2> QED BY <2>1, DivisionWitness
<1>4. page \in first..(first + last)
  <2>1. r.address \div S = first
    <3>1. (S * first + 0) \div S = first
      BY DivisionUnique
    <3> QED BY <1>2, <3>1
  <2>2. (S * (first + last) + m) \div S = first + last
    BY DivisionUnique
  <2>3. r.address + r.length - 1 = S * (first + last) + m
    BY <1>2, <1>3
  <2> QED BY <1>1, <2>1, <2>2, <2>3 DEF Runner!RegionPages
<1>5. PICK p \in 0..last : page = first + p
  BY <1>4
<1>6. Runner!PageCount(r.length) - 1 = last
  <2>1. (S * last + m) \div S = last
    BY DivisionUnique
  <2>2. (r.length - 1) \div JitPageSize = last
    BY <1>1, <1>3, <2>1
  <2> QED BY <2>2 DEF Runner!PageCount
<1>7. Runner!WriteAddress(r, p) = S * page
  <2>1. r.address + p * S = S * page
    BY <1>2, <1>5
  <2>2. S * p <= S * last
    BY <1>5
  <2>3. r.address + p * S \in Nat
    BY ProductType
  <2>4. r.address + p * S <= r.address + r.length - 1
    BY <1>3, <2>2
  <2>5. WireSpace \in Nat \ {0} /\ r.address + r.length <= WireSpace
    BY RunnerAssumption DEF Runner!Addressable
  <2>6. (r.address + p * S) % WireSpace = r.address + p * S
    <3>1. r.address + p * S < WireSpace
      BY <2>3, <2>4, <2>5
    <3> QED BY <2>3, <2>5, <3>1, ModuloSmall
  <2> QED BY <1>1, <2>1, <2>6 DEF Runner!WriteAddress
<1>8. (S * page) \div S = page
  <2>1. (S * page + 0) \div S = page
    BY <1>5, DivisionUnique
  <2> QED BY <1>5, <2>1
<1> QED BY <1>1, <1>5, <1>6, <1>7, <1>8

-----------------------------------------------------------------------------
(* What an app is promised.                                                 *)

JITCalls == Calls \cup LegacyCalls

\* Registers survive the five bytes the scripts parse them through.
Fits == ScriptSpace > 1 /\ \A c \in JITCalls : c.x0 < ScriptSpace /\ c.x1 < ScriptSpace

RegionAt(c, a) == [address |-> a, length |-> c.x1]

\* The regions that may be prepared for a call, and what it may return otherwise.
Allowed(c, a) ==
  \/ c.x0 # 0 /\ a = c.x0
  \/ c.x0 = 0 /\ RegionAt(c, a) \in allocated
OwnAddress(c, a) == Allowed(c, a) \/ (c.x0 = 0 /\ a = 0)

\* What may be in x0 when the call c returns.
Owed(c, a) ==
  IsPrepare(c) =>
    /\ a = 0 \/ RegionAt(c, a) \in prepared
    /\ RefusesMemory \/ OwnAddress(c, a)

AnsweredNow == calling = "command" /\ inbox = <<>>

\* How far a script has come with a call to prepare a region, while the app stands at
\* the brk of it: what has been done for the app so far, and what is left to do.
Course(c) ==
  /\ step \in {"fetch", "signal"} => ~advanced
  /\ step = "resume" => ~advanced \/ (~AnsweredNow /\ Owed(c, x0))
  /\ step \in {"advance", "refetch", "allocate", "prepare"} => x0 = c.x0
  /\ step = "advance" /\ AnsweredNow => advanced
  /\ script = "universal" => step \notin {"readText", "putError", "detach"}
  /\ script = "universal" /\ step \in {"refetch", "allocate", "prepare", "putX0"} => advanced
  /\ step = "allocate" => c.x0 = 0
  /\ step = "allocate" /\ AnsweredNow =>
       \/ replies = <<Nothing>>
       \/ replies = <<[start |-> FreshAddress]>> /\ RegionAt(c, FreshAddress) \in allocated
       \/ replies = <<Refused>> /\ RefusesMemory
  /\ script = "universal" /\ step = "prepare" => RefusesMemory \/ Allowed(c, address)
  /\ step = "putX0" => Owed(c, address)
  /\ step = "putX0" /\ AnsweredNow => x0 = address
  /\ script = "legacy" /\ step = "prepare" => address = c.x0
  /\ script = "legacy" /\ step \in {"advance", "detach"} => Owed(c, x0)

Promised ==
  executionError = "none" =>
    /\ \A g \in granted : Owed(g.call, g.x0)
    /\ calling \in {"send", "read"} /\ stop.code # "like69" => region = RegionAt(stop, address)
    /\ target = "running" => ~advanced
    /\ target \in {"stopped", "running"} /\ IsPrepare(event) /\ ~advanced => x0 = event.x0
    /\ target = "stopped" /\ IsPrepare(event) => Course(event)

\* A signal finds an app at no brk.
LEMMA SignalCodes ==
  /\ \A e \in SignalStops : e.code \in {"other", "like69"}
  /\ \A e \in AllCalls : e.code # "like69" => e \in JITCalls
  /\ \A c : IsPrepare(c) => c.code \in {"f00d", "69"}
BY UniversalAssumption DEF SignalStops, SignalStop, AllCalls, JITCalls, IsPrepare

\* The calls that ask for a region, as the scripts read them.
LEMMA PrepareCalls ==
  ASSUME Fits, Arguments, NEW c \in Stops \cup {NoStop}, IsPrepare(c)
  PROVE  /\ c \in JITCalls /\ c.x0 \in Nat /\ c.x1 \in Nat
         /\ c.x0 % ScriptSpace = c.x0 /\ c.x1 % ScriptSpace = c.x1
         /\ script = "universal" => c.code = "f00d" /\ ~NewBreakpoints(c) /\ Dispatch(c) = "refetch"
         /\ script = "legacy" => c.code = "69"
<1>1. c.code \in {"f00d", "69"} /\ c # DetachCall
  BY DEF IsPrepare, DetachCall
<1>2. c \in JITCalls /\ c.x0 \in Nat /\ c.x1 \in Nat
  BY <1>1, StopTypes, SignalCodes DEF NoStop
<1>3. c.x0 < ScriptSpace /\ c.x1 < ScriptSpace /\ 1 < ScriptSpace /\ ScriptSpace \in Nat \ {0}
  BY <1>2, UniversalAssumption DEF Fits
<1>4. 1 % ScriptSpace = 1 /\ c.x0 % ScriptSpace = c.x0 /\ c.x1 % ScriptSpace = c.x1
  BY <1>2, <1>3, ModuloSmall
<1>5. ASSUME script = "universal"
      PROVE  c.code = "f00d" /\ ~NewBreakpoints(c) /\ Dispatch(c) = "refetch"
  BY <1>4, <1>5 DEF IsPrepare, NewBreakpoints, Dispatch
<1>6. script = "legacy" => c.code = "69"
  BY DEF IsPrepare
<1> QED BY <1>2, <1>4, <1>5, <1>6

LEMMA OwedStays ==
  ASSUME NEW c, NEW a, Owed(c, a), UNCHANGED script,
         prepared \subseteq prepared', allocated \subseteq allocated'
  PROVE  Owed(c, a)'
BY DEF Owed, IsPrepare, OwnAddress, Allowed, RegionAt

-----------------------------------------------------------------------------
(* Steps of the debug server and the app.                                   *)

LEMMA ServerPrepares ==
  ASSUME Composed, Server
  PROVE  UNCHANGED <<prepared, region>> /\ allocated \subseteq allocated'
<1>1. UNCHANGED <<prepared, region>>
  BY ServerAnswers DEF Composed, runnerVars, Runner!ServeWrite, Runner!Reply, Runner!locals
<1>2. allocated \subseteq allocated'
  BY DEF Server, ServeWrite, ServeAttach, Resume, ResumeWithSignal, RunOn, KilledByTrap, AppStops, AppDies,
         ServeNoApp, ServeRead, ServeStepOver, ServeSetX0, ServeAllocate, ServeDetach, history
<1> QED BY <1>1, <1>2

\* A call that returns finds in x0 what it is owed.
LEMMA Returning ==
  ASSUME Promised, executionError = "none", target = "stopped", step \in {"resume", "signal", "detach"},
         script = "legacy" \/ step # "detach" \/ ~IsPrepare(event), ~AnsweredNow,
         script \in {"universal", "legacy"}
  PROVE  advanced => Owed(event, x0)
<1>1. CASE IsPrepare(event)
  BY <1>1 DEF Promised, Course
<1>2. CASE ~IsPrepare(event)
  BY <1>2 DEF Owed
<1> QED BY <1>1, <1>2

LEMMA ServerPromised ==
  ASSUME Fits, Composed, Attached, Promised, Server
  PROVE  Promised'
<1> SUFFICES ASSUME executionError = "none" PROVE Promised'
  BY ServerFrame DEF Promised
<1>0. Arguments /\ event \in Stops \cup {NoStop}
  BY DEF Composed, Refines, Attached, AppTypes
<1>1. /\ UNCHANGED <<script, step, stop, address, calling, region, prepared>>
      /\ allocated \subseteq allocated' /\ RequestOf' = RequestOf
  BY ServerFrame, ServerPrepares
<1>2. \A c, a : Owed(c, a) => Owed(c, a)'
  BY <1>1, OwedStays
<1>3. \A c : IsPrepare(c)' <=> IsPrepare(c)
  BY <1>1 DEF IsPrepare
<1>4. calling' \in {"send", "read"} /\ stop'.code # "like69" => region' = RegionAt(stop', address')
  BY <1>1 DEF Promised, RegionAt
<1>5. ASSUME NEW op, Serving(op)
      PROVE  /\ calling = "command" /\ step \in Requests /\ Head(inbox) = RequestOf[step]
             /\ RequestOf[step].op = op /\ inbox = <<RequestOf[step]>> /\ replies = <<>> /\ inbox # <<>>
  BY <1>5, ServedStep DEF Serving, Attached
<1>6. ASSUME NEW op, Serving(op), NEW b, Runner!Reply(b)
      PROVE  inbox' = <<>> /\ replies' = <<b>>
  <2>1. \A r : Tail(<<r>>) = <<>>
    OBVIOUS
  <2>2. Append(<<>>, b) = <<b>>
    OBVIOUS
  <2>3. inbox = <<RequestOf[step]>> /\ replies = <<>>
    BY <1>5, <1>6
  <2>4. inbox' = Tail(inbox) /\ replies' = Append(replies, b)
    BY <1>6 DEF Runner!Reply
  <2> QED BY <2>1, <2>2, <2>3, <2>4
\* Nothing that the call has got so far is touched.
<1>7. ASSUME UNCHANGED <<target, event, advanced, x0, granted, allocated>>,
             target = "stopped" /\ IsPrepare(event) /\ step \in {"resume", "advance", "allocate", "putX0"}
               => UNCHANGED <<inbox, replies>>
      PROVE  Promised'
  <2>1. target = "stopped" /\ IsPrepare(event) => Course(event)'
    BY <1>1, <1>2, <1>7 DEF Promised, Course, AnsweredNow, OwnAddress, Allowed, RegionAt
  <2> QED BY <1>1, <1>2, <1>3, <1>4, <1>7, <2>1 DEF Promised
<1>8. CASE ServeWrite
  <2>1. step = "prepare"
    <3>1. inbox # <<>> /\ Head(inbox) \in Runner!Writes
      BY <1>8 DEF ServeWrite, Runner!ServeWrite
    <3>2. calling # "command" /\ calling # "nothing"
      <4>1. calling = "command" => RequestOf[step] \in ScriptCommands
        BY RequestTypes DEF Composed, Refines, Calling
      <4> QED BY <3>1, <4>1, CommandFields DEF Attached, Paired, Asked, Said
    <3> QED BY <3>2 DEF Composed, Refines, Calling
  <2> QED BY <1>7, <1>8, <2>1 DEF ServeWrite, appVars, history
<1>9. CASE ServeAttach
  <2>1. step = "attach" /\ event = NoStop /\ event' = NoStop /\ target' \in {"stopped", target}
        /\ UNCHANGED <<granted, advanced>>
    BY <1>5, <1>9, Operations DEF ServeAttach, Attached, Believed, history
  <2>2. ~IsPrepare(NoStop)
    BY DEF IsPrepare, NoStop
  <2> QED BY <1>1, <1>2, <1>3, <1>4, <2>1, <2>2 DEF Promised
<1>10. CASE Resume \/ ResumeWithSignal
  <2>1. /\ target = "stopped" /\ target' = "running" /\ advanced' = FALSE /\ x0' = x0
        /\ event' = (IF AtBrk /\ ~advanced THEN event ELSE NoStop) /\ ReturnFromCall
        /\ step \in {"resume", "signal"} /\ inbox # <<>>
    BY <1>5, <1>10, Operations DEF Resume, ResumeWithSignal, RunOn
  <2>2. advanced => Owed(event, x0)
    BY <1>0, <2>1, Returning DEF AnsweredNow, Arguments
  <2>3. \A g \in granted' : Owed(g.call, g.x0)
    BY <2>1, <2>2 DEF ReturnFromCall, Promised
  <2>4. ~IsPrepare(NoStop)
    BY DEF IsPrepare, NoStop
  <2> QED BY <1>1, <1>2, <1>3, <1>4, <2>1, <2>3, <2>4 DEF Promised
<1>11. CASE KilledByTrap \/ AppDies
  BY <1>1, <1>2, <1>4, <1>11 DEF KilledByTrap, AppDies, history, Promised
<1>12. ASSUME NEW e \in Stops, AppStops(e)
       PROVE  Promised'
  <2>1. /\ target = "running" /\ target' = "stopped" /\ event' = e /\ UNCHANGED <<advanced, history>>
        /\ step \in {"resume", "signal"} /\ advanced = FALSE
    BY <1>12 DEF AppStops, Attached, Believed, Promised
  <2>2. IsPrepare(e) => x0' = e.x0
    BY <1>12, SignalCodes DEF AppStops, IsPrepare, DetachCall, Promised
  <2> QED BY <1>1, <1>2, <1>3, <1>4, <2>1, <2>2 DEF Promised, Course, history
<1>13. CASE ServeNoApp
  BY <1>7, <1>13 DEF ServeNoApp, appVars, history
<1>14. CASE ServeRead
  <2>1. step \in {"fetch", "refetch", "readText"}
    BY <1>5, <1>14, Operations DEF ServeRead
  <2> QED BY <1>7, <1>14, <2>1 DEF ServeRead, appVars, history
<1>15. CASE ServeStepOver
  <2>1. step = "advance" /\ advanced' = TRUE /\ UNCHANGED <<target, event, x0, history>> /\ target = "stopped"
    BY <1>5, <1>15, Operations DEF ServeStepOver
  <2>2. IsPrepare(event) => Course(event)'
    BY <1>1, <1>2, <2>1 DEF Promised, Course
  <2> QED BY <1>1, <1>2, <1>3, <1>4, <2>1, <2>2 DEF Promised, history
<1>16. CASE ServeSetX0
  <2>1. step \in {"putX0", "putError"} /\ UNCHANGED <<target, event, advanced, history>> /\ target = "stopped"
        /\ x0' = RequestOf[step].value
    BY <1>5, <1>16, Operations DEF ServeSetX0
  <2>2. script = "universal"
    BY <1>0, <2>1 DEF Arguments, LegacySteps, Seeking
  <2>3. IsPrepare(event) => step = "putX0" /\ advanced /\ x0' = address
    BY <2>1, <2>2, Fields DEF Promised, Course
  <2>4. IsPrepare(event) => Course(event)'
    BY <1>1, <1>2, <2>1, <2>2, <2>3 DEF Promised, Course
  <2> QED BY <1>1, <1>2, <1>3, <1>4, <2>1, <2>3, <2>4 DEF Promised, history
<1>17. CASE ServeAllocate
  <2>1. step = "allocate" /\ UNCHANGED <<target, event, advanced, x0, granted>> /\ target = "stopped"
        /\ Head(inbox).size = stop.x1 % ScriptSpace /\ stop = event
    BY <1>5, <1>17, Operations, Fields DEF ServeAllocate, appVars, Attached, Believed, AtRest
  <2>2. IsPrepare(event) => event.x1 % ScriptSpace = event.x1
    BY <1>0, PrepareCalls
  <2>3. IsPrepare(event) =>
          \/ replies' = <<Nothing>>
          \/ replies' = <<[start |-> FreshAddress]>> /\ RegionAt(event, FreshAddress) \in allocated'
          \/ replies' = <<Refused>> /\ RefusesMemory
    BY <1>6, <1>17, <2>1, <2>2 DEF ServeAllocate, RegionAt
  <2>4. IsPrepare(event) => Course(event)'
    BY <1>1, <1>2, <2>1, <2>3 DEF Promised, Course, RegionAt
  <2> QED BY <1>1, <1>2, <1>3, <1>4, <2>1, <2>4 DEF Promised
<1>18. CASE ServeDetach /\ granted' = granted /\ target' = target
  <2>1. step = "detach" /\ UNCHANGED <<event, advanced, x0, allocated>>
    BY <1>5, <1>18, Operations DEF ServeDetach
  <2> QED BY <1>7, <1>18, <2>1
<1>19. CASE ServeDetach /\ ReturnFromCall /\ target' = "free"
  <2>1. target = "stopped" /\ target' = "free" /\ step = "detach" /\ ReturnFromCall /\ inbox # <<>>
    BY <1>5, <1>19, Operations DEF ServeDetach
  <2>2. script = "legacy" \/ ~IsPrepare(event)
    BY <1>0, <2>1 DEF Promised, Course, Arguments
  <2>3. advanced => Owed(event, x0)
    BY <1>0, <2>1, <2>2, Returning DEF AnsweredNow, Arguments
  <2>4. \A g \in granted' : Owed(g.call, g.x0)
    BY <2>1, <2>3 DEF ReturnFromCall, Promised
  <2> QED BY <1>1, <1>2, <1>4, <2>1, <2>4 DEF Promised
<1> QED BY <1>8, <1>9, <1>10, <1>11, <1>12, <1>13, <1>14, <1>15, <1>16, <1>17, <1>18, <1>19
       DEF Server, ServeDetach

-----------------------------------------------------------------------------
(* Steps of a script.                                                       *)

\* Where the answers of a call lead the script, and with what address.
LEMMA CallContinues ==
  ASSUME Fits, Arguments, step \in Requests, NEW reply, Continue(reply), NEW c \in Stops \cup {NoStop},
         IsPrepare(c), step \in AtRest => stop = c
  PROVE  /\ step = "attach" => step' = "resume"
         /\ step = "resume" => step' \in {"fetch", "resume"}
         /\ step = "resume" /\ reply \in StopReplies => step' = "fetch"
         /\ step = "fetch" /\ reply = [memory |-> c.code] =>
              step' = (IF script = "legacy" THEN "prepare" ELSE "advance")
         /\ step = "signal" => step' = "resume"
         /\ step = "advance" => step' = (IF script = "legacy" THEN "detach" ELSE "refetch")
         /\ step = "refetch" => \/ step' = "throw"
                                \/ step' = "resume" /\ c.x0 = 0
                                \/ step' = "allocate" /\ c.x0 = 0
                                \/ step' = "prepare" /\ c.x0 # 0
         /\ step = "allocate" => \/ step' = "throw"
                                 \/ step' = "resume" /\ reply = Nothing
                                 \/ step' = "prepare" /\ reply # Nothing
         /\ step = "putX0" => step' = "resume"
         /\ step = "refetch" \/ (script = "legacy" /\ step = "fetch") => address' = c.x0
         /\ step = "allocate" /\ reply = [start |-> FreshAddress] => address' = FreshAddress
         /\ step = "detach" => step' = "done"
<1>1. /\ c.x0 % ScriptSpace = c.x0 /\ c.x1 % ScriptSpace = c.x1
      /\ script = "universal" => c.code = "f00d" /\ ~NewBreakpoints(c) /\ Dispatch(c) = "refetch"
      /\ script = "legacy" => c.code = "69"
  BY PrepareCalls
<1>0. step \in {"fetch", "advance", "refetch", "allocate", "putX0", "detach"} => stop = c
  BY DEF AtRest
<1> USE <1>0
<1>2. /\ Nothing \notin [memory : {"f00d", "69", "like69"}]
      /\ FreshAddress \in {FreshAddress}
  BY UniversalAssumption DEF MemoryReplies, Codes, Brks
<1>3. step = "refetch" \/ (script = "legacy" /\ step = "fetch") => address' = c.x0
  BY <1>1 DEF Continue, JitPageAddress
<1>4. step = "allocate" /\ reply = [start |-> FreshAddress] => address' = FreshAddress
  BY DEF Continue, JitPageAddress, IsHex, AddressReplies
<1>5. CASE script = "legacy"
  <2>1. step' = AfterLegacyReply(reply)
    BY <1>5 DEF Continue, AfterReply
  <2> QED BY <1>1, <1>2, <1>3, <1>4, <1>5, <2>1 DEF AfterLegacyReply, Arguments, LegacySteps, Seeking
<1>6. CASE script = "universal"
  <2>1. step' = AfterUniversalReply(reply)
    BY <1>6 DEF Continue, AfterReply
  <2>2. CASE step = "fetch"
    BY <1>1, <1>2, <1>6, <2>1, <2>2 DEF AfterUniversalReply, AfterFetch
  <2>3. CASE step = "refetch"
    <3>1. step' = IF reply = Nothing THEN "throw" ELSE PrepareRegion(c)
      BY <1>1, <1>6, <2>1, <2>3 DEF AfterUniversalReply, AfterRefetch
    <3>2. PrepareRegion(c) = IF c.x0 # 0 THEN "prepare" ELSE IF c.x1 = 0 THEN "resume" ELSE "allocate"
      BY <1>1 DEF PrepareRegion
    <3> QED BY <1>3, <2>3, <3>1, <3>2
  <2>4. CASE step = "allocate"
    <3>1. step' = AfterAllocate(reply)
      BY <2>1, <2>4 DEF AfterUniversalReply
    <3>2. ~IsHex(Nothing)
      BY UniversalAssumption DEF IsHex
    <3>3. AfterAllocate(reply) = IF reply = Nothing THEN "resume"
                                 ELSE IF IsHex(reply) THEN "prepare" ELSE "throw"
      BY <3>2 DEF AfterAllocate
    <3> QED BY <1>4, <2>4, <3>1, <3>3
  <2>5. CASE step = "advance"
    BY <1>1, <1>6, <2>1, <2>5 DEF AfterUniversalReply
  <2>6. CASE step \notin {"fetch", "refetch", "allocate", "advance"}
    BY <2>1, <2>6 DEF AfterUniversalReply
  <2> QED BY <1>6, <2>2, <2>3, <2>4, <2>5, <2>6
<1> QED BY <1>5, <1>6 DEF Arguments

\* A script that has an answer is one step further with the call.
LEMMA CallGoesOn ==
  ASSUME Fits, Composed, Attached, Promised, ReceiveReply, executionError = "none",
         target = "stopped", IsPrepare(event)
  PROVE  Course(event)'
<1> DEFINE r == Head(replies)
<1>1. /\ Continue(r) /\ Says(r) /\ step \in Requests /\ calling' = "nothing" /\ script' = script
      /\ calling = "command" /\ replies # <<>>
  BY Received DEF ReceiveReply, Runner!ReceiveReply, Continue, Attached
<1>2. AnsweredNow /\ \E b : replies = <<b>>
  BY <1>1 DEF Attached, Paired, Asked, Said, AnsweredNow
<1>3. /\ UNCHANGED <<target, event, advanced, x0, allocated, prepared>> /\ Course(event)
      /\ (~advanced => x0 = event.x0)
  BY ScriptFrame DEF Script, ReceiveReply, Runner!ReceiveReply, appVars, history, Promised
<1>4. Arguments /\ event \in Stops \cup {NoStop} /\ event # NoStop
  BY DEF Composed, Refines, Attached, AppTypes, IsPrepare, NoStop
<1>5. step # "attach" /\ (step \in AtRest => stop = event)
  BY <1>4 DEF Attached, Believed
<1>6. step \in {"resume", "fetch", "signal", "advance", "refetch", "allocate", "putX0", "detach"}
  BY <1>1, <1>3, <1>4, <1>5 DEF Requests, Course, Arguments, LegacySteps, Seeking
<1>7. ~AnsweredNow' /\ \A c, a : (Owed(c, a) => Owed(c, a)') /\ (Allowed(c, a)' <=> Allowed(c, a))
  BY <1>1, <1>3, OwedStays DEF AnsweredNow, OwnAddress, Allowed, RegionAt
<1> HIDE DEF r
<1> USE <1>1, <1>2, <1>3, <1>4, <1>5, <1>7
<1>8. CASE step \in {"resume", "signal"}
  <2>1. step' \in {"fetch", "resume"} /\ ~advanced
    <3>1. step = "resume" => step' \in {"fetch", "resume"}
      BY CallContinues
    <3>2. step = "signal" => step' = "resume"
      BY CallContinues
    <3> QED BY <1>8, <3>1, <3>2 DEF Course
  <2> QED BY <2>1 DEF Course
<1>9. CASE step = "fetch"
  <2>1. stop = event /\ r = [memory |-> event.code] /\ ~advanced
    BY <1>9 DEF Says, AtRest, Course
  <2>2. step' = (IF script = "legacy" THEN "prepare" ELSE "advance")
        /\ (script = "legacy" => address' = event.x0)
    BY <1>9, <2>1, CallContinues
  <2> QED BY <2>1, <2>2 DEF Course
<1>10. CASE step = "advance"
  <2>1. step' = (IF script = "legacy" THEN "detach" ELSE "refetch") /\ advanced
    BY <1>10, CallContinues DEF AtRest, Course
  <2> QED BY <1>10, <2>1 DEF Course, Arguments
<1>11. CASE step = "refetch"
  <2>1. stop = event /\ x0 = event.x0 /\ script = "universal" /\ advanced
    BY <1>11 DEF AtRest, Course, Arguments, LegacySteps, Seeking
  <2>2. /\ address' = event.x0
        /\ \/ step' = "throw"
           \/ step' = "resume" /\ event.x0 = 0
           \/ step' = "allocate" /\ event.x0 = 0
           \/ step' = "prepare" /\ event.x0 # 0
    BY <1>11, <2>1, CallContinues
  <2>3. event.x0 = 0 => Owed(event, x0)
    BY <2>1 DEF Owed, OwnAddress
  <2>4. event.x0 # 0 => Allowed(event, event.x0)
    BY DEF Allowed
  <2> QED BY <2>1, <2>2, <2>3, <2>4 DEF Course
<1>12. CASE step = "allocate"
  <2>1. stop = event /\ x0 = event.x0 /\ event.x0 = 0 /\ script = "universal" /\ advanced
    BY <1>12 DEF AtRest, Course, Arguments, LegacySteps, Seeking
  <2>2. \/ r = Nothing
        \/ r = [start |-> FreshAddress] /\ RegionAt(event, FreshAddress) \in allocated
        \/ r = Refused /\ RefusesMemory
    <3>1. \A b : Head(<<b>>) = b
      OBVIOUS
    <3> QED BY <1>12, <3>1 DEF Course, r
  <2>3. /\ \/ step' = "throw"
           \/ step' = "resume" /\ r = Nothing
           \/ step' = "prepare" /\ r # Nothing
        /\ r = [start |-> FreshAddress] => address' = FreshAddress
    BY <1>12, <2>1, CallContinues
  <2>4. Owed(event, x0)
    BY <2>1 DEF Owed, OwnAddress
  <2>5. step' = "prepare" => RefusesMemory \/ Allowed(event, address')
    BY <2>1, <2>2, <2>3 DEF Allowed
  <2> QED BY <2>1, <2>3, <2>4, <2>5 DEF Course
<1>13. CASE step = "putX0"
  <2>1. step' = "resume" /\ x0 = address /\ Owed(event, address)
    BY <1>13, CallContinues DEF AtRest, Course
  <2> QED BY <2>1 DEF Course
<1>14. CASE step = "detach"
  <2>1. step' = "done"
    BY <1>14, CallContinues DEF AtRest
  <2> QED BY <2>1 DEF Course
<1> QED BY <1>6, <1>8, <1>9, <1>10, <1>11, <1>12, <1>13, <1>14

\* prepare_memory_region that comes back without an error has prepared the region.
LEMMA RegionIsPrepared ==
  ASSUME Fits, Composed, Promised, PrepareMemoryRegion, executionError = "none", executionError' = "none"
  PROVE  /\ prepared \subseteq prepared' /\ calling' # "command"
         /\ calling' \in {"send", "read"} /\ stop.code # "like69" => region' = RegionAt(stop, address)
         /\ calling' = "nothing" /\ stop.code # "like69" => RegionAt(stop, address) \in prepared'
<1>1. step = "prepare" /\ stop \in AllCalls
  BY DEF PrepareMemoryRegion, Composed, Refines, Arguments
<1>2. stop.code # "like69" => stop.x1 % ScriptSpace = stop.x1
  <2> SUFFICES ASSUME stop.code # "like69" PROVE stop.x1 % ScriptSpace = stop.x1
    OBVIOUS
  <2>1. stop.x1 \in Nat /\ stop.x1 < ScriptSpace /\ ScriptSpace \in Nat \ {0}
    BY <1>1, StopTypes, SignalCodes, UniversalAssumption DEF Composed, Refines, Arguments, Fits
  <2> QED BY <2>1, ModuloSmall
<1>3. CASE Runner!BeginPrepare([address |-> address, length |-> stop.x1 % ScriptSpace])
  BY <1>2, <1>3 DEF Runner!BeginPrepare, Runner!Scripting, RegionAt
<1>4. CASE Runner!SendBatch
  BY <1>4 DEF Runner!SendBatch, Promised
<1>5. CASE Runner!ReadResponse
  BY <1>5 DEF Runner!ReadResponse, Promised
<1>6. ~Runner!SendBatchFails /\ ~Runner!ReadResponseFails
  BY FailureIsRecorded DEF Composed, Runner!SendBatchFails, Runner!ReadResponseFails
<1> QED BY <1>3, <1>4, <1>5, <1>6 DEF PrepareMemoryRegion

LEMMA ScriptPromised ==
  ASSUME Fits, Composed, Attached, Promised, Script
  PROVE  Promised'
<1> SUFFICES ASSUME executionError = "none", executionError' = "none" PROVE Promised'
  BY ScriptFrame DEF Promised
<1>1. UNCHANGED <<target, event, advanced, x0, granted, allocated, script>>
  BY ScriptFrame DEF appVars, history
<1>2. \A c : IsPrepare(c)' <=> IsPrepare(c)
  BY <1>1 DEF IsPrepare
<1>3. prepared \subseteq prepared' => \A c, a : Owed(c, a) => Owed(c, a)'
  BY <1>1, OwedStays
<1>4. CASE LoadScript \/ ScriptEnds \/ SendCommand
  <2>1. UNCHANGED <<step, stop, address, region, prepared, replies>>
    BY <1>4 DEF LoadScript, ScriptEnds, SendCommand, Runner!LoadScript, Runner!ScriptEnds, Runner!SendCommand,
                Runner!locals, Runner!channel, scriptVars
  <2>2. AnsweredNow' => AnsweredNow
    <3>1. ASSUME SendCommand PROVE inbox' # <<>>
      <4>1. inbox \in Seq(ScriptCommands \cup Runner!Writes) /\ inbox' = Append(inbox, RequestOf[step])
        BY <3>1 DEF SendCommand, Runner!SendCommand, Composed, Runner!TypeOK
      <4>2. calling = "nothing"
        BY <3>1 DEF SendCommand, Runner!SendCommand, Runner!Scripting
      <4>3. inbox' = <<RequestOf[step]>>
        BY <4>1, <4>2 DEF Attached, Paired
      <4> QED BY <4>3
    <3> QED BY <1>4, <3>1 DEF AnsweredNow, LoadScript, ScriptEnds, Runner!LoadScript, Runner!ScriptEnds,
                              Runner!channel
  <2>3. calling' \in {"send", "read"} => calling' = calling
    BY <1>4 DEF LoadScript, ScriptEnds, SendCommand, Runner!LoadScript, Runner!ScriptEnds, Runner!SendCommand
  <2>4. target = "stopped" /\ IsPrepare(event) => Course(event)'
    BY <1>1, <1>3, <2>1, <2>2 DEF Promised, Course, OwnAddress, Allowed, RegionAt
  <2> QED BY <1>1, <1>2, <1>3, <2>1, <2>3, <2>4 DEF Promised, RegionAt
<1>5. CASE ReceiveReply
  <2>1. UNCHANGED prepared /\ calling' = "nothing"
    BY <1>5 DEF ReceiveReply, Runner!ReceiveReply
  <2>2. target = "stopped" /\ IsPrepare(event) => Course(event)'
    BY <1>5, CallGoesOn
  <2> QED BY <1>1, <1>2, <1>3, <2>1, <2>2 DEF Promised
<1>6. CASE PrepareMemoryRegion
  <2>1. /\ step = "prepare" /\ UNCHANGED <<stop, address>>
        /\ step' = (IF calling' = "nothing" THEN AfterPrepare ELSE step)
    BY <1>6 DEF PrepareMemoryRegion
  <2>2. /\ prepared \subseteq prepared' /\ calling' # "command"
        /\ calling' \in {"send", "read"} /\ stop.code # "like69" => region' = RegionAt(stop, address)
        /\ calling' = "nothing" /\ stop.code # "like69" => RegionAt(stop, address) \in prepared'
    BY <1>6, RegionIsPrepared
  <2>3. ASSUME target = "stopped", IsPrepare(event)
        PROVE  Course(event)'
    <3>1. stop = event /\ Course(event) /\ script \in {"universal", "legacy"}
      BY <2>1, <2>3 DEF Attached, Believed, AtRest, Promised, Composed, Refines, Arguments
    <3>2. /\ x0 = event.x0
          /\ script = "universal" => advanced /\ (RefusesMemory \/ Allowed(event, address))
          /\ script = "legacy" => address = event.x0
      BY <2>1, <3>1 DEF Course
    <3>3. /\ Allowed(event, address)' <=> Allowed(event, address)
          /\ RefusesMemory \/ OwnAddress(event, address)'
      BY <1>1, <2>1, <3>1, <3>2 DEF OwnAddress, Allowed, RegionAt
    <3>4. ~AnsweredNow'
      BY <2>2 DEF AnsweredNow
    <3>5. CASE calling' # "nothing"
      BY <1>1, <2>1, <3>2, <3>3, <3>4, <3>5 DEF Course
    <3>6. CASE calling' = "nothing"
      <4>1. Owed(event, address)'
        BY <1>1, <2>1, <2>2, <3>1, <3>2, <3>3, <3>6, <2>3, SignalCodes DEF Owed, RegionAt
      <4>2. step' = (IF script = "legacy" THEN "advance" ELSE "putX0")
        BY <2>1, <3>6 DEF AfterPrepare
      <4> QED BY <1>1, <2>1, <3>1, <3>2, <3>4, <4>1, <4>2 DEF Course
    <3> QED BY <3>5, <3>6
  <2> QED BY <1>1, <1>2, <1>3, <2>1, <2>2, <2>3 DEF Promised, RegionAt
<1> QED BY <1>4, <1>5, <1>6, ScriptFrame DEF Script

-----------------------------------------------------------------------------
(* What was granted.                                                        *)

Provided == Composed /\ Attached /\ Promised /\ Runner!WritesArrive

LEMMA ProvidedInit ==
  ASSUME Init
  PROVE  Provided
<1>1. Composed /\ Attached
  BY ComposedInit, AttachedInit
<1>2. Promised /\ Runner!WritesArrive
  BY DEF Init, Runner!Init, Promised, Course, Runner!WritesArrive, Runner!PagesSent
<1> QED BY <1>1, <1>2 DEF Provided

LEMMA ProvidedStep ==
  ASSUME Fits, Provided, [Next]_vars
  PROVE  Provided'
<1> USE DEF Provided
<1>1. Composed' /\ Attached' /\ [Runner!Next]_(Runner!vars)
  BY ComposedStep, AttachedStep
<1>2. Runner!WritesArrive'
  BY <1>1, WritesArriveStep DEF Composed
<1>3. CASE Script \/ Server
  BY <1>1, <1>2, <1>3, ScriptPromised, ServerPromised
<1>4. CASE UNCHANGED vars
  <2>1. Promised'
    BY <1>4 DEF vars, runnerVars, scriptVars, appVars, history, Promised, Course, Owed, OwnAddress, Allowed,
                RegionAt, IsPrepare, AnsweredNow
  <2> QED BY <1>1, <1>2, <2>1
<1> QED BY <1>3, <1>4 DEF Next, Returned

LEMMA ProvidedHolds ==
  ASSUME Fits
  PROVE  Spec => []Provided
<1>1. Init => Provided
  BY ProvidedInit
<1>2. Provided /\ [Next]_vars => Provided'
  BY ProvidedStep
<1> QED BY <1>1, <1>2, PTL DEF Spec

\* Every page of a prepared region has been written.
LEMMA PreparedIsWritten ==
  ASSUME Provided, executionError = "none", ~RefusesWrites, NEW r \in prepared,
         Runner!Aligned(r), Runner!Addressable(r)
  PROVE  Runner!Blessed(r)
<1>1. r \in [address : Nat, length : Nat]
  BY DEF Provided, Composed, Runner!TypeOK
<1>2. CASE r.length = 0
  BY <1>2 DEF Runner!Blessed, Runner!RegionPages
<1>3. CASE r.length > 0
  <2>1. \A p \in 0..(Runner!PageCount(r.length) - 1) : Runner!WriteAddress(r, p) \in written
    BY <1>3 DEF Provided, Runner!WritesArrive
  <2>2. ASSUME NEW page \in Runner!RegionPages(r)
        PROVE  page \in Runner!TouchedPages
    BY <1>1, <1>3, <2>1, <2>2, WritesCoverPages DEF Runner!TouchedPages
  <2> QED BY <2>2 DEF Runner!Blessed
<1> QED BY <1>1, <1>2, <1>3

\* As long as no error is recorded, a page-aligned region that an app was given back is
\* blessed, every page of it, if its registers fit into what the scripts parse and the
\* debug server refuses no write.
THEOREM GrantsBlessedCorrect ==
  ASSUME Fits, ~RefusesWrites
  PROVE  Spec => []GrantsAreBlessed
<1>1. Provided => GrantsAreBlessed
  <2> SUFFICES ASSUME Provided, executionError = "none", NEW g \in granted, IsPrepare(g.call), g.x0 # 0,
                      Runner!Aligned(RegionAt(g.call, g.x0)), Runner!Addressable(RegionAt(g.call, g.x0))
               PROVE  Runner!Blessed(RegionAt(g.call, g.x0))
    BY DEF GrantsAreBlessed, RegionAt
  <2>1. RegionAt(g.call, g.x0) \in prepared
    BY DEF Provided, Promised, Owed
  <2> QED BY <2>1, PreparedIsWritten
<1> QED BY <1>1, ProvidedHolds, PTL

\* As long as no error is recorded, a prepare call returns its own region, one
\* allocated for it, or null, if the debug server does not refuse _M.
THEOREM GrantsOwnCorrect ==
  ASSUME Fits, ~RefusesMemory
  PROVE  Spec => []GrantsAreOwn
<1>1. Provided => GrantsAreOwn
  BY DEF Provided, Promised, Owed, OwnAddress, Allowed, RegionAt, GrantsAreOwn
<1> QED BY <1>1, ProvidedHolds, PTL

-----------------------------------------------------------------------------
(* What more is known of a session without faults, for an app whose regions *)
(* are page-aligned and within reach.                                       *)

RegionCalls == {c \in Calls : c.code = "f00d" /\ c.x16 = 1} \cup LegacyCalls

\* An app that asks for page-aligned regions within reach (the addresses _M gives
\* included), by commands of five bytes, and legacy.js never for one at 0; and one made
\* for legacy.js that no signal finds where legacy.js takes it to be at brk 0x69.
WellMade ==
  /\ Fits
  /\ "legacy" \in Scripts => LegacyLookalikes = {}
  /\ \A c \in JITCalls : c.x16 < ScriptSpace
  /\ \A c \in LegacyCalls : c.x0 # 0
  /\ \A c \in RegionCalls :
       LET r == RegionAt(c, IF c.x0 = 0 THEN FreshAddress ELSE c.x0)
       IN  Runner!Aligned(r) /\ Runner!Addressable(r)

Faultless == MaxFaults = 0 /\ ~RefusesWrites /\ ~RefusesMemory /\ ~MayDie

\* Which calls a step serves.
Handling ==
  script = "universal" =>
    /\ step = "refetch" => IsPrepare(stop) \/ NewBreakpoints(stop)
    /\ step \in {"allocate", "prepare", "putX0"} => IsPrepare(stop)
    /\ step = "allocate" => stop.x1 % ScriptSpace # 0
    /\ step = "readText" => NewBreakpoints(stop)
    /\ step = "putError" => stop.code = "69"

\* Whether the app has been moved past its brk, and what may have been written to x0.
Handled ==
  executionError = "none" =>
    /\ Handling
    /\ script = "legacy" => event \in LegacyCalls \cup LegacyLookalikes \cup {SignalStop, NoStop}
    /\ target \in {"stopped", "running"} /\ AtBrk =>
         x0 = event.x0 \/ IsPrepare(event) \/ event.code = "69"
    /\ target = "free" => step \in {"attach", "resume", "detach", "throw", "done"}
    /\ target = "free" /\ step = "resume" /\ AnsweredNow => replies = <<Refused>>
    /\ target = "stopped" =>
         /\ step \in {"fetch", "signal"} \/ (step = "resume" /\ AnsweredNow) => ~advanced
         /\ step = "signal" /\ ~AnsweredNow => ~AtBrk
         /\ step = "advance" /\ AnsweredNow => advanced
         /\ step = "detach" => advanced
         /\ step = "resume" /\ advanced => event # DetachCall

\* No page is on its way but those of the region.
InRegion ==
  executionError = "none" /\ calling \in {"send", "read"} =>
    \A i \in 1 .. Len(inbox) : \E p \in 0 .. (Runner!PageCount(region.length) - 1) :
      inbox[i] = [op |-> "M", at |-> Runner!WriteAddress(region, p)]

Quiet ==
  /\ faults = 0 /\ link = "up" /\ target # "gone"
  /\ executionError # "none" => stage = "threw" /\ calling = "nothing" /\ inbox = <<>>

Fresh == \A r \in allocated : r.address = FreshAddress

LEMMA HandlingContinues ==
  ASSUME WellMade, Arguments, Handling, step \in Requests, NEW reply, Continue(reply),
         step = "fetch" => reply \in {[memory |-> stop.code], Refused}
  PROVE  /\ Handling'
         /\ step' = "signal" => step = "fetch" /\
              (reply = [memory |-> stop.code] => stop.code \notin Brks)
         /\ step' = "detach" => step = "advance"
         /\ step' = "resume" => step \in {"attach", "resume", "fetch", "signal"} \/ stop # DetachCall
<1>1. script' = script /\ (step # "resume" => stop' = stop) /\ script \in {"universal", "legacy"}
  BY DEF Continue, ParsedStop, Arguments
<1>2. \A c : IsPrepare(c)' <=> IsPrepare(c)
  BY <1>1 DEF IsPrepare
<1>3. /\ [memory |-> stop.code] # Nothing /\ Refused # Nothing /\ Nothing \notin [memory : {"69", "like69"}]
  <2>1. stop.code \in Codes
    BY StopTypes DEF Arguments
  <2> QED BY <2>1, UniversalAssumption DEF MemoryReplies, Codes, Brks
<1>4. ~NewBreakpoints(DetachCall)
  <2>1. 0 % ScriptSpace = 0
    BY UniversalAssumption
  <2> QED BY <2>1 DEF NewBreakpoints, DetachCall
<1>5. CASE script = "legacy"
  <2>1. step' = AfterLegacyReply(reply)
    BY <1>5 DEF Continue, AfterReply
  <2>2. CASE step = "resume"
    BY <1>1, <1>5, <2>1, <2>2 DEF AfterLegacyReply, Handling
  <2>3. CASE step = "fetch"
    BY <1>1, <1>3, <1>5, <2>1, <2>3 DEF AfterLegacyReply, Handling
  <2>4. CASE step \notin {"resume", "fetch"}
    <3>1. step \in {"attach", "advance", "detach"}
      BY <1>5, <2>4 DEF Arguments, LegacySteps, Seeking, Requests
    <3>2. step' = (CASE step = "attach" -> "resume" [] step = "advance" -> "detach"
                     [] step = "detach" -> "done")
      BY <2>1, <3>1 DEF AfterLegacyReply
    <3> QED BY <1>1, <1>5, <3>1, <3>2 DEF Handling
  <2> QED BY <2>2, <2>3, <2>4
<1>6. CASE script = "universal"
  <2>1. step' = AfterUniversalReply(reply)
    BY <1>6 DEF Continue, AfterReply
  <2>2. CASE step = "resume"
    BY <1>1, <1>6, <2>1, <2>2 DEF AfterUniversalReply, Handling
  <2>3. CASE step = "fetch"
    <3>1. step' \in {"throw", "advance", "resume", "signal"}
      BY <2>1, <2>3, AfterFetchSteps DEF AfterUniversalReply
    <3>2. step' = "signal" /\ reply = [memory |-> stop.code] => stop.code \notin Brks
      BY <1>3, <2>1, <2>3 DEF AfterUniversalReply, AfterFetch, Brks
    <3> QED BY <1>1, <1>6, <2>3, <3>1, <3>2 DEF Handling
  <2>4. CASE step = "advance"
    <3>1. step' = Dispatch(stop)
      BY <2>1, <2>4 DEF AfterUniversalReply
    <3>2. Dispatch(stop) = "refetch" => IsPrepare(stop) \/ NewBreakpoints(stop)
      <4> SUFFICES ASSUME Dispatch(stop) = "refetch", ~NewBreakpoints(stop) PROVE IsPrepare(stop)
        OBVIOUS
      <4>1. stop.code = "f00d" /\ stop.x16 % ScriptSpace = 1
        BY DEF Dispatch
      <4>2. stop \in AllCalls /\ stop.x16 \in Nat
        BY NewBreakpointsAreCalls, StopTypes DEF Arguments
      <4>3. stop.x16 % ScriptSpace = stop.x16
        BY <4>1, <4>2, ModuloSmall, SignalCodes, UniversalAssumption DEF WellMade
      <4> QED BY <1>6, <4>1, <4>3 DEF IsPrepare
    <3>3. Dispatch(stop) = "putError" => stop.code = "69"
      BY DEF Dispatch
    <3>4. Dispatch(DetachCall) = "detach"
      <4>1. 0 % ScriptSpace = 0
        BY UniversalAssumption
      <4> QED BY <1>4, <4>1 DEF Dispatch, DetachCall
    <3> QED BY <1>1, <1>2, <1>6, <2>4, <3>1, <3>2, <3>3, <3>4, DispatchSteps DEF Handling, NewBreakpoints
  <2>5. CASE step = "refetch"
    <3>1. /\ step' \in {"throw", "readText", "resume", "allocate", "prepare"}
          /\ step' = "readText" <=> NewBreakpoints(stop) /\ reply # Nothing
      <4>1. step' = IF reply = Nothing THEN "throw"
                    ELSE IF NewBreakpoints(stop) THEN "readText" ELSE PrepareRegion(stop)
        BY <2>1, <2>5 DEF AfterUniversalReply, AfterRefetch
      <4> QED BY <4>1, PrepareRegionSteps
    <3>2. step' = "allocate" => stop.x1 % ScriptSpace # 0
      BY <2>1, <2>5 DEF AfterUniversalReply, AfterRefetch, PrepareRegion
    <3>3. step' \in {"allocate", "prepare"} => reply # Nothing
      BY <2>1, <2>5 DEF AfterUniversalReply, AfterRefetch
    <3>4. stop # DetachCall
      BY <1>4, <1>6, <2>5 DEF Handling, IsPrepare, DetachCall
    <3> QED BY <1>1, <1>2, <1>6, <2>5, <3>1, <3>2, <3>3, <3>4 DEF Handling, NewBreakpoints
  <2>6. CASE step = "allocate"
    <3>1. step' \in {"resume", "prepare", "throw"}
      BY <2>1, <2>6, AfterAllocateSteps DEF AfterUniversalReply
    <3>2. IsPrepare(stop) /\ stop # DetachCall
      BY <1>6, <2>6 DEF Handling, IsPrepare, DetachCall
    <3> QED BY <1>1, <1>2, <1>6, <2>6, <3>1, <3>2 DEF Handling
  <2>7. CASE step \notin {"resume", "fetch", "advance", "refetch", "allocate"}
    <3>1. step' = IF step = "detach" THEN "done" ELSE "resume"
      BY <2>1, <2>7 DEF AfterUniversalReply
    <3>2. step \in {"readText", "putX0", "putError"} => stop # DetachCall
      BY <1>4, <1>6 DEF Handling, IsPrepare, DetachCall
    <3> QED BY <1>1, <1>6, <2>7, <3>1, <3>2 DEF Handling, Requests
  <2> QED BY <2>2, <2>3, <2>4, <2>5, <2>6, <2>7
<1> QED BY <1>1, <1>5, <1>6

\* Without faults no call of the runner fails.
LEMMA NothingFails ==
  ASSUME Faultless, Provided, Handled, Quiet, [Next]_vars
  PROVE  /\ ~SendCommandFails /\ ~ReceiveReplyFails /\ ~Runner!SendBatchFails /\ ~Runner!ReadResponseFails
         /\ ~AppDies /\ (KilledByTrap => executionError # "none")
<1>1. ~Runner!LinkLost /\ ~Runner!ReplyGarbled
  BY DEF Quiet, Runner!LinkLost, Runner!ReplyGarbled
<1>2. ASSUME KilledByTrap, executionError = "none"
      PROVE  FALSE
  <2>1. calling = "command" /\ step = "signal" /\ inbox # <<>> /\ AtBrk /\ target = "stopped"
    BY <1>2, ServedStep, Operations DEF KilledByTrap, Serving, Provided, Attached
  <2> QED BY <1>2, <2>1 DEF Handled, AnsweredNow
<1> QED BY <1>1, <1>2
        DEF SendCommandFails, ReceiveReplyFails, Runner!SendCommandFails, Runner!ReceiveReplyFails,
            Runner!SendBatchFails, Runner!ReadResponseFails, Runner!ReadFails, AppDies, Faultless

LEMMA QuietStep ==
  ASSUME Faultless, Provided, Handled, Quiet, [Next]_vars
  PROVE  Quiet'
<1> USE DEF Quiet
<1>1. CASE UNCHANGED vars
  BY <1>1 DEF vars, runnerVars, appVars
<1>2. CASE Script
  <2>1. target' = target
    BY <1>2, ScriptFrame DEF appVars, Provided
  <2>2. CASE LoadScript \/ SendCommand \/ ReceiveReply \/ PrepareMemoryRegion \/ ScriptEnds
    BY <2>1, <2>2, NothingFails
       DEF LoadScript, SendCommand, ReceiveReply, PrepareMemoryRegion, ScriptEnds, Runner!LoadScript,
           Runner!SendCommand, Runner!ReceiveReply, Runner!BeginPrepare, Runner!SendBatch,
           Runner!ReadResponse, Runner!ScriptEnds, Runner!Scripting, Runner!channel
  <2>3. CASE ScriptThrows
    BY <2>1, <2>3 DEF ScriptThrows, Runner!ScriptThrows, Runner!Scripting, Runner!channel, Provided, Attached,
                      Paired
  <2> QED BY <1>2, <2>2, <2>3, NothingFails DEF Script
<1>3. CASE Server
  <2>1. inbox # <<>>
    BY <1>3, NothingFails DEF Server, ServeWrite, Runner!ServeWrite, ServeAttach, Resume, ResumeWithSignal,
                              KilledByTrap, AppStops, ServeNoApp, ServeRead, ServeStepOver, ServeSetX0,
                              ServeAllocate, ServeDetach, Serving, Provided, Composed, Refines, Busy
  <2>2. executionError = "none" /\ executionError' = "none"
    BY <1>3, <2>1, ServerFrame DEF Provided
  <2>3. faults' = faults /\ link' = link
    BY <1>3, ServerAnswers DEF Provided, Composed, runnerVars, Runner!ServeWrite, Runner!Reply
  <2>4. target' # "gone"
    BY <1>3, <2>2, NothingFails
       DEF Server, ServeWrite, ServeAttach, Resume, ResumeWithSignal, RunOn, AppStops, ServeNoApp, ServeRead,
           ServeStepOver, ServeSetX0, ServeAllocate, ServeDetach, appVars
  <2> QED BY <2>2, <2>3, <2>4
<1> QED BY <1>1, <1>2, <1>3 DEF Next, Returned

LEMMA InRegionStep ==
  ASSUME Provided, InRegion, [Next]_vars
  PROVE  InRegion'
<1> SUFFICES ASSUME executionError' = "none", calling' \in {"send", "read"}, NEW i \in 1 .. Len(inbox')
             PROVE  \E p \in 0 .. (Runner!PageCount(region.length)' - 1) :
                      inbox'[i] = [op |-> "M", at |-> Runner!WriteAddress(region, p)']
  BY DEF InRegion
<1>1. executionError = "none" /\ [Runner!Next]_(Runner!vars)
  BY ComposedStep, ErrorsStay DEF Provided, Composed
<1>2. ASSUME region' = region, calling' = calling, inbox' = inbox \/ (inbox # <<>> /\ inbox' = Tail(inbox))
      PROVE  \E p \in 0 .. (Runner!PageCount(region.length)' - 1) :
               inbox'[i] = [op |-> "M", at |-> Runner!WriteAddress(region, p)']
  <2>1. inbox \in Seq(ScriptCommands \cup Runner!Writes)
    BY DEF Provided, Composed, Runner!TypeOK
  <2>2. \E j \in 1 .. Len(inbox) : inbox'[i] = inbox[j]
    <3>1. CASE inbox' = inbox
      BY <3>1
    <3>2. CASE inbox # <<>> /\ inbox' = Tail(inbox)
      <4>1. i + 1 \in 1 .. Len(inbox) /\ Tail(inbox)[i] = inbox[i + 1]
        BY <2>1, <3>2
      <4> QED BY <3>2, <4>1
    <3> QED BY <1>2, <3>1, <3>2
  <2> QED BY <1>1, <1>2, <2>2 DEF InRegion, Runner!PageCount, Runner!WriteAddress
<1>3. CASE UNCHANGED vars
  BY <1>2, <1>3 DEF vars, runnerVars
<1>4. CASE Server
  BY <1>2, <1>4, ServerFrame, ServerPrepares DEF Provided
<1>5. CASE Script
  <2>1. PrepareMemoryRegion \/ LoadScript
    <3>1. ~SendCommandFails /\ ~ReceiveReplyFails /\ ~ScriptThrows
      BY <1>5, ScriptFrame DEF Provided
    <3>2. ~SendCommand /\ ~ReceiveReply /\ ~ScriptEnds
      BY DEF SendCommand, ReceiveReply, ScriptEnds, Runner!SendCommand, Runner!ReceiveReply,
             Runner!ScriptEnds, Runner!Scripting
    <3> QED BY <1>5, <3>1, <3>2 DEF Script
  <2>2. CASE LoadScript
    BY <1>2, <2>2 DEF LoadScript, Runner!LoadScript, Runner!locals, Runner!channel
  <2>3. CASE Runner!SendBatch
    <3>1. /\ Runner!BatchSize \in Nat /\ Runner!BatchCommands \in Seq(Runner!Writes) /\ batchStart \in Nat
          /\ Len(Runner!BatchCommands) = Runner!BatchSize /\ Runner!PageCount(region.length) \in Nat
          /\ batchStart + Runner!BatchSize <= Runner!PageCount(region.length)
          /\ \A j \in 1 .. Runner!BatchSize :
               Runner!BatchCommands[j] = [op |-> "M", at |-> Runner!WriteAddress(region, batchStart + j - 1)]
      BY <2>3, BatchType DEF Runner!SendBatch, Provided, Composed, Runner!TypeOK
    <3>2. inbox = <<>>
      BY <1>1, <2>3, NothingLeftToServe, InFlightType DEF Runner!SendBatch, Runner!Awaited, Provided, Composed
    <3>3. inbox' = Runner!BatchCommands /\ region' = region
      BY <2>3, <3>1, <3>2 DEF Runner!SendBatch
    <3> DEFINE p == batchStart + i - 1
    <3>4. p \in 0 .. (Runner!PageCount(region.length) - 1) /\ i \in 1 .. Runner!BatchSize
      BY <3>1, <3>3
    <3>5. inbox'[i] = [op |-> "M", at |-> Runner!WriteAddress(region, p)]
      BY <3>1, <3>3, <3>4
    <3> QED BY <3>3, <3>4, <3>5 DEF Runner!PageCount, Runner!WriteAddress
  <2>4. CASE Runner!ReadResponse
    <3>1. region' = region /\ inbox' = inbox /\ calling = "read"
      BY <2>4 DEF Runner!ReadResponse
    <3> QED BY <1>1, <3>1 DEF InRegion, Runner!PageCount, Runner!WriteAddress
  <2>5. CASE \E r : Runner!BeginPrepare(r)
    <3>1. inbox' = <<>>
      BY <1>1, <2>5 DEF Runner!BeginPrepare, Runner!Scripting, Runner!channel, Provided, Attached, Paired
    <3> QED BY <3>1
  <2>6. ~Runner!SendBatchFails /\ ~Runner!ReadResponseFails
    BY DEF Runner!SendBatchFails, Runner!ReadResponseFails, Runner!CallFails
  <2> QED BY <2>1, <2>2, <2>3, <2>4, <2>5, <2>6 DEF PrepareMemoryRegion
<1> QED BY <1>3, <1>4, <1>5 DEF Next, Returned

LEMMA ServerHandled ==
  ASSUME Provided, Handled, Server
  PROVE  Handled'
<1> SUFFICES ASSUME executionError = "none" PROVE Handled'
  BY ServerFrame DEF Handled, Provided
<1>1. /\ UNCHANGED <<script, step, stop, address, calling>> /\ Arguments
      /\ Composed /\ Attached /\ Promised
  BY ServerFrame DEF Provided, Composed, Refines
<1>2. \A c : (IsPrepare(c)' <=> IsPrepare(c)) /\ (NewBreakpoints(c)' <=> NewBreakpoints(c))
  BY <1>1 DEF IsPrepare, NewBreakpoints
<1>3. Handling' /\ Handling
  BY <1>1, <1>2 DEF Handling, Handled
<1>4. ASSUME NEW op, Serving(op)
      PROVE  /\ calling = "command" /\ step \in Requests /\ Head(inbox) = RequestOf[step]
             /\ RequestOf[step].op = op /\ inbox = <<RequestOf[step]>> /\ replies = <<>> /\ inbox # <<>>
  BY <1>1, <1>4, ServedStep DEF Serving, Attached
<1>5. ASSUME NEW op, Serving(op), NEW b, Runner!Reply(b)
      PROVE  inbox' = <<>> /\ replies' = <<b>>
  <2>1. \A r : Tail(<<r>>) = <<>>
    OBVIOUS
  <2>2. Append(<<>>, b) = <<b>>
    OBVIOUS
  <2>3. inbox = <<RequestOf[step]>> /\ replies = <<>>
    BY <1>4, <1>5
  <2>4. inbox' = Tail(inbox) /\ replies' = Append(replies, b)
    BY <1>5 DEF Runner!Reply
  <2> QED BY <2>1, <2>2, <2>3, <2>4
<1>6. ASSUME UNCHANGED <<target, event, advanced, x0>>,
             step \in {"resume", "signal", "advance"} => UNCHANGED <<inbox, replies>> \/ target # "stopped",
             target = "free" /\ step = "resume" => UNCHANGED <<inbox, replies>> \/ replies' = <<Refused>>
      PROVE  Handled'
  BY <1>1, <1>2, <1>3, <1>6 DEF Handled, AnsweredNow, AtBrk
<1>7. CASE ServeWrite
  <2>1. inbox # <<>> /\ Head(inbox) \in Runner!Writes
    BY <1>7 DEF ServeWrite, Runner!ServeWrite
  <2>2. calling # "command" /\ calling # "nothing"
    <3>1. calling = "command" => RequestOf[step] \in ScriptCommands
      BY RequestTypes DEF Provided, Composed, Refines, Calling
    <3> QED BY <2>1, <3>1, <1>1, CommandFields DEF Attached, Paired, Asked, Said
  <2>3. step = "prepare"
    BY <2>2 DEF Provided, Composed, Refines, Calling
  <2> QED BY <1>6, <1>7, <2>3 DEF ServeWrite, appVars
<1>8. CASE ServeAttach
  <2>1. step = "attach" /\ event = NoStop /\ event' = NoStop /\ target' \in {"stopped", target}
        /\ UNCHANGED <<advanced, x0>>
    BY <1>1, <1>4, <1>8, Operations DEF ServeAttach, Attached, Believed
  <2> QED BY <1>1, <1>3, <2>1 DEF Handled, AtBrk, NoStop, Brks
<1>9. CASE Resume \/ ResumeWithSignal
  <2>1. target = "stopped" /\ target' = "running" /\ x0' = x0 /\ advanced' = FALSE
        /\ event' = (IF AtBrk /\ ~advanced THEN event ELSE NoStop)
    BY <1>9 DEF Resume, ResumeWithSignal, RunOn
  <2> QED BY <1>1, <1>2, <1>3, <2>1 DEF Handled, AtBrk, NoStop, Brks
<1>10. CASE KilledByTrap \/ AppDies
  BY <1>1, <1>3, <1>10 DEF KilledByTrap, AppDies, Handled
<1>11. ASSUME NEW e \in Stops, AppStops(e)
       PROVE  Handled'
  <2>1. /\ target = "running" /\ target' = "stopped" /\ event' = e /\ advanced' = advanced
        /\ step \in {"resume", "signal"} /\ advanced = FALSE
    BY <1>1, <1>11 DEF AppStops, Attached, Believed, Promised
  <2>2. AnsweredNow'
    <3>1. inbox # <<>> /\ Head(inbox) \in ScriptCommands
      BY <1>1, <2>1 DEF Composed, Refines, Busy
    <3>2. calling = "command" /\ inbox = <<RequestOf[step]>>
      BY <1>1, <3>1, ServedStep DEF Attached
    <3>3. inbox' = Tail(inbox) /\ \A r : Tail(<<r>>) = <<>>
      BY <1>11 DEF AppStops, Runner!Reply
    <3> QED BY <1>1, <3>2, <3>3 DEF AnsweredNow
  <2>3. AtBrk' => x0' = e.x0 \/ IsPrepare(e) \/ e.code = "69"
    BY <1>11, <2>1, SignalCodes DEF AppStops, AtBrk, Brks, Handled
  <2>4. script = "legacy" => e \in LegacyCalls \cup LegacyLookalikes \cup {SignalStop, NoStop}
    BY <1>11 DEF AppStops, SignalStops, Handled
  <2> QED BY <1>1, <1>2, <1>3, <2>1, <2>2, <2>3, <2>4 DEF Handled
<1>12. CASE ServeNoApp
  <2>1. replies' = <<Refused>> /\ target # "stopped"
    BY <1>5, <1>12 DEF ServeNoApp
  <2> QED BY <1>6, <1>12, <2>1 DEF ServeNoApp, appVars
<1>13. CASE ServeRead
  <2>1. step \in {"fetch", "refetch", "readText"}
    BY <1>4, <1>13, Operations DEF ServeRead
  <2> QED BY <1>6, <1>13, <2>1 DEF ServeRead, appVars
<1>14. CASE ServeStepOver
  <2>1. step = "advance" /\ advanced' = TRUE /\ UNCHANGED <<target, event, x0>> /\ target = "stopped"
    BY <1>4, <1>14, Operations DEF ServeStepOver
  <2> QED BY <1>1, <1>2, <1>3, <2>1 DEF Handled, AtBrk
<1>15. CASE ServeSetX0
  <2>1. step \in {"putX0", "putError"} /\ UNCHANGED <<target, event, advanced>> /\ target = "stopped"
    BY <1>4, <1>15, Operations DEF ServeSetX0
  <2>2. script = "universal" /\ stop = event
    BY <1>1, <2>1 DEF Arguments, LegacySteps, Seeking, Attached, Believed, AtRest
  <2>3. IsPrepare(event) \/ event.code = "69"
    BY <1>3, <2>1, <2>2 DEF Handling
  <2> QED BY <1>1, <1>2, <1>3, <2>1, <2>3 DEF Handled, AtBrk
<1>16. CASE ServeAllocate
  <2>1. step = "allocate"
    BY <1>4, <1>16, Operations DEF ServeAllocate
  <2> QED BY <1>6, <1>16, <2>1 DEF ServeAllocate, appVars
<1>17. CASE ServeDetach
  <2>1. step = "detach" /\ UNCHANGED <<event, advanced, x0>>
    BY <1>4, <1>17, Operations DEF ServeDetach
  <2>2. CASE target' = "free"
    BY <1>1, <1>3, <2>1, <2>2 DEF Handled
  <2>3. CASE target' = target
    BY <1>6, <2>1, <2>3
  <2> QED BY <1>17, <2>2, <2>3 DEF ServeDetach
<1> QED BY <1>7, <1>8, <1>9, <1>10, <1>11, <1>12, <1>13, <1>14, <1>15, <1>16, <1>17 DEF Server

LEMMA ScriptHandled ==
  ASSUME WellMade, Provided, Handled, Script
  PROVE  Handled'
<1> SUFFICES ASSUME executionError = "none", executionError' = "none" PROVE Handled'
  BY ScriptFrame DEF Handled, Provided
<1>1. UNCHANGED <<target, event, advanced, x0, script>> /\ Arguments /\ Composed /\ Attached /\ Handling
  BY ScriptFrame DEF appVars, Provided, Composed, Refines, Handled
<1>2. \A c : (IsPrepare(c)' <=> IsPrepare(c)) /\ (NewBreakpoints(c)' <=> NewBreakpoints(c))
  BY <1>1 DEF IsPrepare, NewBreakpoints
<1>3. CASE LoadScript \/ ScriptEnds \/ SendCommand
  <2>1. UNCHANGED <<step, stop, address, replies>>
    BY <1>3 DEF LoadScript, ScriptEnds, SendCommand, Runner!LoadScript, Runner!ScriptEnds, Runner!SendCommand,
                Runner!channel, scriptVars
  <2>2. (AnsweredNow' <=> AnsweredNow) \/ (SendCommand /\ ~AnsweredNow /\ ~AnsweredNow')
    <3>1. ASSUME SendCommand PROVE inbox' # <<>> /\ calling = "nothing"
      <4>1. inbox' = Append(inbox, RequestOf[step]) /\ calling = "nothing"
        BY <3>1 DEF SendCommand, Runner!SendCommand, Runner!Scripting
      <4>2. inbox' = <<RequestOf[step]>>
        BY <1>1, <4>1 DEF Attached, Paired
      <4> QED BY <4>1, <4>2
    <3> QED BY <1>3, <3>1 DEF AnsweredNow, LoadScript, ScriptEnds, Runner!LoadScript, Runner!ScriptEnds,
                              Runner!channel
  <2> QED BY <1>1, <1>2, <2>1, <2>2 DEF Handled, Handling, AtBrk
<1>4. CASE ReceiveReply
  <2> DEFINE r == Head(replies)
  <2>1. /\ Continue(r) /\ Says(r) /\ step \in Requests /\ calling' = "nothing" /\ calling = "command"
        /\ replies # <<>>
    BY <1>1, <1>4, Received DEF ReceiveReply, Runner!ReceiveReply, Attached
  <2>2. AnsweredNow /\ ~AnsweredNow' /\ \E b : replies = <<b>> /\ r = b
    <3>1. \A b : Head(<<b>>) = b
      OBVIOUS
    <3> QED BY <1>1, <2>1, <3>1 DEF Attached, Paired, Asked, Said, AnsweredNow
  <2>3. step = "fetch" => r \in {[memory |-> stop.code], Refused}
    BY <2>1 DEF Says
  <2> HIDE DEF r
  <2>4. /\ Handling'
        /\ step' = "signal" => step = "fetch" /\
             (r = [memory |-> stop.code] => stop.code \notin Brks)
        /\ step' = "detach" => step = "advance"
        /\ step' = "resume" => step \in {"attach", "resume", "fetch", "signal"} \/ stop # DetachCall
    BY <1>1, <2>1, <2>3, HandlingContinues
  <2>5. target = "free" => step' \in {"resume", "throw", "done"}
    <3>1. target = "free" => step \in {"attach", "resume", "detach"}
      BY <2>1 DEF Handled, Requests
    <3>2. target = "free" /\ step = "resume" => r \notin StopReplies
      BY <2>2, UniversalAssumption DEF Handled
    <3>3. step = "resume" /\ r \notin StopReplies => step' = "resume"
      BY <2>1 DEF Continue, AfterReply, AfterLegacyReply, AfterUniversalReply
    <3>4. step = "attach" => step' = "resume"
      BY <2>1 DEF Continue, AfterReply, AfterLegacyReply, AfterUniversalReply
    <3>5. step = "detach" => step' = "done"
      BY <2>1 DEF Continue, AfterReply, AfterLegacyReply, AfterUniversalReply
    <3> QED BY <3>1, <3>2, <3>3, <3>4, <3>5
  <2>6. ASSUME target = "stopped"
        PROVE  /\ step' \in {"fetch", "signal"} => ~advanced
               /\ step' = "signal" => ~AtBrk
               /\ step' = "detach" => advanced
               /\ step' = "resume" /\ advanced => event # DetachCall
    <3>1. step' = "fetch" => step = "resume"
      BY <1>1, <2>1, Continuing
    <3>2. step = "fetch" => stop = event /\ r = [memory |-> stop.code]
      BY <1>1, <2>1, <2>6 DEF Says, Attached, Believed, AtRest
    <3>3. step \in {"resume", "fetch", "signal"} => ~advanced
      BY <2>2, <2>6 DEF Handled
    <3>4. step = "advance" => advanced
      BY <2>2, <2>6 DEF Handled
    <3>5. step' = "signal" => ~AtBrk
      BY <1>1, <2>4, <3>2 DEF AtBrk, Arguments
    <3>6. step = "attach" => event # DetachCall
      BY <1>1 DEF Attached, Believed, NoStop, DetachCall
    <3>7. step' = "resume" /\ stop # DetachCall /\ step \notin {"attach", "resume", "fetch", "signal"}
            => event # DetachCall
      BY <1>1, <2>1, <2>6 DEF Attached, Believed, AtRest, Requests
    <3> QED BY <2>4, <3>1, <3>3, <3>4, <3>5, <3>6, <3>7
  <2> QED BY <1>1, <1>2, <2>2, <2>4, <2>5, <2>6 DEF Handled, AtBrk
<1>5. CASE PrepareMemoryRegion
  <2>1. /\ step = "prepare" /\ UNCHANGED <<stop, address>> /\ step' \in {step, AfterPrepare}
    BY <1>5 DEF PrepareMemoryRegion
  <2>2. ~AnsweredNow'
    BY <1>5 DEF PrepareMemoryRegion, AnsweredNow, Runner!BeginPrepare, Runner!Scripting, Runner!SendBatch,
                Runner!SendBatchFails, Runner!ReadResponse, Runner!ReadResponseFails, Runner!CallFails
  <2>3. Handling'
    BY <1>1, <1>2, <2>1 DEF Handling, AfterPrepare, Arguments
  <2>4. target # "free" /\ step' \in {"prepare", "putX0", "advance"}
    BY <2>1 DEF Handled, AfterPrepare
  <2> QED BY <1>1, <1>2, <2>1, <2>2, <2>3, <2>4 DEF Handled, AtBrk
<1> QED BY <1>3, <1>4, <1>5, ScriptFrame DEF Script, Provided

-----------------------------------------------------------------------------
(* Every step is one that JITGrants allows.                                 *)

\* What JITGrants sees of a state.
Session == IF target # "free" THEN "open" ELSE IF event = NoStop THEN "before" ELSE "over"
Asking  == IF AtBrk /\ target # "free" THEN AskOf(event) ELSE NoStop
Answers == {[ask |-> AskOf(g.call), address |-> g.x0] : g \in granted}

LEMMA AskFields ==
  ASSUME NEW c
  PROVE  /\ AskOf(c) # NoStop /\ AskOf(c).address = c.x0 /\ AskOf(c).length = c.x1
         /\ IsPrepare(c) => AskOf(c).wants = "region"
         /\ AskOf(c).wants = "region" => IsPrepare(c)
         /\ AskOf(c).wants = "nothing" => ~IsPrepare(c) /\ (script = "universal" => c.code # "69")
         /\ AskOf(c).wants = "detach" => c = DetachCall
<1>1. AskOf(c) # NoStop
  <2>1. AskOf(c) = [AskOf(c) EXCEPT !.wants = AskOf(c).wants]
    BY DEF AskOf
  <2>2. "wants" \in DOMAIN AskOf(c) /\ "wants" \notin DOMAIN NoStop
    BY DEF AskOf, NoStop
  <2> QED BY <2>2
<1>2. ~IsPrepare(DetachCall) /\ DetachCall.code # "69"
  BY DEF IsPrepare, DetachCall
<1>3. script = "universal" /\ c.code = "69" => ~IsPrepare(c)
  BY DEF IsPrepare
<1>4. AskOf(c).wants = (IF IsPrepare(c) THEN "region" ELSE IF c = DetachCall THEN "detach"
                        ELSE IF script = "universal" /\ c.code = "69" THEN "error" ELSE "nothing")
  BY <1>2, <1>3 DEF AskOf
<1> QED BY <1>1, <1>2, <1>4 DEF AskOf

LEMMA AskStays ==
  ASSUME script' = script
  PROVE  \A c : AskOf(c)' = AskOf(c)
BY DEF AskOf, IsPrepare

LEMMA Stutter ==
  ASSUME UNCHANGED <<script, allocated, written, granted>>, Session' = Session, Asking' = Asking
  PROVE  UNCHANGED Grants!vars
<1>1. Answers' = Answers
  BY AskStays DEF Answers
<1>2. Runner!TouchedPages' = Runner!TouchedPages
  BY DEF Runner!TouchedPages
<1> QED BY <1>1, <1>2 DEF Grants!vars, Session, Asking, Answers

LEMMA FreshStep ==
  ASSUME Provided, Fresh, [Next]_vars
  PROVE  Fresh'
<1>1. CASE Script
  BY <1>1, ScriptFrame DEF Provided, history, Fresh
<1>2. CASE ServeAllocate
  <2>1. PICK n : \/ allocated' = allocated
                 \/ allocated' = allocated \cup {[address |-> FreshAddress, length |-> n]}
    BY <1>2 DEF ServeAllocate
  <2> QED BY <2>1 DEF Fresh
<1>3. CASE Server
  BY <1>3, <1>2 DEF Server, ServeWrite, ServeAttach, Resume, ResumeWithSignal, RunOn, KilledByTrap, AppStops,
              AppDies, ServeNoApp, ServeRead, ServeStepOver, ServeSetX0, ServeDetach, history, Fresh
<1>4. CASE UNCHANGED vars
  BY <1>4 DEF vars, history, Fresh
<1> QED BY <1>1, <1>3, <1>4 DEF Next, Returned

\* The call of an app to prepare a region is one of those WellMade speaks of.
LEMMA OwnCall ==
  ASSUME Provided, Handled, executionError = "none", IsPrepare(event)
  PROVE  event \in RegionCalls /\ event \in Stops /\ AtBrk
<1>1. event \in Stops \cup {NoStop} /\ script \in {"universal", "legacy"}
  BY DEF Provided, Attached, AppTypes, Composed, Refines, Arguments
<1>2. event # NoStop /\ event # SignalStop /\ event # DetachCall
  BY DEF IsPrepare, NoStop, SignalStop, DetachCall
<1>3. /\ \A c \in LegacyCalls : c.code = "69"
      /\ \A c \in Lookalikes \cup LegacyLookalikes : c.code = "like69"
  BY UniversalAssumption
<1> QED BY <1>1, <1>2, <1>3, SignalCodes DEF Stops, IsPrepare, RegionCalls, Handled, AtBrk, Brks

\* For a well-made app what looks like brk 0x69 is one.
LEMMA NoLookalike ==
  ASSUME WellMade, Provided, Handled, executionError = "none"
  PROVE  script = "legacy" => event.code # "like69"
<1> SUFFICES ASSUME script = "legacy" PROVE event.code # "like69"
  OBVIOUS
<1>1. event \in LegacyCalls \cup {SignalStop, NoStop}
  BY DEF Handled, WellMade, Provided, Attached, AppTypes
<1> QED BY <1>1, UniversalAssumption DEF SignalStop, NoStop

\* The pages that the commands of an aligned region write are its own.
LEMMA WritesStayInside ==
  ASSUME NEW r \in [address : Nat, length : Nat], r.length > 0, Runner!Aligned(r), Runner!Addressable(r),
         NEW p \in 0 .. (Runner!PageCount(r.length) - 1)
  PROVE  Runner!WriteAddress(r, p) \div JitPageSize \in Runner!RegionPages(r)
<1>1. PICK S \in Nat \ {0} : S = JitPageSize
  BY RunnerAssumption
<1>2. PICK first \in Nat : r.address = S * first
  <2>1. r.address = S * (r.address \div S) + 0 /\ r.address \div S \in Nat
    BY <1>1, DivisionTypes DEF Runner!Aligned
  <2> QED BY <2>1
<1>3. PICK last \in Nat, m \in 0..(S - 1) : r.length - 1 = S * last + m
  <2>1. r.length - 1 \in Nat
    OBVIOUS
  <2> QED BY <2>1, DivisionWitness
<1>4. Runner!RegionPages(r) = first..(first + last)
  <2>1. r.address \div S = first
    <3>1. (S * first + 0) \div S = first
      BY DivisionUnique
    <3> QED BY <1>2, <3>1
  <2>2. (S * (first + last) + m) \div S = first + last
    BY DivisionUnique
  <2>3. r.address + r.length - 1 = S * (first + last) + m
    BY <1>2, <1>3
  <2> QED BY <1>1, <2>1, <2>2, <2>3 DEF Runner!RegionPages
<1>5. p \in 0..last
  <2>1. (S * last + m) \div S = last
    BY DivisionUnique
  <2>2. (r.length - 1) \div JitPageSize = last
    BY <1>1, <1>3, <2>1
  <2>3. Runner!PageCount(r.length) - 1 = last
    BY <2>2 DEF Runner!PageCount
  <2> QED BY <2>3
<1>6. Runner!WriteAddress(r, p) = S * (first + p)
  <2>1. r.address + p * S = S * (first + p)
    BY <1>2, <1>5
  <2>2. S * p <= S * last
    BY <1>5
  <2>3. r.address + p * S \in Nat
    BY <1>5, ProductType
  <2>4. r.address + p * S <= r.address + r.length - 1
    BY <1>3, <1>5, <2>2
  <2>5. WireSpace \in Nat \ {0} /\ r.address + r.length <= WireSpace
    BY RunnerAssumption DEF Runner!Addressable
  <2>6. (r.address + p * S) % WireSpace = r.address + p * S
    <3>1. r.address + p * S < WireSpace
      BY <2>3, <2>4, <2>5
    <3> QED BY <2>3, <2>5, <3>1, ModuloSmall
  <2> QED BY <1>1, <2>1, <2>6 DEF Runner!WriteAddress
<1>7. (S * (first + p)) \div S = first + p
  <2>1. (S * (first + p) + 0) \div S = first + p
    BY <1>5, DivisionUnique
  <2> QED BY <1>5, <2>1
<1> QED BY <1>1, <1>4, <1>5, <1>6, <1>7

\* What a call may return is what JITGrants lets it be granted.
LEMMA GrantableNow ==
  ASSUME WellMade, Faultless, Provided, Handled, Fresh, executionError = "none", target = "stopped",
         AtBrk, Owed(event, x0)
  PROVE  Grants!Grantable(AskOf(event), x0)
<1>1. CASE IsPrepare(event)
  <2>1. event \in RegionCalls /\ AskOf(event).wants = "region" /\ AskOf(event).address = event.x0
        /\ AskOf(event).length = event.x1
    BY <1>1, OwnCall, AskFields
  <2>2. x0 = 0 \/ RegionAt(event, x0) \in prepared
    BY <1>1 DEF Owed
  <2>3. OwnAddress(event, x0)
    BY <1>1 DEF Owed, Faultless
  <2>4. CASE event.x0 = 0 /\ x0 = 0
    BY <2>1, <2>4 DEF Grants!Grantable
  <2>5. CASE event.x0 # 0
    <3>1. x0 = event.x0 /\ RegionAt(event, x0) \in prepared
      BY <2>2, <2>3, <2>5 DEF OwnAddress, Allowed
    <3>2. Runner!Aligned(RegionAt(event, x0)) /\ Runner!Addressable(RegionAt(event, x0))
      BY <2>1, <2>5, <3>1 DEF WellMade
    <3>3. Runner!Blessed(RegionAt(event, x0))
      BY <3>1, <3>2, PreparedIsWritten DEF Faultless
    <3> QED BY <2>1, <2>5, <3>1, <3>3 DEF Grants!Grantable, Grants!Eligible, Grants!Pages, RegionAt,
                                          Runner!Blessed, Runner!RegionPages
  <2>6. CASE event.x0 = 0 /\ x0 # 0
    <3>1. RegionAt(event, x0) \in allocated /\ RegionAt(event, x0) \in prepared
      BY <2>2, <2>3, <2>6 DEF OwnAddress, Allowed
    <3>2. x0 = FreshAddress
      BY <3>1 DEF Fresh, RegionAt
    <3>3. Runner!Aligned(RegionAt(event, x0)) /\ Runner!Addressable(RegionAt(event, x0))
      BY <2>1, <2>6, <3>2 DEF WellMade
    <3>4. Runner!Blessed(RegionAt(event, x0))
      BY <3>1, <3>3, PreparedIsWritten DEF Faultless
    <3>5. RegionAt(event, x0) \in Grants!Eligible(AskOf(event))
      BY <2>1, <2>6, <3>1 DEF Grants!Eligible, RegionAt
    <3> QED BY <2>1, <3>4, <3>5 DEF Grants!Grantable, Grants!Pages, RegionAt, Runner!Blessed,
                                    Runner!RegionPages
  <2> QED BY <2>3, <2>4, <2>5, <2>6
<1>2. CASE ~IsPrepare(event)
  <2>1. /\ AskOf(event).wants # "region"
        /\ AskOf(event).wants = "nothing" => (script = "universal" => event.code # "69")
    BY <1>2, AskFields
  <2>2. script = "legacy" => event.code # "69"
    BY <1>2 DEF IsPrepare
  <2>3. AskOf(event).wants = "nothing" => x0 = AskOf(event).address
    BY <1>2, <2>1, <2>2, AskFields DEF Handled, Provided, Composed, Refines, Arguments
  <2> QED BY <2>1, <2>3 DEF Grants!Grantable
<1> QED BY <1>1, <1>2

LEMMA Answering ==
  ASSUME UNCHANGED <<script, allocated, written>>, target = "stopped", AtBrk,
         Grants!Grantable(AskOf(event), x0), granted' = granted \cup {[call |-> event, x0 |-> x0]},
         Asking' = NoStop, Session' \in {"open", "over"}, AskOf(event).wants = "detach" => Session' = "over"
  PROVE  Grants!Answer
<1> DEFINE given == [ask |-> AskOf(event), address |-> x0]
<1>1. Answers' = Answers \cup {given}
  <2>1. \A c : AskOf(c)' = AskOf(c)
    BY AskStays
  <2>2. Answers' = {[ask |-> AskOf(g.call), address |-> g.x0] : g \in granted'}
    BY <2>1 DEF Answers
  <2> DEFINE new == [call |-> event, x0 |-> x0]
  <2>3. new.call = event /\ new.x0 = x0 /\ granted' = granted \cup {new}
    OBVIOUS
  <2> HIDE DEF new
  <2> QED BY <2>2, <2>3 DEF Answers
<1>2. Session = "open" /\ Asking = AskOf(event) /\ AskOf(event) # NoStop
  BY AskFields DEF Session, Asking
<1>3. Runner!TouchedPages' = Runner!TouchedPages
  BY DEF Runner!TouchedPages
<1>4. given \in Answers' /\ given.ask = AskOf(event) /\ given.address = x0
  BY <1>1
<1> HIDE DEF given
<1>5. \E g \in Answers' : /\ g.ask = Asking /\ Grants!Grantable(Asking, g.address)
                          /\ Answers' = Answers \cup {g}
  BY <1>1, <1>2, <1>4
<1>6. Session' \in IF Asking.wants = "detach" THEN {"over"} ELSE {"open", "over"}
  BY <1>2
<1> QED BY <1>2, <1>3, <1>5, <1>6 DEF Grants!Answer, Session, Asking, Answers

LEMMA WriteBlesses ==
  ASSUME WellMade, Faultless, Provided, Handled, InRegion, Fresh, Quiet, executionError = "none", ServeWrite
  PROVE  Grants!Bless
<1>1. /\ inbox # <<>> /\ Head(inbox) \in Runner!Writes /\ written' = written \cup {Head(inbox).at}
      /\ UNCHANGED <<script, target, event, allocated, granted>>
  BY DEF ServeWrite, Runner!ServeWrite, Faultless, scriptVars, appVars, history
<1>2. calling \in {"send", "read"} /\ step = "prepare"
  <2>1. calling = "command" => RequestOf[step] \in ScriptCommands
    BY RequestTypes DEF Provided, Composed, Refines, Calling
  <2>2. calling # "command" /\ calling # "nothing"
    BY <1>1, <2>1, CommandFields DEF Provided, Attached, Paired, Asked, Said
  <2> QED BY <2>2 DEF Provided, Composed, Refines, Calling
<1>3. target = "stopped" /\ stop = event /\ event \in Stops
  BY <1>2 DEF Handled, Quiet, Provided, Attached, Believed, AtRest, AppTypes, Composed, Refines, Arguments
<1>4. IsPrepare(event) /\ event \in RegionCalls /\ AtBrk
  <2>1. script = "universal" => IsPrepare(event)
    BY <1>2, <1>3 DEF Handled, Handling
  <2>2. script = "legacy" => event.code = "69"
    BY <1>2, <1>3, NoLookalike DEF Provided, Attached, Believed, AtRest, KnownCodes
  <2>3. IsPrepare(event)
    BY <2>1, <2>2 DEF IsPrepare, Provided, Composed, Refines, Arguments
  <2> QED BY <2>3, OwnCall
<1>5. region = RegionAt(event, address) /\ Course(event)
  BY <1>2, <1>3, <1>4, SignalCodes DEF Provided, Promised
<1>6. Allowed(event, address)
  <2>1. script = "legacy" => event.x0 # 0 /\ address = event.x0
    BY <1>2, <1>4, <1>5, UniversalAssumption DEF Course, WellMade, RegionCalls, IsPrepare
  <2> QED BY <1>2, <1>5, <2>1 DEF Course, Allowed, Faultless, Provided, Composed, Refines, Arguments
<1>7. Runner!Aligned(region) /\ Runner!Addressable(region)
  BY <1>4, <1>5, <1>6 DEF WellMade, Allowed, Fresh, RegionAt
<1>8. region \in [address : Nat, length : Nat] /\ region.length > 0
  BY <1>2 DEF Provided, Composed, Runner!TypeOK, Runner!BatchInside
<1>9. Head(inbox).at \div JitPageSize \in Runner!RegionPages(region)
  <2>1. inbox \in Seq(ScriptCommands \cup Runner!Writes)
    BY DEF Provided, Composed, Runner!TypeOK
  <2>2. 1 \in 1 .. Len(inbox) /\ inbox[1] = Head(inbox)
    BY <1>1, <2>1
  <2>3. PICK p \in 0 .. (Runner!PageCount(region.length) - 1) :
             Head(inbox) = [op |-> "M", at |-> Runner!WriteAddress(region, p)]
    BY <1>2, <2>2 DEF InRegion
  <2> QED BY <1>7, <1>8, <2>3, WritesStayInside
<1>10. Runner!TouchedPages' = Runner!TouchedPages \cup {Head(inbox).at \div JitPageSize}
  BY <1>1 DEF Runner!TouchedPages
<1>11. Session' = Session /\ Asking' = Asking /\ Asking = AskOf(event) /\ Answers' = Answers
  BY <1>1, <1>3, <1>4, AskStays DEF Session, Asking, AtBrk, Answers
<1>12. region \in Grants!Eligible(AskOf(event)) /\ Grants!Pages(region) = Runner!RegionPages(region)
  <2>1. AskOf(event).address = event.x0 /\ AskOf(event).length = event.x1
    BY AskFields
  <2> QED BY <1>5, <1>6, <2>1 DEF Grants!Eligible, Allowed, RegionAt, Grants!Pages, Runner!RegionPages
<1>13. AskOf(event) # NoStop /\ AskOf(event).wants = "region"
  BY <1>4, AskFields
<1>14. Grants!Wanted
  BY <1>11, <1>13 DEF Grants!Wanted, Asking
<1>15. /\ Runner!TouchedPages \subseteq Runner!TouchedPages'
       /\ Runner!TouchedPages' \ Runner!TouchedPages
            \subseteq UNION {Grants!Pages(r) : r \in Grants!Eligible(Asking)}
  BY <1>9, <1>10, <1>11, <1>12
<1> QED BY <1>1, <1>11, <1>14, <1>15 DEF Grants!Bless, Session, Asking, Answers

LEMMA ServerGrants ==
  ASSUME WellMade, Faultless, Provided, Handled, InRegion, Fresh, Quiet, Server
  PROVE  Grants!Next \/ UNCHANGED Grants!vars
<1>1. executionError = "none"
  BY NothingFails DEF Quiet, Server, ServeWrite, Runner!ServeWrite, ServeAttach, Resume, ResumeWithSignal,
     KilledByTrap, AppStops, ServeNoApp, ServeRead, ServeStepOver, ServeSetX0, ServeAllocate, ServeDetach,
     Serving, Provided, Composed, Refines, Busy, Next
<1>2. script' = script /\ script \in {"universal", "legacy"} /\ ~KilledByTrap /\ ~AppDies
  BY <1>1, ServerFrame, NothingFails DEF Provided, Composed, Refines, Arguments, Next
<1>3. ASSUME NEW op, Serving(op)
      PROVE  /\ calling = "command" /\ step \in Requests /\ Head(inbox) = RequestOf[step]
             /\ RequestOf[step].op = op /\ inbox = <<RequestOf[step]>> /\ inbox # <<>>
  BY <1>1, <1>3, ServedStep DEF Serving, Provided, Attached
<1>4. CASE ServeWrite
  BY <1>1, <1>4, WriteBlesses DEF Grants!Next
<1>5. CASE ServeAttach
  <2>1. step = "attach" /\ event = NoStop /\ event' = NoStop /\ UNCHANGED <<written, allocated, granted>>
    BY <1>1, <1>3, <1>5, Operations DEF ServeAttach, Provided, Attached, Believed, history
  <2>2. ~AtBrk /\ ~AtBrk'
    BY <2>1 DEF AtBrk, NoStop, Brks
  <2>3. Asking = NoStop /\ Asking' = NoStop
    BY <2>2 DEF Asking
  <2>4. CASE target' = target
    BY <1>2, <2>1, <2>3, <2>4, Stutter DEF Session
  <2>5. CASE target = "free" /\ target' = "stopped"
    <3>1. Session = "before" /\ Session' = "open" /\ Answers' = Answers
      BY <1>2, <2>1, <2>5, AskStays DEF Session, Answers
    <3>2. Runner!TouchedPages' = Runner!TouchedPages
      BY <2>1 DEF Runner!TouchedPages
    <3>3. Grants!Open
      BY <2>1, <2>3, <3>1, <3>2 DEF Grants!Open, Session, Asking, Answers
    <3> QED BY <3>3 DEF Grants!Next
  <2> QED BY <1>5, <2>4, <2>5 DEF ServeAttach
<1>6. CASE Resume \/ ResumeWithSignal
  <2>1. /\ target = "stopped" /\ target' = "running" /\ UNCHANGED <<written, allocated>>
        /\ event' = (IF AtBrk /\ ~advanced THEN event ELSE NoStop) /\ ReturnFromCall
        /\ step \in {"resume", "signal"} /\ ~AnsweredNow
    BY <1>3, <1>6, Operations DEF Resume, ResumeWithSignal, RunOn, runnerVars, AnsweredNow
  <2>2. Session = "open" /\ Session' = "open"
    BY <2>1 DEF Session
  <2>3. CASE AtBrk /\ advanced
    <3>1. step = "resume" /\ event # DetachCall
      BY <1>1, <2>1, <2>3 DEF Handled
    <3>2. Owed(event, x0)
      BY <1>1, <1>2, <2>1, <2>3, Returning DEF Provided
    <3>3. Grants!Grantable(AskOf(event), x0)
      BY <1>1, <2>1, <2>3, <3>2, GrantableNow
    <3>4. Asking' = NoStop
      BY <2>1, <2>3 DEF Asking, AtBrk, NoStop, Brks
    <3>5. granted' = granted \cup {[call |-> event, x0 |-> x0]}
      BY <2>1, <2>3 DEF ReturnFromCall
    <3>6. AskOf(event).wants # "detach"
      BY <3>1, AskFields
    <3> QED BY <1>2, <2>1, <2>2, <2>3, <3>3, <3>4, <3>5, <3>6, Answering DEF Grants!Next
  <2>4. CASE ~(AtBrk /\ advanced)
    <3>1. Asking' = Asking
      BY <1>2, <2>1, <2>4, AskStays DEF Asking, AtBrk, NoStop, Brks
    <3> QED BY <1>2, <2>1, <2>2, <2>4, <3>1, Stutter DEF ReturnFromCall
  <2> QED BY <2>3, <2>4
<1>7. ASSUME NEW e \in Stops, AppStops(e)
      PROVE  Grants!Next \/ UNCHANGED Grants!vars
  <2>1. target = "running" /\ target' = "stopped" /\ event' = e /\ UNCHANGED <<written, allocated, granted>>
    BY <1>7 DEF AppStops, history
  <2>2. Session = "open" /\ Session' = "open"
    BY <2>1 DEF Session
  <2>3. CASE e = event \/ e \in SignalStops
    <3>1. e = event \/ event = NoStop
      BY <1>7, <2>3 DEF AppStops
    <3>2. Asking' = Asking
      BY <1>2, <2>1, <2>3, <3>1, AskStays, SignalCodes DEF Asking, AtBrk, NoStop, Brks
    <3> QED BY <1>2, <2>1, <2>2, <3>2, Stutter
  <2>4. CASE e # event /\ e \notin SignalStops
    <3>1. event = NoStop /\ e \in Calls \cup LegacyCalls \cup {DetachCall}
      BY <1>7, <2>4 DEF AppStops
    <3>2. e.code \in Brks
      BY <3>1, UniversalAssumption DEF Brks, DetachCall
    <3>3. Asking = NoStop /\ Asking' = AskOf(e) /\ AskOf(e) # NoStop
      BY <1>2, <2>1, <3>1, <3>2, AskFields, AskStays DEF Asking, AtBrk, NoStop, Brks
    <3>4. Answers' = Answers /\ Runner!TouchedPages' = Runner!TouchedPages
      BY <1>2, <2>1, AskStays DEF Answers, Runner!TouchedPages
    <3>5. Grants!Ask
      BY <2>1, <2>2, <3>3, <3>4 DEF Grants!Ask, Session, Asking, Answers
    <3> QED BY <3>5 DEF Grants!Next
  <2> QED BY <2>3, <2>4
<1>8. CASE ServeNoApp \/ ServeRead
  BY <1>2, <1>8, Stutter, AskStays
     DEF ServeNoApp, ServeRead, appVars, history, Session, Asking, AtBrk
<1>9. CASE ServeStepOver \/ ServeSetX0
  BY <1>2, <1>9, Stutter, AskStays DEF ServeStepOver, ServeSetX0, history, Session, Asking, AtBrk
<1>10. CASE ServeAllocate
  <2>1. /\ step = "allocate" /\ target = "stopped" /\ stop = event
        /\ UNCHANGED <<target, event, written, granted>> /\ Head(inbox).size = stop.x1 % ScriptSpace
    BY <1>1, <1>3, <1>10, Operations, Fields
       DEF ServeAllocate, appVars, Provided, Attached, Believed, AtRest
  <2>2. Session' = Session /\ Asking' = Asking
    BY <1>2, <2>1, AskStays DEF Session, Asking, AtBrk
  <2>3. CASE allocated' = allocated
    BY <1>2, <2>1, <2>2, <2>3, Stutter
  <2>4. CASE allocated' = allocated \cup {[address |-> FreshAddress, length |-> Head(inbox).size]}
    <3>1. script = "universal" /\ IsPrepare(event) /\ AtBrk /\ event.x0 = 0
      BY <1>1, <1>2, <2>1, OwnCall
         DEF Handled, Handling, Provided, Composed, Refines, Arguments, LegacySteps, Seeking, Promised, Course
    <3>2. event.x1 % ScriptSpace = event.x1 /\ event.x1 \in Nat
      BY <1>1, <3>1, OwnCall, PrepareCalls DEF Provided, Composed, Refines, WellMade
    <3>3. event.x1 # 0
      BY <1>1, <2>1, <3>1, <3>2 DEF Handled, Handling
    <3>4. Asking # NoStop /\ Asking.wants = "region" /\ Asking.address = 0 /\ Asking.length = event.x1
      BY <2>1, <3>1, AskFields DEF Asking
    <3>5. Grants!Wanted
      BY <3>4 DEF Grants!Wanted, Asking
    <3> DEFINE r == RegionAt(event, FreshAddress)
    <3>6. r \in allocated' /\ r.length = Asking.length /\ r.length > 0 /\ allocated' = allocated \cup {r}
      BY <2>1, <2>4, <3>2, <3>3, <3>4 DEF RegionAt
    <3>7. Answers' = Answers /\ Runner!TouchedPages' = Runner!TouchedPages
      BY <1>2, <2>1, AskStays DEF Answers, Runner!TouchedPages
    <3> HIDE DEF r
    <3>8. Grants!Reserve
      BY <2>2, <3>4, <3>5, <3>6, <3>7 DEF Grants!Reserve, Session, Asking, Answers
    <3> QED BY <3>8 DEF Grants!Next
  <2> QED BY <1>10, <2>3, <2>4 DEF ServeAllocate
<1>11. CASE ServeDetach /\ UNCHANGED <<target, granted>>
  <2>1. Session' = Session /\ Asking' = Asking
    BY <1>2, <1>11, AskStays DEF ServeDetach, Session, Asking, AtBrk
  <2> QED BY <1>2, <1>11, <2>1, Stutter DEF ServeDetach
<1>12. CASE ServeDetach /\ target' = "free" /\ ReturnFromCall
  <2>1. /\ target = "stopped" /\ target' = "free" /\ step = "detach" /\ ReturnFromCall /\ ~AnsweredNow
        /\ event' = event /\ UNCHANGED <<written, allocated>>
    BY <1>3, <1>12, Operations DEF ServeDetach, AnsweredNow
  <2>2. stop = event /\ event.code \in KnownCodes /\ advanced
    BY <1>1, <2>1 DEF Provided, Attached, Believed, AtRest, Handled
  <2>3. AtBrk /\ event # NoStop
    BY <1>1, <2>2, NoLookalike DEF AtBrk, KnownCodes, Brks, NoStop
  <2>4. script = "legacy" \/ ~IsPrepare(event)
    BY <1>1, <1>2, <2>1 DEF Provided, Promised, Course
  <2>5. Owed(event, x0)
    BY <1>1, <1>2, <2>1, <2>2, <2>4, Returning DEF Provided
  <2>6. Grants!Grantable(AskOf(event), x0)
    BY <1>1, <2>1, <2>3, <2>5, GrantableNow
  <2>7. Asking' = NoStop /\ Session' = "over"
    BY <2>1, <2>3 DEF Asking, Session
  <2>8. granted' = granted \cup {[call |-> event, x0 |-> x0]}
    BY <2>1, <2>2, <2>3 DEF ReturnFromCall
  <2> QED BY <1>2, <2>1, <2>3, <2>6, <2>7, <2>8, Answering DEF Grants!Next
<1> QED BY <1>2, <1>4, <1>5, <1>6, <1>7, <1>8, <1>9, <1>10, <1>11, <1>12
    DEF Server, ServeDetach

\* JITGrants sees nothing of what a script does.
LEMMA ScriptStutters ==
  ASSUME Provided, Script
  PROVE  UNCHANGED Grants!vars
<1>1. UNCHANGED <<script, target, event, allocated, granted>>
  BY ScriptFrame DEF Provided, appVars, history
<1>2. written' = written
  BY DEF Script, LoadScript, SendCommand, SendCommandFails, ReceiveReply, ReceiveReplyFails,
         PrepareMemoryRegion, ScriptThrows, ScriptEnds, Runner!LoadScript, Runner!SendCommand,
         Runner!SendCommandFails, Runner!ReceiveReply, Runner!ReceiveReplyFails, Runner!BeginPrepare,
         Runner!SendBatch, Runner!SendBatchFails, Runner!ReadResponse, Runner!ReadResponseFails,
         Runner!ScriptThrows, Runner!ScriptEnds, Runner!CallFails, Runner!locals, Runner!channel
<1>3. Session' = Session /\ Asking' = Asking
  BY <1>1, AskStays DEF Session, Asking, AtBrk
<1> QED BY <1>1, <1>2, <1>3, Stutter

Refining == Provided /\ Handled /\ InRegion /\ Fresh /\ Quiet

LEMMA RefiningInit ==
  ASSUME Faultless, Init
  PROVE  Refining /\ Grants!Init
<1>1. Provided
  BY ProvidedInit
<1>2. Handled
  BY DEF Init, Runner!Init, Handled, Handling, AnsweredNow, AtBrk, NoStop, Brks
<1>3. InRegion /\ Fresh
  BY DEF Init, Runner!Init, InRegion, Fresh
<1>4. Quiet
  BY DEF Init, Runner!Init, Quiet, Faultless
<1>5. Grants!Init
  <2>1. Session = "before" /\ Asking = NoStop /\ Answers = {}
    BY DEF Init, Session, Asking, Answers
  <2>2. Runner!TouchedPages = {} /\ allocated = {}
    BY DEF Init, Runner!Init, Runner!TouchedPages
  <2> QED BY <2>1, <2>2 DEF Grants!Init, Session, Asking, Answers
<1> QED BY <1>1, <1>2, <1>3, <1>4, <1>5 DEF Refining

LEMMA RefiningStep ==
  ASSUME WellMade, Faultless, Refining, [Next]_vars
  PROVE  Refining' /\ [Grants!Next]_(Grants!vars)
<1>1. Provided /\ Handled /\ InRegion /\ Fresh /\ Quiet /\ Fits
  BY DEF Refining, WellMade
<1>2. Provided' /\ InRegion' /\ Fresh' /\ Quiet'
  BY <1>1, ProvidedStep, InRegionStep, FreshStep, QuietStep
<1>3. CASE Script
  BY <1>1, <1>2, <1>3, ScriptHandled, ScriptStutters DEF Refining
<1>4. CASE Server
  BY <1>1, <1>2, <1>4, ServerHandled, ServerGrants DEF Refining
<1>5. CASE UNCHANGED vars
  <2>1. Handled'
    <3>1. /\ UNCHANGED <<script, step, stop, executionError, target, event, x0, advanced, calling, inbox>>
          /\ replies' = replies
      BY <1>5 DEF vars, runnerVars, scriptVars, appVars
    <3> QED BY <1>1, <3>1 DEF Handled, Handling, AnsweredNow, AtBrk, IsPrepare, NewBreakpoints
  <2>2. UNCHANGED Grants!vars
    <3>1. UNCHANGED <<script, allocated, written, granted, target, event>>
      BY <1>5 DEF vars, runnerVars, scriptVars, appVars, history
    <3>2. Session' = Session /\ Asking' = Asking
      BY <3>1, AskStays DEF Session, Asking, AtBrk
    <3> QED BY <3>1, <3>2, Stutter
  <2> QED BY <1>2, <2>1, <2>2 DEF Refining
<1> QED BY <1>3, <1>4, <1>5 DEF Next, Returned

\* Without faults the scripts implement JITGrants for a well-made app: whatever the
\* order of requests, stops and signals, each call is answered once, by what it may be
\* granted, no page is touched but those asked for, and none after the session.
THEOREM GrantsImplemented ==
  ASSUME WellMade, Faultless
  PROVE  Spec => GrantsSpec
<1>1. Init => Refining /\ Grants!Init
  BY RefiningInit
<1>2. Refining /\ [Next]_vars => Refining' /\ [Grants!Next]_(Grants!vars)
  BY RefiningStep
<1> QED BY <1>1, <1>2, PTL DEF Spec, GrantsSpec, Grants!Spec

=============================================================================
