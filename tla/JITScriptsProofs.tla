--------------------------- MODULE JITScriptsProofs ---------------------------
(***************************************************************************)
(* Proofs about the bundled scripts for any app, debug server and bounds.  *)
(* The first part shows that JITScripts implements ScriptRunner: every     *)
(* step of a script and of the debug server is a step of the runner, or    *)
(* none of its business.  TLAPS does not carry the theorems of             *)
(* ScriptRunnerProofs through an INSTANCE, so what is needed of them is    *)
(* proved here again for the instance.  The second part is about what a    *)
(* script believes of the app it is attached to, and what it does to it.   *)
(* As long as no error is recorded the queue holds the one exchange the    *)
(* script waits for, and what each answer says of the app is still so when *)
(* the script acts on it.                                                  *)
(***************************************************************************)
EXTENDS JITScripts, TLAPS

\* The stops whose registers a script may prepare a region from.
AllCalls  == Calls \cup LegacyCalls \cup Lookalikes \cup LegacyLookalikes
Addresses == {c.x0 % ScriptSpace : c \in AllCalls} \cup {FreshAddress, BogusAddress}
Requests  == {"attach", "resume", "fetch", "signal", "advance", "refetch", "allocate", "readText",
              "putX0", "putError", "detach"}
Steps     == Requests \cup {"prepare", "throw", "done"}
\* The steps of legacy.js before it has found its brk, and all of them.
Seeking     == {"attach", "resume", "fetch"}
LegacySteps == Seeking \cup {"prepare", "advance", "detach", "throw", "done"}

\* What the requests of a script are made of: steps that use the registers of a call
\* come after one, and the address to prepare is its own or one _M gave.
Arguments ==
  /\ script \in {"universal", "legacy"} /\ step \in Steps /\ stop \in Stops
  /\ script = "legacy" => step \in LegacySteps
  /\ step \in {"refetch", "allocate", "prepare"} => stop \in AllCalls
  /\ step \in {"prepare", "putX0"} => address \in Addresses

\* The exchange a send_command is blocked in.
Asked    == inbox = <<RequestOf[step]>> /\ replies = <<>>
Answered == inbox = <<>> /\ \E r : /\ replies = <<r>>
                                   /\ step = "fetch" => r \in {[memory |-> stop.code], Refused}

\* As long as legacy.js looks for its brk no answer can be mistaken, whatever has
\* failed: no batch has been sent that could have been left half read.
Sought ==
  script = "legacy" /\ step \in Seeking =>
    /\ calling \in {"nothing", "command"}
    /\ calling = "nothing" /\ link = "up" => inbox = <<>> /\ replies = <<>>
    /\ calling = "command" => link = "up" /\ (Asked \/ Answered)

Busy ==
  target = "running" =>
    inbox # <<>> /\ Head(inbox) \in ScriptCommands /\ Head(inbox).op \in {"c", "vCont"}

Calling ==
  /\ calling \in {"nothing", "command", "send", "read"}
  /\ calling = "command" => step \in Requests
  /\ calling \in {"send", "read"} => step = "prepare"

Refines == Arguments /\ Sought /\ Busy /\ Calling

-----------------------------------------------------------------------------
LEMMA Fields ==
  /\ DOMAIN RequestOf = Requests
  /\ RequestOf["attach"] = [op |-> "vAttach"] /\ RequestOf["resume"] = [op |-> "c"]
  /\ RequestOf["fetch"] = [op |-> "m", code |-> stop.code]
  /\ RequestOf["signal"] = [op |-> "vCont"] /\ RequestOf["advance"] = [op |-> "P20"]
  /\ RequestOf["refetch"] = [op |-> "m", code |-> stop.code]
  /\ RequestOf["allocate"] = [op |-> "_M", size |-> stop.x1 % ScriptSpace]
  /\ RequestOf["readText"] = [op |-> "m", code |-> "other"]
  /\ RequestOf["putX0"] = [op |-> "P0", value |-> address]
  /\ RequestOf["putError"] = [op |-> "P0", value |-> SwapBytes(LegacyErrorCode)]
  /\ RequestOf["detach"] = [op |-> "D"]
BY DEF RequestOf, Requests

LEMMA StopTypes ==
  ASSUME NEW s \in Stops
  PROVE  /\ s.code \in Codes
         /\ s.code \in {"68", "69", "like69"} => s \in AllCalls
         /\ s.code = "f00d" /\ s # DetachCall => s \in AllCalls
         /\ s.x0 \in Nat /\ s.x1 \in Nat /\ s.x16 \in Nat
BY UniversalAssumption DEF Stops, SignalStop, DetachCall, Codes, Brks, AllCalls

\* Every request of a script is one the runner may be given.
LEMMA RequestTypes ==
  ASSUME Arguments, step \in Requests
  PROVE  RequestOf[step] \in ScriptCommands
<1>1. stop.code \in Codes
  BY StopTypes DEF Arguments
<1>2. step = "allocate" => stop.x1 % ScriptSpace \in {c.x1 % ScriptSpace : c \in AllCalls}
  BY DEF Arguments
<1>3. step = "putX0" => address \in Addresses
  BY DEF Arguments
<1>4. CASE step \in {"attach", "resume", "signal", "advance", "detach"}
  BY <1>4, Fields DEF ScriptCommands
<1>5. CASE step \in {"fetch", "refetch", "readText"}
  BY <1>1, <1>5, Fields DEF ScriptCommands, Codes, Brks
<1>6. CASE step = "allocate"
  BY <1>2, <1>6, Fields DEF ScriptCommands, Stops, AllCalls
<1>7. CASE step \in {"putX0", "putError"}
  BY <1>3, <1>7, Fields DEF ScriptCommands, Stops, AllCalls, Addresses
<1> QED BY <1>4, <1>5, <1>6, <1>7 DEF Requests

LEMMA CommandFields ==
  ASSUME NEW c \in ScriptCommands
  PROVE  /\ c.op # "M" /\ c \notin Runner!Writes
         /\ c.op = "m" => c.code \in Codes
         /\ c.op = "_M" => c.size \in Nat
         /\ c.op = "P0" => c.value \in Nat
<1>1. \A s \in Stops : s.x0 % ScriptSpace \in Nat /\ s.x1 % ScriptSpace \in Nat
  BY StopTypes, UniversalAssumption
<1>2. SwapBytes(LegacyErrorCode) \in Nat
  BY UniversalAssumption DEF SwapBytes
<1> QED BY <1>1, <1>2, UniversalAssumption DEF ScriptCommands, Runner!Writes

LEMMA NewBreakpointsAreCalls ==
  ASSUME NEW s \in Stops, NewBreakpoints(s) \/ Dispatch(s) = "refetch"
  PROVE  s \in AllCalls
<1>1. NewBreakpoints(s) => s \in AllCalls
  <2>1. 0 % ScriptSpace = 0
    BY UniversalAssumption
  <2>2. ~NewBreakpoints(DetachCall)
    BY <2>1 DEF NewBreakpoints, DetachCall
  <2> QED BY <2>2, StopTypes DEF NewBreakpoints
<1>2. Dispatch(s) = "refetch" /\ ~NewBreakpoints(s) => s.code = "f00d" /\ s.x16 % ScriptSpace = 1
  BY DEF Dispatch
<1>3. 0 % ScriptSpace # 1
  BY UniversalAssumption
<1>4. s.code = "f00d" /\ s.x16 % ScriptSpace = 1 => s # DetachCall
  BY <1>3 DEF DetachCall
<1> QED BY <1>1, <1>2, <1>4, StopTypes

LEMMA DispatchSteps ==
  ASSUME NEW s
  PROVE  Dispatch(s) \in {"putError", "refetch", "detach", "resume"}
BY DEF Dispatch

LEMMA PrepareRegionSteps ==
  ASSUME NEW s
  PROVE  PrepareRegion(s) \in {"resume", "allocate", "prepare"}
BY DEF PrepareRegion

LEMMA AfterFetchSteps ==
  ASSUME NEW reply
  PROVE  AfterFetch(reply) \in {"throw", "advance", "resume", "signal"}
BY DEF AfterFetch

LEMMA AfterAllocateSteps ==
  ASSUME NEW reply
  PROVE  /\ AfterAllocate(reply) \in {"resume", "prepare", "throw"}
         /\ AfterAllocate(reply) = "prepare" => IsHex(reply)
BY DEF AfterAllocate

\* A script goes on to a step it may take next, with the registers that step needs.
LEMMA ContinueArguments ==
  ASSUME Arguments, step \in Requests, NEW reply, Continue(reply),
         script = "legacy" /\ step = "fetch" /\ reply \in [memory : {"69", "like69"}] => stop \in AllCalls
  PROVE  Arguments'
<1> USE DEF Arguments, Continue
<1>1. stop' \in Stops /\ (step # "resume" => stop' = stop) /\ script' = script
  BY DEF ParsedStop, StopReplies
<1>2. CASE script = "legacy"
  <2>1. step' \in LegacySteps /\ (step' = "prepare" => step = "fetch" /\ reply \in [memory : {"69", "like69"}])
    BY <1>2 DEF AfterReply, AfterLegacyReply, LegacySteps, Seeking
  <2>2. step' = "prepare" => address' = stop.x0 % ScriptSpace
    BY <1>2, <2>1 DEF JitPageAddress
  <2>3. step' = "prepare" => stop' \in AllCalls /\ address' \in Addresses
    BY <1>1, <1>2, <2>1, <2>2 DEF Addresses
  <2> QED BY <1>1, <1>2, <2>1, <2>3 DEF LegacySteps, Seeking, Steps, Requests
<1>3. CASE script = "universal"
  <2>1. step' = AfterUniversalReply(reply)
    BY <1>3 DEF AfterReply
  <2>2. CASE step = "resume"
    BY <1>1, <1>3, <2>1, <2>2 DEF AfterUniversalReply, Steps, Requests
  <2>3. CASE step = "fetch"
    BY <1>1, <1>3, <2>1, <2>3, AfterFetchSteps DEF AfterUniversalReply, Steps, Requests
  <2>4. CASE step = "advance"
    <3>1. step' = Dispatch(stop)
      BY <2>1, <2>4 DEF AfterUniversalReply
    <3>2. step' = "refetch" => stop \in AllCalls
      BY <3>1, NewBreakpointsAreCalls
    <3> QED BY <1>1, <1>3, <2>4, <3>1, <3>2, DispatchSteps DEF Steps, Requests
  <2>5. CASE step = "refetch"
    <3>1. step' = AfterRefetch(reply) /\ address' = stop.x0 % ScriptSpace
      BY <2>1, <2>5 DEF AfterUniversalReply, JitPageAddress
    <3>2. step' \in {"throw", "readText", "resume", "allocate", "prepare"}
      BY <3>1, PrepareRegionSteps DEF AfterRefetch
    <3>3. stop' \in AllCalls /\ address' \in Addresses
      BY <1>1, <2>5, <3>1 DEF Addresses
    <3> QED BY <1>1, <1>3, <3>2, <3>3 DEF Steps, Requests
  <2>6. CASE step = "allocate"
    <3>1. step' = AfterAllocate(reply)
      BY <2>1, <2>6 DEF AfterUniversalReply
    <3>2. step' \in {"throw", "resume", "prepare"} /\ (step' = "prepare" => IsHex(reply))
      BY <3>1, AfterAllocateSteps
    <3>3. IsHex(reply) => address' \in Addresses
      BY <2>6 DEF JitPageAddress, AddressReplies, Addresses
    <3> QED BY <1>1, <1>3, <2>6, <3>2, <3>3 DEF Steps, Requests
  <2>7. CASE step \notin {"resume", "fetch", "advance", "refetch", "allocate"}
    <3>1. step' \in {"done", "resume"}
      BY <2>1, <2>7 DEF AfterUniversalReply
    <3> QED BY <1>1, <1>3, <3>1 DEF Steps, Requests
  <2> QED BY <2>2, <2>3, <2>4, <2>5, <2>6, <2>7
<1> QED BY <1>2, <1>3

-----------------------------------------------------------------------------
(* The runner: types, batches inside their region, replies paired with requests. *)

\* What ScriptRunner assumes of its constants is so for this instance.
LEMMA RunnerAssumption ==
  /\ {JitPageSize, CommandsPerBatch, WireSpace} \subseteq Nat \ {0}
  /\ \A r \in ScriptRegions : r \in [address : Nat, length : Nat]
  /\ \A c \in ScriptCommands : c \notin Runner!Writes
  /\ {OK, Refused, Nothing} \subseteq ServerReplies
  /\ OK # Nothing
  /\ RefusesWrites \in BOOLEAN
  /\ MaxFaults \in Nat
<1>1. \A s \in Stops : s.x0 % ScriptSpace \in Nat /\ s.x1 % ScriptSpace \in Nat
  BY StopTypes, UniversalAssumption
<1>2. \A r \in ScriptRegions : r \in [address : Nat, length : Nat]
  BY <1>1, UniversalAssumption DEF ScriptRegions
<1> QED BY <1>2, CommandFields, UniversalAssumption DEF ServerReplies

LEMMA DivisionTypes ==
  ASSUME NEW x \in Nat, NEW s \in Nat \ {0}
  PROVE  /\ x \div s \in Nat
         /\ x % s \in 0..(s - 1)
         /\ x = s * (x \div s) + (x % s)
OBVIOUS

LEMMA DivisionWitness ==
  ASSUME NEW x \in Nat, NEW s \in Nat \ {0}
  PROVE  \E q \in Nat, r \in 0..(s - 1) : x = s * q + r
BY DivisionTypes

LEMMA ProductType ==
  ASSUME NEW x \in Nat, NEW s \in Nat
  PROVE  x * s \in Nat
OBVIOUS

\* A nonempty region has at least one page.
LEMMA PageCountType ==
  ASSUME NEW length \in Nat
  PROVE  /\ Runner!PageCount(length) \in Int
         /\ length > 0 => Runner!PageCount(length) \in Nat \ {0}
<1>1. JitPageSize \in Nat \ {0}
  BY RunnerAssumption
<1>2. CASE length > 0
  <2>1. length - 1 \in Nat
    BY <1>2
  <2>2. (length - 1) \div JitPageSize \in Nat
    BY <1>1, <2>1, DivisionTypes
  <2> QED BY <2>2 DEF Runner!PageCount
<1>3. CASE length = 0
  <2>1. (0 - 1) \div JitPageSize \in Int
    BY <1>1
  <2> QED BY <1>3, <2>1 DEF Runner!PageCount
<1> QED BY <1>2, <1>3

LEMMA WriteAddressType ==
  ASSUME NEW r \in [address : Nat, length : Nat], NEW page \in Nat
  PROVE  Runner!WriteAddress(r, page) \in Nat
<1>1. r.address + page * JitPageSize \in Nat
  BY ProductType, RunnerAssumption
<1>2. WireSpace \in Nat \ {0}
  BY RunnerAssumption
<1>3. (r.address + page * JitPageSize) % WireSpace \in 0..(WireSpace - 1)
  BY <1>1, <1>2, DivisionTypes
<1> QED BY <1>2, <1>3 DEF Runner!WriteAddress

\* Inside the region a batch is a nonempty sequence of at most CommandsPerBatch
\* writes.
LEMMA BatchType ==
  ASSUME Runner!TypeOK, Runner!BatchInside, calling \in {"send", "read"}
  PROVE  /\ Runner!BatchSize \in 1..CommandsPerBatch
         /\ Runner!PageCount(region.length) \in Nat
         /\ batchStart + Runner!BatchSize <= Runner!PageCount(region.length)
         /\ Runner!BatchCommands \in Seq(Runner!Writes)
         /\ Len(Runner!BatchCommands) = Runner!BatchSize
         /\ \A i \in 1..Runner!BatchSize :
              Runner!BatchCommands[i] = [op |-> "M", at |-> Runner!WriteAddress(region, batchStart + i - 1)]
<1>1. region \in [address : Nat, length : Nat] /\ batchStart \in Nat
  BY DEF Runner!TypeOK
<1>2. region.length > 0 /\ batchStart < Runner!PageCount(region.length)
  BY DEF Runner!BatchInside
<1>3. Runner!PageCount(region.length) \in Nat
  BY <1>1, <1>2, PageCountType
<1>4. CommandsPerBatch \in Nat \ {0}
  BY RunnerAssumption
<1>5. Runner!BatchSize \in 1..CommandsPerBatch
        /\ batchStart + Runner!BatchSize <= Runner!PageCount(region.length)
  BY <1>1, <1>2, <1>3, <1>4 DEF Runner!BatchSize
<1>6. ASSUME NEW i \in 1..Runner!BatchSize
      PROVE  Runner!WriteCommand(batchStart + i - 1) \in Runner!Writes
  <2>1. batchStart + i - 1 \in Nat
    BY <1>1, <1>5
  <2>2. Runner!WriteAddress(region, batchStart + i - 1) \in Nat
    BY <1>1, <2>1, WriteAddressType
  <2> QED BY <2>2 DEF Runner!WriteCommand, Runner!Writes
<1>7. Runner!BatchCommands \in Seq(Runner!Writes) /\ Len(Runner!BatchCommands) = Runner!BatchSize
  BY <1>5, <1>6 DEF Runner!BatchCommands
<1>8. \A i \in 1..Runner!BatchSize :
        Runner!BatchCommands[i] = [op |-> "M", at |-> Runner!WriteAddress(region, batchStart + i - 1)]
  BY DEF Runner!BatchCommands, Runner!WriteCommand
<1> QED BY <1>3, <1>5, <1>7, <1>8

LEMMA ReadFailsType ==
  ASSUME Runner!TypeOK, Runner!ReadFails
  PROVE  replies' \in Seq(ServerReplies) /\ link' \in {"up", "down"} /\ faults' \in 0..MaxFaults
<1>1. MaxFaults \in Nat
  BY RunnerAssumption
<1>2. CASE Runner!LinkLost /\ UNCHANGED replies
  BY <1>1, <1>2 DEF Runner!LinkLost, Runner!TypeOK
<1>3. CASE Runner!ReplyGarbled
  <2>1. Tail(replies) \in Seq(ServerReplies)
    BY <1>3 DEF Runner!ReplyGarbled, Runner!TypeOK
  <2> QED BY <1>1, <1>3, <2>1 DEF Runner!ReplyGarbled, Runner!TypeOK
<1> QED BY <1>2, <1>3 DEF Runner!ReadFails

\* Each step keeps the types; a batch must lie inside its region for the
\* commands appended to be writes.
LEMMA TypeStep ==
  ASSUME Runner!TypeOK, Runner!BatchInside, [Runner!Next]_(Runner!vars)
  PROVE  Runner!TypeOK'
<1> USE DEF Runner!TypeOK, Runner!locals, Runner!channel
<1>1. CASE Runner!LoadScript
  BY <1>1 DEF Runner!LoadScript
<1>2. CASE Runner!ScriptThrows
  BY <1>2 DEF Runner!ScriptThrows, Runner!RecordExecutionError
<1>3. CASE Runner!ScriptEnds
  BY <1>3 DEF Runner!ScriptEnds
<1>4. ASSUME NEW c \in ScriptCommands, Runner!SendCommand(c)
      PROVE  Runner!TypeOK'
  BY <1>4 DEF Runner!SendCommand
<1>5. CASE Runner!SendCommandFails
  BY <1>5, RunnerAssumption
     DEF Runner!SendCommandFails, Runner!LinkLost, Runner!CallFails, Runner!RecordExecutionError
<1>6. CASE Runner!ReceiveReply
  BY <1>6 DEF Runner!ReceiveReply
<1>7. CASE Runner!ReceiveReplyFails
  BY <1>7, ReadFailsType, RunnerAssumption
     DEF Runner!ReceiveReplyFails, Runner!CallFails, Runner!RecordExecutionError
<1>8. ASSUME NEW r \in ScriptRegions, Runner!BeginPrepare(r)
      PROVE  Runner!TypeOK'
  BY <1>8, RunnerAssumption DEF Runner!BeginPrepare
<1>9. CASE Runner!SendBatch
  <2>1. Runner!BatchCommands \in Seq(ScriptCommands \cup Runner!Writes)
    BY <1>9, BatchType DEF Runner!SendBatch
  <2> QED BY <1>9, <2>1 DEF Runner!SendBatch
<1>10. CASE Runner!SendBatchFails
  <2>1. Runner!BatchCommands \in Seq(ScriptCommands \cup Runner!Writes)
          /\ Len(Runner!BatchCommands) = Runner!BatchSize
    BY <1>10, BatchType DEF Runner!SendBatchFails
  <2>2. PICK k \in 0..Runner!BatchSize : inbox' = inbox \o SubSeq(Runner!BatchCommands, 1, k)
    BY <1>10 DEF Runner!SendBatchFails
  <2>3. SubSeq(Runner!BatchCommands, 1, k) \in Seq(ScriptCommands \cup Runner!Writes)
    BY <2>1
  <2>4. inbox' \in Seq(ScriptCommands \cup Runner!Writes)
    BY <2>2, <2>3
  <2>5. link' \in {"up", "down"} /\ faults' \in 0..MaxFaults
    BY <1>10, RunnerAssumption DEF Runner!SendBatchFails, Runner!LinkLost
  <2>6. calling' = "nothing" /\ answer' \in ServerReplies /\ executionError' \in {"none", "device", "script"}
    BY <1>10, RunnerAssumption DEF Runner!SendBatchFails, Runner!CallFails, Runner!RecordExecutionError
  <2> QED BY <1>10, <2>4, <2>5, <2>6 DEF Runner!SendBatchFails
<1>11. CASE Runner!ReadResponse
  <2>1. replies # <<>> /\ replies' = Tail(replies)
    BY <1>11 DEF Runner!ReadResponse
  <2>2. replies' \in Seq(ServerReplies)
    BY <2>1
  <2>3. /\ batchStart' \in Nat /\ got' \in Nat /\ calling' \in {"read", "send", "nothing"}
        /\ answer' \in {answer, OK} /\ prepared' \in {prepared, prepared \cup {region}}
    BY <1>11, RunnerAssumption DEF Runner!ReadResponse
  <2>4. OK \in ServerReplies
    BY RunnerAssumption
  <2> QED BY <1>11, <2>2, <2>3, <2>4 DEF Runner!ReadResponse
<1>12. CASE Runner!ReadResponseFails
  BY <1>12, ReadFailsType, RunnerAssumption
     DEF Runner!ReadResponseFails, Runner!CallFails, Runner!RecordExecutionError
<1>13. CASE Runner!ServeWrite
  <2>1. inbox # <<>> /\ Head(inbox).at \in Nat
    BY <1>13 DEF Runner!ServeWrite, Runner!Writes
  <2>2. written' \subseteq Nat
    BY <1>13, <2>1 DEF Runner!ServeWrite
  <2>3. PICK body \in {OK, Refused} : Runner!Reply(body)
    BY <1>13 DEF Runner!ServeWrite
  <2>4. body \in ServerReplies
    BY RunnerAssumption
  <2> QED BY <2>1, <2>2, <2>3, <2>4 DEF Runner!Reply
<1>14. CASE Runner!ServeCommand
  BY <1>14 DEF Runner!ServeCommand, Runner!Reply
<1>15. CASE Runner!SendNothing
  BY <1>15, RunnerAssumption DEF Runner!SendNothing
<1>16. CASE UNCHANGED Runner!vars
  BY <1>16 DEF Runner!vars
<1> QED
  BY <1>1, <1>2, <1>3, <1>4, <1>5, <1>6, <1>7, <1>8, <1>9, <1>10, <1>11, <1>12,
     <1>13, <1>14, <1>15, <1>16 DEF Runner!Next, Runner!Runner, Runner!Returned

\* A loop over batches starts with batch 0 of a nonempty region and goes on only
\* to a batch that begins before its last page.
LEMMA BatchInsideStep ==
  ASSUME Runner!TypeOK, Runner!BatchInside, [Runner!Next]_(Runner!vars)
  PROVE  Runner!BatchInside'
<1> USE DEF Runner!BatchInside, Runner!PageCount, Runner!locals
<1>1. ASSUME NEW r \in ScriptRegions, Runner!BeginPrepare(r)
      PROVE  Runner!BatchInside'
  <2>1. r.length \in Nat
    BY RunnerAssumption
  <2>2. r.length > 0 => Runner!PageCount(r.length) > 0
    BY <2>1, PageCountType
  <2> QED BY <1>1, <2>2 DEF Runner!BeginPrepare, Runner!Scripting
<1>2. CASE Runner!ReadResponse
  BY <1>2 DEF Runner!ReadResponse
<1>3. CASE Runner!SendBatch
  BY <1>3 DEF Runner!SendBatch
<1>4. CASE UNCHANGED <<calling, Runner!locals>>
  BY <1>4
<1>5. CASE calling' \in {"nothing", "command"}
  BY <1>5
<1> QED
  BY <1>1, <1>2, <1>3, <1>4, <1>5
     DEF Runner!Next, Runner!Runner, Runner!Returned, Runner!vars, Runner!LoadScript,
         Runner!ScriptThrows, Runner!ScriptEnds, Runner!SendCommand,
         Runner!SendNothing, Runner!SendCommandFails, Runner!ReceiveReply, Runner!ReceiveReplyFails,
         Runner!SendBatchFails,
         Runner!ReadResponseFails, Runner!CallFails, Runner!ServeWrite, Runner!ServeCommand, Runner!Reply

\* A call that fails leaves an error behind.
LEMMA FailureIsRecorded ==
  ASSUME Runner!TypeOK, Runner!CallFails
  PROVE  executionError' # "none"
BY DEF Runner!TypeOK, Runner!CallFails, Runner!RecordExecutionError

LEMMA InFlightType ==
  ASSUME Runner!TypeOK
  PROVE  /\ Len(inbox) \in Nat /\ Len(replies) \in Nat
         /\ inbox # <<>> => Len(Tail(inbox)) = Len(inbox) - 1
         /\ replies # <<>> => Len(replies) > 0 /\ Len(Tail(replies)) = Len(replies) - 1
         /\ \A body : Len(Append(replies, body)) = Len(replies) + 1
<1>1. inbox \in Seq(ScriptCommands \cup Runner!Writes) /\ replies \in Seq(ServerReplies)
  BY DEF Runner!TypeOK
<1> QED BY <1>1

LEMMA ConcatLength ==
  ASSUME NEW S, NEW s \in Seq(S), NEW t \in Seq(S)
  PROVE  Len(s \o t) = Len(s) + Len(t)
OBVIOUS

LEMMA BatchSizeStays ==
  ASSUME UNCHANGED <<region, batchStart>>
  PROVE  Runner!BatchSize' = Runner!BatchSize
BY DEF Runner!BatchSize, Runner!PageCount

\* What is sent is awaited at once, and what is read was awaited; the debug server
\* moves one request to one reply.
LEMMA AnswersMatchStep ==
  ASSUME Runner!TypeOK, Runner!BatchInside, Runner!AnswersMatch, [Runner!Next]_(Runner!vars)
  PROVE  Runner!AnswersMatch'
<1> SUFFICES ASSUME executionError' = "none"
             PROVE  Runner!InFlight' = Runner!Awaited'
  BY DEF Runner!AnswersMatch
<1> USE InFlightType
<1>1. CASE UNCHANGED <<calling, Runner!locals, executionError, inbox, replies>>
  BY <1>1 DEF Runner!AnswersMatch, Runner!InFlight, Runner!Awaited, Runner!BatchSize, Runner!PageCount,
      Runner!locals
<1>2. CASE Runner!LoadScript \/ Runner!SendNothing \/ Runner!ScriptEnds \/ Runner!Returned
        \/ UNCHANGED Runner!vars
  BY <1>1, <1>2 DEF Runner!LoadScript, Runner!SendNothing, Runner!ScriptEnds, Runner!Returned,
      Runner!vars, Runner!channel, Runner!locals
<1>3. CASE Runner!SendCommandFails \/ Runner!ReceiveReplyFails \/ Runner!SendBatchFails
        \/ Runner!ReadResponseFails
  BY <1>3, FailureIsRecorded
     DEF Runner!SendCommandFails, Runner!ReceiveReplyFails, Runner!SendBatchFails, Runner!ReadResponseFails
<1>4. CASE Runner!ScriptThrows
  BY <1>4 DEF Runner!ScriptThrows, Runner!RecordExecutionError
<1>5. ASSUME NEW c \in ScriptCommands, Runner!SendCommand(c)
      PROVE  Runner!InFlight' = Runner!Awaited'
  <2>1. Len(inbox') = Len(inbox) + 1
    BY <1>5 DEF Runner!SendCommand, Runner!TypeOK
  <2> QED BY <1>5, <2>1 DEF Runner!SendCommand, Runner!Scripting, Runner!AnswersMatch, Runner!InFlight,
          Runner!Awaited
<1>6. CASE Runner!ReceiveReply
  BY <1>6 DEF Runner!ReceiveReply, Runner!AnswersMatch, Runner!InFlight, Runner!Awaited
<1>7. ASSUME NEW r \in ScriptRegions, Runner!BeginPrepare(r)
      PROVE  Runner!InFlight' = Runner!Awaited'
  BY <1>7 DEF Runner!BeginPrepare, Runner!Scripting, Runner!channel, Runner!AnswersMatch,
      Runner!InFlight, Runner!Awaited
<1>8. CASE Runner!SendBatch
  <2>1. Runner!BatchSize \in Nat /\ Runner!BatchCommands \in Seq(Runner!Writes)
          /\ Len(Runner!BatchCommands) = Runner!BatchSize
    BY <1>8, BatchType DEF Runner!SendBatch
  <2>2. Len(inbox') = Len(inbox) + Runner!BatchSize
    <3>1. inbox \in Seq(ScriptCommands \cup Runner!Writes)
            /\ Runner!BatchCommands \in Seq(ScriptCommands \cup Runner!Writes)
      BY <2>1 DEF Runner!TypeOK
    <3>2. inbox' = inbox \o Runner!BatchCommands
      BY <1>8 DEF Runner!SendBatch
    <3>3. Len(inbox \o Runner!BatchCommands) = Len(inbox) + Len(Runner!BatchCommands)
      BY <3>1, ConcatLength
    <3> QED BY <2>1, <3>2, <3>3
  <2>3. Runner!BatchSize' = Runner!BatchSize
    BY <1>8, BatchSizeStays DEF Runner!SendBatch
  <2>4. Runner!InFlight = 0
    BY <1>8 DEF Runner!SendBatch, Runner!AnswersMatch, Runner!Awaited
  <2> QED BY <1>8, <2>1, <2>2, <2>3, <2>4 DEF Runner!SendBatch, Runner!InFlight, Runner!Awaited
<1>9. CASE Runner!ReadResponse
  <2>1. Runner!BatchSize \in Nat
    BY <1>9, BatchType DEF Runner!ReadResponse
  <2>2. got \in Nat /\ Runner!InFlight = Runner!BatchSize - got
    BY <1>9 DEF Runner!ReadResponse, Runner!AnswersMatch, Runner!Awaited, Runner!TypeOK
  <2>3. Runner!InFlight' = Runner!InFlight - 1
    BY <1>9 DEF Runner!ReadResponse, Runner!InFlight
  <2>4. CASE got + 1 < Runner!BatchSize
    <3>1. calling' = "read" /\ got' = got + 1 /\ Runner!BatchSize' = Runner!BatchSize
      <4>1. calling' = "read" /\ got' = got + 1 /\ UNCHANGED <<region, batchStart>>
        BY <1>9, <2>1, <2>2, <2>4 DEF Runner!ReadResponse
      <4> QED BY <4>1, BatchSizeStays
    <3> QED BY <2>1, <2>2, <2>3, <3>1 DEF Runner!Awaited
  <2>5. CASE got + 1 = Runner!BatchSize
    <3>1. calling' \in {"send", "nothing"}
      BY <1>9, <2>5, <2>1 DEF Runner!ReadResponse
    <3> QED BY <2>1, <2>2, <2>3, <2>5, <3>1 DEF Runner!Awaited
  <2> QED BY <1>9, <2>4, <2>5 DEF Runner!ReadResponse
<1>10. ASSUME NEW body, inbox # <<>>, Runner!Reply(body)
       PROVE  Runner!InFlight' = Runner!Awaited'
  <2>1. Runner!InFlight' = Runner!InFlight
    BY <1>10 DEF Runner!Reply, Runner!InFlight
  <2>2. UNCHANGED <<calling, region, batchStart, got, executionError>>
    BY <1>10 DEF Runner!Reply, Runner!locals
  <2>3. Runner!BatchSize' = Runner!BatchSize
    BY <2>2, BatchSizeStays
  <2> QED BY <2>1, <2>2, <2>3 DEF Runner!AnswersMatch, Runner!Awaited
<1> QED
  BY <1>2, <1>3, <1>4, <1>5, <1>6, <1>7, <1>8, <1>9, <1>10
     DEF Runner!Next, Runner!Runner, Runner!ServeWrite, Runner!ServeCommand

-----------------------------------------------------------------------------
(* What a step of a script does.                                            *)

\* A reply in which legacy.js finds 0x69 is about the registers it has.
LEMMA FoundIsCall ==
  ASSUME Refines, calling = "command", replies # <<>>, script = "legacy", step = "fetch",
         Head(replies) \in [memory : {"69", "like69"}]
  PROVE  stop \in AllCalls
<1>1. Answered
  BY DEF Refines, Sought, Seeking, Asked
<1>2. PICK r \in {[memory |-> stop.code], Refused} : replies = <<r>>
  BY <1>1 DEF Answered
<1>3. r \in [memory : {"69", "like69"}]
  BY <1>2
<1>4. Refused \notin [memory : {"69", "like69"}]
  BY UniversalAssumption DEF MemoryReplies, Codes, Brks
<1>5. stop.code \in {"69", "like69"}
  BY <1>3, <1>4
<1> QED BY <1>5, StopTypes DEF Refines, Arguments

LEMMA NoBrkIsNothing ==
  Nothing \notin [memory : {"69", "like69"}]
BY UniversalAssumption DEF MemoryReplies, Codes, Brks

LEMMA ScriptArguments ==
  ASSUME Refines, Script
  PROVE  Arguments'
<1>1. CASE SendCommand \/ LoadScript \/ ScriptThrows \/ ScriptEnds
  BY <1>1 DEF SendCommand, LoadScript, ScriptThrows, ScriptEnds, scriptVars, Refines, Arguments
<1>2. CASE SendCommandFails
  BY <1>2, ContinueArguments, NoBrkIsNothing, Fields DEF SendCommandFails, Refines
<1>3. CASE ReceiveReply
  <2>1. calling = "command" /\ replies # <<>> /\ Continue(Head(replies))
    BY <1>3 DEF ReceiveReply, Runner!ReceiveReply
  <2>2. step \in Requests
    BY <2>1 DEF Refines, Calling
  <2> QED BY <2>1, <2>2, FoundIsCall, ContinueArguments DEF Refines
<1>4. CASE ReceiveReplyFails
  <2>1. calling = "command" /\ Continue(Nothing)
    BY <1>4 DEF ReceiveReplyFails, Runner!ReceiveReplyFails
  <2> QED BY <2>1, ContinueArguments, NoBrkIsNothing DEF Refines, Calling
<1>5. CASE PrepareMemoryRegion
  <2>1. step = "prepare" /\ step' \in {"prepare", AfterPrepare} /\ UNCHANGED <<script, stop, address>>
    BY <1>5 DEF PrepareMemoryRegion
  <2>2. AfterPrepare = IF script = "legacy" THEN "advance" ELSE "putX0"
    BY DEF AfterPrepare
  <2> QED BY <2>1, <2>2 DEF Refines, Arguments, Steps, Requests, LegacySteps, Seeking
<1> QED BY <1>1, <1>2, <1>3, <1>4, <1>5 DEF Script

\* How legacy.js comes to a step at which it looks for its brk.
LEMMA StillSeeking ==
  ASSUME Arguments, step \in Requests, NEW reply, Continue(reply), script = "legacy", step' \in Seeking
  PROVE  step \in Seeking
BY DEF Arguments, Continue, AfterReply, AfterLegacyReply, Seeking, LegacySteps, Requests

LEMMA ScriptSought ==
  ASSUME Refines, Script
  PROVE  Sought'
<1> SUFFICES ASSUME script' = "legacy", step' \in Seeking
             PROVE  /\ calling' \in {"nothing", "command"}
                    /\ calling' = "nothing" /\ link' = "up" => inbox' = <<>> /\ replies' = <<>>
                    /\ calling' = "command" => link' = "up" /\ (Asked \/ Answered)'
  BY DEF Sought
<1>1. CASE LoadScript \/ ScriptThrows \/ ScriptEnds
  BY <1>1 DEF LoadScript, ScriptThrows, ScriptEnds, Runner!LoadScript, Runner!ScriptThrows,
              Runner!ScriptEnds, Runner!Scripting, Runner!channel, scriptVars, Refines, Sought, Asked,
              Answered, RequestOf
<1>2. CASE SendCommand
  <2>1. /\ script = "legacy" /\ step \in Seeking /\ calling = "nothing" /\ link = "up"
        /\ inbox' = Append(inbox, RequestOf[step]) /\ replies' = replies /\ calling' = "command"
        /\ link' = link /\ UNCHANGED <<step, stop, address>>
    BY <1>2 DEF SendCommand, Runner!SendCommand, Runner!Scripting, scriptVars
  <2>2. inbox = <<>> /\ replies = <<>>
    BY <2>1 DEF Refines, Sought
  <2>3. inbox' = <<RequestOf[step]>> /\ RequestOf' = RequestOf
    BY <2>1, <2>2 DEF RequestOf
  <2> QED BY <2>1, <2>2, <2>3 DEF Asked
<1>3. CASE SendCommandFails
  BY <1>3 DEF SendCommandFails, Runner!SendCommandFails, Runner!CallFails, Runner!LinkLost
<1>4. CASE ReceiveReply \/ ReceiveReplyFails
  <2>1. /\ calling = "command" /\ calling' = "nothing" /\ script' = script
        /\ \E reply : Continue(reply)
    BY <1>4 DEF ReceiveReply, ReceiveReplyFails, Runner!ReceiveReply, Runner!ReceiveReplyFails,
               Runner!CallFails, Continue
  <2>2. script = "legacy" /\ step \in Seeking
    BY <2>1, StillSeeking DEF Refines, Calling
  <2>3. Asked \/ Answered
    BY <2>1, <2>2 DEF Refines, Sought
  <2>4. link' = "up" => replies # <<>> /\ replies' = Tail(replies) /\ inbox' = inbox
    <3>1. CASE ReceiveReply
      BY <3>1 DEF ReceiveReply, Runner!ReceiveReply
    <3>2. CASE ReceiveReplyFails
      <4>1. inbox' = inbox /\ Runner!ReadFails
        BY <3>2 DEF ReceiveReplyFails, Runner!ReceiveReplyFails
      <4>2. link' = "up" => Runner!ReplyGarbled
        BY <4>1 DEF Runner!ReadFails, Runner!LinkLost
      <4> QED BY <4>1, <4>2 DEF Runner!ReplyGarbled
    <3> QED BY <1>4, <3>1, <3>2
  <2>5. link' = "up" => inbox' = <<>> /\ replies' = <<>>
    <3>1. ASSUME NEW r PROVE Tail(<<r>>) = <<>>
      OBVIOUS
    <3>2. CASE Asked
      BY <2>4, <3>2 DEF Asked
    <3>3. CASE Answered
      BY <2>4, <3>1, <3>3 DEF Answered
    <3> QED BY <2>3, <3>2, <3>3
  <2> QED BY <2>1, <2>5
<1>5. CASE PrepareMemoryRegion
  BY <1>5 DEF PrepareMemoryRegion, AfterPrepare, Seeking
<1> QED BY <1>1, <1>2, <1>3, <1>4, <1>5 DEF Script

\* Requests are added behind the one the debug server is serving.
LEMMA ScriptBusy ==
  ASSUME Runner!TypeOK, Runner!BatchInside, Refines, Script
  PROVE  Busy'
<1> SUFFICES ASSUME target = "running"
             PROVE  inbox' # <<>> /\ Head(inbox') = Head(inbox)
  BY DEF Script, LoadScript, SendCommand, SendCommandFails, ReceiveReply, ReceiveReplyFails,
         PrepareMemoryRegion, ScriptThrows, ScriptEnds, appVars, Refines, Busy
<1>1. inbox # <<>> /\ inbox \in Seq(ScriptCommands \cup Runner!Writes)
  BY DEF Refines, Busy, Runner!TypeOK
<1>2. CASE UNCHANGED inbox
  BY <1>1, <1>2
<1>3. ASSUME NEW t \in Seq(ScriptCommands \cup Runner!Writes), inbox' = inbox \o t
      PROVE  inbox' # <<>> /\ Head(inbox') = Head(inbox)
  BY <1>1, <1>3
<1>4. CASE SendCommand
  <2>1. inbox' = Append(inbox, RequestOf[step]) /\ RequestOf[step] \in ScriptCommands
    BY <1>4, RequestTypes, Fields DEF SendCommand, Runner!SendCommand, Refines
  <2> QED BY <1>1, <2>1
<1>5. CASE PrepareMemoryRegion /\ Runner!SendBatch
  <2>1. Runner!BatchCommands \in Seq(ScriptCommands \cup Runner!Writes)
          /\ inbox' = inbox \o Runner!BatchCommands
    BY <1>5, BatchType DEF Runner!SendBatch
  <2> QED BY <1>3, <2>1
<1>6. CASE PrepareMemoryRegion /\ Runner!SendBatchFails
  <2>1. Runner!BatchCommands \in Seq(Runner!Writes) /\ Len(Runner!BatchCommands) = Runner!BatchSize
    BY <1>6, BatchType DEF Runner!SendBatchFails
  <2>2. PICK k \in 0..Runner!BatchSize : inbox' = inbox \o SubSeq(Runner!BatchCommands, 1, k)
    BY <1>6 DEF Runner!SendBatchFails
  <2>3. SubSeq(Runner!BatchCommands, 1, k) \in Seq(ScriptCommands \cup Runner!Writes)
    BY <2>1
  <2> QED BY <1>3, <2>2, <2>3
<1> QED BY <1>2, <1>4, <1>5, <1>6
        DEF Script, LoadScript, SendCommandFails, ReceiveReply, ReceiveReplyFails, PrepareMemoryRegion,
            ScriptThrows, ScriptEnds, Runner!LoadScript, Runner!SendCommandFails, Runner!ReceiveReply,
            Runner!ReceiveReplyFails, Runner!BeginPrepare, Runner!ReadResponse, Runner!ReadResponseFails,
            Runner!ScriptThrows, Runner!ScriptEnds, Runner!channel

LEMMA ScriptCalling ==
  ASSUME Refines, Script
  PROVE  Calling'
<1>1. CASE LoadScript \/ ScriptThrows \/ ScriptEnds
  BY <1>1 DEF LoadScript, ScriptThrows, ScriptEnds, Runner!LoadScript, Runner!ScriptThrows,
              Runner!ScriptEnds, scriptVars, Refines, Calling
<1>2. CASE SendCommand
  BY <1>2, Fields DEF SendCommand, Runner!SendCommand, scriptVars, Calling
<1>3. CASE SendCommandFails \/ ReceiveReply \/ ReceiveReplyFails
  BY <1>3 DEF SendCommandFails, ReceiveReply, ReceiveReplyFails, Runner!SendCommandFails,
              Runner!ReceiveReply, Runner!ReceiveReplyFails, Runner!CallFails, Calling
<1>4. CASE PrepareMemoryRegion
  <2>1. calling # "command"
    BY <1>4 DEF PrepareMemoryRegion, Refines, Calling, Requests
  <2>2. calling' \in {"nothing", "send", "read"}
    BY <1>4, <2>1 DEF PrepareMemoryRegion, Runner!BeginPrepare, Runner!Scripting, Runner!SendBatch,
         Runner!SendBatchFails, Runner!ReadResponse, Runner!ReadResponseFails, Runner!CallFails
  <2>3. calling' # "nothing" => step' = "prepare"
    BY <1>4 DEF PrepareMemoryRegion
  <2> QED BY <2>2, <2>3 DEF Calling
<1> QED BY <1>1, <1>2, <1>3, <1>4 DEF Script

\* Each step of a script is a step of the runner.
LEMMA ScriptRefines ==
  ASSUME Refines, Script
  PROVE  Runner!Next
<1>1. CASE LoadScript \/ ScriptThrows \/ ScriptEnds \/ SendCommandFails \/ ReceiveReply \/ ReceiveReplyFails
  BY <1>1 DEF LoadScript, ScriptThrows, ScriptEnds, SendCommandFails, ReceiveReply, ReceiveReplyFails,
              Runner!Next, Runner!Runner
<1>2. CASE SendCommand
  <2>1. RequestOf[step] \in ScriptCommands /\ Runner!SendCommand(RequestOf[step])
    BY <1>2, RequestTypes, Fields DEF SendCommand, Refines
  <2> QED BY <2>1 DEF Runner!Next, Runner!Runner
<1>3. CASE PrepareMemoryRegion
  <2>1. step = "prepare" /\ stop \in AllCalls /\ address \in Addresses
    BY <1>3 DEF PrepareMemoryRegion, Refines, Arguments
  <2>2. [address |-> address, length |-> stop.x1 % ScriptSpace] \in ScriptRegions
    BY <2>1 DEF ScriptRegions, Stops, AllCalls, Addresses
  <2> QED BY <1>3, <2>2 DEF PrepareMemoryRegion, Runner!Next, Runner!Runner
<1> QED BY <1>1, <1>2, <1>3 DEF Script

-----------------------------------------------------------------------------
(* What a step of the debug server or of the app does.                      *)

\* It answers the request at the head of the queue, or leaves the runner alone.
LEMMA ServerAnswers ==
  ASSUME Refines, Server
  PROVE  \/ Runner!ServeWrite
         \/ /\ inbox # <<>> /\ Head(inbox) \in ScriptCommands /\ UNCHANGED written
            /\ \E body \in ServerReplies : Runner!Reply(body)
         \/ UNCHANGED runnerVars
<1> DEFINE Served == /\ inbox # <<>> /\ Head(inbox) \in ScriptCommands /\ UNCHANGED written
                     /\ \E body \in ServerReplies : Runner!Reply(body)
<1>1. {OK, Refused, Nothing, Gone} \subseteq ServerReplies
  BY DEF ServerReplies
<1>2. CASE ServeWrite \/ Resume \/ ResumeWithSignal
  BY <1>2 DEF ServeWrite, Resume, ResumeWithSignal, RunOn
<1>3. CASE ServeAttach \/ KilledByTrap \/ ServeNoApp \/ ServeStepOver \/ ServeSetX0 \/ ServeDetach
  <2> Served
    BY <1>1, <1>3 DEF ServeAttach, KilledByTrap, ServeNoApp, ServeStepOver, ServeSetX0, ServeDetach, Serving
  <2> QED OBVIOUS
<1>4. ASSUME NEW e \in Stops, AppStops(e)
      PROVE  Served
  <2>1. [stop |-> e] \in ServerReplies
    BY DEF ServerReplies, StopReplies
  <2> QED BY <1>4, <2>1 DEF AppStops, Refines, Busy
<1>5. CASE AppDies
  BY <1>1, <1>5 DEF AppDies, Refines, Busy
<1>6. CASE ServeRead
  <2>1. [memory |-> Head(inbox).code] \in ServerReplies
    <3>1. Head(inbox) \in ScriptCommands /\ Head(inbox).op = "m"
      BY <1>6 DEF ServeRead, Serving
    <3>2. Head(inbox).code \in Codes
      BY <3>1, CommandFields
    <3> QED BY <3>2 DEF ServerReplies, MemoryReplies
  <2> QED BY <1>6, <2>1 DEF ServeRead, Serving
<1>7. CASE ServeAllocate
  <2>1. [start |-> FreshAddress] \in ServerReplies
    BY DEF ServerReplies, AddressReplies
  <2> QED BY <1>1, <1>7, <2>1 DEF ServeAllocate, Serving
<1> QED BY <1>2, <1>3, <1>4, <1>5, <1>6, <1>7 DEF Server

LEMMA ServerRefines ==
  ASSUME Refines, Server
  PROVE  Runner!Next \/ UNCHANGED Runner!vars
<1>1. CASE Runner!ServeWrite
  BY <1>1 DEF Runner!Next
<1>2. CASE inbox # <<>> /\ Head(inbox) \in ScriptCommands /\ UNCHANGED written
           /\ \E body \in ServerReplies : Runner!Reply(body)
  BY <1>2 DEF Runner!Next, Runner!ServeCommand
<1>3. CASE UNCHANGED runnerVars
  BY <1>3 DEF runnerVars, Runner!vars, Runner!locals, Runner!channel
<1> QED BY <1>1, <1>2, <1>3, ServerAnswers

LEMMA ServerSought ==
  ASSUME Refines, Server
  PROVE  Sought'
<1>1. /\ UNCHANGED <<script, step, stop, address, calling, link>> /\ RequestOf' = RequestOf
      /\ (inbox' = inbox /\ replies' = replies)
           \/ (inbox # <<>> /\ \E body : inbox' = Tail(inbox) /\ replies' = Append(replies, body))
  <2>1. UNCHANGED scriptVars
    BY DEF Server, ServeWrite, ServeAttach, Resume, ResumeWithSignal, RunOn, KilledByTrap, AppStops, AppDies,
           ServeNoApp, ServeRead, ServeStepOver, ServeSetX0, ServeAllocate, ServeDetach
  <2>2. RequestOf' = RequestOf
    BY <2>1 DEF RequestOf, scriptVars
  <2> QED BY <2>1, <2>2, ServerAnswers DEF scriptVars, runnerVars, Runner!ServeWrite, Runner!Reply
<1> SUFFICES ASSUME script = "legacy", step \in Seeking, calling = "command", Asked, inbox' # inbox
             PROVE  Answered'
  <2>1. ASSUME script = "legacy", step \in Seeking, calling = "command", Answered
        PROVE  Answered'
    <3>1. inbox' = inbox /\ replies' = replies
      BY <1>1, <2>1 DEF Answered
    <3> QED BY <1>1, <2>1, <3>1 DEF Answered
  <2>2. ASSUME script = "legacy", step \in Seeking, calling = "command", Asked, inbox' = inbox
        PROVE  Asked'
    <3>1. replies' = replies
      <4>1. ASSUME NEW a PROVE Tail(<<a>>) # <<a>>
        OBVIOUS
      <4> QED BY <1>1, <2>2, <4>1 DEF Asked
    <3> QED BY <1>1, <2>2, <3>1 DEF Asked
  <2>3. ASSUME script = "legacy", step \in Seeking, calling = "nothing", link = "up"
        PROVE  inbox' = <<>> /\ replies' = <<>>
    BY <1>1, <2>3 DEF Refines, Sought
  <2> QED BY <1>1, <2>1, <2>2, <2>3 DEF Refines, Sought
<1>2. inbox = <<RequestOf[step]>> /\ replies = <<>> /\ Head(inbox) = RequestOf[step]
  BY DEF Asked
<1>3. PICK body : inbox' = <<>> /\ replies' = <<body>>
  BY <1>1, <1>2
<1>4. step = "fetch" => body \in {[memory |-> stop.code], Refused}
  <2> SUFFICES ASSUME step = "fetch" PROVE body \in {[memory |-> stop.code], Refused}
    OBVIOUS
  <2>1. Head(inbox) = [op |-> "m", code |-> stop.code]
    BY <1>2, Fields
  <2>2. inbox # inbox' /\ Head(inbox).op = "m" /\ Head(inbox).code = stop.code
    BY <2>1
  <2>3. Head(inbox) \notin Runner!Writes /\ target # "running"
    BY <2>1, <2>2 DEF Runner!Writes, Refines, Busy
  <2>4. ServeRead \/ ServeNoApp
    BY <2>2, <2>3 DEF Server, ServeWrite, Runner!ServeWrite, ServeAttach, Resume, ResumeWithSignal, RunOn,
                      KilledByTrap, AppStops, AppDies, runnerVars, ServeStepOver, ServeSetX0, ServeAllocate,
                      ServeDetach, Serving
  <2>5. replies' = Append(replies, [memory |-> stop.code]) \/ replies' = Append(replies, Refused)
    BY <2>2, <2>4 DEF ServeRead, ServeNoApp, Runner!Reply
  <2>6. \A b : Append(<<>>, b) = <<b>>
    OBVIOUS
  <2>7. \A a, b : <<a>> = <<b>> => a = b
    OBVIOUS
  <2> QED BY <1>2, <1>3, <2>5, <2>6, <2>7
<1> QED BY <1>1, <1>3, <1>4 DEF Answered

LEMMA ServerBusy ==
  ASSUME Refines, Server
  PROVE  Busy'
<1> SUFFICES ASSUME target' = "running"
             PROVE  inbox' = inbox /\ inbox # <<>> /\ Head(inbox) \in ScriptCommands
                       /\ Head(inbox).op \in {"c", "vCont"}
  BY DEF Busy
<1>1. CASE Resume \/ ResumeWithSignal
  BY <1>1 DEF Resume, ResumeWithSignal, RunOn, Serving, runnerVars
<1>2. CASE ServeWrite \/ ServeAttach
  <2>1. target = "running"
    BY <1>2 DEF ServeWrite, ServeAttach, appVars
  <2>2. Head(inbox) \in ScriptCommands /\ Head(inbox).op \in {"c", "vCont"}
    BY <2>1 DEF Refines, Busy
  <2> QED BY <1>2, <2>2, CommandFields DEF ServeWrite, ServeAttach, Runner!ServeWrite, Serving
<1> QED BY <1>1, <1>2
        DEF Server, KilledByTrap, AppStops, AppDies, ServeNoApp, ServeRead, ServeStepOver, ServeSetX0,
            ServeAllocate, ServeDetach, appVars

LEMMA RefinesStep ==
  ASSUME Runner!TypeOK, Runner!BatchInside, Refines, [Next]_vars
  PROVE  Refines'
<1>1. CASE Script
  BY <1>1, ScriptArguments, ScriptSought, ScriptBusy, ScriptCalling DEF Refines
<1>2. CASE Server
  <2>1. UNCHANGED scriptVars /\ UNCHANGED calling
    BY <1>2, ServerAnswers
       DEF Server, ServeWrite, ServeAttach, Resume, ResumeWithSignal, RunOn, KilledByTrap, AppStops, AppDies,
           ServeNoApp, ServeRead, ServeStepOver, ServeSetX0, ServeAllocate, ServeDetach,
           Runner!ServeWrite, Runner!Reply, runnerVars
  <2> QED BY <1>2, <2>1, ServerSought, ServerBusy DEF Refines, Arguments, Calling, scriptVars
<1>3. CASE UNCHANGED vars
  BY <1>3 DEF vars, runnerVars, scriptVars, appVars, Refines, Arguments, Sought, Asked, Answered, RequestOf,
              Busy, Calling
<1> QED BY <1>1, <1>2, <1>3 DEF Next, Returned

\* Each step implements one of the runner, or is none of its business.
LEMMA NextRefines ==
  ASSUME Refines, [Next]_vars
  PROVE  [Runner!Next]_(Runner!vars)
<1>1. CASE UNCHANGED vars
  BY <1>1 DEF vars, runnerVars, Runner!vars, Runner!locals, Runner!channel
<1> QED BY <1>1, ScriptRefines, ServerRefines DEF Next, Returned

Composed == Runner!TypeOK /\ Runner!BatchInside /\ Runner!AnswersMatch /\ Refines

LEMMA ComposedInit ==
  Init => Composed
<1> SUFFICES ASSUME Init PROVE Composed
  OBVIOUS
<1>1. Runner!TypeOK /\ Runner!BatchInside /\ Runner!AnswersMatch
  BY RunnerAssumption DEF Init, Runner!Init, Runner!TypeOK, Runner!BatchInside, Runner!AnswersMatch,
                          Runner!InFlight, Runner!Awaited
<1>2. Refines
  BY UniversalAssumption DEF Init, Runner!Init, Refines, Arguments, Sought, Busy, Calling, Steps,
                             Requests, Seeking, LegacySteps, Stops
<1> QED BY <1>1, <1>2 DEF Composed

LEMMA ComposedStep ==
  Composed /\ [Next]_vars => Composed' /\ [Runner!Next]_(Runner!vars)
BY RefinesStep, NextRefines, TypeStep, BatchInsideStep, AnswersMatchStep DEF Composed

LEMMA ComposedHolds ==
  Spec => []Composed
BY ComposedInit, ComposedStep, PTL DEF Spec

\* The bundled scripts, whatever the app and the debug server do, make ScriptRunner take
\* only steps it is specified to take: what is proved in ScriptRunnerProofs for any script
\* holds for them.
THEOREM RunnerImplemented ==
  Spec => RunnerSpec
<1>1. Init => Runner!Init
  BY DEF Init
<1> QED BY <1>1, ComposedHolds, ComposedStep, PTL DEF Spec, RunnerSpec, Runner!Spec

-----------------------------------------------------------------------------

\* Steps at which the script acts on the registers of its last stop.
AtRest == {"fetch", "advance", "refetch", "readText", "allocate", "prepare", "putX0", "putError", "detach"}
\* The instructions it goes on at.
KnownCodes == IF script = "legacy" THEN {"69", "like69"} ELSE {"f00d", "68", "69"}

\* What the answer to a request says, when the app is still there.
Says(r) ==
  /\ step = "resume" /\ target = "stopped" => r = [stop |-> event]
  /\ step = "fetch" => r \in {[memory |-> stop.code], Refused}
  /\ step = "fetch" /\ target = "stopped" => r = [memory |-> stop.code]
  /\ step = "detach" => target \in {"free", "gone"} \/ r = Refused
  /\ step = "signal" /\ target = "stopped" => ~reported
Said == inbox = <<>> /\ \E r : replies = <<r>> /\ Says(r)

Paired ==
  executionError = "none" =>
    /\ calling = "nothing" => inbox = <<>> /\ replies = <<>>
    /\ calling = "command" => Asked \/ Said
    /\ calling \in {"send", "read"} => \A i \in 1 .. Len(inbox) : inbox[i] \in Runner!Writes

\* The app runs only while the script waits for its next stop, and stands where the
\* script believes it to.
Believed ==
  executionError = "none" =>
    /\ target = "running" => step \in {"resume", "signal"}
    /\ target = "stopped" /\ step \in AtRest => stop = event
    /\ step \in AtRest \ {"fetch"} => stop.code \in KnownCodes
    /\ step = "attach" => event = NoStop
    /\ step = "done" => target \in {"free", "gone"} \/ answer = Refused

\* A signal universal.js has looked at is not there any more when it sends its next `c`.
PassedOn ==
  script = "universal" /\ executionError = "none" =>
    /\ "seen" \notin lost
    /\ target = "stopped" /\ AtSignal /\ step = "resume" /\ (calling # "command" \/ inbox # <<>>)
         => ~reported

Ended == stage = "finished" => executionError = "none" /\ step = "done"

AppTypes ==
  /\ script \in Scripts /\ address \in Nat
  /\ target \in {"free", "stopped", "running", "gone"}
  /\ event \in Stops \cup {NoStop} /\ x0 \in Nat
  /\ {advanced, reported} \subseteq BOOLEAN
  /\ calls \in 0..MaxCalls /\ signals \in 0..MaxSignals
  /\ granted \subseteq [call : Stops, x0 : Nat]
  /\ lost \subseteq {"seen", "unseen"}
  /\ allocated \subseteq [address : Nat, length : Nat]

Attached == Paired /\ Believed /\ PassedOn /\ Ended /\ AppTypes

-----------------------------------------------------------------------------
\* The request the debug server serves is the one the script waits for.
LEMMA ServedStep ==
  ASSUME Composed, Paired, executionError = "none", inbox # <<>>, Head(inbox) \in ScriptCommands
  PROVE  /\ calling = "command" /\ step \in Requests /\ Head(inbox) = RequestOf[step]
         /\ inbox = <<RequestOf[step]>> /\ replies = <<>>
<1>1. inbox \in Seq(ScriptCommands \cup Runner!Writes)
  BY DEF Composed, Runner!TypeOK
<1>2. calling \notin {"send", "read"}
  <2> SUFFICES ASSUME calling \in {"send", "read"} PROVE FALSE
    OBVIOUS
  <2>1. Head(inbox) \in Runner!Writes
    BY <1>1 DEF Paired
  <2> QED BY <2>1, CommandFields
<1>3. calling = "command" /\ step \in Requests
  BY <1>2 DEF Composed, Refines, Calling, Paired
<1> QED BY <1>3 DEF Paired, Asked, Said

\* Which step a kind of request belongs to.
LEMMA Operations ==
  ASSUME step \in Requests
  PROVE  /\ RequestOf[step].op = "vAttach" <=> step = "attach"
         /\ RequestOf[step].op = "c" <=> step = "resume"
         /\ RequestOf[step].op = "vCont" <=> step = "signal"
         /\ RequestOf[step].op = "D" <=> step = "detach"
         /\ RequestOf[step].op = "m" <=> step \in {"fetch", "refetch", "readText"}
         /\ RequestOf[step].op = "P20" <=> step = "advance"
         /\ RequestOf[step].op = "P0" <=> step \in {"putX0", "putError"}
         /\ RequestOf[step].op = "_M" <=> step = "allocate"
BY Fields DEF Requests

\* What a step of the debug server or the app leaves alone.
LEMMA ServerFrame ==
  ASSUME Composed, Server
  PROVE  /\ UNCHANGED <<script, step, stop, address, calling, executionError, stage, answer>>
         /\ RequestOf' = RequestOf
         /\ \/ UNCHANGED <<inbox, replies>>
            \/ inbox # <<>> /\ \E body : inbox' = Tail(inbox) /\ replies' = Append(replies, body)
<1>1. UNCHANGED scriptVars
  BY DEF Server, ServeWrite, ServeAttach, Resume, ResumeWithSignal, RunOn, KilledByTrap, AppStops, AppDies,
         ServeNoApp, ServeRead, ServeStepOver, ServeSetX0, ServeAllocate, ServeDetach
<1>2. RequestOf' = RequestOf
  BY <1>1 DEF RequestOf, scriptVars
<1> QED BY <1>1, <1>2, ServerAnswers
        DEF Composed, scriptVars, runnerVars, Runner!ServeWrite, Runner!Reply

-----------------------------------------------------------------------------
(* Steps of the debug server and of the app.                                *)

\* An answer is true of the app when it is given.
LEMMA ServerSays ==
  ASSUME Composed, Paired, executionError = "none", calling = "command", Asked, Server, inbox' # inbox
  PROVE  Said'
<1>1. /\ step \in Requests /\ inbox = <<RequestOf[step]>> /\ Head(inbox) = RequestOf[step] /\ replies = <<>>
      /\ Head(inbox) \in ScriptCommands /\ Head(inbox) \notin Runner!Writes
  <2>1. step \in Requests /\ RequestOf[step] \in ScriptCommands
    BY RequestTypes DEF Composed, Refines, Calling
  <2> QED BY <2>1, CommandFields DEF Asked
<1>2. ASSUME NEW b, Runner!Reply(b)
      PROVE  inbox' = <<>> /\ replies' = <<b>>
  BY <1>1, <1>2 DEF Runner!Reply
<1>3. UNCHANGED <<step, stop>>
  BY ServerFrame
<1> SUFFICES \E b : Runner!Reply(b) /\ Says(b)'
  BY <1>2 DEF Said
<1> USE <1>1, <1>3, Operations DEF Says, Serving
<1>4. CASE ServeWrite \/ Resume \/ ResumeWithSignal
  BY <1>4 DEF ServeWrite, Runner!ServeWrite, Resume, ResumeWithSignal, RunOn, runnerVars
<1>5. CASE ServeAttach
  BY <1>5 DEF ServeAttach
<1>6. CASE KilledByTrap
  BY <1>6 DEF KilledByTrap
<1>7. ASSUME NEW e \in Stops, AppStops(e)
      PROVE  \E b : Runner!Reply(b) /\ Says(b)'
  <2>1. Head(inbox).op \in {"c", "vCont"} /\ Runner!Reply([stop |-> e])
    BY <1>7 DEF AppStops, Composed, Refines, Busy
  <2>2. step = "resume" \/ (step = "signal" /\ reported' = FALSE)
    BY <1>7, <2>1 DEF AppStops
  <2>3. event' = e
    BY <1>7 DEF AppStops
  <2> QED BY <2>1, <2>2, <2>3
<1>8. CASE AppDies
  <2>1. target = "running" /\ target' = "gone" /\ Runner!Reply(Gone)
    BY <1>8 DEF AppDies, runnerVars
  <2>2. Head(inbox).op \in {"c", "vCont"}
    BY <2>1 DEF Composed, Refines, Busy
  <2> QED BY <2>1, <2>2
<1>9. CASE ServeNoApp
  BY <1>9 DEF ServeNoApp, appVars
<1>10. CASE ServeRead
  <2>1. Runner!Reply([memory |-> Head(inbox).code]) /\ step \in {"fetch", "refetch", "readText"}
    BY <1>10 DEF ServeRead
  <2>2. step = "fetch" => Head(inbox).code = stop.code
    BY Fields
  <2> QED BY <2>1, <2>2
<1>11. CASE ServeStepOver \/ ServeSetX0 \/ ServeAllocate
  <2>1. step \notin {"resume", "fetch", "signal", "detach"} /\ \E b : Runner!Reply(b)
    BY <1>11 DEF ServeStepOver, ServeSetX0, ServeAllocate
  <2> QED BY <2>1
<1>12. CASE ServeDetach
  BY <1>12 DEF ServeDetach
<1> QED BY <1>4, <1>5, <1>6, <1>7, <1>8, <1>9, <1>10, <1>11, <1>12 DEF Server

LEMMA ServerPaired ==
  ASSUME Composed, Paired, Server
  PROVE  Paired'
<1> SUFFICES ASSUME executionError = "none"
             PROVE  /\ calling = "nothing" => inbox' = <<>> /\ replies' = <<>>
                    /\ calling = "command" => (Asked \/ Said)'
                    /\ calling \in {"send", "read"} => \A i \in 1 .. Len(inbox') : inbox'[i] \in Runner!Writes
  BY ServerFrame DEF Paired, Runner!Writes
<1>1. CASE calling = "nothing"
  BY <1>1, ServerFrame DEF Paired
<1>2. CASE calling = "command" /\ Asked
  <2>1. CASE inbox' = inbox
    <3>1. \A a : Tail(<<a>>) # <<a>>
      OBVIOUS
    <3>2. replies' = replies
      BY <1>2, <2>1, <3>1, ServerFrame DEF Asked
    <3> QED BY <1>2, <2>1, <3>2, ServerFrame DEF Asked
  <2>2. CASE inbox' # inbox
    BY <1>2, <2>2, ServerSays
  <2> QED BY <1>2, <2>1, <2>2
<1>3. CASE calling = "command" /\ Said
  <2>1. inbox = <<>> /\ target # "running" /\ UNCHANGED <<inbox, replies, step, stop>>
    BY <1>3, ServerFrame DEF Said, Composed, Refines, Busy
  <2>2. PICK r : replies = <<r>> /\ Says(r)
    BY <1>3 DEF Said
  <2>3. AppDies
    BY <2>1 DEF Server, ServeWrite, Runner!ServeWrite, ServeAttach, Resume, ResumeWithSignal, KilledByTrap,
                AppStops, ServeNoApp, ServeRead, ServeStepOver, ServeSetX0, ServeAllocate, ServeDetach,
                Serving
  <2>4. target' = "gone"
    BY <2>3 DEF AppDies
  <2>5. Says(r)'
    BY <2>1, <2>2, <2>4 DEF Says
  <2> QED BY <1>3, <2>1, <2>2, <2>5 DEF Said
<1>4. CASE calling \in {"send", "read"}
  <2>1. inbox \in Seq(ScriptCommands \cup Runner!Writes) /\ inbox' \in {inbox, Tail(inbox)}
    BY ServerFrame DEF Composed, Runner!TypeOK
  <2>2. inbox # <<>> => \A i \in 1 .. Len(Tail(inbox)) : i + 1 \in 1 .. Len(inbox)
          /\ Tail(inbox)[i] = inbox[i + 1]
    BY <2>1
  <2>3. inbox' = inbox \/ inbox # <<>>
    BY ServerFrame
  <2> QED BY <1>4, <2>1, <2>2, <2>3 DEF Paired
<1> QED BY <1>1, <1>2, <1>3, <1>4 DEF Composed, Refines, Calling, Paired

\* While the script acts on what it believes, nobody else moves the app.
LEMMA ServerBelieved ==
  ASSUME Composed, Paired, Believed, Server
  PROVE  Believed'
<1> SUFFICES ASSUME executionError = "none" PROVE Believed'
  BY ServerFrame DEF Believed
<1>1. UNCHANGED <<step, stop, answer>> /\ KnownCodes' = KnownCodes
  BY ServerFrame DEF KnownCodes
<1>2. ASSUME NEW op, Serving(op)
      PROVE  step \in Requests /\ RequestOf[step].op = op
  BY <1>2, ServedStep DEF Serving
<1>3. CASE ServeWrite \/ ServeNoApp \/ ServeRead \/ ServeStepOver \/ ServeSetX0 \/ ServeAllocate
  BY <1>1, <1>3 DEF ServeWrite, ServeNoApp, ServeRead, ServeStepOver, ServeSetX0, ServeAllocate,
      appVars, Believed
<1>4. CASE ServeAttach
  <2>1. step = "attach" /\ target' \in {"stopped", target} /\ event' = event
    BY <1>2, <1>4, Operations DEF ServeAttach
  <2> QED BY <1>1, <2>1 DEF Believed, AtRest
<1>5. CASE Resume \/ ResumeWithSignal
  <2>1. step \in {"resume", "signal"}
    BY <1>2, <1>5, Operations DEF Resume, ResumeWithSignal
  <2> QED BY <1>1, <2>1 DEF Believed, AtRest
<1>6. CASE KilledByTrap \/ AppDies
  BY <1>1, <1>6 DEF KilledByTrap, AppDies, Believed
<1>7. ASSUME NEW e \in Stops, AppStops(e)
      PROVE  Believed'
  <2>1. step \in {"resume", "signal"}
    BY <1>7 DEF AppStops, Believed
  <2> QED BY <1>1, <2>1 DEF Believed, AtRest
<1>8. CASE ServeDetach
  <2>1. step = "detach" /\ target' \in {"free", target} /\ event' = event
    BY <1>2, <1>8, Operations DEF ServeDetach
  <2> QED BY <1>1, <2>1 DEF Believed, AtRest
<1> QED BY <1>3, <1>4, <1>5, <1>6, <1>7, <1>8 DEF Server

LEMMA ServerPassedOn ==
  ASSUME Composed, Paired, Believed, PassedOn, Server
  PROVE  PassedOn'
<1> SUFFICES ASSUME script = "universal", executionError = "none"
             PROVE  /\ "seen" \notin lost'
                    /\ target' = "stopped" /\ AtSignal' /\ step = "resume"
                         /\ (calling # "command" \/ inbox' # <<>>) => ~reported'
  BY ServerFrame DEF PassedOn
<1>1. ASSUME NEW op, Serving(op)
      PROVE  /\ calling = "command" /\ step \in Requests /\ RequestOf[step].op = op
             /\ inbox # <<>> /\ Tail(inbox) = <<>>
  <2>1. \A a : Tail(<<a>>) = <<>>
    OBVIOUS
  <2> QED BY <1>1, <2>1, ServedStep DEF Serving
<1>2. inbox' # <<>> => inbox # <<>>
  BY ServerFrame
<1>3. CASE ServeWrite \/ ServeNoApp \/ ServeRead \/ ServeStepOver \/ ServeSetX0 \/ ServeAllocate
  BY <1>2, <1>3
     DEF ServeWrite, ServeNoApp, ServeRead, ServeStepOver, ServeSetX0, ServeAllocate, appVars, history,
         AtSignal, PassedOn
<1>4. CASE ServeAttach
  <2>1. step = "attach" /\ lost' = lost
    BY <1>1, <1>4, Operations DEF ServeAttach, history
  <2> QED BY <2>1 DEF PassedOn
<1>5. CASE Resume
  <2>1. step = "resume" /\ inbox # <<>> /\ target = "stopped" /\ target' = "running"
    BY <1>1, <1>5, Operations DEF Resume, RunOn
  <2>2. AtSignal => ~reported
    BY <2>1 DEF PassedOn
  <2> QED BY <1>5, <2>1, <2>2 DEF Resume, DropSignal, PassedOn
<1>6. CASE ResumeWithSignal \/ KilledByTrap \/ AppDies
  BY <1>6 DEF ResumeWithSignal, RunOn, KilledByTrap, AppDies, history, PassedOn
<1>8. CASE ServeDetach
  <2>1. step = "detach" /\ target = "stopped"
    BY <1>1, <1>8, Operations DEF ServeDetach
  <2>2. ~AtSignal
    <3>1. stop = event /\ stop.code \in {"f00d", "68", "69"}
      BY <2>1 DEF Believed, AtRest, KnownCodes
    <3> QED BY <3>1 DEF AtSignal, Brks
  <2> QED BY <1>8, <2>1, <2>2 DEF ServeDetach, DropSignal, PassedOn
<1>7. ASSUME NEW e \in Stops, AppStops(e)
      PROVE  /\ lost' = lost
             /\ step = "resume" => calling = "command" /\ inbox' = <<>>
  <2>0. \A a : Tail(<<a>>) = <<>>
    OBVIOUS
  <2>1. target = "running" /\ inbox' = Tail(inbox) /\ lost' = lost
    BY <1>7 DEF AppStops, Runner!Reply, history
  <2>2. inbox # <<>> /\ Head(inbox) \in ScriptCommands
    BY <2>1 DEF Composed, Refines, Busy
  <2> QED BY <2>0, <2>1, <2>2, ServedStep
<1> QED BY <1>3, <1>4, <1>5, <1>6, <1>7, <1>8 DEF Server, PassedOn

-----------------------------------------------------------------------------
(* Steps of a script.                                                       *)

\* A script leaves the app to the debug server, and an error it records stays.
LEMMA ScriptFrame ==
  ASSUME Composed, Script
  PROVE  /\ UNCHANGED <<appVars, history, script>>
         /\ executionError' = "none" => executionError = "none"
         /\ executionError' = "none" => ~(SendCommandFails \/ ReceiveReplyFails \/ ScriptThrows)
<1>1. UNCHANGED <<appVars, history, script>>
  BY DEF Script, LoadScript, SendCommand, SendCommandFails, ReceiveReply, ReceiveReplyFails,
         PrepareMemoryRegion, ScriptThrows, ScriptEnds, scriptVars, Continue
<1>2. executionError' = "none" => executionError = "none"
  BY DEF Script, LoadScript, SendCommand, SendCommandFails, ReceiveReply, ReceiveReplyFails,
         PrepareMemoryRegion, ScriptThrows, ScriptEnds, Runner!LoadScript, Runner!SendCommand,
         Runner!SendCommandFails,
         Runner!ReceiveReply, Runner!ReceiveReplyFails, Runner!BeginPrepare, Runner!SendBatch,
         Runner!SendBatchFails, Runner!ReadResponse, Runner!ReadResponseFails, Runner!ScriptThrows,
         Runner!ScriptEnds, Runner!CallFails, Runner!RecordExecutionError
<1>3. ScriptThrows => executionError' # "none"
  BY DEF ScriptThrows, Runner!ScriptThrows, Runner!RecordExecutionError
<1>4. SendCommandFails \/ ReceiveReplyFails => executionError' # "none"
  BY FailureIsRecorded
     DEF SendCommandFails, ReceiveReplyFails, Runner!SendCommandFails, Runner!ReceiveReplyFails, Composed
<1> QED BY <1>1, <1>2, <1>3, <1>4

LEMMA ScriptPaired ==
  ASSUME Composed, Composed', Paired, Script
  PROVE  Paired'
<1> SUFFICES ASSUME executionError = "none", executionError' = "none" PROVE Paired'
  BY ScriptFrame DEF Paired
<1>1. CASE LoadScript \/ ScriptEnds
  <2>1. UNCHANGED <<calling, inbox, replies, step, stop, address, target, event, reported>>
    BY <1>1, ScriptFrame DEF LoadScript, ScriptEnds, Runner!LoadScript, Runner!ScriptEnds,
                             Runner!channel, scriptVars, appVars
  <2> QED BY <2>1 DEF Paired, Asked, Said, Says, RequestOf, Runner!Writes
<1>2. CASE SendCommand
  <2>1. /\ calling = "nothing" /\ calling' = "command" /\ replies' = replies
        /\ inbox' = Append(inbox, RequestOf[step]) /\ UNCHANGED <<step, stop, address>>
    BY <1>2 DEF SendCommand, Runner!SendCommand, Runner!Scripting, scriptVars
  <2>2. inbox' = <<RequestOf[step]>> /\ replies' = <<>> /\ RequestOf' = RequestOf
    BY <2>1 DEF Paired, RequestOf
  <2> QED BY <2>1, <2>2 DEF Paired, Asked
<1>3. CASE ReceiveReply
  <2>1. calling = "command" /\ replies # <<>> /\ calling' = "nothing" /\ inbox' = inbox
          /\ replies' = Tail(replies)
    BY <1>3 DEF ReceiveReply, Runner!ReceiveReply
  <2>2. Said
    BY <2>1 DEF Paired, Asked
  <2>3. \A r : Tail(<<r>>) = <<>>
    OBVIOUS
  <2> QED BY <2>1, <2>2, <2>3 DEF Paired, Said
<1>4. CASE PrepareMemoryRegion
  <2>1. CASE calling' \in {"nothing", "send"}
    <3>1. Runner!InFlight' = 0 /\ inbox' \in Seq(ScriptCommands \cup Runner!Writes)
            /\ replies' \in Seq(ServerReplies)
      <4>1. Runner!InFlight' = 0
        BY <2>1 DEF Composed, Runner!AnswersMatch, Runner!Awaited
      <4>2. Runner!Writes' = Runner!Writes
        BY DEF Runner!Writes
      <4> QED BY <4>1, <4>2 DEF Composed, Runner!TypeOK
    <3>2. Len(inbox') + Len(replies') = 0
      BY <3>1 DEF Runner!InFlight
    <3>3. inbox' = <<>> /\ replies' = <<>>
      BY <3>1, <3>2
    <3> QED BY <2>1, <3>3 DEF Paired
  <2>2. CASE calling' = "read"
    <3>1. CASE Runner!SendBatch
      <4>1. Runner!BatchCommands \in Seq(Runner!Writes) /\ inbox' = inbox \o Runner!BatchCommands
        BY <3>1, BatchType DEF Runner!SendBatch, Composed
      <4>2. Len(inbox) = 0 /\ inbox \in Seq(ScriptCommands \cup Runner!Writes)
        <5>1. Runner!InFlight = 0
          BY <3>1 DEF Runner!SendBatch, Composed, Runner!AnswersMatch, Runner!Awaited
        <5> QED BY <5>1, InFlightType DEF Composed, Runner!InFlight, Runner!TypeOK
      <4>3. inbox' = Runner!BatchCommands
        <5>1. inbox = <<>>
          BY <4>2
        <5>2. \A t \in Seq(Runner!Writes) : <<>> \o t = t
          OBVIOUS
        <5> QED BY <4>1, <5>1, <5>2
      <4>4. \A i \in 1 .. Len(Runner!BatchCommands) : Runner!BatchCommands[i] \in Runner!Writes
        BY <4>1
      <4>5. \A i \in 1 .. Len(inbox') : inbox'[i] \in Runner!Writes
        BY <4>3, <4>4
      <4> QED BY <2>2, <4>5 DEF Paired, Runner!Writes
    <3>2. CASE Runner!ReadResponse
      BY <2>2, <3>2 DEF Runner!ReadResponse, Paired, Runner!Writes
    <3>3. ~Runner!SendBatchFails /\ ~Runner!ReadResponseFails /\ \A r : ~Runner!BeginPrepare(r)
      BY <2>2 DEF Runner!SendBatchFails, Runner!ReadResponseFails, Runner!CallFails, Runner!BeginPrepare,
                  Runner!Scripting
    <3> QED BY <1>4, <3>1, <3>2, <3>3 DEF PrepareMemoryRegion
  <2>3. calling' # "command"
    BY <1>4 DEF PrepareMemoryRegion, Composed, Refines, Calling, Requests, AfterPrepare, Runner!BeginPrepare,
                Runner!Scripting, Runner!SendBatch, Runner!SendBatchFails, Runner!ReadResponse,
                Runner!ReadResponseFails, Runner!CallFails
  <2> QED BY <2>1, <2>2, <2>3 DEF Composed, Refines, Calling
<1> QED BY <1>1, <1>2, <1>3, <1>4, ScriptFrame DEF Script

\* Where an answer leads.
LEMMA Continuing ==
  ASSUME Arguments, step \in Requests, NEW reply, Continue(reply)
  PROVE  /\ step' # "attach"
         /\ step # "resume" => stop' = stop
         /\ step' = "fetch" => step = "resume" /\ reply \in StopReplies /\ stop' = reply.stop
         /\ step' \in AtRest \ {"fetch"} =>
              step \in AtRest \ {"fetch"} \/ (step = "fetch" /\ reply \in [memory : KnownCodes])
         /\ step' = "done" => step = "detach"
         /\ script = "universal" /\ step' = "resume" =>
              \/ step \in {"attach", "signal"} \cup (AtRest \ {"fetch"})
              \/ step = "fetch" /\ reply \in [memory : {"brk"}]
              \/ step = "resume" /\ reply \notin StopReplies
<1> USE DEF Continue, AtRest
<1>1. step # "resume" => stop' = stop
  BY DEF ParsedStop
<1>2. CASE script = "legacy"
  <2>1. step' = AfterLegacyReply(reply)
    BY <1>2 DEF AfterReply
  <2>2. CASE step = "resume"
    BY <1>2, <2>1, <2>2 DEF AfterLegacyReply, ParsedStop
  <2>3. CASE step = "fetch"
    <3>1. step' \in {"throw", "prepare", "resume"} /\ (step' = "prepare" => reply \in [memory : {"69", "like69"}])
      BY <2>1, <2>3 DEF AfterLegacyReply
    <3> QED BY <1>1, <1>2, <2>3, <3>1 DEF KnownCodes
  <2>4. CASE step \notin {"resume", "fetch"}
    <3>1. step' \in {"detach", "done", "resume"} /\ (step' = "detach" <=> step = "advance")
           /\ (step' = "done" <=> step = "detach")
      BY <2>1, <2>4 DEF AfterLegacyReply
    <3> QED BY <1>1, <1>2, <2>4, <3>1
  <2> QED BY <2>2, <2>3, <2>4
<1>3. CASE script = "universal"
  <2>1. step' = AfterUniversalReply(reply)
    BY <1>3 DEF AfterReply
  <2>2. CASE step = "resume"
    BY <2>1, <2>2 DEF AfterUniversalReply, ParsedStop
  <2>3. CASE step = "fetch"
    <3>1. step' = AfterFetch(reply)
      BY <2>1, <2>3 DEF AfterUniversalReply
    <3>2. /\ AfterFetch(reply) = "advance" => reply \in [memory : KnownCodes]
          /\ AfterFetch(reply) = "resume" => reply \in [memory : {"brk"}]
      BY <1>3 DEF AfterFetch, KnownCodes
    <3> QED BY <1>1, <2>3, <3>1, <3>2, AfterFetchSteps
  <2>4. CASE step = "advance"
    BY <1>1, <2>1, <2>4, DispatchSteps DEF AfterUniversalReply
  <2>5. CASE step = "refetch"
    <3>1. step' \in {"throw", "readText", "resume", "allocate", "prepare"}
      BY <2>1, <2>5, PrepareRegionSteps DEF AfterUniversalReply, AfterRefetch
    <3> QED BY <1>1, <2>5, <3>1
  <2>6. CASE step = "allocate"
    BY <1>1, <2>1, <2>6, AfterAllocateSteps DEF AfterUniversalReply
  <2>7. CASE step \notin {"resume", "fetch", "advance", "refetch", "allocate"}
    <3>1. step' = IF step = "detach" THEN "done" ELSE "resume"
      BY <2>1, <2>7 DEF AfterUniversalReply
    <3> QED BY <1>1, <2>7, <3>1 DEF Requests
  <2> QED BY <2>2, <2>3, <2>4, <2>5, <2>6, <2>7
<1> QED BY <1>2, <1>3 DEF Arguments

\* What a script has when it receives an answer.
LEMMA Received ==
  ASSUME Composed, Paired, executionError = "none", ReceiveReply
  PROVE  /\ Continue(Head(replies)) /\ Says(Head(replies)) /\ step \in Requests
         /\ target # "running" /\ calling' = "nothing"
<1>1. calling = "command" /\ replies # <<>> /\ Continue(Head(replies)) /\ calling' = "nothing"
  BY DEF ReceiveReply, Runner!ReceiveReply
<1>2. Said
  BY <1>1 DEF Paired, Asked
<1>3. \A r : Head(<<r>>) = r
  OBVIOUS
<1> QED BY <1>1, <1>2, <1>3 DEF Said, Composed, Refines, Busy, Calling

LEMMA ScriptBelieved ==
  ASSUME Composed, Paired, Believed, Script
  PROVE  Believed'
<1> SUFFICES ASSUME executionError = "none", executionError' = "none" PROVE Believed'
  BY ScriptFrame DEF Believed
<1>1. UNCHANGED <<target, event>> /\ KnownCodes' = KnownCodes
  BY ScriptFrame DEF appVars, KnownCodes
<1>2. CASE LoadScript \/ ScriptEnds \/ SendCommand
  BY <1>1, <1>2 DEF LoadScript, ScriptEnds, SendCommand, scriptVars, Believed, Runner!LoadScript,
                    Runner!ScriptEnds, Runner!SendCommand
<1>3. CASE ReceiveReply
  <2> DEFINE r == Head(replies)
  <2>1. Continue(r) /\ Says(r) /\ step \in Requests /\ target # "running" /\ Arguments
    BY <1>3, Received DEF Composed, Refines
  <2>2. target' = "stopped" /\ step' \in AtRest => stop' = event'
    <3> SUFFICES ASSUME target = "stopped", step' \in AtRest PROVE stop' = event
      BY <1>1
    <3>1. CASE step' = "fetch"
      <4>1. step = "resume" /\ r \in StopReplies /\ stop' = r.stop
        BY <2>1, <3>1, Continuing
      <4>2. r = [stop |-> event]
        BY <2>1, <4>1 DEF Says
      <4> QED BY <4>1, <4>2
    <3>2. CASE step' # "fetch"
      <4>1. step \in AtRest /\ stop' = stop
        BY <2>1, <3>2, Continuing DEF AtRest
      <4> QED BY <4>1 DEF Believed
    <3> QED BY <3>1, <3>2
  <2>3. step' \in AtRest \ {"fetch"} => stop'.code \in KnownCodes
    <3> SUFFICES ASSUME step' \in AtRest \ {"fetch"} PROVE stop'.code \in KnownCodes
      OBVIOUS
    <3>1. CASE step \in AtRest \ {"fetch"}
      <4>1. stop' = stop
        BY <2>1, <3>1, Continuing DEF AtRest
      <4> QED BY <3>1, <4>1 DEF Believed
    <3>2. CASE step = "fetch" /\ r \in [memory : KnownCodes]
      <4>1. stop' = stop /\ r \in {[memory |-> stop.code], Refused}
        BY <2>1, <3>2, Continuing DEF Says
      <4>2. Refused \notin [memory : KnownCodes]
        BY UniversalAssumption DEF MemoryReplies, Codes, Brks, KnownCodes
      <4> QED BY <3>2, <4>1, <4>2
    <3> QED BY <2>1, <3>1, <3>2, Continuing
  <2>4. step' # "attach"
    BY <2>1, Continuing
  <2>5. step' = "done" => target \in {"free", "gone"} \/ answer' = Refused
    BY <1>3, <2>1, Continuing DEF Says, ReceiveReply, Runner!ReceiveReply
  <2> QED BY <1>1, <2>1, <2>2, <2>3, <2>4, <2>5 DEF Believed
<1>4. CASE PrepareMemoryRegion
  <2>1. step = "prepare" /\ step' \in {"prepare", "putX0", "advance"} /\ stop' = stop
    BY <1>4 DEF PrepareMemoryRegion, AfterPrepare
  <2> QED BY <1>1, <2>1 DEF Believed, AtRest
<1> QED BY <1>2, <1>3, <1>4, ScriptFrame DEF Script

LEMMA ScriptPassedOn ==
  ASSUME Composed, Paired, Believed, PassedOn, AppTypes, Script
  PROVE  PassedOn'
<1> SUFFICES ASSUME script = "universal", executionError = "none", executionError' = "none"
             PROVE  /\ "seen" \notin lost
                    /\ target = "stopped" /\ AtSignal /\ step' = "resume"
                         /\ (calling' # "command" \/ inbox' # <<>>) => ~reported
  BY ScriptFrame DEF PassedOn, AtSignal, appVars, history
<1>1. CASE LoadScript \/ ScriptEnds
  BY <1>1 DEF LoadScript, ScriptEnds, Runner!LoadScript, Runner!ScriptEnds, Runner!channel, scriptVars,
      PassedOn
<1>2. CASE SendCommand
  BY <1>2 DEF SendCommand, Runner!SendCommand, Runner!Scripting, scriptVars, PassedOn
<1>3. CASE ReceiveReply
  <2> DEFINE r == Head(replies)
  <2>1. Continue(r) /\ Says(r) /\ step \in Requests /\ Arguments
    BY <1>3, Received DEF Composed, Refines
  <2> SUFFICES ASSUME target = "stopped", AtSignal, step' = "resume" PROVE ~reported
    BY DEF PassedOn
  <2>2. CASE step = "attach"
    BY <2>2 DEF Believed, NoStop, AtSignal, Codes, Brks
  <2>3. CASE step = "signal"
    BY <2>1, <2>3 DEF Says
  <2>4. CASE step \in AtRest \ {"fetch"}
    BY <2>4 DEF Believed, AtSignal, Brks, KnownCodes, AtRest
  <2>5. CASE step = "fetch" /\ r \in [memory : {"brk"}]
    <3>1. r = [memory |-> stop.code] /\ stop = event
      BY <2>1, <2>5 DEF Says, Believed, AtRest
    <3> QED BY <2>5, <3>1 DEF AtSignal, Brks
  <2>6. CASE step = "resume" /\ r \notin StopReplies
    <3>1. r = [stop |-> event]
      BY <2>1, <2>6 DEF Says
    <3>2. event \in Stops
      BY DEF AppTypes, AtSignal, Codes, Brks, NoStop
    <3> QED BY <2>6, <3>1, <3>2 DEF StopReplies
  <2> QED BY <2>1, <2>2, <2>3, <2>4, <2>5, <2>6, Continuing
<1>4. CASE PrepareMemoryRegion
  BY <1>4 DEF PrepareMemoryRegion, AfterPrepare, PassedOn
<1> QED BY <1>1, <1>2, <1>3, <1>4, ScriptFrame DEF Script

-----------------------------------------------------------------------------
(* The end of a run, and the types of the app.                              *)

LEMMA EndedStep ==
  ASSUME Composed, Ended, [Next]_vars
  PROVE  Ended'
<1> SUFFICES ASSUME stage' = "finished" PROVE executionError' = "none" /\ step' = "done"
  BY DEF Ended
<1>1. CASE Script
  <2>1. CASE ScriptEnds
    BY <2>1 DEF ScriptEnds, Runner!ScriptEnds, scriptVars
  <2>2. CASE stage = "finished"
    <3>1. step = "done" /\ calling \notin {"command", "send", "read"}
      BY <2>2 DEF Ended, Composed, Refines, Calling, Requests
    <3>2. ~Runner!LoadScript /\ ~Runner!Scripting
      BY <2>2 DEF Runner!LoadScript, Runner!Scripting
    <3>3. ~ReceiveReply /\ ~ReceiveReplyFails
      BY <3>1 DEF ReceiveReply, ReceiveReplyFails, Runner!ReceiveReply, Runner!ReceiveReplyFails
    <3>4. ~SendCommand /\ ~SendCommandFails /\ ~PrepareMemoryRegion
      BY <3>1, Fields DEF SendCommand, SendCommandFails, PrepareMemoryRegion, Requests
    <3> QED BY <1>1, <3>2, <3>3, <3>4
            DEF Script, LoadScript, ScriptThrows, ScriptEnds, Runner!ScriptThrows, Runner!ScriptEnds
  <2>3. stage' = "finished" => stage = "finished" \/ ScriptEnds
    BY <1>1 DEF Script, LoadScript, SendCommand, SendCommandFails, ReceiveReply, ReceiveReplyFails,
            PrepareMemoryRegion, ScriptThrows, Runner!LoadScript, Runner!SendCommand, Runner!SendCommandFails,
            Runner!ReceiveReply, Runner!ReceiveReplyFails, Runner!BeginPrepare, Runner!SendBatch,
            Runner!SendBatchFails, Runner!ReadResponse, Runner!ReadResponseFails, Runner!ScriptThrows
  <2> QED BY <2>1, <2>2, <2>3
<1>2. CASE Server
  BY <1>2, ServerFrame DEF Ended
<1>3. CASE UNCHANGED vars
  BY <1>3 DEF vars, runnerVars, scriptVars, Ended
<1> QED BY <1>1, <1>2, <1>3 DEF Next, Returned

LEMMA AppTypesStep ==
  ASSUME Composed, AppTypes, [Next]_vars
  PROVE  AppTypes'
<1> USE DEF AppTypes
<1>1. CASE Script
  <2>1. UNCHANGED <<appVars, history, script>>
    BY <1>1, ScriptFrame
  <2>2. address' \in Nat
    <3>1. ASSUME NEW reply, Continue(reply)
          PROVE  address' \in Nat
      <4>1. stop.x0 % ScriptSpace \in Nat
        BY StopTypes, UniversalAssumption DEF Composed, Refines, Arguments
      <4>2. JitPageAddress(reply) \in {stop.x0 % ScriptSpace, FreshAddress, BogusAddress, address}
        BY DEF JitPageAddress, AddressReplies
      <4> QED BY <3>1, <4>1, <4>2, UniversalAssumption DEF Continue
    <3>2. UNCHANGED address \/ \E reply : Continue(reply)
      BY <1>1 DEF Script, LoadScript, SendCommand, SendCommandFails, ReceiveReply, ReceiveReplyFails,
                  PrepareMemoryRegion, ScriptThrows, ScriptEnds, scriptVars
    <3> QED BY <3>1, <3>2
  <2> QED BY <2>1, <2>2 DEF appVars, budget, history
<1>2. CASE Server
  <2>1. UNCHANGED <<script, address>>
    BY <1>2, ServerFrame
  <2>2. ReturnFromCall => granted' \subseteq [call : Stops, x0 : Nat]
    <3>1. AtBrk => event \in Stops
      BY DEF AtBrk, Brks, NoStop
    <3> QED BY <3>1 DEF ReturnFromCall
  <2>10. DropSignal => lost' \subseteq {"seen", "unseen"}
    BY DEF DropSignal
  <2>3. CASE ServeWrite \/ ServeNoApp \/ ServeRead
    BY <2>1, <2>3 DEF ServeWrite, ServeNoApp, ServeRead, appVars, budget, history
  <2>4. CASE ServeAttach \/ KilledByTrap \/ AppDies \/ ServeStepOver
    BY <2>1, <2>4 DEF ServeAttach, KilledByTrap, AppDies, ServeStepOver, budget, history
  <2>5. CASE Resume \/ ResumeWithSignal
    BY <2>1, <2>2, <2>10, <2>5 DEF Resume, ResumeWithSignal, RunOn, budget
  <2>6. ASSUME NEW e \in Stops, AppStops(e)
        PROVE  AppTypes'
    <3>1. e.x0 \in Nat
      BY StopTypes
    <3>2. calls' \in 0..MaxCalls /\ signals' \in 0..MaxSignals /\ x0' \in Nat
      BY <2>6, <3>1, UniversalAssumption DEF AppStops, budget
    <3>3. reported' \in BOOLEAN
      BY <2>6 DEF AppStops, Serving
    <3>4. target' = "stopped" /\ event' = e /\ advanced' = advanced /\ UNCHANGED history
      BY <2>6 DEF AppStops
    <3> QED BY <2>1, <3>2, <3>3, <3>4 DEF history
  <2>7. CASE ServeSetX0
    <3>1. Head(inbox).value \in Nat
      BY <2>7, CommandFields DEF ServeSetX0, Serving
    <3> QED BY <2>1, <2>7, <3>1 DEF ServeSetX0, budget, history
  <2>8. CASE ServeAllocate
    <3>1. Head(inbox).size \in Nat /\ FreshAddress \in Nat
      BY <2>8, CommandFields, UniversalAssumption DEF ServeAllocate, Serving
    <3> QED BY <2>1, <2>8, <3>1 DEF ServeAllocate, appVars, budget
  <2>9. CASE ServeDetach
    BY <2>1, <2>2, <2>10, <2>9 DEF ServeDetach, budget
  <2> QED BY <1>2, <2>3, <2>4, <2>5, <2>6, <2>7, <2>8, <2>9 DEF Server
<1>3. CASE UNCHANGED vars
  BY <1>3 DEF vars, scriptVars, appVars, budget, history
<1> QED BY <1>1, <1>2, <1>3 DEF Next, Returned

LEMMA AttachedInit ==
  Init => Attached
<1> SUFFICES ASSUME Init PROVE Attached
  OBVIOUS
<1>1. Paired /\ Believed /\ PassedOn /\ Ended
  BY DEF Init, Runner!Init, Paired, Believed, PassedOn, Ended, AtRest
<1>2. AppTypes
  <2>1. calls \in 0..MaxCalls /\ signals \in 0..MaxSignals
    BY UniversalAssumption DEF Init
  <2>2. {advanced, reported} \subseteq BOOLEAN
    BY DEF Init
  <2> QED BY <2>1, <2>2 DEF Init, AppTypes
<1> QED BY <1>1, <1>2 DEF Attached

LEMMA AttachedStep ==
  Composed /\ Composed' /\ Attached /\ [Next]_vars => Attached'
<1> SUFFICES ASSUME Composed, Composed', Attached, [Next]_vars PROVE Attached'
  OBVIOUS
<1>1. Ended' /\ AppTypes'
  BY EndedStep, AppTypesStep DEF Attached
<1>2. CASE Script
  BY <1>1, <1>2, ScriptPaired, ScriptBelieved, ScriptPassedOn DEF Attached
<1>3. CASE Server
  BY <1>1, <1>3, ServerPaired, ServerBelieved, ServerPassedOn DEF Attached
<1>4. CASE UNCHANGED vars
  BY <1>1, <1>4 DEF vars, runnerVars, scriptVars, appVars, history, Attached, Paired, Asked, Said,
                    Says, RequestOf, Runner!Writes, Believed, KnownCodes, PassedOn, AtSignal
<1> QED BY <1>2, <1>3, <1>4 DEF Next, Returned

LEMMA AttachedHolds ==
  Spec => [](Composed /\ Attached)
<1>1. Composed /\ Attached /\ [Next]_vars => (Composed /\ Attached)'
  BY ComposedStep, AttachedStep
<1> QED BY ComposedInit, AttachedInit, <1>1, PTL DEF Spec

-----------------------------------------------------------------------------
\* All variables of script, runner, debug server and app keep their types.
THEOREM ScriptTypeCorrect ==
  Spec => []TypeOK
<1>1. Composed /\ Attached => TypeOK
  BY Fields DEF Composed, Refines, Arguments, Attached, AppTypes, TypeOK, Steps
<1> QED BY <1>1, AttachedHolds, PTL

\* A run that reports success has let the app go, unless the debug server refused just
\* that: whichever script it ran, whatever the app called and whatever else failed.
THEOREM ReleasedCorrect ==
  Spec => []ReleasedUnlessRefused
<1>1. Attached => ReleasedUnlessRefused
  BY DEF Attached, Ended, Believed, ReleasedUnlessRefused
<1> QED BY <1>1, AttachedHolds, PTL

\* The registers a script acts on are those of the stop the app is still at.
THEOREM RegistersCorrect ==
  Spec => []RegistersAreFresh
<1>1. Attached => RegistersAreFresh
  BY DEF Attached, Believed, AtRest, RegistersAreFresh
<1> QED BY <1>1, AttachedHolds, PTL

\* No signal universal.js has looked at is dropped by a later `c`.
THEOREM SignalsCorrect ==
  Spec => []SeenSignalsDelivered
<1>1. Attached => SeenSignalsDelivered
  BY DEF Attached, PassedOn, SeenSignalsDelivered
<1> QED BY <1>1, AttachedHolds, PTL

-----------------------------------------------------------------------------
(* Script, debug server and app never all wait for each other.             *)

\* The runner reads only what is on its way (ScriptRunner's NoReadInVain, which is proved
\* again for the instance), and leaves a batch when it has read all of it.
Reading ==
  /\ Runner!NoReadInVain
  /\ calling = "read" => got < Runner!BatchSize

\* Requests on their way to the debug server.
Waits(op) == \E i \in 1 .. Len(inbox) : inbox[i].op = op

\* The attach is asked for once, before anything else.
Opening ==
  /\ step = "attach" /\ calling = "nothing" => inbox = <<>> /\ target = "free"
  /\ \A i \in 1 .. Len(inbox) : inbox[i].op = "vAttach" => i = 1 /\ target = "free"

\* An app made for legacy.js still has its calls or is at the brk of one, which legacy.js
\* steps over only when it lets the app go: nothing is resumed after that.
OneCall ==
  script = "legacy" =>
    /\ calls = MaxCalls \/ event \in LegacyCalls
    /\ ~Waits("vCont")
    /\ step \in Seeking => ~advanced /\ ~Waits("P20")
    /\ step \notin Seeking => ~Waits("c")
    /\ step = "fetch" => link = "up"

\* An app that runs reaches another stop ...
MayStop ==
  \E e \in Stops :
    \/ event = e
    \/ e \in SignalStops /\ signals > 0
    \/ e \in (IF script = "legacy" THEN LegacyCalls ELSE Calls) /\ calls > 0
    \/ e = DetachCall /\ script = "universal"

\* ... and the debug server can answer its next request.
MayServe ==
  /\ inbox # <<>>
  /\ Head(inbox).op = "vAttach" => target = "free" \/ RefusesAttach
  /\ target = "running" => Head(inbox).op \in {"c", "vCont"} /\ MayStop

\* While a script runs it has a step to make, or it waits for an answer that is there or
\* that the debug server, or the app, can give.
SessionGoesOn ==
  stage = "script" =>
    \/ calling = "nothing" /\ step \in Steps
    \/ calling = "send"
    \/ calling = "command" /\ (replies # <<>> \/ MayServe)
    \/ calling = "read" /\ got < Runner!BatchSize /\ (replies # <<>> \/ MayServe)

\* legacy.js waits for a brk 0x69: an app made for it makes a call.
MakesCalls == "legacy" \in Scripts => MaxCalls > 0 /\ LegacyCalls # {}

LEMMA BatchSent ==
  ASSUME Runner!TypeOK, Runner!BatchInside, Runner!SendBatch
  PROVE  Runner!BatchSize \in 1..CommandsPerBatch /\ Runner!BatchSize' = Runner!BatchSize
         /\ Len(inbox') = Len(inbox) + Runner!BatchSize
<1>1. /\ Runner!BatchSize \in 1..CommandsPerBatch
      /\ Runner!BatchCommands \in Seq(Runner!Writes) /\ Len(Runner!BatchCommands) = Runner!BatchSize
  BY BatchType DEF Runner!SendBatch
<1>2. Len(inbox') = Len(inbox) + Runner!BatchSize
  <2>1. /\ inbox \in Seq(ScriptCommands \cup Runner!Writes)
        /\ Runner!BatchCommands \in Seq(ScriptCommands \cup Runner!Writes)
    BY <1>1 DEF Runner!TypeOK
  <2>2. inbox' = inbox \o Runner!BatchCommands
    BY DEF Runner!SendBatch
  <2>3. Len(inbox \o Runner!BatchCommands) = Len(inbox) + Len(Runner!BatchCommands)
    BY <2>1, ConcatLength
  <2> QED BY <1>1, <2>2, <2>3
<1> QED BY <1>1, <1>2, BatchSizeStays DEF Runner!SendBatch

LEMMA ReadingStep ==
  ASSUME Runner!TypeOK, Runner!TypeOK', Runner!BatchInside, Reading, [Runner!Next]_(Runner!vars)
  PROVE  Reading'
<1> USE InFlightType
<1>a. Runner!InFlight \in Nat /\ Runner!InFlight' \in Nat
  BY DEF Runner!InFlight, Runner!TypeOK
<1>1. CASE UNCHANGED <<calling, Runner!locals, inbox, replies, link>>
  BY <1>1 DEF Reading, Runner!NoReadInVain, Runner!InFlight, Runner!Awaited, Runner!BatchSize,
              Runner!PageCount, Runner!locals
<1>2. CASE Runner!LoadScript \/ Runner!SendNothing \/ Runner!ScriptThrows \/ Runner!ScriptEnds
             \/ Runner!Returned \/ UNCHANGED Runner!vars
  BY <1>1, <1>2 DEF Runner!LoadScript, Runner!SendNothing, Runner!ScriptThrows, Runner!ScriptEnds,
                    Runner!Returned, Runner!vars, Runner!channel, Runner!locals
<1>3. ASSUME calling' \in {"nothing", "send"}
      PROVE  Reading'
  BY <1>a, <1>3 DEF Reading, Runner!NoReadInVain, Runner!Awaited
<1>4. CASE Runner!SendCommandFails \/ Runner!ReceiveReplyFails \/ Runner!SendBatchFails
             \/ Runner!ReadResponseFails
  BY <1>3, <1>4 DEF Runner!SendCommandFails, Runner!ReceiveReplyFails, Runner!SendBatchFails,
                    Runner!ReadResponseFails, Runner!CallFails
<1>5. ASSUME NEW c \in ScriptCommands, Runner!SendCommand(c)
      PROVE  Reading'
  <2>1. Len(inbox') = Len(inbox) + 1
    BY <1>5 DEF Runner!SendCommand, Runner!TypeOK
  <2> QED BY <1>5, <2>1 DEF Runner!SendCommand, Reading, Runner!NoReadInVain, Runner!InFlight,
                            Runner!Awaited
<1>6. CASE Runner!ReceiveReply
  BY <1>3, <1>6 DEF Runner!ReceiveReply
<1>7. ASSUME NEW r \in ScriptRegions, Runner!BeginPrepare(r)
      PROVE  Reading'
  BY <1>3, <1>7 DEF Runner!BeginPrepare, Runner!Scripting
<1>8. CASE Runner!SendBatch
  BY <1>8, BatchSent DEF Runner!SendBatch, Reading, Runner!NoReadInVain, Runner!InFlight, Runner!Awaited
<1>9. CASE Runner!ReadResponse
  <2>1. Runner!BatchSize \in Nat /\ got \in Nat
    BY <1>9, BatchType DEF Runner!ReadResponse, Runner!TypeOK
  <2>2. /\ Runner!BatchSize - got <= Runner!InFlight /\ Runner!InFlight' = Runner!InFlight - 1
        /\ link' = "up"
    BY <1>9 DEF Runner!ReadResponse, Reading, Runner!NoReadInVain, Runner!Awaited, Runner!InFlight
  <2>3. CASE got + 1 < Runner!BatchSize
    <3>1. calling' = "read" /\ got' = got + 1 /\ UNCHANGED <<region, batchStart>>
      BY <1>9, <2>1, <2>3 DEF Runner!ReadResponse
    <3>2. Runner!BatchSize' = Runner!BatchSize
      BY <3>1, BatchSizeStays
    <3> QED BY <1>a, <2>1, <2>2, <2>3, <3>1, <3>2 DEF Reading, Runner!NoReadInVain, Runner!Awaited
  <2>4. CASE got + 1 = Runner!BatchSize
    BY <1>3, <1>9, <2>1, <2>4 DEF Runner!ReadResponse
  <2> QED BY <1>9, <2>3, <2>4 DEF Runner!ReadResponse
<1>10. ASSUME NEW body, inbox # <<>>, Runner!Reply(body)
       PROVE  Reading'
  <2>1. Runner!InFlight' = Runner!InFlight
    BY <1>10 DEF Runner!Reply, Runner!InFlight
  <2>2. UNCHANGED <<calling, region, batchStart, got, link>>
    BY <1>10 DEF Runner!Reply, Runner!locals
  <2>3. Runner!BatchSize' = Runner!BatchSize
    BY <2>2, BatchSizeStays
  <2> QED BY <2>1, <2>2, <2>3 DEF Reading, Runner!NoReadInVain, Runner!Awaited
<1> QED
  BY <1>2, <1>4, <1>5, <1>6, <1>7, <1>8, <1>9, <1>10
     DEF Runner!Next, Runner!Runner, Runner!ServeWrite, Runner!ServeCommand

\* What a step of a script puts on the stream.
LEMMA ScriptInbox ==
  ASSUME Composed, Script
  PROVE  \/ UNCHANGED inbox
         \/ SendCommand /\ inbox' = Append(inbox, RequestOf[step]) /\ step \in Requests
         \/ step = "prepare" /\ \E t \in Seq(Runner!Writes) : inbox' = inbox \o t
<1>1. CASE SendCommand
  BY <1>1, Fields DEF SendCommand, Runner!SendCommand
<1>2. CASE PrepareMemoryRegion /\ (Runner!SendBatch \/ Runner!SendBatchFails)
  <2>1. Runner!BatchCommands \in Seq(Runner!Writes) /\ Len(Runner!BatchCommands) = Runner!BatchSize
    BY <1>2, BatchType DEF Runner!SendBatch, Runner!SendBatchFails, Composed
  <2>2. \A k \in 0..Runner!BatchSize : SubSeq(Runner!BatchCommands, 1, k) \in Seq(Runner!Writes)
    BY <2>1
  <2> QED BY <1>2, <2>1, <2>2 DEF PrepareMemoryRegion, Runner!SendBatch, Runner!SendBatchFails
<1> QED BY <1>1, <1>2
        DEF Script, LoadScript, SendCommandFails, ReceiveReply, ReceiveReplyFails, PrepareMemoryRegion,
            ScriptThrows, ScriptEnds, Runner!LoadScript, Runner!SendCommandFails, Runner!ReceiveReply,
            Runner!ReceiveReplyFails, Runner!BeginPrepare, Runner!ReadResponse, Runner!ReadResponseFails,
            Runner!ScriptThrows, Runner!ScriptEnds, Runner!channel

\* What is waiting afterwards.
LEMMA WaitsAfter ==
  ASSUME Composed, NEW op, op # "M"
  PROVE  /\ UNCHANGED inbox => (Waits(op)' <=> Waits(op))
         /\ inbox # <<>> /\ inbox' = Tail(inbox) => (Waits(op)' => Waits(op))
         /\ \A c \in ScriptCommands : inbox' = Append(inbox, c) => (Waits(op)' => Waits(op) \/ c.op = op)
         /\ \A t \in Seq(Runner!Writes) : inbox' = inbox \o t => (Waits(op)' => Waits(op))
<1>1. inbox \in Seq(ScriptCommands \cup Runner!Writes) /\ Len(inbox) \in Nat
  BY DEF Composed, Runner!TypeOK
<1>2. UNCHANGED inbox => (Waits(op)' <=> Waits(op))
  BY DEF Waits
<1>3. ASSUME inbox # <<>>, inbox' = Tail(inbox), Waits(op)' PROVE Waits(op)
  <2>1. PICK i \in 1 .. Len(inbox') : inbox'[i].op = op
    BY <1>3 DEF Waits
  <2>2. i + 1 \in 1 .. Len(inbox) /\ inbox'[i] = inbox[i + 1]
    BY <1>1, <1>3
  <2> QED BY <2>1, <2>2 DEF Waits
<1>4. ASSUME NEW c \in ScriptCommands, inbox' = Append(inbox, c), Waits(op)', c.op # op PROVE Waits(op)
  <2>1. PICK i \in 1 .. Len(inbox') : inbox'[i].op = op
    BY <1>4 DEF Waits
  <2>2. i \in 1 .. Len(inbox) /\ inbox'[i] = inbox[i]
    BY <1>1, <1>4, <2>1
  <2> QED BY <2>1, <2>2 DEF Waits
<1>5. ASSUME NEW t \in Seq(Runner!Writes), inbox' = inbox \o t, Waits(op)' PROVE Waits(op)
  <2>1. PICK i \in 1 .. Len(inbox') : inbox'[i].op = op
    BY <1>5 DEF Waits
  <2>2. Len(inbox') = Len(inbox) + Len(t) /\ Len(t) \in Nat
    BY <1>1, <1>5
  <2>3. CASE i \in 1 .. Len(inbox)
    BY <1>1, <1>5, <2>1, <2>3 DEF Waits
  <2>4. CASE i \notin 1 .. Len(inbox)
    <3>1. i - Len(inbox) \in 1 .. Len(t) /\ inbox'[i] = t[i - Len(inbox)]
      BY <1>1, <1>5, <2>1, <2>2, <2>4
    <3>2. t[i - Len(inbox)] \in Runner!Writes
      BY <3>1
    <3> QED BY <2>1, <3>1, <3>2 DEF Runner!Writes
  <2> QED BY <2>3, <2>4
<1> QED BY <1>2, <1>3, <1>4, <1>5

\* Only a request that waits can be served.
LEMMA ServedWaits ==
  ASSUME Composed, NEW op, Serving(op)
  PROVE  Waits(op)
<1>1. inbox \in Seq(ScriptCommands \cup Runner!Writes) /\ inbox # <<>> /\ Head(inbox).op = op
  BY DEF Composed, Runner!TypeOK, Serving
<1>2. 1 \in 1 .. Len(inbox) /\ inbox[1].op = op
  BY <1>1
<1> QED BY <1>2 DEF Waits

\* Nothing is left of a look for the brk but the request for the instruction.
LEMMA FetchAlone ==
  ASSUME Composed, OneCall, script = "legacy", step = "fetch"
  PROVE  inbox = <<>> \/ inbox = <<RequestOf["fetch"]>>
BY DEF Composed, Refines, Sought, Seeking, Asked, Answered, OneCall

LEMMA ScriptOneCall ==
  ASSUME Composed, OneCall, Script
  PROVE  OneCall'
<1> SUFFICES ASSUME script = "legacy" PROVE OneCall'
  BY ScriptFrame DEF OneCall
<1>1. UNCHANGED <<calls, event, advanced, script>> /\ step \in LegacySteps
  BY ScriptFrame DEF appVars, budget, Composed, Refines, Arguments
<1>2. calls' = MaxCalls \/ event' \in LegacyCalls
  BY <1>1 DEF OneCall
<1>3. ~Waits("vCont")'
  <2>1. step \in Requests => RequestOf[step] \in ScriptCommands /\ RequestOf[step].op # "vCont"
    BY <1>1, Operations, RequestTypes DEF Composed, Refines, LegacySteps, Seeking
  <2> QED BY <2>1, ScriptInbox, WaitsAfter DEF OneCall
<1>4. CASE LoadScript \/ SendCommand \/ ScriptThrows \/ ScriptEnds
  <2>1. UNCHANGED <<step, link>> /\ (UNCHANGED inbox \/ SendCommand)
    BY <1>4 DEF LoadScript, SendCommand, ScriptThrows, ScriptEnds, scriptVars, Runner!LoadScript,
                Runner!SendCommand, Runner!ScriptThrows, Runner!ScriptEnds, Runner!channel
  <2>2. CASE UNCHANGED inbox
    BY <1>1, <1>2, <1>3, <2>1, <2>2, WaitsAfter DEF OneCall
  <2>3. CASE SendCommand
    <3>1. step \in Requests /\ RequestOf[step] \in ScriptCommands /\ inbox' = Append(inbox, RequestOf[step])
      BY <2>3, Fields, RequestTypes DEF SendCommand, Runner!SendCommand, Composed, Refines
    <3>2. /\ step \in Seeking => RequestOf[step].op # "P20"
          /\ step \notin Seeking => RequestOf[step].op # "c"
      BY <3>1, Operations DEF Seeking
    <3> QED BY <1>1, <1>2, <1>3, <2>1, <3>1, <3>2, WaitsAfter DEF OneCall
  <2> QED BY <2>1, <2>2, <2>3
<1>5. CASE SendCommandFails \/ ReceiveReply \/ ReceiveReplyFails
  <2>1. UNCHANGED inbox /\ step \in Requests
    BY <1>5, Fields DEF SendCommandFails, ReceiveReply, ReceiveReplyFails, Runner!SendCommandFails,
                Runner!ReceiveReply, Runner!ReceiveReplyFails, Composed, Refines, Calling
  <2>2. PICK reply : Continue(reply) /\ (ReceiveReply \/ reply = Nothing)
    BY <1>5 DEF SendCommandFails, ReceiveReply, ReceiveReplyFails
  <2>3. step' = AfterLegacyReply(reply) /\ script' = script
    BY <2>2 DEF Continue, AfterReply
  <2>4. \A op : op # "M" => (Waits(op)' <=> Waits(op))
    BY <2>1, WaitsAfter
  <2>5. CASE step \in {"attach", "resume"}
    <3>1. step' \in {"resume", "fetch"} /\ (step' = "fetch" => ReceiveReply)
      <4>1. Nothing \notin StopReplies
        BY UniversalAssumption
      <4> QED BY <2>2, <2>3, <2>5, <4>1 DEF AfterLegacyReply
    <3>2. step' = "fetch" => link' = "up"
      BY <1>1, <2>5, <3>1 DEF ReceiveReply, Runner!ReceiveReply, Composed, Refines, Sought, Seeking
    <3> QED BY <1>1, <1>2, <1>3, <2>4, <2>5, <3>1, <3>2 DEF OneCall, Seeking
  <2>6. CASE step = "fetch"
    <3>1. step' \in {"resume", "throw", "prepare"}
      BY <2>3, <2>6 DEF AfterLegacyReply
    <3>2. ~Waits("c")
      <4>1. RequestOf["fetch"].op # "c"
        BY Fields
      <4>2. \A r : Len(<<r>>) = 1 /\ <<r>>[1] = r
        OBVIOUS
      <4> QED BY <2>6, <4>1, <4>2, FetchAlone DEF Waits
    <3> QED BY <1>1, <1>2, <1>3, <2>4, <2>6, <3>1, <3>2 DEF OneCall, Seeking
  <2>7. CASE step \in {"advance", "detach"}
    <3>1. step' \in {"detach", "done"}
      BY <2>3, <2>7 DEF AfterLegacyReply
    <3> QED BY <1>1, <1>2, <1>3, <2>4, <2>7, <3>1 DEF OneCall, Seeking
  <2> QED BY <1>1, <2>1, <2>5, <2>6, <2>7 DEF LegacySteps, Seeking, Requests
<1>6. CASE PrepareMemoryRegion
  <2>1. step = "prepare" /\ step' \in {"prepare", "advance"}
    BY <1>6 DEF PrepareMemoryRegion, AfterPrepare
  <2>2. ~Waits("c")'
    BY <2>1, ScriptInbox, WaitsAfter DEF OneCall, Seeking, Requests
  <2> QED BY <1>1, <1>2, <1>3, <2>1, <2>2 DEF OneCall, Seeking
<1> QED BY <1>4, <1>5, <1>6 DEF Script

LEMMA ServerOneCall ==
  ASSUME Composed, OneCall, Server
  PROVE  OneCall'
<1> SUFFICES ASSUME script = "legacy" PROVE OneCall'
  BY ServerFrame DEF OneCall
<1>1. /\ UNCHANGED <<script, step>>
      /\ UNCHANGED inbox \/ (inbox # <<>> /\ inbox' = Tail(inbox))
  BY ServerFrame
<1>2. UNCHANGED link
  BY ServerAnswers DEF Composed, runnerVars, Runner!ServeWrite, Runner!Reply
<1>3. \A op : op # "M" => (Waits(op)' => Waits(op))
  BY <1>1, WaitsAfter
<1>4. event \in LegacyCalls => AtBrk
  BY UniversalAssumption DEF AtBrk, Brks
<1>5. NoStop \notin LegacyCalls
  BY UniversalAssumption DEF NoStop
<1>6. (calls' = MaxCalls \/ event' \in LegacyCalls) /\ (step \in Seeking => ~advanced')
  <2>1. CASE ServeWrite \/ ServeAttach \/ KilledByTrap \/ AppDies \/ ServeNoApp \/ ServeRead \/ ServeSetX0
             \/ ServeAllocate \/ ServeDetach
    <3>1. UNCHANGED <<calls, event, advanced>>
      BY <2>1 DEF ServeWrite, ServeAttach, KilledByTrap, AppDies, ServeNoApp, ServeRead, ServeSetX0,
                  ServeAllocate, ServeDetach, appVars, budget
    <3> QED BY <3>1 DEF OneCall
  <2>2. CASE ServeStepOver
    <3>1. Waits("P20")
      BY <2>2, ServedWaits DEF ServeStepOver
    <3> QED BY <2>2, <3>1 DEF ServeStepOver, budget, OneCall
  <2>3. CASE Resume
    <3>1. Waits("c")
      BY <2>3, ServedWaits DEF Resume
    <3>2. ~advanced /\ calls' = calls /\ advanced' = FALSE /\ (AtBrk => event' = event)
      BY <2>3, <3>1 DEF Resume, RunOn, OneCall, budget
    <3> QED BY <1>4, <3>2 DEF OneCall
  <2>4. CASE ResumeWithSignal
    BY <2>4, ServedWaits DEF ResumeWithSignal, OneCall
  <2>5. ASSUME NEW e \in Stops, AppStops(e)
        PROVE  (calls' = MaxCalls \/ event' \in LegacyCalls) /\ (step \in Seeking => ~advanced')
    BY <1>5, <2>5 DEF AppStops, OneCall, budget
  <2> QED BY <2>1, <2>2, <2>3, <2>4, <2>5 DEF Server
<1> QED BY <1>1, <1>2, <1>3, <1>6 DEF OneCall

\* Steps of a script never go back to the attach.
LEMMA ScriptOpening ==
  ASSUME Composed, Opening, Script
  PROVE  Opening'
<1>1. UNCHANGED target
  BY ScriptFrame DEF appVars
<1>2. step' = "attach" => step = "attach" /\ (calling' = "nothing" => calling = "nothing" /\ UNCHANGED inbox)
  <2>1. CASE LoadScript \/ SendCommand \/ ScriptThrows \/ ScriptEnds
    BY <2>1 DEF LoadScript, SendCommand, ScriptThrows, ScriptEnds, scriptVars, Runner!LoadScript,
                Runner!SendCommand, Runner!ScriptThrows, Runner!ScriptEnds, Runner!channel
  <2>2. CASE SendCommandFails \/ ReceiveReply \/ ReceiveReplyFails
    <3>1. PICK reply : Continue(reply)
      BY <2>2 DEF SendCommandFails, ReceiveReply, ReceiveReplyFails
    <3>2. AfterReply(reply) # "attach"
      BY AfterFetchSteps, DispatchSteps, PrepareRegionSteps, AfterAllocateSteps
         DEF AfterReply, AfterLegacyReply, AfterUniversalReply, AfterRefetch
    <3> QED BY <3>1, <3>2 DEF Continue
  <2>3. CASE PrepareMemoryRegion
    BY <2>3 DEF PrepareMemoryRegion, AfterPrepare
  <2> QED BY <2>1, <2>2, <2>3 DEF Script
<1>3. ASSUME NEW i \in 1 .. Len(inbox'), inbox'[i].op = "vAttach" PROVE i = 1 /\ target = "free"
  <2>1. inbox \in Seq(ScriptCommands \cup Runner!Writes) /\ Len(inbox) \in Nat
    BY DEF Composed, Runner!TypeOK
  <2>2. i \in 1 .. Len(inbox) /\ inbox'[i] = inbox[i] => i = 1 /\ target = "free"
    BY <1>3 DEF Opening
  <2>3. CASE UNCHANGED inbox
    BY <2>2, <2>3
  <2>4. CASE SendCommand /\ inbox' = Append(inbox, RequestOf[step]) /\ step \in Requests
    <3>1. CASE i \in 1 .. Len(inbox)
      BY <2>1, <2>2, <2>4, <3>1
    <3>2. CASE i \notin 1 .. Len(inbox)
      <4>1. i = Len(inbox) + 1 /\ inbox'[i] = RequestOf[step]
        BY <2>1, <2>4, <3>2
      <4>2. step = "attach"
        BY <1>3, <2>4, <4>1, Operations
      <4>3. calling = "nothing"
        BY <2>4 DEF SendCommand, Runner!SendCommand, Runner!Scripting
      <4> QED BY <4>1, <4>2, <4>3 DEF Opening
    <3> QED BY <3>1, <3>2
  <2>5. ASSUME NEW t \in Seq(Runner!Writes), inbox' = inbox \o t PROVE i = 1 /\ target = "free"
    <3>1. CASE i \in 1 .. Len(inbox)
      BY <2>1, <2>2, <2>5, <3>1
    <3>2. CASE i \notin 1 .. Len(inbox)
      <4>1. i - Len(inbox) \in 1 .. Len(t) /\ inbox'[i] = t[i - Len(inbox)]
        BY <2>1, <2>5, <3>2
      <4>2. t[i - Len(inbox)] \in Runner!Writes
        BY <4>1
      <4> QED BY <1>3, <4>1, <4>2 DEF Runner!Writes
    <3> QED BY <3>1, <3>2
  <2> QED BY <2>3, <2>4, <2>5, ScriptInbox
<1> QED BY <1>1, <1>2, <1>3 DEF Opening

LEMMA ServerOpening ==
  ASSUME Composed, Opening, Server
  PROVE  Opening'
<1>1. /\ UNCHANGED <<step, calling>>
      /\ UNCHANGED inbox \/ (inbox # <<>> /\ inbox' = Tail(inbox))
  BY ServerFrame
<1>2. inbox \in Seq(ScriptCommands \cup Runner!Writes) /\ Len(inbox) \in Nat
  BY DEF Composed, Runner!TypeOK
\* Nothing is served while the script has not asked, and what is left is no attach.
<1>3. CASE inbox # <<>> /\ inbox' = Tail(inbox)
  <2>1. ~(step = "attach" /\ calling = "nothing")
    BY <1>3 DEF Opening
  <2>2. \A i \in 1 .. Len(inbox') : inbox'[i].op # "vAttach"
    <3>1. ASSUME NEW i \in 1 .. Len(inbox') PROVE inbox'[i].op # "vAttach"
      <4>1. i + 1 \in 1 .. Len(inbox) /\ inbox'[i] = inbox[i + 1] /\ i + 1 # 1
        BY <1>2, <1>3
      <4> QED BY <4>1 DEF Opening
    <3> QED BY <3>1
  <2> QED BY <1>1, <2>1, <2>2 DEF Opening
<1>4. CASE UNCHANGED inbox
  <2>1. target = "free" => target' = "free"
    <3> SUFFICES ASSUME target = "free", target' # "free" PROVE FALSE
      OBVIOUS
    <3>1. ServeAttach
      BY DEF Server, ServeWrite, Resume, ResumeWithSignal, RunOn, KilledByTrap, AppStops, AppDies,
             ServeNoApp, ServeRead, ServeStepOver, ServeSetX0, ServeAllocate, ServeDetach, appVars
    <3>2. inbox # <<>> /\ inbox' = Tail(inbox)
      BY <3>1 DEF ServeAttach, Serving, Runner!Reply
    <3> QED BY <1>2, <1>4, <3>2
  <2> QED BY <1>1, <1>4, <2>1 DEF Opening
<1> QED BY <1>1, <1>3, <1>4

GoingOn == Reading /\ Opening /\ OneCall

LEMMA GoingOnInit ==
  Init => GoingOn
<1> SUFFICES ASSUME Init PROVE GoingOn
  OBVIOUS
<1>1. Reading /\ Opening
  BY DEF Init, Runner!Init, Reading, Runner!NoReadInVain, Runner!Awaited, Runner!InFlight, Opening
<1>2. OneCall
  BY DEF Init, Runner!Init, OneCall, Waits, Seeking
<1> QED BY <1>1, <1>2 DEF GoingOn

LEMMA GoingOnStep ==
  Composed /\ Composed' /\ GoingOn /\ [Next]_vars => GoingOn'
<1> SUFFICES ASSUME Composed, Composed', GoingOn, [Next]_vars PROVE GoingOn'
  OBVIOUS
<1>1. Reading'
  BY ReadingStep, ComposedStep DEF Composed, GoingOn
<1>2. CASE Script
  BY <1>1, <1>2, ScriptOneCall, ScriptOpening DEF GoingOn
<1>3. CASE Server
  BY <1>1, <1>3, ServerOneCall, ServerOpening DEF GoingOn
<1>4. CASE UNCHANGED vars
  BY <1>1, <1>4 DEF vars, runnerVars, scriptVars, appVars, budget, GoingOn, Opening, OneCall, Waits
<1> QED BY <1>2, <1>3, <1>4 DEF Next, Returned

\* Whatever fails, is refused or is signalled: while a script runs it can make a step, or
\* what it waits for is there, or the debug server or the app can provide it.
THEOREM SessionsGoOn ==
  ASSUME MakesCalls
  PROVE  Spec => []SessionGoesOn
<1>1. Composed /\ Attached /\ GoingOn => SessionGoesOn
  <2> SUFFICES ASSUME Composed, Attached, GoingOn, stage = "script" PROVE SessionGoesOn
    BY DEF SessionGoesOn
  <2>1. calling \in {"nothing", "command", "send", "read"} /\ step \in Steps
    BY DEF Composed, Refines, Calling, Arguments
  <2>2. target = "running" => MayStop
    <3> SUFFICES ASSUME target = "running" PROVE MayStop
      OBVIOUS
    <3>1. event \in Stops \cup {NoStop} /\ script \in Scripts
      BY DEF Attached, AppTypes
    <3>2. CASE event \in Stops
      BY <3>2 DEF MayStop
    <3>3. CASE event = NoStop /\ script = "universal"
      BY <3>3 DEF MayStop, Stops
    <3>4. CASE event = NoStop /\ script = "legacy"
      <4>1. NoStop \notin LegacyCalls
        BY UniversalAssumption DEF NoStop
      <4>2. calls = MaxCalls
        BY <3>4, <4>1 DEF GoingOn, OneCall
      <4>3. calls > 0 /\ LegacyCalls # {}
        BY <3>1, <3>4, <4>2 DEF MakesCalls
      <4> QED BY <3>4, <4>3 DEF MayStop, Stops
    <3> QED BY <3>1, <3>2, <3>3, <3>4, UniversalAssumption
  <2>3. inbox # <<>> => MayServe
    <3> SUFFICES ASSUME inbox # <<>> PROVE MayServe
      OBVIOUS
    <3>1. 1 \in 1 .. Len(inbox) /\ Head(inbox) = inbox[1]
      BY DEF Composed, Runner!TypeOK
    <3>2. Head(inbox).op = "vAttach" => target = "free"
      BY <3>1 DEF GoingOn, Opening
    <3>3. target = "running" => Head(inbox).op \in {"c", "vCont"}
      BY DEF Composed, Refines, Busy
    <3> QED BY <2>2, <3>2, <3>3 DEF MayServe
  <2>4. Runner!Awaited <= Len(inbox) + Len(replies)
    BY DEF GoingOn, Reading, Runner!NoReadInVain, Runner!InFlight
  <2>5. inbox = <<>> /\ replies = <<>> => Runner!Awaited <= 0
    BY <2>4
  <2>6. CASE calling = "command"
    <3>1. Runner!Awaited = 1
      BY <2>6 DEF Runner!Awaited
    <3> QED BY <2>3, <2>5, <2>6, <3>1 DEF SessionGoesOn
  <2>7. CASE calling = "read"
    <3>1. got < Runner!BatchSize /\ got \in Nat /\ Runner!BatchSize \in Nat
      BY <2>7, BatchType DEF GoingOn, Reading, Composed, Runner!TypeOK
    <3>2. Runner!Awaited = Runner!BatchSize - got
      BY <2>7 DEF Runner!Awaited
    <3>3. inbox # <<>> \/ replies # <<>>
      BY <2>5, <3>1, <3>2
    <3> QED BY <2>3, <2>7, <3>1, <3>3 DEF SessionGoesOn
  <2> QED BY <2>1, <2>6, <2>7 DEF SessionGoesOn
<1>2. Composed /\ Attached /\ GoingOn /\ [Next]_vars => (Composed /\ Attached /\ GoingOn)'
  BY ComposedStep, AttachedStep, GoingOnStep
<1> QED BY <1>1, <1>2, ComposedInit, AttachedInit, GoingOnInit, PTL DEF Spec

=============================================================================
