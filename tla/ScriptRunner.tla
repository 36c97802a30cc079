---------------------------- MODULE ScriptRunner ----------------------------
(***************************************************************************)
(* ScriptRunner.run and the two debug-proxy calls it hands to a JIT        *)
(* script: send_command and prepare_memory_region.  The script itself is   *)
(* left open here (a .custom script may make any calls); the bundled       *)
(* scripts are those of JITScripts.tla, which implements this module.      *)
(*                                                                         *)
(* The debug proxy is a byte stream in each direction to a debug server    *)
(* that answers requests one at a time and in order.  A request is an      *)
(* element of inbox from the moment it is written until the server has     *)
(* answered it, a reply an element of replies until it is read.            *)
(***************************************************************************)
EXTENDS Integers, Sequences

CONSTANTS
  JitPageSize,       \* bytes blessed by one write command
  CommandsPerBatch,  \* write commands sent before their replies are read
  WireSpace,         \* first address the nine hex digits of a write cannot hold
  Commands,          \* what the script may pass to send_command
  Bodies,            \* what the debug server may reply
  OK, Refused, Nothing, \* "OK", an "Exx" reply, and the empty string
  Regions,           \* [address, length] the script may ask to prepare
  RefusesWrites,     \* may the debug server refuse a write?
  MaxFaults          \* bound: FFI calls that fail on their own account

Writes == [op : {"M"}, at : Nat]

ASSUME ScriptRunnerAssumption ==
  /\ {JitPageSize, CommandsPerBatch, WireSpace} \subseteq Nat \ {0}
  /\ \A r \in Regions : r \in [address : Nat, length : Nat]
  /\ \A c \in Commands : c \notin Writes
  /\ {OK, Refused, Nothing} \subseteq Bodies
  /\ OK # Nothing
  /\ RefusesWrites \in BOOLEAN
  /\ MaxFaults \in Nat

VARIABLES
  stage,           \* where run() is: load, script, finished, threw
  calling,         \* what the script is blocked in: nothing, command, send, read
  region,          \* the region of the latest prepare_memory_region call
  batchStart,      \* batchStart of its loop over batches
  got,             \* responses read in the current batch
  answer,          \* what the latest call gave back to the script
  executionError,  \* none, or the first error recorded
  prepared,        \* history: the regions for which a call answered "OK"
  inbox, replies,  \* the two directions of the debug proxy
  link,            \* up, or down once a call has met a broken stream
  written,         \* addresses the debug server has written
  faults           \* faults left

locals   == <<region, batchStart, got>>
channel  == <<inbox, replies, link, faults>>
vars     == <<stage, calling, locals, answer, executionError, prepared,
              channel, written>>

-----------------------------------------------------------------------------
(* The arithmetic of prepareMemoryRegion and makeBlessCommands.            *)

PageCount(length) == ((length - 1) \div JitPageSize) + 1

BatchSizeAll == PageCount(region.length) - batchStart

BatchSize ==
  LET left == PageCount(region.length) - batchStart
  IN  IF left < CommandsPerBatch THEN left ELSE CommandsPerBatch

\* A command holds the low nine hex digits of its page's address.
WriteAddressUnscaled(r, page) == (r.address + page) % WireSpace

WriteAddress(r, page) == (r.address + page * JitPageSize) % WireSpace

WriteCommand(page) == [op |-> "M", at |-> WriteAddress(region, page)]

BatchCommands == [i \in 1..BatchSize |-> WriteCommand(batchStart + i - 1)]

-----------------------------------------------------------------------------
Init ==
  /\ stage = "load" /\ calling = "nothing"
  /\ region = [address |-> 0, length |-> 0] /\ batchStart = 0 /\ got = 0
  /\ answer = Nothing /\ executionError = "none" /\ prepared = {}
  /\ inbox = <<>> /\ replies = <<>> /\ link = "up" /\ faults = MaxFaults
  /\ written = {}

\* BundledScript.source gives the text, or throws before anything is sent.
LoadScript ==
  /\ stage = "load"
  /\ stage' \in {"script", "threw"}
  /\ UNCHANGED <<calling, locals, answer, executionError, prepared, channel, written>>

\* The script has control: JavaScriptCore is between two calls of it.
Scripting == stage = "script" /\ calling = "nothing"

RecordExecutionError(e) == IF executionError = "none" THEN e ELSE executionError

CallFailsSilently ==
  /\ calling' = "nothing" /\ answer' = Nothing
  /\ UNCHANGED executionError

CallFailsUndefined ==
  /\ calling' = "nothing" /\ answer' = "undefined"
  /\ executionError' = RecordExecutionError("device")

\* An FFI call returned an error: record it, give the script "".
CallFails ==
  /\ calling' = "nothing" /\ answer' = Nothing
  /\ executionError' = RecordExecutionError("device")

\* The stream breaks under a call, or was broken before it.
LinkLost ==
  /\ link = "down" \/ faults > 0
  /\ link' = "down"
  /\ faults' = IF link = "down" THEN faults ELSE faults - 1

\* A reply arrives but cannot be decoded; the stream stays usable.
ReplyGarbled ==
  /\ faults > 0 /\ faults' = faults - 1
  /\ replies # <<>> /\ replies' = Tail(replies)
  /\ UNCHANGED link

ReadFails == (LinkLost /\ UNCHANGED replies) \/ ReplyGarbled

-----------------------------------------------------------------------------
(* send_command: write one request, then block for one reply.              *)

SendCommand(cmd) ==
  /\ Scripting /\ link = "up"
  /\ calling' = "command"
  /\ inbox' = Append(inbox, cmd)
  /\ UNCHANGED <<stage, locals, answer, executionError, prepared, replies, link,
                 faults, written>>

\* No command, or none that can be encoded: "" and nothing else.
SendNothing ==
  /\ Scripting /\ answer' = Nothing
  /\ UNCHANGED <<stage, calling, locals, executionError, prepared, channel, written>>

SendCommandFails ==
  /\ Scripting /\ LinkLost /\ CallFails
  /\ UNCHANGED <<stage, locals, prepared, inbox, replies, written>>

ReceiveReply ==
  /\ calling = "command" /\ replies # <<>>
  /\ calling' = "nothing"
  /\ answer' = Head(replies) /\ replies' = Tail(replies)
  /\ UNCHANGED <<stage, locals, executionError, prepared, inbox, link, faults, written>>

ReceiveReplyFails ==
  /\ calling = "command" /\ ReadFails /\ CallFails
  /\ UNCHANGED <<stage, locals, prepared, inbox, written>>

-----------------------------------------------------------------------------
(* prepare_memory_region: batches of writes, each followed by its replies. *)

BeginPrepareUnguarded(r) ==
  /\ Scripting
  /\ region' = r /\ batchStart' = 0 /\ got' = 0 /\ calling' = "send"
  /\ UNCHANGED <<stage, answer, executionError, prepared, channel, written>>

BeginPrepare(r) ==
  /\ Scripting
  /\ region' = r /\ batchStart' = 0 /\ got' = 0
  /\ IF r.length > 0
     THEN calling' = "send" /\ UNCHANGED <<answer, prepared>>
     ELSE answer' = OK /\ prepared' = prepared \cup {r} /\ UNCHANGED calling
  /\ UNCHANGED <<stage, executionError, channel, written>>

SendBatch ==
  /\ calling = "send" /\ link = "up"
  /\ calling' = "read" /\ got' = 0
  /\ inbox' = inbox \o BatchCommands
  /\ UNCHANGED <<stage, region, batchStart, answer, executionError, prepared,
                 replies, link, faults, written>>

SendBatchFailsUnnoticed ==
  /\ calling = "send" /\ LinkLost /\ calling' = "read"
  /\ UNCHANGED <<stage, locals, answer, executionError, prepared, inbox, replies, written>>

\* Only the first k commands got out before the stream broke.
SendBatchFails ==
  /\ calling = "send" /\ LinkLost /\ CallFails
  /\ \E k \in 0..BatchSize :
       /\ link = "down" => k = 0
       /\ inbox' = inbox \o SubSeq(BatchCommands, 1, k)
  /\ UNCHANGED <<stage, locals, prepared, replies, written>>

\* The content of a response is thrown away; its arrival is what counts.
ReadResponse ==
  /\ calling = "read" /\ replies # <<>>
  /\ replies' = Tail(replies)
  /\ \/ /\ got + 1 < BatchSize
        /\ got' = got + 1
        /\ UNCHANGED <<calling, batchStart, answer, prepared>>
     \/ /\ got + 1 = BatchSize
        /\ batchStart + CommandsPerBatch < PageCount(region.length)
        /\ batchStart' = batchStart + CommandsPerBatch
        /\ got' = 0 /\ calling' = "send"
        /\ UNCHANGED <<answer, prepared>>
     \/ /\ got + 1 = BatchSize
        /\ batchStart + CommandsPerBatch >= PageCount(region.length)
        /\ calling' = "nothing" /\ answer' = OK
        /\ prepared' = prepared \cup {region}
        /\ UNCHANGED <<batchStart, got>>
  /\ UNCHANGED <<stage, region, executionError, inbox, link, faults, written>>

ReadResponseFails ==
  /\ calling = "read" /\ ReadFails /\ CallFails
  /\ UNCHANGED <<stage, locals, prepared, inbox, written>>

-----------------------------------------------------------------------------
(* The end of the script, and what run() makes of it.                      *)

ScriptThrows ==
  /\ Scripting
  /\ stage' = "threw" /\ executionError' = RecordExecutionError("script")
  /\ UNCHANGED <<calling, locals, answer, prepared, channel, written>>

ScriptEnds ==
  /\ Scripting
  /\ stage' = IF executionError = "none" THEN "finished" ELSE "threw"
  /\ UNCHANGED <<calling, locals, answer, executionError, prepared, channel, written>>

Returned == stage \in {"finished", "threw"} /\ UNCHANGED vars

-----------------------------------------------------------------------------
(* The debug server: the oldest request is served first.                   *)

Reply(body) ==
  /\ inbox' = Tail(inbox) /\ replies' = Append(replies, body)
  /\ UNCHANGED <<stage, calling, locals, answer, executionError, prepared, link, faults>>

ServeWrite ==
  /\ inbox # <<>> /\ Head(inbox) \in Writes
  /\ \/ written' = written \cup {Head(inbox).at} /\ Reply(OK)
     \/ RefusesWrites /\ UNCHANGED written /\ Reply(Refused)

ServeCommand ==
  /\ inbox # <<>> /\ Head(inbox) \in Commands
  /\ \E body \in Bodies : Reply(body)
  /\ UNCHANGED written

-----------------------------------------------------------------------------
Runner ==
  \/ LoadScript \/ ScriptThrows \/ ScriptEnds
  \/ \E c \in Commands : SendCommand(c)
  \/ SendNothing \/ SendCommandFails \/ ReceiveReply \/ ReceiveReplyFails
  \/ \E r \in Regions : BeginPrepare(r)
  \/ SendBatch \/ SendBatchFails \/ ReadResponse \/ ReadResponseFails

Next == Runner \/ ServeWrite \/ ServeCommand \/ Returned

Spec == Init /\ [][Next]_vars

\* The debug server keeps serving and the runner's blocking loops keep running.
FairSpec ==
  /\ Spec
  /\ WF_vars(ServeWrite) /\ WF_vars(ServeCommand)
  /\ WF_vars(SendBatch \/ SendBatchFails)
  /\ WF_vars(ReadResponse) /\ WF_vars(ReceiveReply)

-----------------------------------------------------------------------------
(* Properties.                                                             *)

TypeOK ==
  /\ stage \in {"load", "script", "finished", "threw"}
  /\ calling \in {"nothing", "command", "send", "read"}
  /\ region \in [address : Nat, length : Nat]
  /\ batchStart \in Nat /\ got \in Nat
  /\ answer \in Bodies
  /\ executionError \in {"none", "device", "script"}
  /\ prepared \subseteq [address : Nat, length : Nat]
  /\ inbox \in Seq(Commands \cup Writes) /\ replies \in Seq(Bodies)
  /\ link \in {"up", "down"} /\ faults \in 0..MaxFaults
  /\ written \subseteq Nat

\* The requests still waiting for their reply to be read.
InFlight == Len(inbox) + Len(replies)

Awaited == CASE calling \in {"nothing", "send"} -> 0
             [] calling = "command" -> 1
             [] calling = "read" -> BatchSize - got

\* As long as no error is recorded, the stream holds exactly the exchange the
\* runner is blocked in: a reply can never be taken for that of another request
\* (prepareMemoryRegion leaves a batch half read only when it records an error).
AnswersMatch == executionError = "none" => InFlight = Awaited

\* A run that returns normally leaves nothing unread on the stream, even if
\* some batch failed on the way.
FinishedIsQuiet == stage = "finished" => inbox = <<>> /\ replies = <<>>

\* Batching keeps its promise: never more than commandsPerBatch commands are
\* outstanding while no error has been recorded.
BatchBound == executionError = "none" => InFlight <= CommandsPerBatch

\* Pages a region overlaps and pages the debug server has touched.
RegionPages(r) ==
  IF r.length = 0 THEN {}
  ELSE (r.address \div JitPageSize)..((r.address + r.length - 1) \div JitPageSize)

TouchedPages == {a \div JitPageSize : a \in written}

Blessed(r) == RegionPages(r) \subseteq TouchedPages

Aligned(r) == r.address % JitPageSize = 0
Addressable(r) == r.address + r.length <= WireSpace

\* Where the server does not refuse writes, a prepare_memory_region that
\* answered "OK" has blessed every page of the region, for the regions the
\* command format can name, unless an error makes run() throw in the end.
PreparedIsBlessed ==
  executionError = "none" /\ ~RefusesWrites =>
    \A r \in prepared : Aligned(r) /\ Addressable(r) => Blessed(r)

\* Why these hold, as an inductive invariant: the loop over batches stays inside
\* the region, a run that finished has no call open, and as long as no write is
\* refused each one sent is in the server's memory or still on its way there.
BatchInside ==
  calling \in {"send", "read"} =>
    region.length > 0 /\ batchStart < PageCount(region.length)

FinishedIsIdle == stage = "finished" => executionError = "none" /\ calling = "nothing"

OnItsWay(a) == a \in written \/ \E i \in 1..Len(inbox) : inbox[i] = [op |-> "M", at |-> a]

PagesSent ==
  CASE calling = "send" -> batchStart
    [] calling = "read" -> batchStart + BatchSize
    [] OTHER -> 0

WritesArrive ==
  executionError = "none" /\ ~RefusesWrites =>
    /\ \A p \in 0..(PagesSent - 1) : OnItsWay(WriteAddress(region, p))
    /\ \A r \in prepared : r.length > 0 =>
         \A p \in 0..(PageCount(r.length) - 1) : WriteAddress(r, p) \in written

IInv == TypeOK /\ BatchInside /\ FinishedIsIdle /\ AnswersMatch /\ WritesArrive

\* "Each executable memory region must be prepared": an "OK" means that every
\* page of the region is blessed, whatever the region and the debug server.
PreparedMeansBlessed == executionError = "none" => \A r \in prepared : Blessed(r)

\* Whatever has failed before, the runner never blocks for a reply that no request on
\* the stream will bring, nor on a stream it knows to be broken: every command of a
\* batch has been sent before the first response of it is read.
NoReadInVain ==
  /\ Awaited <= InFlight
  /\ calling \in {"command", "read"} => link = "up"

\* The steps a call can still take: its pages have to be sent, served and read, and so
\* has what is on the stream.
UnsentPages ==
  CASE calling = "send" -> PageCount(region.length) - batchStart
    [] calling = "read" -> PageCount(region.length) - batchStart - BatchSize
    [] OTHER            -> 0
StepsLeft == 3 * UnsentPages + 2 * Len(inbox) + Len(replies)

\* A call gets nearer to its end with every step of the runner or of the debug server:
\* the two nested loops of prepare_memory_region send no page twice and read no batch
\* again.
CallsAdvance ==
  [][calling # "nothing" /\ calling' # "nothing" => StepsLeft' \in 0..(StepsLeft - 1)]_vars

\* A blocked call always comes back: no loop waits for a reply that no request
\* in flight can cause.
CallsReturn == (calling # "nothing") ~> (calling = "nothing")
=============================================================================
