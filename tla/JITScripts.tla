----------------------------- MODULE JITScripts -----------------------------
(***************************************************************************)
(* The two bundled scripts, Resources/universal.js and legacy.js, driven   *)
(* by ScriptRunner, against a debug server and the app it is attached to.  *)
(* Both are loops: resume the app with `c`, wait for its next stop, fetch  *)
(* the instruction it stopped at.  universal.js steps over a brk it knows  *)
(* and serves the call, passes a signal on with `vCont;S`, and ends when   *)
(* the app makes the JIT26Detach call.  legacy.js knows one brk, prepares  *)
(* the region it names, steps over it and detaches.                        *)
(*                                                                         *)
(* Each step of a script is one call of ScriptRunner, so the actions are   *)
(* those of the instance Runner, together with what the script does next   *)
(* and with what the request does to the app.  The app and the debug       *)
(* server are not part of the repository: they are modelled from how the   *)
(* scripts use them.  Handlers installed through eval are left out.        *)
(***************************************************************************)
EXTENDS Integers, Sequences, FiniteSets

CONSTANTS
  JitPageSize, CommandsPerBatch, WireSpace, OK, Refused, Nothing,
  RefusesWrites, MaxFaults,   \* as in ScriptRunner
  Gone,              \* the stop reply of a process that exited
  Scripts,           \* which of "universal" and "legacy" may be run
  Calls,             \* the JIT calls an app made for universal.js may make
                     \* before it detaches
  LegacyCalls,       \* those of an app made for legacy.js
  Lookalikes, LegacyLookalikes,  \* where a signal may find the one and the other,
                     \* at a word that is no brk and has the immediate of brk 0x69
  ScriptSpace,       \* registers are parsed and written modulo this (five bytes)
  FreshAddress,      \* where _M allocates
  BogusAddress,      \* what a reply that is no address reads as in hex
  LegacyErrorCode,   \* what brk 0x69 is said to return, two bytes for four
  RefusesAttach, RefusesMemory, RefusesDetach, MayDie,  \* what the debug server
                     \* and the app may do
  MaxCalls, MaxSignals                  \* bounds

\* Instructions: a brk, named by its immediate; "like69", which is none but has 0x69
\* where a brk has its immediate (mov x0, #0x69 is one); any other.
Brks  == {"f00d", "68", "69", "brk"}
Codes == Brks \cup {"like69", "other"}
SignalStop == [code |-> "other", x16 |-> 0, x0 |-> 0, x1 |-> 0]
NoStop     == [code |-> "none", x16 |-> 0, x0 |-> 0, x1 |-> 0]
DetachCall == [code |-> "f00d", x16 |-> 0, x0 |-> 0, x1 |-> 0]
Stops == Calls \cup LegacyCalls \cup Lookalikes \cup LegacyLookalikes
           \cup {SignalStop, DetachCall}

\* Swapping bytes: `P0=E0000069` is read by the debug server low byte first.
SwapBytes(v) == (v % 256) * 256 + v \div 256

ScriptCommands ==
  [op : {"vAttach", "c", "vCont", "P20", "D"}] \cup [op : {"m"}, code : Codes]
    \cup [op : {"_M"}, size : {c.x1 % ScriptSpace : c \in Stops}]
    \cup [op : {"P0"}, value : {c.x0 % ScriptSpace : c \in Stops}
            \cup {FreshAddress, BogusAddress, SwapBytes(LegacyErrorCode)}]

StopReplies    == [stop : Stops]
MemoryReplies  == [memory : Codes]
AddressReplies == [start : {FreshAddress}]
ServerReplies  == {OK, Refused, Nothing, Gone} \cup StopReplies \cup MemoryReplies
                    \cup AddressReplies

ScriptRegions ==
  [address : {c.x0 % ScriptSpace : c \in Stops} \cup {FreshAddress, BogusAddress},
   length : {c.x1 % ScriptSpace : c \in Stops}]

ASSUME UniversalAssumption ==
  /\ {JitPageSize, CommandsPerBatch, WireSpace} \subseteq Nat \ {0}
  /\ MaxFaults \in Nat /\ RefusesWrites \in BOOLEAN
  /\ {OK, Refused, Nothing, Gone} \cap (StopReplies \cup MemoryReplies \cup AddressReplies) = {}
  /\ Nothing \notin {OK, Refused}
  /\ Calls \subseteq [code : Brks, x16 : Nat, x0 : Nat, x1 : Nat]
  /\ \A c \in Calls : c.code = "f00d" => c.x16 # 0
  /\ LegacyCalls \subseteq [code : {"69"}, x16 : Nat, x0 : Nat, x1 : Nat]
  /\ Lookalikes \cup LegacyLookalikes
       \subseteq [code : {"like69"}, x16 : Nat, x0 : Nat, x1 : Nat]
  /\ Scripts \subseteq {"universal", "legacy"}
  /\ {FreshAddress, BogusAddress, LegacyErrorCode} \subseteq Nat
  /\ ScriptSpace \in Nat \ {0}
  /\ {RefusesAttach, RefusesMemory, RefusesDetach, MayDie} \subseteq BOOLEAN
  /\ {MaxCalls, MaxSignals} \subseteq Nat

VARIABLES
  \* ScriptRunner's
  stage, calling, region, batchStart, got, answer, executionError, prepared,
  inbox, replies, link, written, faults,
  \* the script
  script,     \* which one it is
  step,       \* which call of the script comes next, or is under way
  stop,       \* the registers of the last stop reply it could parse
  address,    \* jitPageAddress
  \* the app under the debug server
  target,     \* free, stopped, running (a resume request is being served), gone
  event,      \* why it stopped last
  advanced,   \* its pc has been moved past the brk
  x0,         \* its register x0
  reported,   \* the last stop answered a `c`: the script looked at it
  calls, signals,   \* calls and signals left
  \* history
  granted,    \* the calls that returned, with the x0 they returned
  lost,       \* the signals that never reached the app: seen or unseen by the script
  allocated   \* the regions _M allocated

runnerVars == <<stage, calling, region, batchStart, got, answer, executionError,
                prepared, inbox, replies, link, written, faults>>
scriptVars == <<script, step, stop, address>>
budget     == <<calls, signals>>
appVars    == <<target, event, advanced, x0, reported, budget>>
history    == <<granted, lost, allocated>>
vars       == <<runnerVars, scriptVars, appVars, history>>

Runner == INSTANCE ScriptRunner
            WITH Commands <- ScriptCommands, Bodies <- ServerReplies,
                 Regions <- ScriptRegions

-----------------------------------------------------------------------------
Init ==
  /\ Runner!Init
  /\ script \in Scripts /\ step = "attach" /\ stop = SignalStop /\ address = 0
  /\ target = "free" /\ event = NoStop /\ advanced = FALSE /\ x0 = 0
  /\ reported = FALSE /\ calls = MaxCalls /\ signals = MaxSignals
  /\ granted = {} /\ lost = {} /\ allocated = {}

-----------------------------------------------------------------------------
(* universal.js *)

NewBreakpoints(c) == c.code = "68" \/ (c.code = "f00d" /\ c.x16 % ScriptSpace = 2)

DispatchWithoutD(c) ==
  CASE c.code = "69" -> "putError"
    [] NewBreakpoints(c) -> "refetch"
    [] c.code = "f00d" /\ c.x16 % ScriptSpace = 0 -> "done"
    [] c.code = "f00d" /\ c.x16 % ScriptSpace = 1 -> "refetch"
    [] OTHER -> "resume"

DispatchUndefined(c) ==
  CASE c.code = "69" -> "putError"
    [] NewBreakpoints(c) -> "refetch"
    [] c.code = "f00d" /\ c.x16 % ScriptSpace = 0 -> "detach"
    [] c.code = "f00d" /\ c.x16 % ScriptSpace = 1 -> "refetch"
    [] OTHER -> "undefined"

\* legacyCommands[brkImmediate], then commands[x16].
Dispatch(c) ==
  CASE c.code = "69" -> "putError"
    [] NewBreakpoints(c) -> "refetch"
    [] c.code = "f00d" /\ c.x16 % ScriptSpace = 0 -> "detach"
    [] c.code = "f00d" /\ c.x16 % ScriptSpace = 1 -> "refetch"
    [] OTHER -> "resume"

PrepareRegion(c) ==
  CASE c.x0 % ScriptSpace = 0 /\ c.x1 % ScriptSpace = 0 -> "resume"
    [] c.x0 % ScriptSpace = 0 /\ c.x1 % ScriptSpace # 0 -> "allocate"
    [] OTHER -> "prepare"

AfterFetchSilent(reply) ==
  CASE reply = Nothing -> "throw"
    [] reply \in [memory : {"f00d", "68", "69"}] -> "advance"
    [] OTHER -> "resume"

\* The instruction is parsed with match(...).reverse(), which throws on "".
AfterFetch(reply) ==
  CASE reply = Nothing -> "throw"
    [] reply \in [memory : {"f00d", "68", "69"}] -> "advance"
    [] reply \in [memory : {"brk"}] -> "resume"
    [] OTHER -> "signal"

AfterRefetch(reply) ==
  CASE reply = Nothing -> "throw"
    [] reply # Nothing /\ NewBreakpoints(stop) -> "readText"
    [] OTHER -> PrepareRegion(stop)

\* Any hex text becomes an address, an "Exx" refusal included.
IsHex(reply) == reply = Refused \/ reply \in MemoryReplies \cup AddressReplies

AfterAllocateUnprepared(reply) ==
  CASE reply = Nothing -> "resume"
    [] IsHex(reply) -> "putX0"
    [] OTHER -> "throw"

AfterAllocate(reply) ==
  CASE reply = Nothing -> "resume"
    [] IsHex(reply) -> "prepare"
    [] OTHER -> "throw"

ParsedStopOnce(reply) ==
  IF step = "resume" /\ reply \in StopReplies /\ stop = SignalStop
  THEN reply.stop ELSE stop

ParsedStop(reply) ==
  IF step = "resume" /\ reply \in StopReplies THEN reply.stop ELSE stop

AfterUniversalReplyKeepLooping(reply) ==
  CASE step = "resume"   -> IF reply \in StopReplies THEN "fetch" ELSE "resume"
    [] step = "fetch"    -> AfterFetch(reply)
    [] step = "advance"  -> Dispatch(stop)
    [] step = "refetch"  -> AfterRefetch(reply)
    [] step = "allocate" -> AfterAllocate(reply)
    [] OTHER             -> "resume"

AfterUniversalReply(reply) ==
  CASE step = "resume"   -> IF reply \in StopReplies THEN "fetch" ELSE "resume"
    [] step = "fetch"    -> AfterFetch(reply)
    [] step = "advance"  -> Dispatch(stop)
    [] step = "refetch"  -> AfterRefetch(reply)
    [] step = "allocate" -> AfterAllocate(reply)
    [] step = "detach"   -> "done"
    [] OTHER             -> "resume"   \* attach, signal, readText, putX0, putError

(* legacy.js: attach(1), one region and out. *)

AfterLegacyReplyAnyBrk(reply) ==
  CASE step = "resume"  -> IF reply \in StopReplies THEN "fetch" ELSE "resume"
    [] step = "fetch"   -> IF reply = Nothing THEN "throw" ELSE "prepare"
    [] step = "advance" -> "detach"
    [] step = "detach"  -> "done"
    [] OTHER            -> "resume"

\* Only the immediate 0x69 leads anywhere, be the instruction a brk or not; a signal
\* is not passed on.
AfterLegacyReply(reply) ==
  CASE step = "resume"  -> IF reply \in StopReplies THEN "fetch" ELSE "resume"
    [] step = "fetch"   -> CASE reply = Nothing -> "throw"
                             [] reply \in [memory : {"69", "like69"}] -> "prepare"
                             [] OTHER -> "resume"
    [] step = "advance" -> "detach"
    [] step = "detach"  -> "done"
    [] OTHER            -> "resume"   \* attach

(* Either. *)

AfterReply(reply) ==
  IF script = "legacy" THEN AfterLegacyReply(reply) ELSE AfterUniversalReply(reply)

AfterPrepare == IF script = "legacy" THEN "advance" ELSE "putX0"

\* jitPageAddress: x0, unless _M gave another one.
JitPageAddressKept(reply) ==
  CASE step = "refetch" -> IF address = 0 THEN stop.x0 % ScriptSpace ELSE address
    [] step = "allocate" /\ IsHex(reply) ->
         IF reply \in AddressReplies THEN reply.start ELSE BogusAddress
    [] OTHER -> address

JitPageAddress(reply) ==
  CASE step = "refetch" \/ (script = "legacy" /\ step = "fetch") -> stop.x0 % ScriptSpace
    [] step = "allocate" /\ IsHex(reply) ->
         IF reply \in AddressReplies THEN reply.start ELSE BogusAddress
    [] OTHER -> address

Continue(reply) ==
  /\ step' = AfterReply(reply)
  /\ stop' = ParsedStop(reply)
  /\ address' = JitPageAddress(reply) /\ UNCHANGED script

RequestOf ==
  [attach   |-> [op |-> "vAttach"],
   resume   |-> [op |-> "c"],
   fetch    |-> [op |-> "m", code |-> stop.code],
   signal   |-> [op |-> "vCont"],
   advance  |-> [op |-> "P20"],
   refetch  |-> [op |-> "m", code |-> stop.code],
   allocate |-> [op |-> "_M", size |-> stop.x1 % ScriptSpace],
   readText |-> [op |-> "m", code |-> "other"],
   putX0    |-> [op |-> "P0", value |-> address],
   putError |-> [op |-> "P0", value |-> SwapBytes(LegacyErrorCode)],
   detach   |-> [op |-> "D"]]

LoadScript == Runner!LoadScript /\ UNCHANGED <<scriptVars, appVars, history>>

SendCommand ==
  /\ step \in DOMAIN RequestOf /\ Runner!SendCommand(RequestOf[step])
  /\ UNCHANGED <<scriptVars, appVars, history>>

SendCommandFails ==
  /\ step \in DOMAIN RequestOf /\ Runner!SendCommandFails /\ Continue(Nothing)
  /\ UNCHANGED <<appVars, history>>

ReceiveReply ==
  /\ Runner!ReceiveReply /\ Continue(Head(replies))
  /\ UNCHANGED <<appVars, history>>

ReceiveReplyFailsSilently ==
  /\ calling = "command" /\ Runner!ReadFails /\ Runner!CallFailsSilently
  /\ Continue(Nothing)
  /\ UNCHANGED <<appVars, history, stage, region, batchStart, got, prepared, inbox,
                 written>>

ReceiveReplyFails ==
  /\ Runner!ReceiveReplyFails /\ Continue(Nothing)
  /\ UNCHANGED <<appVars, history>>

\* Whatever prepare_memory_region answers, universal.js puts the address in x0.
PrepareMemoryRegion ==
  /\ step = "prepare"
  /\ \/ Runner!BeginPrepare([address |-> address, length |-> stop.x1 % ScriptSpace])
     \/ Runner!SendBatch \/ Runner!SendBatchFails
     \/ Runner!ReadResponse \/ Runner!ReadResponseFails
  /\ step' = IF calling' = "nothing" THEN AfterPrepare ELSE step
  /\ UNCHANGED <<script, stop, address, appVars, history>>

ScriptThrows ==
  /\ step = "throw" /\ Runner!ScriptThrows
  /\ UNCHANGED <<scriptVars, appVars, history>>

ScriptEnds ==
  /\ step = "done" /\ Runner!ScriptEnds
  /\ UNCHANGED <<scriptVars, appVars, history>>

Script ==
  \/ LoadScript \/ SendCommand \/ SendCommandFails \/ ReceiveReply
  \/ ReceiveReplyFails \/ PrepareMemoryRegion \/ ScriptThrows \/ ScriptEnds

-----------------------------------------------------------------------------
(* The debug server and the app.                                           *)

Serving(op) ==
  inbox # <<>> /\ Head(inbox) \in ScriptCommands /\ Head(inbox).op = op

ServeWrite ==
  /\ Runner!ServeWrite
  /\ UNCHANGED <<scriptVars, appVars, history>>

ServeAttach ==
  /\ Serving("vAttach")
  /\ \/ target = "free" /\ target' = "stopped" /\ Runner!Reply(OK)
     \/ RefusesAttach /\ UNCHANGED target /\ Runner!Reply(Refused)
  /\ UNCHANGED <<written, scriptVars, event, advanced, x0, reported, budget, history>>

AtBrk    == event.code \in Brks
AtSignal == event.code \in Codes \ Brks

\* Where a signal may find the app.
SignalStops == {SignalStop} \cup (IF script = "legacy" THEN LegacyLookalikes ELSE Lookalikes)

\* A call whose brk was stepped over returns when the app runs on.
ReturnFromCall ==
  granted' = IF AtBrk /\ advanced THEN granted \cup {[call |-> event, x0 |-> x0]}
             ELSE granted

\* A brk the app was not moved past traps again; nothing else is kept.
RunOn ==
  /\ target = "stopped" /\ target' = "running" /\ advanced' = FALSE
  /\ event' = IF AtBrk /\ ~advanced THEN event ELSE NoStop
  /\ ReturnFromCall
  /\ UNCHANGED <<runnerVars, scriptVars, x0, reported, budget, allocated>>

\* `c` and `D` resume without the signal the app stopped for.
DropSignal ==
  lost' = IF AtSignal THEN lost \cup {IF reported THEN "seen" ELSE "unseen"} ELSE lost

Resume == Serving("c") /\ RunOn /\ DropSignal

\* `vCont;S` delivers the signal of the stop the script looked at ...
ResumeWithSignal == Serving("vCont") /\ RunOn /\ UNCHANGED lost

\* ... which is the app's end if it is the SIGTRAP of a brk.
KilledByTrap ==
  /\ Serving("vCont") /\ target = "stopped" /\ AtBrk
  /\ target' = "gone" /\ Runner!Reply(Gone)
  /\ UNCHANGED <<written, scriptVars, event, advanced, x0, reported, budget, history>>

\* The app stops for a JIT call, for a signal, or at the brk it is still at.
AppStops(e) ==
  /\ target = "running" /\ Runner!Reply([stop |-> e])
  /\ target' = "stopped" /\ event' = e /\ reported' = Serving("c")
  /\ \/ event = e /\ UNCHANGED <<x0, budget>>
     \/ event = NoStop /\ e \in SignalStops /\ signals > 0
        /\ signals' = signals - 1 /\ UNCHANGED <<x0, calls>>
     \/ event = NoStop /\ calls > 0
        /\ e \in (IF script = "legacy" THEN LegacyCalls ELSE Calls)
        /\ calls' = calls - 1 /\ x0' = e.x0 /\ UNCHANGED signals
     \/ event = NoStop /\ e = DetachCall /\ script = "universal"
        /\ calls' = 0 /\ x0' = e.x0 /\ UNCHANGED signals
  /\ UNCHANGED <<written, scriptVars, advanced, history>>

AppDies ==
  /\ MayDie /\ target \in {"stopped", "running"} /\ target' = "gone"
  /\ IF target = "running" THEN UNCHANGED written /\ Runner!Reply(Gone)
     ELSE UNCHANGED runnerVars
  /\ UNCHANGED <<scriptVars, event, advanced, x0, reported, budget, history>>

\* Nothing but a stopped app can be read, changed or resumed.
ServeNoApp ==
  /\ \E op \in {"c", "vCont", "m", "P20", "P0", "_M", "D"} : Serving(op)
  /\ target \in {"free", "gone"} /\ Runner!Reply(Refused)
  /\ UNCHANGED <<written, scriptVars, appVars, history>>

ServeRead ==
  /\ Serving("m") /\ target = "stopped"
  /\ Runner!Reply([memory |-> Head(inbox).code])
  /\ UNCHANGED <<written, scriptVars, appVars, history>>

ServeStepOver ==
  /\ Serving("P20") /\ target = "stopped" /\ Runner!Reply(OK)
  /\ advanced' = TRUE
  /\ UNCHANGED <<written, scriptVars, target, event, x0, reported, budget, history>>

ServeSetX0 ==
  /\ Serving("P0") /\ target = "stopped" /\ Runner!Reply(OK)
  /\ x0' = Head(inbox).value
  /\ UNCHANGED <<written, scriptVars, target, event, advanced, reported, budget, history>>

\* Some debug servers do not know _M and reply "", some refuse.
ServeAllocate ==
  /\ Serving("_M") /\ target = "stopped"
  /\ \/ /\ Runner!Reply([start |-> FreshAddress])
        /\ allocated' = allocated \cup {[address |-> FreshAddress, length |-> Head(inbox).size]}
     \/ RefusesMemory /\ Runner!Reply(Refused) /\ UNCHANGED allocated
     \/ Runner!Reply(Nothing) /\ UNCHANGED allocated
  /\ UNCHANGED <<written, scriptVars, appVars, granted, lost>>

ServeDetach ==
  /\ Serving("D") /\ target = "stopped"
  /\ \/ target' = "free" /\ ReturnFromCall /\ DropSignal /\ Runner!Reply(OK)
     \/ RefusesDetach /\ UNCHANGED <<target, granted, lost>> /\ Runner!Reply(Refused)
  /\ UNCHANGED <<written, scriptVars, event, advanced, x0, reported, budget, allocated>>

Server ==
  \/ ServeWrite \/ ServeAttach \/ Resume \/ ResumeWithSignal \/ KilledByTrap
  \/ (\E e \in Stops : AppStops(e)) \/ AppDies \/ ServeNoApp \/ ServeRead
  \/ ServeStepOver \/ ServeSetX0 \/ ServeAllocate \/ ServeDetach

Returned == Runner!Returned /\ UNCHANGED vars

Next == Script \/ Server \/ Returned

Spec == Init /\ [][Next]_vars

\* Both sides keep running: the app reaches its next stop, the debug server
\* serves, JavaScriptCore executes the script.
FairSpec == Spec /\ WF_vars(Script) /\ WF_vars(Server)

-----------------------------------------------------------------------------
(* Properties.                                                             *)

TypeOK ==
  /\ Runner!TypeOK
  /\ script \in Scripts
  /\ step \in DOMAIN RequestOf \cup {"prepare", "throw", "done"}
  /\ stop \in Stops /\ address \in Nat
  /\ target \in {"free", "stopped", "running", "gone"}
  /\ event \in Stops \cup {NoStop} /\ x0 \in Nat
  /\ {advanced, reported} \subseteq BOOLEAN
  /\ calls \in 0..MaxCalls /\ signals \in 0..MaxSignals
  /\ granted \subseteq [call : Stops, x0 : Nat]
  /\ lost \subseteq {"seen", "unseen"}
  /\ allocated \subseteq [address : Nat, length : Nat]

\* universal.js has its own call to prepare a region, legacy.js no other.
IsPrepare(c) == IF script = "legacy" THEN c.code = "69" ELSE c.code = "f00d" /\ c.x16 = 1

\* "Prepare calls have returned successfully": a region the app was given back
\* is blessed page by page, unless run() is going to throw.  The script ignores
\* what prepare_memory_region and P0 answer, so this rests on the order of its
\* requests and on every failure being recorded.
GrantsAreBlessed ==
  executionError = "none" =>
    \A g \in granted : LET r == [address |-> g.x0, length |-> g.call.x1] IN
      IsPrepare(g.call) /\ g.x0 # 0 /\ Runner!Aligned(r) /\ Runner!Addressable(r)
        => Runner!Blessed(r)

\* JIT26PrepareRegion returns the region it was asked for, a region allocated
\* for it, or null: x0 is written for this call and after the last resume.
GrantsAreOwn ==
  executionError = "none" =>
    \A g \in granted : IsPrepare(g.call) =>
      \/ g.call.x0 # 0 /\ g.x0 = g.call.x0
      \/ g.call.x0 = 0 /\ [address |-> g.x0, length |-> g.call.x1] \in allocated
      \/ g.call.x0 = 0 /\ g.x0 = 0

\* A run that ends normally has let the app go, not suspended at a brk, unless the answer
\* to D, which neither script looks at, was a refusal: no other failure on the way to it
\* can pass for an end (universal.js:131, legacy.js:94).
ReleasedUnlessRefused ==
  stage = "finished" => target \in {"free", "gone"} \/ answer = Refused

\* "finished (region blessed, detached)" (ScriptRunner.swift:57).
FinishedMeansReleased == stage = "finished" => target \in {"free", "gone"}

\* A signal that universal.js looked at reaches the app (continuesWithSignal).
SeenSignalsDelivered ==
  script = "universal" /\ executionError = "none" => "seen" \notin lost

\* The registers the script saved from a stop reply ("to avoid having to
\* re-parse these in each function") are still those of the stopped app when it
\* acts on them, as long as no error is recorded.
RegistersAreFresh ==
  /\ executionError = "none" /\ target = "stopped"
  /\ step \in {"fetch", "advance", "refetch", "readText", "allocate", "prepare",
               "putX0", "putError", "detach"}
  => stop = event

\* An app gets what JITGrants promises: its calls are asks, the session is open from
\* the attach to the detach, and what happens in between is not seen.
AskOf(c) ==
  [wants |-> CASE IsPrepare(c) -> "region" [] c = DetachCall -> "detach"
               [] script = "universal" /\ c.code = "69" -> "error"
               [] OTHER -> "nothing",
   address |-> c.x0, length |-> c.x1]

Grants == INSTANCE JITGrants
            WITH PageSize <- JitPageSize, NoAsk <- NoStop,
                 session <- IF target # "free" THEN "open"
                            ELSE IF event = NoStop THEN "before" ELSE "over",
                 asking <- IF AtBrk /\ target # "free" THEN AskOf(event) ELSE NoStop,
                 reserved <- allocated, blessed <- Runner!TouchedPages,
                 granted <- {[ask |-> AskOf(g.call), address |-> g.x0] : g \in granted}

GrantsSpec == Grants!Spec

\* Whatever is proved of ScriptRunner for any script holds under this one.
RunnerSpec == Runner!Spec

\* The session comes to an end once the app makes its JIT26Detach call.
Terminates == <>(stage \in {"finished", "threw"})

\* A recorded error is surfaced: run() ends and throws it.
ErrorsAreSurfaced == (executionError # "none") ~> (stage = "threw")

\* brk 0x69 "will now return 0xE0000069".
LegacyErrorReturned == \A g \in granted : g.call.code = "69" => g.x0 = LegacyErrorCode
=============================================================================
