------------------------------ MODULE StikJIT -------------------------------
(***************************************************************************)
(* The public calls of StikJIT.swift, made one at a time by a helper       *)
(* process, and the order in which they probe the device, run the routines *)
(* of DeviceSession and download the image.  The helper may be killed and  *)
(* the device, which the helper runs on, may reboot at any moment.         *)
(***************************************************************************)
EXTENDS DeviceSession

CONSTANT MaxCalls     \* bound on the calls of the helper

ASSUME StikJITAssumption == MaxCalls \in Nat

VARIABLES
  call,     \* the public call that runs
  forced,   \* its forceScript
  phase,    \* how far it has got
  answer,   \* what the latest call returned
  calls,    \* calls left
  hardware  \* is TXM present or absent on this device?

facadeVars == <<call, forced, phase, answer, calls>>
vars == <<sessionVars, facadeVars, hardware>>

\* enableJITDirectly is the deprecated enableJIT, which prepares nothing.
Calls   == {"prepareDevice", "enableJIT", "enableJITDirectly", "mountDDI", "isDDIMounted"}
Phases  == {"idle", "probe", "check", "download", "mount", "verify", "readTXM", "session"}
Answers == {"none", "unreachable", "preparationFailed", "ready", "error", "returned"}

TypeOK ==
  /\ SessionTypeOK
  /\ call \in Calls \cup {"none"} /\ forced \in BOOLEAN
  /\ phase \in Phases /\ answer \in Answers /\ calls \in 0 .. MaxCalls
  /\ hardware \in {"present", "absent"}

Init ==
  /\ SessionInit
  /\ call = "none" /\ forced = FALSE /\ phase = "idle" /\ answer = "none"
  /\ calls = MaxCalls /\ hardware \in {"present", "absent"}

-----------------------------------------------------------------------------
\* txmPresence: the registry may be unreadable, or have no keys.
txmPresence == {hardware, "unknown"}

\* TXMPresence.isPresent, and TXMPresence.init(isPresent:) of its Bool?.
isPresent(presence) ==
  CASE presence = "present" -> {TRUE} [] presence = "absent" -> {FALSE} [] OTHER -> {}
PresenceAssumed(optional) == IF TRUE \in optional THEN "present" ELSE "absent"
PresenceOf(optional) ==
  IF optional = {} THEN "unknown" ELSE IF optional = {TRUE} THEN "present" ELSE "absent"

\* A session begins; only enableJIT has arguments.
Begin(r, next) == Start(r, FALSE, "unknown") /\ phase' = next /\ UNCHANGED files
BeginJIT(presence) ==
  /\ Start("enableJIT", forced', presence) /\ phase' = "session" /\ UNCHANGED files

Answer(a) == answer' = a /\ call' = "none" /\ phase' = "idle"
\* prepareDevice returns it; enableJIT throws deviceNotReady.
NotReady(why) == Answer(IF call = "prepareDevice" THEN why ELSE "error")
Returned == routine = "none" /\ result # "none"
Proceed == UNCHANGED <<call, answer>>

-----------------------------------------------------------------------------
StartCall(c) ==
  /\ call = "none" /\ calls > 0
  /\ call' = c /\ answer' = "none" /\ calls' = calls - 1
  /\ forced' \in IF c \in {"enableJIT", "enableJITDirectly"} THEN BOOLEAN ELSE {FALSE}
  /\ CASE c = "enableJITDirectly" -> \E presence \in txmPresence : BeginJIT(presence)
       [] c = "mountDDI"          -> Begin("mountDDI", "session")
       [] c = "isDDIMounted"      -> Begin("isMounted", "session")
       [] OTHER                   -> phase' = "probe" /\ UNCHANGED sessionVars

\* EndpointProbe.failureReason
Probe ==
  /\ phase = "probe"
  /\ \/ Begin("isMounted", "check") /\ Proceed
     \/ NotReady("unreachable") /\ UNCHANGED sessionVars
  /\ UNCHANGED <<forced, calls>>

\* session.isMounted has returned; paths.allFilesUsable decides on the download.
CheckedLax ==   \* mistaken: a check that failed counts as "not mounted"
  /\ phase = "check" /\ Returned
  /\ \/ /\ result = "mounted" /\ phase' = "readTXM" /\ Proceed /\ UNCHANGED sessionVars
     \/ /\ result # "mounted" /\ files /\ Begin("mountDDI", "mount") /\ Proceed
     \/ /\ result # "mounted" /\ ~files /\ phase' = "download" /\ Proceed
        /\ UNCHANGED sessionVars
  /\ UNCHANGED <<forced, calls>>
Checked ==
  /\ phase = "check" /\ Returned
  /\ \/ /\ result = "mounted" /\ phase' = "readTXM" /\ Proceed /\ UNCHANGED sessionVars
     \/ /\ result = "notMounted" /\ files /\ Begin("mountDDI", "mount") /\ Proceed
     \/ /\ result = "notMounted" /\ ~files /\ phase' = "download" /\ Proceed
        /\ UNCHANGED sessionVars
     \/ /\ result = "error" /\ NotReady("preparationFailed") /\ UNCHANGED sessionVars
  /\ UNCHANGED <<forced, calls>>

Download ==
  /\ phase = "download"
  /\ \/ Start("mountDDI", FALSE, "unknown") /\ files' = TRUE /\ phase' = "mount" /\ Proceed
     \/ NotReady("preparationFailed") /\ UNCHANGED sessionVars
  /\ UNCHANGED <<forced, calls>>

\* session.mountDDI has returned; the mount is verified.
Mounted ==
  /\ phase = "mount" /\ Returned
  /\ \/ result = "ok" /\ Begin("isMounted", "verify") /\ Proceed
     \/ result = "error" /\ NotReady("preparationFailed") /\ UNCHANGED sessionVars
  /\ UNCHANGED <<forced, calls>>

VerifiedAnyway ==   \* mistaken: only an error of the second check counts
  /\ phase = "verify" /\ Returned
  /\ \/ result # "error" /\ phase' = "readTXM" /\ Proceed
     \/ result = "error" /\ NotReady("preparationFailed")
  /\ UNCHANGED <<sessionVars, forced, calls>>
VerifiedRetrying ==   \* mistaken: a mount without effect is tried again
  /\ phase = "verify" /\ Returned
  /\ \/ result = "mounted" /\ phase' = "readTXM" /\ Proceed /\ UNCHANGED sessionVars
     \/ result = "notMounted" /\ Begin("mountDDI", "mount") /\ Proceed
     \/ result = "error" /\ NotReady("preparationFailed") /\ UNCHANGED sessionVars
  /\ UNCHANGED <<forced, calls>>
Verified ==
  /\ phase = "verify" /\ Returned
  /\ \/ result = "mounted" /\ phase' = "readTXM" /\ Proceed
     \/ result # "mounted" /\ NotReady("preparationFailed")
  /\ UNCHANGED <<sessionVars, forced, calls>>

ReadTXM ==
  /\ phase = "readTXM"
  /\ \/ call = "prepareDevice" /\ Answer("ready") /\ UNCHANGED <<sessionVars, forced>>
     \/ /\ call = "enableJIT" /\ UNCHANGED forced /\ Proceed
        /\ \E presence \in txmPresence : BeginJIT(PresenceOf(isPresent(presence)))
  /\ UNCHANGED calls

CallReturns ==
  /\ phase = "session" /\ Returned
  /\ Answer(IF result = "error" THEN "error" ELSE "returned")
  /\ UNCHANGED <<sessionVars, forced, calls>>

FacadeStep == Probe \/ Checked \/ Download \/ Mounted \/ Verified \/ ReadTXM \/ CallReturns

-----------------------------------------------------------------------------
(* Around the calls. *)

\* resetCachedDDI, and downloadDDIIfNeeded from a task of its own.
CacheChanges ==
  /\ files' \in BOOLEAN \ {files}
  /\ UNCHANGED <<handles, control, device, talk, losses, force, txm, facadeVars>>

ForgetCall == call' = "none" /\ forced' = FALSE /\ phase' = "idle" /\ answer' = "none"

Kill ==
  /\ ForgetSessions /\ ForgetCall
  /\ target' \in {target, "running"}
  /\ UNCHANGED <<files, mounted, debugged, calls>>

Reboot ==
  /\ ForgetSessions /\ ForgetCall
  /\ mounted' = FALSE /\ target' = "running" /\ debugged' = FALSE
  /\ UNCHANGED <<files, calls>>

Next ==
  /\ UNCHANGED hardware
  /\ \/ (SessionStep \/ RunScript) /\ UNCHANGED facadeVars
     \/ FacadeStep
     \/ \E c \in Calls : StartCall(c)
     \/ CacheChanges \/ Kill \/ Reboot

Spec == Init /\ [][Next]_vars
\* The helper's thread runs on, and the library's calls return; a script need not.
FairSpec ==
  /\ Spec
  /\ WF_vars(SessionStep /\ UNCHANGED <<facadeVars, hardware>>)
  /\ WF_vars(FacadeStep /\ UNCHANGED hardware)

-----------------------------------------------------------------------------
\* No routine hands the library a handle it has freed, or one it never got, on any
\* of its paths (JITSession.swift:37, DDISession.swift:65).
ArgumentsAreLive == Handles(Call.borrows \cup Call.consumes) \subseteq live

\* What a routine leaves behind when it has returned: the remote server of a
\* session whose proxy could not be connected (JITSession.swift:108), and the error
\* object of a first acknowledgement that failed (JITSession.swift:45).
Leaks == ({"remote"} \X unproxied) \cup ({"unread"} \X unacked)
LeaksAreKnown == routine = "none" => live = Leaks

\* A tunnel is freed after everything that was connected over it, leaks apart.
TunnelOutlivesClients ==
  \A n \in 1 .. session :
    ~ Link \X {n} \subseteq live =>
      \A k \in {"mounter", "lockdown", "proxy", "remote"} : <<k, n>> \in live => <<k, n>> \in Leaks

\* "ready" is answered, and JIT enabled by the call that prepares the device, only
\* with an image mounted (StikJIT.swift:153): a mount that had no effect is noticed.
ReadyMeansMounted ==
  answer = "ready" \/ (call = "enableJIT" /\ routine = "enableJIT") => mounted

\* prepareDevice mounts nothing over an image that is there (StikJIT.swift:141).
MountsWhenNeeded == step = "mount" /\ call # "mountDDI" => ~mounted

\* "JIT enabled" is said of a device without TXM, of a target that was attached to
\* and runs on, unless an answer that said otherwise was dropped
\* (JITSession.swift:52, 61, 62).
ClaimsHold ==
  reported =>
    /\ hardware = "absent"
    /\ debugged \/ "vAttach" \in ignored
    /\ target = "running" \/ ignored \cap {"vAttach", "D"} # {}

\* No command of the session proper is sent while one end still acknowledges packets
\* and the other no longer expects it, unless QStartNoAckMode failed unnoticed
\* (JITSession.swift:46).
ModesAgree ==
  step \in {"dispatch", "script", "attach", "detach"} =>
    modes \in {{}, Ends} \/ "QStartNoAckMode" \in ignored

\* enableJIT without forceScript, on a device whose TXM nobody could tell, ends in an
\* error, and by then no debugger was attached to the target, not even for a moment
\* (JITSession.swift:52).  The question is one phase earlier, or in the caller, and the
\* answer a tunnel, a proxy and two acknowledgement modes later.
InDoubt ==
  /\ phase = "session" /\ call \in {"enableJIT", "enableJITDirectly"}
  /\ txm = "unknown" /\ ~forced
UnknownMeansError ==
  [][InDoubt => answer' \in {"none", "error"} /\ debugged' \in {debugged, FALSE}]_vars

\* The steps a call can still take: the phases it has before it, the steps of its routine,
\* which may defer two calls each, and the calls deferred.
PhasesFrom(p) ==
  CASE p = "probe" -> 6 [] p = "check" -> 5 [] p = "download" -> 4 [] p = "mount" -> 3
    [] p = "verify" -> 2 [] p = "readTXM" -> 1 [] OTHER -> 0
StepsFrom(s, a) ==
  CASE s = "load" -> 17 [] s = "openPairing" -> 16 [] s = "createTunnel" -> 15
    [] s = "connectRemote" -> 13 [] s = "connectProxy" -> 12 [] s = "sendAck" -> 11
    [] s = "startNoAck" -> 10 [] s = "setAckMode" -> 8 [] s = "dispatch" -> 7
    [] s = "attach" -> 6 [] s = "detach" -> 5 [] s \in {"report", "script"} -> 3
    [] s = "connectLockdown" -> 7 [] s = "getChipID" -> 6 [] s = "connectMounter" -> 4
    [] s \in {"mount", "copyDevices"} -> 3
    [] s = "consume" -> (CASE a = "setAckMode" -> 9 [] a = "report" -> 4 [] OTHER -> 2)
    [] s = "leave" -> (CASE a = "tunnel" -> 14 [] a = "connectMounter" -> 5 [] OTHER -> 1)
    [] OTHER -> 0
StepsLeft == 60 * PhasesFrom(phase) + 3 * StepsFrom(step, after) + Len(defers)

\* A call gets nearer to its end with every step, a script counted as one: no phase and
\* no routine comes back to where it has been, whatever fails.
CallsAdvance ==
  [][call # "none" /\ call' # "none" =>
       UNCHANGED <<call, phase, control, defers>> \/ StepsLeft' \in 0 .. (StepsLeft - 1)]_vars

\* Every public call ends or is inside a script, whatever fails.
CallsEnd == (call # "none") ~> (call = "none" \/ step = "script")

\* "JIT enabled (debugger attached and detached)." (JITSession.swift:63)
EnabledMeansAttached == reported => debugged
=============================================================================
