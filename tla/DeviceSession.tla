--------------------------- MODULE DeviceSession ----------------------------
(***************************************************************************)
(* The three routines of StikJIT that talk to the device, JITSession's     *)
(* enableJIT and DDISession's isMounted and mountDDI, with every handle    *)
(* they open over the idevice library and the defers that free them.  A    *)
(* routine runs on its caller's thread, one library call per step; any     *)
(* call may fail.  The device and the target process are external.         *)
(***************************************************************************)
EXTENDS IdeviceHeader, Naturals

VARIABLES
  routine,     \* the routine that runs
  step, after, \* its next call; where it goes on once its error is consumed or
               \* the defers of its innermost function have run
  defers,      \* kinds its defers still have to free, the next one first
  session,     \* how many routines were started
  live,        \* <<kind, session>> of the handles not freed
  result,      \* what the routine returns
  files,       \* can the three image files be read?
  force, txm,  \* enableJIT's forceScript and txmPresence
  mounted,     \* is a developer image mounted on the device?
  target,      \* the process that is to get JIT: running or stopped
  debugged,    \* has a debugger attached to it?
  modes,       \* which ends of the debug connection acknowledge packets
  reported,    \* has this routine said "JIT enabled"?
  ignored,     \* history: commands of this routine that failed unnoticed
  unproxied, unacked   \* history: sessions without a proxy, with a failed first ack

handles     == <<defers, session, live>>
control     == <<routine, step, after, result>>
device      == <<mounted, target, debugged>>
talk        == <<modes, reported, ignored>>
losses      == <<unproxied, unacked>>
sessionVars == <<handles, control, device, talk, losses, files, force, txm>>

Routines == {"isMounted", "mountDDI", "enableJIT"}
Presence == {"present", "absent", "unknown"}
Ends     == {"proxy", "server"}
Commands == {"QStartNoAckMode", "vAttach", "D"}
Steps    == {"idle", "load", "openPairing", "createTunnel", "connectMounter",
             "copyDevices", "connectLockdown", "getChipID", "mount",
             "connectRemote", "connectProxy", "sendAck", "startNoAck",
             "setAckMode", "dispatch", "script", "attach", "detach", "report",
             "consume", "leave"}
Results  == {"none", "error", "ok", "mounted", "notMounted"}

SessionTypeOK ==
  /\ routine \in Routines \cup {"none"} /\ step \in Steps
  /\ after \in Steps \cup {"done", "tunnel"}
  /\ defers \in Seq(Kinds) /\ session \in Nat
  /\ live \subseteq ((Kinds \cup {"unread"}) \X (1 .. session)) /\ result \in Results
  /\ files \in BOOLEAN /\ force \in BOOLEAN /\ txm \in Presence
  /\ mounted \in BOOLEAN /\ target \in {"running", "stopped"} /\ debugged \in BOOLEAN
  /\ modes \subseteq Ends /\ reported \in BOOLEAN /\ ignored \subseteq Commands
  /\ unproxied \subseteq (1 .. session) /\ unacked \subseteq (1 .. session)

NoSession ==
  /\ routine = "none" /\ step = "idle" /\ after = "done" /\ result = "none"
  /\ defers = <<>> /\ session = 0 /\ live = {}
  /\ force = FALSE /\ txm = "unknown"
  /\ modes = Ends /\ reported = FALSE /\ ignored = {}
  /\ unproxied = {} /\ unacked = {}

\* The process is gone, and the handles with it.
ForgetSessions ==
  /\ routine' = "none" /\ step' = "idle" /\ after' = "done" /\ result' = "none"
  /\ defers' = <<>> /\ session' = 0 /\ live' = {}
  /\ force' = FALSE /\ txm' = "unknown"
  /\ modes' = Ends /\ reported' = FALSE /\ ignored' = {}
  /\ unproxied' = {} /\ unacked' = {}

SessionInit ==
  /\ NoSession /\ files \in BOOLEAN /\ mounted \in BOOLEAN
  /\ target = "running" /\ debugged = FALSE

-----------------------------------------------------------------------------
(* Library calls. *)

Handles(kinds) == kinds \X {session}

\* sendCommand: the command and its response are freed before it returns
sendCommand ==
  Then(debugserver_command_new,
    Then(debug_proxy_send_command, Then(idevice_string_free, debugserver_command_free)))

\* isMounted counts the devices, then frees each of them and their array
copiedDevices ==
  Then(image_mounter_copy_devices, Then(Opens({}, "plist"), Then(plist_free, idevice_data_free)))

Free(kind) ==
  CASE kind = "pairing"   -> rp_pairing_file_free
    [] kind = "handshake" -> rsd_handshake_free
    [] kind = "adapter"   -> adapter_free
    [] kind = "mounter"   -> image_mounter_free
    [] kind = "lockdown"  -> lockdownd_client_free
    [] kind = "plist"     -> plist_free
    [] kind = "proxy"     -> debug_proxy_free
    [] kind = "remote"    -> remote_server_free

\* The call a step is about to make.
Call ==
  CASE step = "openPairing"     -> rp_pairing_file_read
    [] step = "createTunnel"    -> tunnel_create_rppairing
    [] step = "connectMounter"  -> image_mounter_connect_rsd
    [] step = "copyDevices"     -> copiedDevices
    [] step = "connectLockdown" -> lockdownd_connect_rsd
    [] step = "getChipID"       -> Then(lockdownd_get_value, plist_get_uint_val)
    [] step = "mount"           -> image_mounter_mount_personalized_with_callback_rsd
    [] step = "connectRemote"   -> remote_server_connect_rsd
    [] step = "connectProxy"    -> debug_proxy_connect_rsd
    [] step = "sendAck"         -> debug_proxy_send_ack
    [] step = "setAckMode"      -> debug_proxy_set_ack_mode
    [] step = "script"          -> Uses({"proxy"})
    [] step = "consume"         -> idevice_error_free
    [] step \in {"startNoAck", "attach", "detach"} -> sendCommand
    [] step = "leave" /\ defers # <<>>             -> Free(Head(defers))
    [] OTHER                    -> Nothing

\* How it ends: with what it makes, with an error object, or with neither.
Gives(kinds) == live' = (live \ Handles(Call.consumes)) \cup Handles(kinds)
Succeeds     == Gives(Call.makes)
Fails        == Gives({"error"})
GivesNothing == Gives({})

\* Where control goes: to the next call, or out of the innermost function.
Goto(next)    == step' = next /\ UNCHANGED <<routine, after, result>>
Return(value) == step' = "leave" /\ after' = "done" /\ result' = value /\ UNCHANGED routine
ReturnTo(next) == step' = "leave" /\ after' = next /\ UNCHANGED <<routine, result>>
Throw         == Return("error")
\* try?: the error is consumed and dropped.
Try(next)     == Fails /\ step' = "consume" /\ after' = next /\ UNCHANGED <<routine, result>>
\* IdeviceFFI.check: it is consumed and thrown.
Check         == Try("done")

DefersLast(kinds) == defers' = defers \o kinds     \* mistaken: in the order registered
Defers(kinds) == defers' = kinds \o defers
Arguments     == <<session, files, force, txm>>

-----------------------------------------------------------------------------
(* Calls every routine makes. *)

Start(r, forced, presence) ==
  /\ routine = "none"
  /\ routine' = r /\ step' = IF r = "mountDDI" THEN "load" ELSE "openPairing"
  /\ after' = "done" /\ result' = "none"
  /\ session' = session + 1 /\ force' = forced /\ txm' = presence
  /\ modes' = Ends /\ reported' = FALSE /\ ignored' = {}
  /\ UNCHANGED <<defers, live, device, losses>>

\* No file at the path, an unreadable one, or a success without a handle.
OpenPairing ==
  /\ step = "openPairing"
  /\ \/ Succeeds /\ Defers(<<"pairing">>) /\ Goto("createTunnel")
     \/ Check /\ UNCHANGED defers
     \/ GivesNothing /\ Throw /\ UNCHANGED defers
  /\ UNCHANGED <<Arguments, device, talk, losses>>

CreateTunnel ==
  /\ step = "createTunnel"
  /\ (Succeeds /\ ReturnTo("tunnel")) \/ Check
  /\ UNCHANGED <<defers, Arguments, device, talk, losses>>

\* makeTunnel has returned, and its caller defers tunnel.free().
TunnelMade ==
  /\ step = "leave" /\ after = "tunnel" /\ defers = <<>>
  /\ Defers(<<"handshake", "adapter">>)
  /\ Goto(CASE routine = "isMounted" -> "connectMounter"
            [] routine = "mountDDI"  -> "connectLockdown"
            [] routine = "enableJIT" -> "connectRemote")
  /\ UNCHANGED <<live, Arguments, device, talk, losses>>

Consume ==
  /\ step = "consume" /\ Succeeds
  /\ IF after = "done" THEN Throw ELSE Goto(after)
  /\ UNCHANGED <<defers, Arguments, device, talk, losses>>

\* What a function returned from leaves to its caller's defers.
CallersDefers == IF after = "connectMounter" THEN 2 ELSE 0

\* When the debug connection closes, a stopped target may or may not run on.
RunDefer ==
  /\ step = "leave" /\ Len(defers) > CallersDefers
  /\ Succeeds /\ defers' = Tail(defers)
  /\ target' \in {target} \cup IF Head(defers) = "proxy" THEN {"running"} ELSE {}
  /\ UNCHANGED <<control, Arguments, mounted, debugged, talk, losses>>

RoutineEnds ==
  /\ step = "leave" /\ after = "done" /\ defers = <<>>
  /\ routine' = "none" /\ step' = "idle"
  /\ UNCHANGED <<handles, after, result, device, talk, losses, files, force, txm>>

-----------------------------------------------------------------------------
(* DDISession. *)

Load ==
  /\ step = "load"
  /\ IF files THEN Goto("openPairing") ELSE Throw
  /\ UNCHANGED <<handles, device, talk, losses, files, force, txm>>

\* A client, an error, or a success without a client.
Connect(kind, next) ==
  \/ Succeeds /\ Defers(<<kind>>) /\ Goto(next)
  \/ Check /\ UNCHANGED defers
  \/ GivesNothing /\ Throw /\ UNCHANGED defers

ConnectMounter ==
  /\ step = "connectMounter"
  /\ Connect("mounter", IF routine = "isMounted" THEN "copyDevices" ELSE "mount")
  /\ UNCHANGED <<Arguments, device, talk, losses>>

CopyDevicesRaw ==   \* mistaken: the devices themselves are the answer
  /\ step = "copyDevices"
  /\ (Succeeds /\ Return("devices")) \/ Check
  /\ UNCHANGED <<defers, Arguments, device, talk, losses>>
CopyDevices ==
  /\ step = "copyDevices"
  /\ \/ Succeeds /\ Return(IF mounted THEN "mounted" ELSE "notMounted")
     \/ Check
  /\ UNCHANGED <<defers, Arguments, device, talk, losses>>

ConnectLockdown ==
  /\ step = "connectLockdown" /\ Connect("lockdown", "getChipID")
  /\ UNCHANGED <<Arguments, device, talk, losses>>

GetChipID ==
  /\ step = "getChipID"
  /\ \/ Succeeds /\ Defers(<<"plist">>) /\ ReturnTo("connectMounter")
     \/ Check /\ UNCHANGED defers
     \/ GivesNothing /\ Throw /\ UNCHANGED defers
  /\ UNCHANGED <<Arguments, device, talk, losses>>

ChipIDFetched ==
  /\ step = "leave" /\ after = "connectMounter" /\ Len(defers) = CallersDefers
  /\ step' = after /\ after' = "done" /\ UNCHANGED <<routine, result>>
  /\ UNCHANGED <<handles, device, talk, losses, files, force, txm>>

\* Neither an error nor a success tells for certain what the device did.
Mount ==
  /\ step = "mount"
  /\ (Succeeds /\ Return("ok")) \/ Check
  /\ mounted' \in {mounted, TRUE}
  /\ UNCHANGED <<defers, Arguments, target, debugged, talk, losses>>

-----------------------------------------------------------------------------
(* JITSession. *)

\* The handle is in a local variable that no defer knows of yet.
ConnectRemote ==
  /\ step = "connectRemote"
  /\ (Succeeds /\ Goto("connectProxy")) \/ Check
  /\ UNCHANGED <<defers, Arguments, device, talk, losses>>

ConnectProxyAlone ==   \* mistaken: only the proxy is freed at the end
  /\ step = "connectProxy"
  /\ \/ Succeeds /\ Defers(<<"proxy">>) /\ Goto("sendAck") /\ UNCHANGED unproxied
     \/ Check /\ UNCHANGED defers /\ unproxied' = unproxied \cup {session}
  /\ UNCHANGED <<Arguments, device, talk, unacked>>
ConnectProxy ==
  /\ step = "connectProxy"
  /\ \/ Succeeds /\ Defers(<<"proxy", "remote">>) /\ Goto("sendAck") /\ UNCHANGED unproxied
     \/ GivesNothing /\ Defers(<<"remote">>) /\ Throw /\ UNCHANGED unproxied
     \/ Check /\ UNCHANGED defers /\ unproxied' = unproxied \cup {session}
  /\ UNCHANGED <<Arguments, device, talk, unacked>>

\* The error object is never looked at, so it is none that a later step consumes.
SendAck ==
  /\ step = "sendAck"
  /\ \/ Succeeds /\ UNCHANGED unacked
     \/ Gives({"unread"}) /\ unacked' = unacked \cup {session}
  /\ Goto("startNoAck")
  /\ UNCHANGED <<defers, Arguments, device, talk, unproxied>>

\* try? sendCommand: "OK", a refusal, or an error with or without effect.
StartNoAckRetrying ==   \* mistaken: one that failed is sent again
  /\ step = "startNoAck"
  /\ \/ Succeeds /\ Goto("setAckMode") /\ modes' = modes \ {"server"} /\ UNCHANGED ignored
     \/ /\ (Succeeds /\ Goto("setAckMode")) \/ Try("startNoAck")
        /\ ignored' = ignored \cup {"QStartNoAckMode"}
        /\ modes' \in {modes, modes \ {"server"}}
  /\ UNCHANGED <<defers, Arguments, device, reported, losses>>
StartNoAck ==
  /\ step = "startNoAck"
  /\ \/ Succeeds /\ Goto("setAckMode") /\ modes' = modes \ {"server"} /\ UNCHANGED ignored
     \/ /\ (Succeeds /\ Goto("setAckMode")) \/ Try("setAckMode")
        /\ ignored' = ignored \cup {"QStartNoAckMode"}
        /\ modes' \in {modes, modes \ {"server"}}
  /\ UNCHANGED <<defers, Arguments, device, reported, losses>>

SetAckModeLate ==   \* mistaken: left to the script
  /\ step = "setAckMode" /\ Succeeds /\ Goto("dispatch")
  /\ UNCHANGED <<defers, Arguments, device, talk, losses>>
SetAckMode ==
  /\ step = "setAckMode" /\ Succeeds /\ Goto("dispatch")
  /\ modes' = modes \ {"proxy"}
  /\ UNCHANGED <<defers, Arguments, device, reported, ignored, losses>>

DispatchInDoubt ==   \* mistaken: only a TXM that is surely there needs the script
  /\ step = "dispatch"
  /\ \/ (force \/ txm = "present") /\ Goto("script")
     \/ ~force /\ txm # "present" /\ Goto("attach")
  /\ UNCHANGED <<handles, device, talk, losses, files, force, txm>>
Dispatch ==
  /\ step = "dispatch"
  /\ \/ (force \/ txm = "present") /\ Goto("script")
     \/ ~force /\ txm = "absent" /\ Goto("attach")
     \/ ~force /\ txm = "unknown" /\ Throw
  /\ UNCHANGED <<handles, device, talk, losses, files, force, txm>>

\* ScriptRunner.run, with any script: it may leave the target either way.
RunScript ==
  /\ step = "script" /\ Succeeds
  /\ Return("ok") \/ Throw
  /\ target' \in {"running", "stopped"} /\ debugged' \in {debugged, TRUE}
  /\ UNCHANGED <<defers, Arguments, mounted, talk, losses>>

\* The text of the reply is not looked at; an error is thrown.
Attach ==
  /\ step = "attach"
  /\ \/ Succeeds /\ Goto("detach") /\ target' = "stopped" /\ debugged' = TRUE /\ UNCHANGED ignored
     \/ /\ Succeeds /\ Goto("detach") /\ UNCHANGED <<target, debugged>>
        /\ ignored' = ignored \cup {"vAttach"}
     \/ /\ Check /\ UNCHANGED ignored
        /\ \/ UNCHANGED <<target, debugged>>
           \/ target' = "stopped" /\ debugged' = TRUE
  /\ UNCHANGED <<defers, Arguments, mounted, modes, reported, losses>>

\* Neither is looked at.
Detach ==
  /\ step = "detach"
  /\ \/ Succeeds /\ Goto("report") /\ target' = "running" /\ UNCHANGED ignored
     \/ /\ (Succeeds /\ Goto("report")) \/ Try("report")
        /\ ignored' = ignored \cup {"D"} /\ target' \in {target, "running"}
  /\ UNCHANGED <<defers, Arguments, mounted, debugged, modes, reported, losses>>

Report ==
  /\ step = "report" /\ Return("ok") /\ reported' = TRUE
  /\ UNCHANGED <<handles, device, modes, ignored, losses, files, force, txm>>

-----------------------------------------------------------------------------
SessionStep ==
  \/ OpenPairing \/ CreateTunnel \/ TunnelMade \/ Consume \/ RunDefer \/ RoutineEnds
  \/ Load \/ ConnectMounter \/ CopyDevices \/ ConnectLockdown \/ GetChipID
  \/ ChipIDFetched \/ Mount
  \/ ConnectRemote \/ ConnectProxy \/ SendAck \/ StartNoAck \/ SetAckMode
  \/ Dispatch \/ Attach \/ Detach \/ Report
=============================================================================
