---------------------------- MODULE StikJITProofs -----------------------------
(***************************************************************************)
(* Proofs about what the public calls of StikJIT answer and claim, for any *)
(* number of calls.  The invariant follows a call through its phases, the  *)
(* routine a phase runs through its steps, and what is known of the device *)
(* at each of them.                                                        *)
(***************************************************************************)
EXTENDS HandleProofs

Types ==
  /\ result \in Results /\ files \in BOOLEAN /\ force \in BOOLEAN /\ txm \in Presence
  /\ mounted \in BOOLEAN /\ target \in {"running", "stopped"} /\ debugged \in BOOLEAN
  /\ modes \subseteq Ends /\ reported \in BOOLEAN /\ ignored \subseteq Commands
  /\ call \in Calls \cup {"none"} /\ forced \in BOOLEAN
  /\ phase \in Phases /\ answer \in Answers /\ calls \in 0 .. MaxCalls
  /\ hardware \in {"present", "absent"} /\ after \in Steps \cup {"done", "tunnel"}

\* On the way to a step of its own: no return value yet, no error to be thrown.
Underway(s) == step = s \/ (step \in {"consume", "leave"} /\ after = s)
Talking  == {"sendAck", "startNoAck", "setAckMode", "dispatch", "script", "attach", "detach", "report"}
Greeting == {"load", "openPairing", "createTunnel", "tunnel", "connectRemote", "connectProxy", "sendAck",
             "startNoAck"}

\* Which routine a step belongs to.
Flow ==
  /\ step = "copyDevices" => routine = "isMounted"
  /\ (\E s \in {"load", "connectLockdown", "getChipID", "mount"} : Underway(s))
       \/ (step = "leave" /\ after = "connectMounter") => routine = "mountDDI"
  /\ step = "connectMounter" => routine \in {"isMounted", "mountDDI"}
  /\ (\E s \in Talking \cup {"connectRemote", "connectProxy"} : Underway(s)) => routine = "enableJIT"

\* Which routine a phase of a call runs.
RoutineOf ==
  CASE phase \in {"check", "verify"} -> "isMounted"
    [] phase = "mount"               -> "mountDDI"
    [] phase = "session" /\ call = "mountDDI"     -> "mountDDI"
    [] phase = "session" /\ call = "isDDIMounted" -> "isMounted"
    [] phase = "session" /\ call \in {"enableJIT", "enableJITDirectly"} -> "enableJIT"
    [] OTHER                         -> "none"

Stage ==
  /\ routine \in {"none", RoutineOf}
  /\ call = "none" <=> phase = "idle"
  /\ phase \notin {"idle", "session"} => call \in {"prepareDevice", "enableJIT"}
  /\ phase = "session" => call # "prepareDevice"

\* What results and phases say of the image on the device.
Outcome ==
  /\ step \notin {"idle", "leave"} \/ (step = "leave" /\ after # "done") => result = "none"
  /\ result = "mounted" => mounted
  /\ result = "notMounted" => ~mounted
  /\ phase = "readTXM" \/ (phase = "session" /\ call = "enableJIT") \/ answer = "ready" => mounted
  /\ phase = "download" => ~mounted
  /\ phase = "mount" /\ (\E s \in {"load", "openPairing", "createTunnel", "tunnel", "connectLockdown",
                                     "getChipID", "connectMounter", "mount"} : Underway(s)) => ~mounted

\* What the steps without a script say of the target.
Claim ==
  /\ txm # "unknown" => txm = hardware
  /\ (\E s \in {"attach", "detach", "report"} : Underway(s)) => txm = "absent"
  /\ reported => step \in {"leave", "idle"} /\ (step = "leave" => after = "done") /\ hardware = "absent"
  /\ reported \/ Underway("detach") \/ Underway("report") => debugged \/ "vAttach" \in ignored
  /\ reported \/ Underway("report") => target = "running" \/ ignored \cap {"vAttach", "D"} # {}

\* Which ends of the debug connection acknowledge.
Mode ==
  /\ (\E s \in Greeting : Underway(s)) => modes = Ends
  /\ Underway("setAckMode") => modes = {"proxy"} \/ "QStartNoAckMode" \in ignored
  /\ (\E s \in {"dispatch", "script", "attach", "detach", "report"} : Underway(s)) =>
       modes = {} \/ "QStartNoAckMode" \in ignored

Course == Types /\ Flow /\ Stage /\ Outcome /\ Claim /\ Mode

-----------------------------------------------------------------------------
LEMMA CourseInit ==
  Init => Course
<1> SUFFICES ASSUME Init PROVE Course
  OBVIOUS
<1> USE DEF Init, SessionInit, NoSession, Underway
<1>1. Types
  <2>1. MaxCalls \in 0 .. MaxCalls
    BY StikJITAssumption
  <2> QED BY <2>1 DEF Types, Results, Presence, Phases, Answers, Steps
<1>2. Flow
  BY DEF Flow, Talking
<1>3. Stage
  BY DEF Stage
<1>4. Outcome
  BY DEF Outcome
<1>5. Claim
  BY DEF Claim
<1>6. Mode
  BY DEF Mode, Greeting
<1> QED BY <1>1, <1>2, <1>3, <1>4, <1>5, <1>6 DEF Course

\* How a step of a routine ends.
LEMMA Exits ==
  ASSUME Control
  PROVE  /\ Throw => step' = "leave" /\ after' = "done" /\ result' = "error" /\ routine' = routine
         /\ Check => step' = "consume" /\ after' = "done" /\ UNCHANGED <<routine, result>>
BY DEF Throw, Return, Check, Try

\* The types of a step of a routine.
LEMMA SessionTypes ==
  ASSUME HandleInv, Types, SessionStep \/ RunScript, UNCHANGED <<facadeVars, hardware>>
  PROVE  Types'
<1> USE DEF Types, Goto, Return, ReturnTo, Throw, Try, Check, Arguments, device, talk, facadeVars
<1>1. CASE OpenPairing \/ CreateTunnel \/ TunnelMade \/ RunDefer \/ RoutineEnds \/ Load
  BY <1>1 DEF OpenPairing, CreateTunnel, TunnelMade, RunDefer, RoutineEnds, Load, Steps, Results, control
<1>2. CASE Consume
  BY <1>2 DEF Consume, Steps, Results
<1>3. CASE ConnectMounter \/ CopyDevices \/ ConnectLockdown \/ GetChipID \/ ChipIDFetched \/ Mount
  BY <1>3 DEF ConnectMounter, CopyDevices, ConnectLockdown, GetChipID, ChipIDFetched, Mount, Connect,
     Steps, Results
<1>4. CASE ConnectRemote \/ ConnectProxy \/ SendAck \/ Dispatch \/ Report
  BY <1>4 DEF ConnectRemote, ConnectProxy, SendAck, Dispatch, Report, Steps, Results
<1>5. CASE StartNoAck
  <2>1. modes' \subseteq Ends /\ ignored' \subseteq Commands /\ step' \in Steps /\ result' = result
        /\ UNCHANGED reported /\ after' \in Steps \cup {"done", "tunnel"}
    BY <1>5 DEF StartNoAck, Steps, Commands
  <2> QED BY <1>5, <2>1 DEF StartNoAck
<1>6. CASE SetAckMode
  BY <1>6 DEF SetAckMode, Steps
<1>7. CASE RunScript
  BY <1>7 DEF RunScript, Results
<1>8. CASE Attach
  <2>1. ignored' \subseteq Commands
    BY <1>8 DEF Attach, Commands
  <2>2. result' = result /\ after' \in Steps \cup {"done", "tunnel"}
    BY <1>8 DEF Attach, Steps
  <2>3. target' \in {"running", "stopped"} /\ debugged' \in BOOLEAN
    BY <1>8 DEF Attach
  <2>4. UNCHANGED <<files, force, txm, mounted, modes, reported>>
    BY <1>8 DEF Attach
  <2> QED BY <2>1, <2>2, <2>3, <2>4
<1>9. CASE Detach
  <2>1. ignored' \subseteq Commands
    BY <1>9 DEF Detach, Commands
  <2> QED BY <1>9, <2>1 DEF Detach, Steps, Results
<1> QED BY <1>1, <1>2, <1>3, <1>4, <1>5, <1>6, <1>7, <1>8, <1>9 DEF SessionStep

\* A step of a routine keeps to the routine.
LEMMA SessionFlow ==
  ASSUME HandleInv, Flow, SessionStep \/ RunScript
  PROVE  Flow'
<1> USE DEF Flow, Underway, Talking, Goto, Return, ReturnTo, Throw, Try, Check
<1>0. Control
  BY DEF HandleInv
<1>1. CASE OpenPairing \/ CreateTunnel \/ RunDefer \/ RoutineEnds \/ Load
  BY <1>0, <1>1 DEF OpenPairing, CreateTunnel, RunDefer, RoutineEnds, Load, control
<1>2. CASE TunnelMade
  <2>1. /\ routine = "isMounted" => step' = "connectMounter"
        /\ routine = "mountDDI" => step' = "connectLockdown"
        /\ routine = "enableJIT" => step' = "connectRemote"
        /\ UNCHANGED <<routine, after>> /\ routine \in Routines
    BY <1>0, <1>2 DEF TunnelMade, Control
  <2> QED BY <2>1 DEF Routines
<1>3. CASE Consume
  BY <1>0, <1>3 DEF Consume, Control
<1>4. CASE ConnectMounter
  <2>1. routine \in {"isMounted", "mountDDI"} /\ routine' = routine
        /\ (step' \in {"copyDevices", "mount"} \/ (step' \in {"consume", "leave"} /\ after' = "done"))
        /\ (step' = "copyDevices" => routine = "isMounted") /\ (step' = "mount" => routine # "isMounted")
    BY <1>4 DEF ConnectMounter, Connect
  <2> QED BY <2>1
<1>5. CASE CopyDevices \/ ConnectLockdown \/ GetChipID \/ ChipIDFetched \/ Mount
  BY <1>5 DEF CopyDevices, ConnectLockdown, GetChipID, ChipIDFetched, Mount, Connect
<1>6. CASE ConnectRemote \/ ConnectProxy \/ SendAck \/ StartNoAck \/ SetAckMode \/ Dispatch
  BY <1>6 DEF ConnectRemote, ConnectProxy, SendAck, StartNoAck, SetAckMode, Dispatch
<1>7. CASE RunScript \/ Attach \/ Detach \/ Report
  BY <1>7 DEF RunScript, Attach, Detach, Report
<1> QED BY <1>1, <1>2, <1>3, <1>4, <1>5, <1>6, <1>7 DEF SessionStep

LEMMA SessionOutcome ==
  ASSUME HandleInv, Flow, Stage, Outcome, SessionStep \/ RunScript, UNCHANGED facadeVars
  PROVE  Outcome'
<1> USE DEF Outcome, Underway, Goto, Return, ReturnTo, Throw, Try, Check, device, facadeVars
<1>0. Control
  BY DEF HandleInv
<1>1. CASE OpenPairing \/ CreateTunnel \/ RunDefer \/ RoutineEnds \/ Load
  BY <1>0, <1>1 DEF OpenPairing, CreateTunnel, RunDefer, RoutineEnds, Load, control
<1>2. CASE TunnelMade
  <2>1. /\ step' \in {"connectMounter", "connectLockdown", "connectRemote"}
        /\ step = "leave" /\ after = "tunnel" /\ UNCHANGED <<routine, after, result, mounted>>
    <3>1. routine \in Routines
      BY <1>0, <1>2 DEF TunnelMade, Control
    <3> QED BY <1>2, <3>1 DEF TunnelMade, Routines
  <2> QED BY <2>1
<1>3. CASE Consume
  BY <1>0, <1>3 DEF Consume, Control
<1>4. CASE ConnectMounter
  <2>1. /\ step = "connectMounter"
        /\ UNCHANGED <<routine, result, mounted>> \/ result' = "error"
        /\ step' \in {"copyDevices", "mount"} \/ (step' \in {"consume", "leave"} /\ after' = "done")
    BY <1>4 DEF ConnectMounter, Connect
  <2> QED BY <1>4, <2>1 DEF ConnectMounter, Connect
<1>5. CASE CopyDevices \/ ConnectLockdown \/ GetChipID \/ ChipIDFetched
  BY <1>5 DEF CopyDevices, ConnectLockdown, GetChipID, ChipIDFetched, Connect
<1>6. CASE Mount
  <2>1. /\ step = "mount" /\ step' \in {"leave", "consume"} /\ after' = "done"
        /\ result' \in {"none", "ok"} /\ mounted' \in {mounted, TRUE}
    BY <1>6 DEF Mount
  <2>2. phase # "download"
    BY <1>0, <2>1 DEF Flow, Stage, RoutineOf, Control
  <2>3. (step \notin {"idle", "leave"} \/ (step = "leave" /\ after # "done") => result = "none")'
    <3>1. step' = "consume" => result' = "none"
      BY <1>6 DEF Mount
    <3> QED BY <2>1, <3>1
  <2>4. ~(\E s \in {"load", "openPairing", "createTunnel", "tunnel", "connectLockdown", "getChipID",
                     "connectMounter", "mount"} : Underway(s))'
    BY <2>1
  <2>5. mounted => mounted'
    BY <2>1
  <2> QED BY <2>1, <2>2, <2>3, <2>4, <2>5
<1>7. CASE ConnectRemote \/ ConnectProxy \/ SendAck \/ StartNoAck \/ SetAckMode \/ Dispatch
  BY <1>7 DEF ConnectRemote, ConnectProxy, SendAck, StartNoAck, SetAckMode, Dispatch
<1>8. CASE RunScript \/ Attach \/ Detach \/ Report
  <2>1. CASE RunScript
    BY <2>1 DEF RunScript
  <2>2. CASE Attach
    BY <2>2 DEF Attach
  <2>3. CASE Detach
    BY <2>3 DEF Detach
  <2>4. CASE Report
    BY <2>4 DEF Report
  <2> QED BY <1>8, <2>1, <2>2, <2>3, <2>4
<1> QED BY <1>1, <1>2, <1>3, <1>4, <1>5, <1>6, <1>7, <1>8 DEF SessionStep

LEMMA SessionClaim ==
  ASSUME HandleInv, Claim, Types, SessionStep \/ RunScript, UNCHANGED <<facadeVars, hardware>>
  PROVE  Claim'
<1> USE DEF Claim, Underway, Goto, Return, ReturnTo, Throw, Try, Check, Arguments, device, talk
<1>0. Control
  BY DEF HandleInv
<1>1. CASE OpenPairing \/ CreateTunnel \/ RoutineEnds \/ Load
  BY <1>0, <1>1 DEF OpenPairing, CreateTunnel, RoutineEnds, Load
<1>2. CASE RunDefer
  BY <1>2 DEF RunDefer, control
<1>3. CASE TunnelMade
  <2>1. /\ step' \in {"connectMounter", "connectLockdown", "connectRemote"}
        /\ step = "leave" /\ after = "tunnel" /\ UNCHANGED <<after, txm, talk, device>>
    <3>1. routine \in Routines
      BY <1>0, <1>3 DEF TunnelMade, Control
    <3> QED BY <1>3, <3>1 DEF TunnelMade, Routines
  <2> QED BY <2>1
<1>4. CASE Consume
  BY <1>0, <1>4 DEF Consume, Control
<1>5. CASE ConnectMounter \/ ConnectLockdown \/ CopyDevices \/ GetChipID \/ ChipIDFetched \/ Mount
  <2>1. CASE ConnectMounter
    BY <2>1 DEF ConnectMounter, Connect
  <2>2. CASE ConnectLockdown
    BY <2>2 DEF ConnectLockdown, Connect
  <2>3. CASE CopyDevices
    BY <2>3 DEF CopyDevices
  <2>4. CASE GetChipID
    BY <2>4 DEF GetChipID
  <2>5. CASE ChipIDFetched
    BY <2>5 DEF ChipIDFetched
  <2>6. CASE Mount
    BY <2>6 DEF Mount
  <2> QED BY <1>5, <2>1, <2>2, <2>3, <2>4, <2>5, <2>6
<1>6. CASE ConnectRemote \/ ConnectProxy \/ SendAck \/ StartNoAck \/ SetAckMode
  <2>1. CASE ConnectRemote
    BY <2>1 DEF ConnectRemote
  <2>2. CASE ConnectProxy
    BY <2>2 DEF ConnectProxy
  <2>3. CASE SendAck
    BY <2>3 DEF SendAck
  <2>4. CASE StartNoAck
    BY <2>4 DEF StartNoAck
  <2>5. CASE SetAckMode
    BY <2>5 DEF SetAckMode
  <2> QED BY <1>6, <2>1, <2>2, <2>3, <2>4, <2>5
<1>7. CASE Dispatch \/ RunScript
  <2>1. CASE Dispatch
    BY <2>1 DEF Dispatch
  <2>2. CASE RunScript
    <3>1. step = "script" /\ step' = "leave" /\ after' = "done" /\ UNCHANGED <<txm, reported, ignored>>
      BY <2>2 DEF RunScript
    <3> QED BY <3>1
  <2> QED BY <1>7, <2>1, <2>2
<1>8. CASE Attach
  BY <1>8 DEF Attach
<1>9. CASE Detach
  BY <1>9 DEF Detach
<1>10. CASE Report
  BY <1>10 DEF Report
<1> QED BY <1>1, <1>2, <1>3, <1>4, <1>5, <1>6, <1>7, <1>8, <1>9, <1>10 DEF SessionStep

LEMMA SessionMode ==
  ASSUME HandleInv, Mode, SessionStep \/ RunScript
  PROVE  Mode'
<1> USE DEF Mode, Underway, Greeting, Goto, Return, ReturnTo, Throw, Try, Check, talk
<1>0. Control
  BY DEF HandleInv
<1>1. CASE OpenPairing \/ CreateTunnel \/ RunDefer \/ RoutineEnds \/ Load
  BY <1>0, <1>1 DEF OpenPairing, CreateTunnel, RunDefer, RoutineEnds, Load, control
<1>3. CASE TunnelMade
  <2>1. /\ step' \in {"connectMounter", "connectLockdown", "connectRemote"}
        /\ step = "leave" /\ after = "tunnel" /\ UNCHANGED <<after, modes, ignored>>
    <3>1. routine \in Routines
      BY <1>0, <1>3 DEF TunnelMade, Control
    <3> QED BY <1>3, <3>1 DEF TunnelMade, Routines
  <2> QED BY <2>1
<1>4. CASE Consume
  BY <1>0, <1>4 DEF Consume, Control
<1>5. CASE ConnectMounter \/ ConnectLockdown \/ CopyDevices \/ GetChipID \/ ChipIDFetched \/ Mount
  BY <1>5 DEF ConnectMounter, CopyDevices, ConnectLockdown, GetChipID, ChipIDFetched, Mount, Connect
<1>6. CASE ConnectRemote \/ ConnectProxy \/ SendAck
  BY <1>6 DEF ConnectRemote, ConnectProxy, SendAck
<1>7. CASE StartNoAck
  BY <1>7 DEF StartNoAck, Ends
<1>8. CASE SetAckMode
  BY <1>8 DEF SetAckMode
<1>9. CASE Dispatch \/ RunScript \/ Attach \/ Detach \/ Report
  BY <1>9 DEF Dispatch, RunScript, Attach, Detach, Report
<1> QED BY <1>1, <1>3, <1>4, <1>5, <1>6, <1>7, <1>8, <1>9 DEF SessionStep

-----------------------------------------------------------------------------
(* The public calls.                                                        *)

LEMMA SessionStage ==
  ASSUME Stage, SessionStep \/ RunScript, UNCHANGED facadeVars
  PROVE  Stage'
<1>1. routine' \in {routine, "none"}
  BY DEF SessionStep, RunScript, OpenPairing, CreateTunnel, TunnelMade, Consume, RunDefer, RoutineEnds, Load,
     ConnectMounter, CopyDevices, ConnectLockdown, GetChipID, ChipIDFetched, Mount, ConnectRemote,
     ConnectProxy, SendAck, StartNoAck, SetAckMode, Dispatch, Attach, Detach, Report, Connect, control,
     Goto, Return, ReturnTo, Throw, Try, Check
<1> QED BY <1>1 DEF Stage, RoutineOf, facadeVars

\* What a started routine finds.
LEMMA StartFacts ==
  ASSUME NEW r \in Routines, NEW f, NEW p, Start(r, f, p)
  PROVE  /\ routine = "none" /\ routine' = r /\ step' \in {"load", "openPairing"} /\ after' = "done"
         /\ (step' = "load" => r = "mountDDI")
         /\ result' = "none" /\ modes' = Ends /\ reported' = FALSE /\ ignored' = {}
         /\ force' = f /\ txm' = p /\ UNCHANGED <<mounted, target, debugged>>
BY DEF Start, device

\* The parts of the invariant that only look at a routine hold when one starts.
LEMMA StartCourse ==
  ASSUME Types, NEW r \in Routines, NEW f \in BOOLEAN, NEW p \in Presence, Start(r, f, p),
         (files \in BOOLEAN /\ call \in Calls \cup {"none"} /\ forced \in BOOLEAN /\ phase \in Phases
            /\ answer \in Answers /\ calls \in 0 .. MaxCalls)',
         UNCHANGED hardware, p # "unknown" => p = hardware
  PROVE  Types' /\ Flow' /\ Claim' /\ Mode'
<1> USE StartFacts DEF Underway
<1>1. Types'
  BY DEF Types, Steps, Results
<1>2. Flow'
  BY DEF Flow, Talking
<1>3. Claim'
  BY DEF Claim
<1>4. Mode'
  BY DEF Mode
<1> QED BY <1>1, <1>2, <1>3, <1>4

LEMMA FrameCourse ==
  ASSUME Types, Flow, Claim, Mode, UNCHANGED sessionVars, UNCHANGED hardware,
         (call \in Calls \cup {"none"} /\ forced \in BOOLEAN /\ phase \in Phases
            /\ answer \in Answers /\ calls \in 0 .. MaxCalls)'
  PROVE  Types' /\ Flow' /\ Claim' /\ Mode'
<1> USE DEF sessionVars, handles, control, device, talk, losses
<1>1. Types'
  BY DEF Types
<1>2. Flow' /\ Claim' /\ Mode'
  BY DEF Flow, Claim, Mode, Underway
<1> QED BY <1>1, <1>2

\* A phase of a call begins with a routine ...
LEMMA BeginCourse ==
  ASSUME Course, NEW r \in Routines, NEW f \in BOOLEAN, NEW p \in Presence, Start(r, f, p),
         p # "unknown" => p = hardware, files' \in BOOLEAN, UNCHANGED hardware,
         phase' \in {"check", "mount", "verify", "session"}, call' \in Calls, RoutineOf' = r,
         phase' # "session" => call' \in {"prepareDevice", "enableJIT"},
         phase' = "session" => call' # "prepareDevice",
         forced' \in BOOLEAN, answer' \in {answer, "none"}, calls' \in 0 .. MaxCalls,
         phase' = "session" /\ call' = "enableJIT" => mounted,
         phase' = "mount" => ~mounted
  PROVE  Course'
<1>1. Types' /\ Flow' /\ Claim' /\ Mode'
  <2>1. (files \in BOOLEAN /\ call \in Calls \cup {"none"} /\ forced \in BOOLEAN /\ phase \in Phases
           /\ answer \in Answers /\ calls \in 0 .. MaxCalls)'
    BY DEF Course, Types, Phases, Answers
  <2> QED BY <2>1, StartCourse DEF Course
<1>2. Stage'
  <2>1. call' # "none" /\ phase' # "idle"
    BY DEF Calls
  <2> QED BY <2>1, StartFacts DEF Stage
<1>3. Outcome'
  BY StartFacts DEF Outcome, Underway, Course
<1> QED BY <1>1, <1>2, <1>3 DEF Course

\* ... or without one, or the call ends.
LEMMA PassCourse ==
  ASSUME Course, routine = "none", HandleInv, UNCHANGED sessionVars, UNCHANGED hardware,
         forced' \in BOOLEAN, answer' \in Answers, calls' \in 0 .. MaxCalls,
         \/ phase' \in {"probe", "download", "readTXM"} /\ call' \in {"prepareDevice", "enableJIT"}
         \/ phase' = "idle" /\ call' = "none",
         answer' = answer \/ answer' # "ready" \/ mounted,
         phase' = "readTXM" => mounted, phase' = "download" => ~mounted
  PROVE  Course'
<1>1. Types' /\ Flow' /\ Claim' /\ Mode'
  BY FrameCourse DEF Course, Types, Calls, Phases
<1>2. routine' = "none" /\ step' = "idle" /\ UNCHANGED <<result, mounted>>
  BY DEF sessionVars, control, device, HandleInv, Control
<1>3. Stage'
  BY <1>2 DEF Stage
<1>4. Outcome'
  BY <1>2 DEF Outcome, Underway, Course
<1> QED BY <1>1, <1>3, <1>4 DEF Course

LEMMA ReadPresence ==
  ASSUME Types, NEW p \in txmPresence
  PROVE  /\ p \in Presence /\ (p # "unknown" => p = hardware)
         /\ PresenceOf(isPresent(p)) = p
BY DEF Types, txmPresence, Presence, PresenceOf, isPresent

LEMMA CallCourse ==
  ASSUME HandleInv, Course, UNCHANGED hardware, NEW c \in Calls, StartCall(c)
  PROVE  Course'
<1>1. /\ call' = c /\ answer' = "none" /\ call = "none" /\ phase = "idle" /\ routine = "none"
      /\ forced' \in BOOLEAN
  BY DEF StartCall, Course, Stage, RoutineOf
<1>2. calls' \in 0 .. MaxCalls
  <2>1. calls > 0 /\ calls' = calls - 1 /\ calls \in 0 .. MaxCalls
    BY DEF StartCall, Course, Types
  <2> QED BY <2>1, StikJITAssumption
<1>3. CASE c = "enableJITDirectly"
  <2>1. PICK p \in txmPresence : BeginJIT(p)
    BY <1>3 DEF StartCall
  <2>2. p \in Presence /\ (p # "unknown" => p = hardware)
    BY ReadPresence DEF Course
  <2>3. Start("enableJIT", forced', p) /\ phase' = "session" /\ files' = files
    BY <2>1 DEF BeginJIT
  <2>4. PICK f \in BOOLEAN : f = forced'
    BY <1>1
  <2>5. RoutineOf' = "enableJIT"
    BY <1>1, <1>3, <2>3 DEF RoutineOf
  <2> QED BY <1>1, <1>2, <1>3, <2>2, <2>3, <2>4, <2>5, BeginCourse DEF Routines, Course, Types
<1>4. CASE c \in {"mountDDI", "isDDIMounted"}
  <2>1. PICK r \in {"mountDDI", "isMounted"} :
          Begin(r, "session") /\ r = IF c = "mountDDI" THEN "mountDDI" ELSE "isMounted"
    BY <1>4 DEF StartCall
  <2>2. Start(r, FALSE, "unknown") /\ phase' = "session" /\ files' = files
    BY <2>1 DEF Begin
  <2>3. RoutineOf' = r
    BY <1>1, <1>4, <2>1, <2>2 DEF RoutineOf
  <2> QED BY <1>1, <1>2, <1>4, <2>2, <2>3, BeginCourse DEF Routines, Presence, Course, Types
<1>5. CASE c \in {"prepareDevice", "enableJIT"}
  <2>1. phase' = "probe" /\ UNCHANGED sessionVars
    BY <1>5 DEF StartCall
  <2> QED BY <1>1, <1>2, <1>5, <2>1, PassCourse DEF Answers
<1> QED BY <1>3, <1>4, <1>5 DEF Calls

LEMMA FacadeCourse ==
  ASSUME HandleInv, Course, UNCHANGED hardware, FacadeStep
  PROVE  Course'
<1>1. /\ calls' = calls /\ calls \in 0 .. MaxCalls /\ forced' \in BOOLEAN /\ answer \in Answers
      /\ files \in BOOLEAN
  BY DEF FacadeStep, Probe, Checked, Download, Mounted, Verified, ReadTXM, CallReturns, Course, Types
<1>2. phase \in {"probe", "check", "download", "mount", "verify", "readTXM"} =>
        call \in {"prepareDevice", "enableJIT"} /\ call \in Calls
  BY DEF Course, Stage, Calls
\* The three things a phase may do.
<1>3. ASSUME phase \in {"probe", "check", "download", "mount", "verify", "readTXM"},
             NEW r \in {"isMounted", "mountDDI"}, Start(r, FALSE, "unknown"), files' \in BOOLEAN,
             phase' \in {"check", "mount", "verify"}, Proceed,
             r = "mountDDI" <=> phase' = "mount", phase' = "mount" => ~mounted
      PROVE  Course'
  <2>1. RoutineOf' = r
    BY <1>3 DEF RoutineOf
  <2> QED BY <1>1, <1>2, <1>3, <2>1, BeginCourse DEF Routines, Presence, Proceed
<1>4. ASSUME phase \in {"probe", "check", "download", "mount", "verify", "readTXM"}, routine = "none",
             UNCHANGED sessionVars, Proceed, phase' \in {"download", "readTXM"},
             phase' = "readTXM" => mounted, phase' = "download" => ~mounted
      PROVE  Course'
  BY <1>1, <1>2, <1>4, PassCourse DEF Proceed
<1>5. ASSUME NEW a \in Answers, Answer(a), a = "ready" => mounted, routine = "none", UNCHANGED sessionVars
      PROVE  Course'
  BY <1>1, <1>5, PassCourse DEF Answer
<1>6. ASSUME NEW why \in {"unreachable", "preparationFailed"}, NotReady(why), routine = "none",
             UNCHANGED sessionVars
      PROVE  Course'
  BY <1>5, <1>6 DEF NotReady, Answers
<1>7. /\ result = "mounted" => mounted
      /\ result = "notMounted" => ~mounted
      /\ phase = "readTXM" => mounted
      /\ phase = "download" => ~mounted
      /\ phase \in {"probe", "download", "readTXM"} => routine = "none"
  BY DEF Course, Outcome, Stage, RoutineOf
<1>8. CASE Probe
  <2>1. CASE Begin("isMounted", "check") /\ Proceed
    BY <1>1, <1>3, <1>8, <2>1 DEF Probe, Begin
  <2>2. CASE NotReady("unreachable") /\ UNCHANGED sessionVars
    BY <1>6, <1>7, <1>8, <2>2 DEF Probe
  <2> QED BY <1>8, <2>1, <2>2 DEF Probe
<1>9. CASE Checked
  <2>1. phase = "check" /\ routine = "none"
    BY <1>9 DEF Checked, Returned
  <2>2. CASE result = "mounted" /\ phase' = "readTXM" /\ Proceed /\ UNCHANGED sessionVars
    BY <1>4, <1>7, <2>1, <2>2
  <2>3. CASE result = "notMounted" /\ Begin("mountDDI", "mount") /\ Proceed
    BY <1>1, <1>3, <1>7, <2>1, <2>3 DEF Begin
  <2>4. CASE result = "notMounted" /\ phase' = "download" /\ Proceed /\ UNCHANGED sessionVars
    BY <1>4, <1>7, <2>1, <2>4
  <2>5. CASE NotReady("preparationFailed") /\ UNCHANGED sessionVars
    BY <1>6, <2>1, <2>5
  <2> QED BY <1>9, <2>2, <2>3, <2>4, <2>5 DEF Checked
<1>10. CASE Download
  <2>1. CASE Start("mountDDI", FALSE, "unknown") /\ files' = TRUE /\ phase' = "mount" /\ Proceed
    BY <1>3, <1>7, <1>10, <2>1 DEF Download
  <2>2. CASE NotReady("preparationFailed") /\ UNCHANGED sessionVars
    BY <1>6, <1>7, <1>10, <2>2 DEF Download
  <2> QED BY <1>10, <2>1, <2>2 DEF Download
<1>11. CASE Mounted
  <2>1. phase = "mount" /\ routine = "none"
    BY <1>11 DEF Mounted, Returned
  <2>2. CASE Begin("isMounted", "verify") /\ Proceed
    BY <1>1, <1>3, <2>1, <2>2 DEF Begin
  <2>3. CASE NotReady("preparationFailed") /\ UNCHANGED sessionVars
    BY <1>6, <2>1, <2>3
  <2> QED BY <1>11, <2>2, <2>3 DEF Mounted
<1>12. CASE Verified
  <2>1. phase = "verify" /\ routine = "none" /\ UNCHANGED sessionVars
    BY <1>12 DEF Verified, Returned
  <2>2. CASE result = "mounted" /\ phase' = "readTXM" /\ Proceed
    BY <1>4, <1>7, <2>1, <2>2
  <2>3. CASE NotReady("preparationFailed")
    BY <1>6, <2>1, <2>3
  <2> QED BY <1>12, <2>2, <2>3 DEF Verified
<1>13. CASE ReadTXM
  <2>1. phase = "readTXM" /\ routine = "none" /\ mounted
    BY <1>7, <1>13 DEF ReadTXM
  <2>2. CASE Answer("ready") /\ UNCHANGED sessionVars
    BY <1>5, <2>1, <2>2 DEF Answers
  <2>3. CASE /\ call = "enableJIT" /\ Proceed
             /\ \E presence \in txmPresence : BeginJIT(PresenceOf(isPresent(presence)))
    <3>1. PICK p \in txmPresence : BeginJIT(PresenceOf(isPresent(p)))
      BY <2>3
    <3>2. p \in Presence /\ (p # "unknown" => p = hardware) /\ PresenceOf(isPresent(p)) = p
      BY ReadPresence DEF Course
    <3>3. Start("enableJIT", forced', p) /\ phase' = "session" /\ files' = files
      BY <3>1, <3>2 DEF BeginJIT
    <3>4. PICK f \in BOOLEAN : f = forced'
      BY <1>1
    <3>5. RoutineOf' = "enableJIT" /\ call' = "enableJIT" /\ answer' = answer
      BY <2>3, <3>3 DEF RoutineOf, Proceed
    <3> QED BY <1>1, <2>1, <3>2, <3>3, <3>4, <3>5, BeginCourse DEF Routines, Calls
  <2> QED BY <1>13, <2>2, <2>3 DEF ReadTXM
<1>14. CASE CallReturns
  BY <1>5, <1>14 DEF CallReturns, Returned, Answers
<1> QED BY <1>8, <1>9, <1>10, <1>11, <1>12, <1>13, <1>14 DEF FacadeStep

-----------------------------------------------------------------------------
LEMMA CourseStep ==
  HandleInv /\ Course /\ [Next]_vars => Course'
<1> SUFFICES ASSUME HandleInv, Course, [Next]_vars PROVE Course'
  OBVIOUS
<1>1. CASE (SessionStep \/ RunScript) /\ UNCHANGED <<facadeVars, hardware>>
  BY <1>1, SessionTypes, SessionFlow, SessionStage, SessionOutcome, SessionClaim, SessionMode DEF Course
<1>2. CASE FacadeStep /\ UNCHANGED hardware
  BY <1>2, FacadeCourse
<1>3. ASSUME NEW c \in Calls, StartCall(c), UNCHANGED hardware PROVE Course'
  BY <1>3, CallCourse
<1>4. CASE CacheChanges /\ UNCHANGED hardware
  <2>1. files' \in BOOLEAN /\ UNCHANGED <<control, device, talk, force, txm, facadeVars>>
    BY <1>4 DEF CacheChanges
  <2> QED BY <1>4, <2>1 DEF Course, Types, Flow, Stage, Outcome, Claim, Mode, Underway, RoutineOf, control,
                             device, talk, facadeVars
<1>5. CASE (Kill \/ Reboot) /\ UNCHANGED hardware
  <2>1. /\ ForgetSessions /\ ForgetCall /\ UNCHANGED <<files, calls>>
        /\ mounted' \in {mounted, FALSE} /\ debugged' \in {debugged, FALSE} /\ target' \in {target, "running"}
    BY <1>5 DEF Kill, Reboot
  <2>2. Types'
    BY <1>5, <2>1 DEF Course, Types, ForgetSessions, ForgetCall, Steps, Results, Presence, Phases, Answers
  <2>3. Flow' /\ Stage'
    BY <2>1 DEF Flow, Stage, ForgetSessions, ForgetCall, Underway, Talking
  <2>4. Outcome' /\ Claim' /\ Mode'
    BY <2>1 DEF Outcome, Claim, Mode, ForgetSessions, ForgetCall, Underway, Greeting
  <2> QED BY <2>2, <2>3, <2>4 DEF Course
<1>6. CASE UNCHANGED vars
  BY <1>6 DEF vars, sessionVars, control, device, talk, facadeVars, Course, Types, Flow, Stage, Outcome,
              Claim, Mode, Underway, RoutineOf
<1> QED BY <1>1, <1>2, <1>3, <1>4, <1>5, <1>6 DEF Next

LEMMA CourseHolds ==
  Spec => [](HandleInv /\ Course)
BY HandleInit, HandleStep, CourseInit, CourseStep, PTL DEF Spec

-----------------------------------------------------------------------------
LEMMA DefersType ==
  HandleInv => defers \in Seq(Kinds)
<1> SUFFICES ASSUME HandleInv PROVE defers \in Seq(Kinds)
  OBVIOUS
<1>1. {"pairing", "handshake", "adapter", "proxy", "remote", "plist", "lockdown", "mounter"} \subseteq Kinds
  BY DEF Kinds
<1>2. defers \in Shapes
  BY DEF HandleInv, Control, DefersOf, Shapes, Unwinding, Tunnel
<1>3. <<>> \in Seq(Kinds) /\ <<"pairing">> \in Seq(Kinds) /\ <<"adapter">> \in Seq(Kinds)
  BY <1>1
<1>4. Tunnel \in Seq(Kinds)
  BY <1>1 DEF Tunnel
<1>5. \A k \in Kinds : <<k, "handshake", "adapter">> \in Seq(Kinds)
  BY <1>1
<1>6. \A k, l \in Kinds : <<k, l, "handshake", "adapter">> \in Seq(Kinds)
  BY <1>1
<1>7. CASE defers \in {<<>>, <<"pairing">>, <<"adapter">>, Tunnel}
  BY <1>3, <1>4, <1>7
<1>8. CASE \E k \in {"mounter", "lockdown", "remote"} : defers = <<k, "handshake", "adapter">>
  BY <1>1, <1>5, <1>8
<1>9. CASE defers \in {<<"proxy", "remote", "handshake", "adapter">>,
                       <<"plist", "lockdown", "handshake", "adapter">>}
  BY <1>1, <1>6, <1>9
<1> QED BY <1>2, <1>7, <1>8, <1>9 DEF Shapes, Unwinding

\* Every variable keeps its type, whatever is called, fails or dies.
THEOREM CallTypeCorrect ==
  Spec => []TypeOK
<1>1. HandleInv /\ Course => TypeOK
  <2> SUFFICES ASSUME HandleInv, Course PROVE TypeOK
    OBVIOUS
  <2>1. defers \in Seq(Kinds)
    BY DefersType
  <2>2. live \subseteq (Kinds \cup {"unread"}) \X (1 .. session)
    <3>1. KindsOf(defers) \cup Loose \subseteq Kinds
      BY <2>1 DEF KindsOf, Loose, Link, Kinds
    <3>2. Leaks \subseteq (Kinds \cup {"unread"}) \X (1 .. session)
      BY DEF HandleInv, Losses, Leaks, Kinds
    <3>3. routine = "none" => KindsOf(defers) \cup Loose = {}
      <4>1. routine = "none" => step = "idle" /\ defers = <<>>
        BY DEF HandleInv, Control, DefersOf
      <4> QED BY <4>1, KindsOfShapes DEF Loose
    <3>4. routine # "none" => session \in 1 .. session
      BY DEF HandleInv, Losses
    <3> QED BY <3>1, <3>2, <3>3, <3>4 DEF HandleInv, Account, Handles
  <2> QED BY <2>1, <2>2 DEF TypeOK, SessionTypeOK, Course, Types, HandleInv, Control, Losses
<1> QED BY <1>1, CourseHolds, PTL

\* "ready" is never answered, and JIT never enabled by the call that prepares the device,
\* without a mounted image.
THEOREM ReadyCorrect ==
  Spec => []ReadyMeansMounted
<1>1. Course => ReadyMeansMounted
  BY DEF Course, Outcome, Stage, RoutineOf, ReadyMeansMounted
<1> QED BY <1>1, CourseHolds, PTL

\* A call that prepares the device never mounts over a mounted image.
THEOREM MountsCorrect ==
  Spec => []MountsWhenNeeded
<1>1. HandleInv /\ Course => MountsWhenNeeded
  <2> SUFFICES ASSUME HandleInv, Course, step = "mount", call # "mountDDI" PROVE ~mounted
    BY DEF MountsWhenNeeded
  <2>1. routine = "mountDDI"
    BY DEF Course, Flow, Underway
  <2>2. phase = "mount"
    BY <2>1 DEF Course, Stage, RoutineOf
  <2> QED BY <2>2 DEF Course, Outcome, Underway
<1> QED BY <1>1, CourseHolds, PTL

\* "JIT enabled" is only said of a device without TXM, and of a target that was attached to
\* and runs on, unless an answer that said otherwise was dropped.
THEOREM ClaimsCorrect ==
  Spec => []ClaimsHold
<1>1. Course => ClaimsHold
  BY DEF Course, Claim, ClaimsHold
<1> QED BY <1>1, CourseHolds, PTL

\* Both ends of a debug connection acknowledge packets or neither does, unless the request
\* not to failed unnoticed.
THEOREM ModesCorrect ==
  Spec => []ModesAgree
<1>1. Course => ModesAgree
  BY DEF Course, Mode, ModesAgree, Underway
<1> QED BY <1>1, CourseHolds, PTL

-----------------------------------------------------------------------------
(* Nobody could tell.                                                       *)

\* A call that was not told of TXM gets no further than to the decision, and a call that
\* runs has not answered.
Doubt ==
  /\ call # "none" => answer = "none"
  /\ InDoubt =>
       /\ ~force /\ result \in {"none", "error"}
       /\ \A s \in {"script", "attach", "detach", "report"} : ~Underway(s)

LEMMA SessionDoubt ==
  ASSUME HandleInv, Flow, Stage, Doubt, SessionStep \/ RunScript, UNCHANGED facadeVars
  PROVE  Doubt' /\ (InDoubt => debugged' = debugged)
<1> USE DEF Goto, Return, ReturnTo, Throw, Try, Check
<1>0. Control /\ UNCHANGED <<call, phase, forced, answer>>
  BY DEF HandleInv, facadeVars
<1>1. UNCHANGED <<txm, force>>
  BY DEF SessionStep, RunScript, OpenPairing, CreateTunnel, TunnelMade, Consume, RunDefer, RoutineEnds, Load,
     ConnectMounter, CopyDevices, ConnectLockdown, GetChipID, ChipIDFetched, Mount, ConnectRemote,
     ConnectProxy, SendAck, StartNoAck, SetAckMode, Dispatch, Attach, Detach, Report, Arguments
<1>2. SUFFICES ASSUME InDoubt
               PROVE  /\ debugged' = debugged /\ result' \in {"none", "error"}
                      /\ \A s \in {"script", "attach", "detach", "report"} : ~Underway(s)'
  BY <1>0, <1>1 DEF Doubt, InDoubt
<1>3. /\ ~force /\ result \in {"none", "error"} /\ txm = "unknown"
      /\ step \notin {"script", "attach", "detach", "report"}
      /\ step \in {"consume", "leave"} => after \notin {"script", "attach", "detach", "report"}
      /\ routine \in {"none", "enableJIT"}
  BY <1>2 DEF Doubt, InDoubt, Underway, Stage, RoutineOf
<1>4. step \notin {"copyDevices", "mount", "load", "connectMounter", "connectLockdown", "getChipID"}
      /\ (step = "leave" => after # "connectMounter")
  BY <1>3 DEF Flow, Underway
<1> USE DEF Underway
<1>5. CASE OpenPairing \/ CreateTunnel \/ RunDefer \/ RoutineEnds \/ Consume
  BY <1>0, <1>3, <1>5 DEF OpenPairing, CreateTunnel, RunDefer, RoutineEnds, Consume, Control, control, device
<1>6. CASE TunnelMade
  <2>1. step' \in {"connectMounter", "connectLockdown", "connectRemote"}
        /\ UNCHANGED <<after, result, debugged>>
    <3>1. routine \in Routines
      BY <1>0, <1>6 DEF TunnelMade, Control
    <3> QED BY <1>6, <3>1 DEF TunnelMade, Routines, device
  <2> QED BY <1>3, <2>1
<1>7. CASE Load \/ ConnectMounter \/ CopyDevices \/ ConnectLockdown \/ GetChipID \/ ChipIDFetched \/ Mount
  BY <1>4, <1>7 DEF Load, ConnectMounter, CopyDevices, ConnectLockdown, GetChipID, ChipIDFetched, Mount
<1>8. CASE ConnectRemote \/ ConnectProxy \/ SendAck \/ StartNoAck \/ SetAckMode \/ Dispatch
  BY <1>3, <1>8 DEF ConnectRemote, ConnectProxy, SendAck, StartNoAck, SetAckMode, Dispatch, device
<1>9. CASE RunScript \/ Attach \/ Detach \/ Report
  BY <1>3, <1>9 DEF RunScript, Attach, Detach, Report
<1> QED BY <1>5, <1>6, <1>7, <1>8, <1>9 DEF SessionStep

\* A routine of such a call starts in the same doubt, and is the only one of its phase.
LEMMA FacadeDoubt ==
  ASSUME HandleInv, Course, Doubt, FacadeStep \/ \E c \in Calls : StartCall(c)
  PROVE  /\ Doubt'
         /\ InDoubt => answer' \in {"none", "error"} /\ debugged' \in {debugged, FALSE}
<1>1. ASSUME NEW p, Start("enableJIT", forced', p), forced' \in BOOLEAN
      PROVE  /\ ~forced' => ~force'
             /\ result' = "none" /\ debugged' = debugged
             /\ \A s \in {"script", "attach", "detach", "report"} : ~Underway(s)'
  <2>1. PICK f \in BOOLEAN : f = forced'
    BY <1>1
  <2> QED BY <1>1, <2>1, StartFacts DEF Underway, Routines
<1>2. ASSUME NEW c \in Calls, StartCall(c) PROVE Doubt' /\ ~InDoubt
  <2>1. call = "none" /\ call' = c /\ answer' = "none" /\ ~InDoubt
    BY <1>2 DEF StartCall, InDoubt
  <2>2. CASE c = "enableJITDirectly"
    <3>1. PICK p \in txmPresence : BeginJIT(p)
      BY <1>2, <2>2 DEF StartCall
    <3>2. forced' \in BOOLEAN
      BY <1>2, <2>2 DEF StartCall
    <3>3. Start("enableJIT", forced', p)
      BY <3>1 DEF BeginJIT
    <3>4. Doubt'
      BY <1>1, <2>1, <3>2, <3>3 DEF Doubt, InDoubt
    <3> QED BY <2>1, <3>4
  <2>3. CASE c # "enableJITDirectly"
    <3>1. phase' = "session" => call' \in {"mountDDI", "isDDIMounted"}
      BY <1>2, <2>1, <2>3 DEF StartCall, Begin, Calls
    <3> QED BY <2>1, <3>1 DEF Doubt, InDoubt
  <2> QED BY <2>1, <2>2, <2>3
<1>3. CASE ReadTXM
  <2>1. ~InDoubt
    BY <1>3 DEF ReadTXM, InDoubt
  <2>2. CASE Answer("ready")
    BY <2>1, <2>2 DEF Answer, Doubt, InDoubt
  <2>3. CASE /\ call = "enableJIT" /\ Proceed
             /\ \E presence \in txmPresence : BeginJIT(PresenceOf(isPresent(presence)))
    <3>1. PICK p : BeginJIT(p)
      BY <2>3
    <3>2. answer' = "none"
      BY <2>3 DEF Proceed, Doubt
    <3>3. forced' \in BOOLEAN
      BY <1>3, <2>3 DEF ReadTXM, Course, Types
    <3>4. Start("enableJIT", forced', p)
      BY <3>1 DEF BeginJIT
    <3>5. Doubt'
      BY <1>1, <3>2, <3>3, <3>4 DEF Doubt, InDoubt
    <3> QED BY <2>1, <3>5
  <2> QED BY <1>3, <2>2, <2>3 DEF ReadTXM
<1>4. CASE Probe \/ Checked \/ Download \/ Mounted \/ Verified
  <2>1. ~InDoubt /\ phase' # "session"
    BY <1>4 DEF Probe, Checked, Download, Mounted, Verified, InDoubt, Begin, NotReady, Answer
  <2>2. call' # "none" => UNCHANGED <<call, answer>>
    BY <1>4 DEF Probe, Checked, Download, Mounted, Verified, Proceed, NotReady, Answer
  <2> QED BY <2>1, <2>2 DEF Doubt, InDoubt
<1>5. CASE CallReturns
  <2>1. result # "none" /\ UNCHANGED debugged /\ call' = "none" /\ phase' = "idle"
        /\ answer' = IF result = "error" THEN "error" ELSE "returned"
    BY <1>5 DEF CallReturns, Returned, Answer, sessionVars, device
  <2> QED BY <2>1 DEF Doubt, InDoubt
<1> QED BY <1>2, <1>3, <1>4, <1>5 DEF FacadeStep

LEMMA DoubtStep ==
  HandleInv /\ Course /\ Doubt /\ [Next]_vars =>
    Doubt' /\ (InDoubt => answer' \in {"none", "error"} /\ debugged' \in {debugged, FALSE})
<1> SUFFICES ASSUME HandleInv, Course, Doubt, [Next]_vars
             PROVE  Doubt' /\ (InDoubt => answer' \in {"none", "error"} /\ debugged' \in {debugged, FALSE})
  OBVIOUS
<1>0. InDoubt => answer = "none"
  BY DEF Doubt, InDoubt
<1>1. CASE (SessionStep \/ RunScript) /\ UNCHANGED facadeVars
  BY <1>0, <1>1, SessionDoubt DEF Course, facadeVars
<1>2. CASE FacadeStep \/ \E c \in Calls : StartCall(c)
  BY <1>2, FacadeDoubt
<1>3. CASE CacheChanges \/ UNCHANGED vars
  <2>1. UNCHANGED <<call, forced, phase, answer, txm, force, step, after, result, debugged>>
    BY <1>3 DEF CacheChanges, vars, sessionVars, facadeVars, control, device
  <2>2. Doubt'
    BY <2>1 DEF Doubt, InDoubt, Underway
  <2> QED BY <1>0, <2>1, <2>2
<1>4. CASE Kill \/ Reboot
  BY <1>4 DEF Kill, Reboot, ForgetCall, Doubt, InDoubt
<1> QED BY <1>1, <1>2, <1>3, <1>4 DEF Next

\* enableJIT without forceScript, on a device whose TXM nobody could tell, attaches no
\* debugger and answers nothing but an error.
THEOREM DoubtsEndInErrors ==
  Spec => UnknownMeansError
<1>1. Init => Doubt
  BY DEF Init, SessionInit, NoSession, Doubt, InDoubt
<1>2. HandleInv /\ Course /\ Doubt /\ [Next]_vars =>
        [InDoubt => answer' \in {"none", "error"} /\ debugged' \in {debugged, FALSE}]_vars
  BY DoubtStep
<1>3. HandleInv /\ Course /\ Doubt /\ [Next]_vars => Doubt'
  BY DoubtStep
<1> QED BY <1>1, <1>2, <1>3, CourseHolds, PTL DEF Spec, UnknownMeansError

-----------------------------------------------------------------------------
(* Calls advance.                                                           *)

LEMMA StepsFromEach ==
  ASSUME NEW a
  PROVE  /\ StepsFrom("load", a) = 17 /\ StepsFrom("openPairing", a) = 16
         /\ StepsFrom("createTunnel", a) = 15 /\ StepsFrom("connectRemote", a) = 13
         /\ StepsFrom("connectProxy", a) = 12 /\ StepsFrom("sendAck", a) = 11
         /\ StepsFrom("startNoAck", a) = 10 /\ StepsFrom("setAckMode", a) = 8
         /\ StepsFrom("dispatch", a) = 7 /\ StepsFrom("attach", a) = 6 /\ StepsFrom("detach", a) = 5
         /\ StepsFrom("report", a) = 3 /\ StepsFrom("script", a) = 3
         /\ StepsFrom("connectLockdown", a) = 7 /\ StepsFrom("getChipID", a) = 6
         /\ StepsFrom("connectMounter", a) = 4 /\ StepsFrom("mount", a) = 3
         /\ StepsFrom("copyDevices", a) = 3 /\ StepsFrom("idle", a) = 0
<1>1. /\ StepsFrom("load", a) = 17 /\ StepsFrom("openPairing", a) = 16
      /\ StepsFrom("createTunnel", a) = 15 /\ StepsFrom("connectRemote", a) = 13
      /\ StepsFrom("connectProxy", a) = 12 /\ StepsFrom("sendAck", a) = 11
  BY DEF StepsFrom
<1>2. /\ StepsFrom("startNoAck", a) = 10 /\ StepsFrom("setAckMode", a) = 8
      /\ StepsFrom("dispatch", a) = 7 /\ StepsFrom("attach", a) = 6 /\ StepsFrom("detach", a) = 5
      /\ StepsFrom("report", a) = 3 /\ StepsFrom("script", a) = 3
  BY DEF StepsFrom
<1>3. /\ StepsFrom("connectLockdown", a) = 7 /\ StepsFrom("getChipID", a) = 6
      /\ StepsFrom("connectMounter", a) = 4 /\ StepsFrom("mount", a) = 3
      /\ StepsFrom("copyDevices", a) = 3 /\ StepsFrom("idle", a) = 0
  BY DEF StepsFrom
<1> QED BY <1>1, <1>2, <1>3

LEMMA StepsFromBetween ==
  /\ StepsFrom("consume", "setAckMode") = 9 /\ StepsFrom("consume", "report") = 4
  /\ StepsFrom("consume", "done") = 2 /\ StepsFrom("leave", "tunnel") = 14
  /\ StepsFrom("leave", "connectMounter") = 5 /\ StepsFrom("leave", "done") = 1
BY DEF StepsFrom

LEMMA StepsFromNat ==
  ASSUME NEW s, NEW a PROVE StepsFrom(s, a) \in 0 .. 17
BY DEF StepsFrom

LEMMA PhasesFromEach ==
  /\ PhasesFrom("probe") = 6 /\ PhasesFrom("check") = 5 /\ PhasesFrom("download") = 4
  /\ PhasesFrom("mount") = 3 /\ PhasesFrom("verify") = 2 /\ PhasesFrom("readTXM") = 1
  /\ PhasesFrom("session") = 0 /\ \A p : PhasesFrom(p) \in 0 .. 6
BY DEF PhasesFrom

Rank == StepsFrom(step, after)

\* A step of a routine gets on, and defers at most two calls.
LEMMA FewerSteps ==
  ASSUME phase' = phase, Len(defers) \in Nat, Len(defers') \in Nat,
         \/ Rank' < Rank /\ Len(defers') <= Len(defers) + 2
         \/ Rank' = Rank /\ Len(defers') < Len(defers)
  PROVE  StepsLeft' \in 0 .. (StepsLeft - 1)
<1>1. PICK p \in 0 .. 6 : p = PhasesFrom(phase)
  BY PhasesFromEach
<1>2. PICK r, q \in 0 .. 17 : r = Rank /\ q = Rank'
  BY StepsFromNat DEF Rank
<1>3. PICK n, m \in Nat : n = Len(defers) /\ m = Len(defers')
  OBVIOUS
<1>4. StepsLeft = 60 * p + 3 * r + n
  <2>1. StepsLeft = 60 * PhasesFrom(phase) + 3 * Rank + Len(defers)
    BY DEF StepsLeft, Rank
  <2> QED BY <1>1, <1>2, <1>3, <2>1
<1>5. StepsLeft' = 60 * p + 3 * q + m
  <2>1. StepsLeft' = 60 * PhasesFrom(phase) + 3 * Rank' + Len(defers')
    BY DEF StepsLeft, Rank
  <2> QED BY <1>1, <1>2, <1>3, <2>1
<1>6. (q < r /\ m <= n + 2) \/ (q = r /\ m < n)
  BY <1>2, <1>3
<1>7. 60 * p + 3 * q + m \in 0 .. (60 * p + 3 * r + n - 1)
  BY <1>6
<1> QED BY <1>4, <1>7, <1>5

LEMMA DefersLengths ==
  ASSUME HandleInv
  PROVE  /\ Len(defers) \in Nat
         /\ \A k \in Kinds : Defers(<<k>>) => Len(defers') = Len(defers) + 1
         /\ \A k, l \in Kinds : Defers(<<k, l>>) => Len(defers') = Len(defers) + 2
         /\ Len(defers) > 0 => Len(Tail(defers)) = Len(defers) - 1
<1>1. defers \in Seq(Kinds)
  BY DefersType
<1>2. ASSUME NEW k \in Kinds, Defers(<<k>>) PROVE Len(defers') = Len(defers) + 1
  BY <1>1, <1>2 DEF Defers
<1>3. ASSUME NEW k \in Kinds, NEW l \in Kinds, Defers(<<k, l>>) PROVE Len(defers') = Len(defers) + 2
  BY <1>1, <1>3 DEF Defers
<1>4. Len(defers) \in Nat /\ (Len(defers) > 0 => Len(Tail(defers)) = Len(defers) - 1)
  BY <1>1
<1> QED BY <1>2, <1>3, <1>4

\* Every step of a routine gets on.
LEMMA SessionAdvance ==
  ASSUME HandleInv, SessionStep \/ RunScript, UNCHANGED facadeVars
  PROVE  StepsLeft' \in 0 .. (StepsLeft - 1)
<1> DEFINE n == Len(defers)
           m == Len(defers')
           Opened == m \in {n, n + 1, n + 2}
<1>0. Control /\ phase' = phase /\ n \in Nat
  BY DefersLengths DEF HandleInv, facadeVars
<1>1. /\ \A k \in {"pairing", "mounter", "lockdown", "plist", "remote"} : Defers(<<k>>) => Opened
      /\ Defers(<<"handshake", "adapter">>) \/ Defers(<<"proxy", "remote">>) => Opened
      /\ defers' = defers => Opened
  <2>1. {"pairing", "mounter", "lockdown", "plist", "remote", "handshake", "adapter", "proxy"} \subseteq Kinds
    BY DEF Kinds
  <2> QED BY <2>1, DefersLengths
\* What a step gives up on, or hands to its caller.
<1>2. /\ Throw => Rank' = 1
      /\ Check => Rank' = 2
      /\ ReturnTo("tunnel") => Rank' = 14
      /\ ReturnTo("connectMounter") => Rank' = 5
      /\ Try("setAckMode") => Rank' = 9
      /\ Try("report") => Rank' = 4
  BY StepsFromBetween DEF Throw, Return, Check, ReturnTo, Try, Rank
<1>r. ASSUME NEW v, Return(v) PROVE Rank' = 1
  BY <1>r, StepsFromBetween DEF Return, Rank
<1>3. \A s : Goto(s) => Rank' = StepsFrom(s, after)
  BY DEF Goto, Rank
<1>4. ASSUME Opened, Rank' < Rank PROVE StepsLeft' \in 0 .. (StepsLeft - 1)
  BY <1>0, <1>4, FewerSteps
<1> HIDE DEF Opened, n, m
<1> USE StepsFromEach, StepsFromBetween
<1>5. CASE OpenPairing \/ CreateTunnel \/ Load
  <2>1. CASE OpenPairing
    <3>1. Rank = 16 /\ Rank' \in {15, 2, 1} /\ Opened
      BY <1>1, <1>2, <1>3, <2>1 DEF OpenPairing, Rank
    <3> QED BY <1>4, <3>1
  <2>2. CASE CreateTunnel
    <3>1. Rank = 15 /\ Rank' \in {14, 2} /\ Opened
      BY <1>1, <1>2, <2>2 DEF CreateTunnel, Rank
    <3> QED BY <1>4, <3>1
  <2>3. CASE Load
    <3>1. Rank = 17 /\ Rank' \in {16, 1} /\ Opened
      BY <1>1, <1>2, <1>3, <2>3 DEF Load, handles, Rank
    <3> QED BY <1>4, <3>1
  <2> QED BY <1>5, <2>1, <2>2, <2>3
<1>6. CASE TunnelMade
  <2>1. Rank = 14 /\ Opened
    BY <1>1, <1>6 DEF TunnelMade, Rank
  <2>2. Goto("connectMounter") \/ Goto("connectLockdown") \/ Goto("connectRemote")
    <3>1. routine \in Routines
      BY <1>0, <1>6 DEF TunnelMade, Control
    <3> QED BY <1>6, <3>1 DEF TunnelMade, Routines
  <2>3. Rank' \in {4, 7, 13}
    BY <1>3, <2>2
  <2> QED BY <1>4, <2>1, <2>3
<1>7. CASE Consume
  <2>1. Opened /\ step = "consume" /\ after \in {"setAckMode", "report", "done"}
    BY <1>0, <1>1, <1>7 DEF Consume, Control
  <2>2. \/ Rank = 9 /\ Rank' = 8
        \/ Rank = 4 /\ Rank' = 3
        \/ Rank = 2 /\ Rank' = 1
    BY <1>2, <1>3, <1>7, <2>1 DEF Consume, Rank
  <2> QED BY <1>4, <2>1, <2>2
<1>8. CASE RunDefer
  <2>1. Rank' = Rank /\ Len(defers) > CallersDefers /\ defers' = Tail(defers)
    BY <1>8 DEF RunDefer, control, Rank
  <2>2. n > 0 /\ m = n - 1
    BY <1>0, <2>1, DefersLengths DEF CallersDefers, n, m
  <2> QED BY <1>0, <2>1, <2>2, FewerSteps DEF n, m
<1>9. CASE RoutineEnds
  <2>1. Rank = 1 /\ Rank' = 0 /\ Opened
    BY <1>1, <1>9 DEF RoutineEnds, handles, Rank
  <2> QED BY <1>4, <2>1
<1>10. CASE ConnectMounter \/ CopyDevices \/ ConnectLockdown \/ Mount
  <2>1. CASE ConnectMounter
    <3>1. Rank = 4 /\ Rank' \in {3, 2, 1} /\ Opened
      BY <1>1, <1>2, <1>3, <2>1 DEF ConnectMounter, Connect, Rank
    <3> QED BY <1>4, <3>1
  <2>2. CASE ConnectLockdown
    <3>1. Rank = 7 /\ Rank' \in {6, 2, 1} /\ Opened
      BY <1>1, <1>2, <1>3, <2>2 DEF ConnectLockdown, Connect, Rank
    <3> QED BY <1>4, <3>1
  <2>3. CASE CopyDevices
    <3>1. Rank = 3 /\ Rank' \in {2, 1} /\ Opened
      BY <1>1, <1>2, <1>r, <2>3 DEF CopyDevices, Rank
    <3> QED BY <1>4, <3>1
  <2>4. CASE Mount
    <3>1. Rank = 3 /\ Rank' \in {2, 1} /\ Opened
      BY <1>1, <1>2, <1>r, <2>4 DEF Mount, Rank
    <3> QED BY <1>4, <3>1
  <2> QED BY <1>10, <2>1, <2>2, <2>3, <2>4
<1>11. CASE GetChipID
  <2>1. Rank = 6 /\ Rank' \in {5, 2, 1} /\ Opened
    BY <1>1, <1>2, <1>11 DEF GetChipID, Rank
  <2> QED BY <1>4, <2>1
<1>12. CASE ChipIDFetched
  <2>1. Rank = 5 /\ Rank' = 4 /\ Opened
    BY <1>1, <1>12 DEF ChipIDFetched, handles, Rank
  <2> QED BY <1>4, <2>1
<1>13. CASE ConnectRemote \/ ConnectProxy \/ SendAck
  <2>1. CASE ConnectRemote
    <3>1. Rank = 13 /\ Rank' \in {12, 2} /\ Opened
      BY <1>1, <1>2, <1>3, <2>1 DEF ConnectRemote, Rank
    <3> QED BY <1>4, <3>1
  <2>2. CASE ConnectProxy
    <3>1. Rank = 12 /\ Rank' \in {11, 2, 1} /\ Opened
      BY <1>1, <1>2, <1>3, <2>2 DEF ConnectProxy, Rank
    <3> QED BY <1>4, <3>1
  <2>3. CASE SendAck
    <3>1. Rank = 11 /\ Rank' = 10 /\ Opened
      BY <1>1, <1>3, <2>3 DEF SendAck, Rank
    <3> QED BY <1>4, <3>1
  <2> QED BY <1>13, <2>1, <2>2, <2>3
<1>14. CASE StartNoAck \/ SetAckMode \/ Dispatch
  <2>1. CASE StartNoAck
    <3>1. Rank = 10 /\ Rank' \in {9, 8} /\ Opened
      BY <1>1, <1>2, <1>3, <2>1 DEF StartNoAck, Rank
    <3> QED BY <1>4, <3>1
  <2>2. CASE SetAckMode
    <3>1. Rank = 8 /\ Rank' = 7 /\ Opened
      BY <1>1, <1>3, <2>2 DEF SetAckMode, Rank
    <3> QED BY <1>4, <3>1
  <2>3. CASE Dispatch
    <3>1. Rank = 7 /\ Rank' \in {6, 3, 1} /\ Opened
      BY <1>1, <1>2, <1>3, <2>3 DEF Dispatch, handles, Rank
    <3> QED BY <1>4, <3>1
  <2> QED BY <1>14, <2>1, <2>2, <2>3
<1>15. CASE RunScript \/ Attach \/ Detach \/ Report
  <2>0. CASE RunScript
    <3>1. Rank = 3 /\ Rank' = 1 /\ Opened
      BY <1>1, <1>2, <1>r, <2>0 DEF RunScript, Rank
    <3> QED BY <1>4, <3>1
  <2>1. CASE Report
    <3>1. Rank = 3 /\ Rank' = 1 /\ Opened
      BY <1>1, <1>r, <2>1 DEF Report, handles, Rank
    <3> QED BY <1>4, <3>1
  <2>2. CASE Attach
    <3>1. Rank = 6 /\ Rank' \in {5, 2} /\ Opened
      BY <1>1, <1>2, <1>3, <2>2 DEF Attach, Rank
    <3> QED BY <1>4, <3>1
  <2>3. CASE Detach
    <3>1. Rank = 5 /\ Rank' \in {4, 3} /\ Opened
      BY <1>1, <1>2, <1>3, <2>3 DEF Detach, Rank
    <3> QED BY <1>4, <3>1
  <2> QED BY <1>15, <2>0, <2>1, <2>2, <2>3
<1> QED BY <1>5, <1>6, <1>7, <1>8, <1>9, <1>10, <1>11, <1>12, <1>13, <1>14, <1>15 DEF SessionStep

\* Every phase of a call leaves fewer of them, and the routine it starts takes less than one.
LEMMA FacadeAdvance ==
  ASSUME HandleInv, FacadeStep, call' # "none"
  PROVE  StepsLeft' \in 0 .. (StepsLeft - 1)
<1>0. Len(defers) \in Nat
  BY DefersLengths
<1>1. ASSUME NEW r, NEW f, NEW p, Start(r, f, p), PhasesFrom(phase') < PhasesFrom(phase)
      PROVE  StepsLeft' \in 0 .. (StepsLeft - 1)
  <2>1. routine = "none" /\ defers' = defers /\ step = "idle"
    BY <1>1 DEF Start, HandleInv, Control
  <2>2. Len(defers) = 0 /\ StepsFrom(step, after) = 0
    <3>1. defers = <<>>
      BY <2>1 DEF HandleInv, DefersOf
    <3> QED BY <2>1, <3>1, StepsFromEach
  <2>3. PICK p1, p2 \in 0 .. 6 : p1 = PhasesFrom(phase) /\ p2 = PhasesFrom(phase')
    BY PhasesFromEach
  <2>4. PICK q \in 0 .. 17 : q = StepsFrom(step', after')
    BY StepsFromNat
  <2>5. StepsLeft = 60 * p1 /\ StepsLeft' = 60 * p2 + 3 * q
    BY <2>1, <2>2, <2>3, <2>4 DEF StepsLeft
  <2>6. p2 < p1
    BY <1>1, <2>3
  <2>7. 60 * p2 + 3 * q \in 0 .. (60 * p1 - 1)
    BY <2>6
  <2> QED BY <2>5, <2>7
<1>2. ASSUME UNCHANGED sessionVars, PhasesFrom(phase') < PhasesFrom(phase)
      PROVE  StepsLeft' \in 0 .. (StepsLeft - 1)
  <2>1. PICK p1, p2 \in 0 .. 6 : p1 = PhasesFrom(phase) /\ p2 = PhasesFrom(phase')
    BY PhasesFromEach
  <2>2. PICK q \in 0 .. 17 : q = StepsFrom(step, after)
    BY StepsFromNat
  <2>3. PICK n \in Nat : n = Len(defers)
    BY <1>0
  <2>4. StepsLeft = 60 * p1 + 3 * q + n /\ StepsLeft' = 60 * p2 + 3 * q + n
    BY <1>2, <2>1, <2>2, <2>3 DEF StepsLeft, sessionVars, handles, control
  <2>5. p2 < p1
    BY <1>2, <2>1
  <2>6. 60 * p2 + 3 * q + n \in 0 .. (60 * p1 + 3 * q + n - 1)
    BY <2>5
  <2> QED BY <2>4, <2>6
<1>3. \A a : ~Answer(a) /\ ~NotReady(a)
  BY DEF Answer, NotReady
<1>4. /\ phase = "probe" /\ phase' = "check" => PhasesFrom(phase') < PhasesFrom(phase)
      /\ phase = "check" /\ phase' \in {"download", "mount", "readTXM"} =>
           PhasesFrom(phase') < PhasesFrom(phase)
      /\ phase = "download" /\ phase' = "mount" => PhasesFrom(phase') < PhasesFrom(phase)
      /\ phase = "mount" /\ phase' = "verify" => PhasesFrom(phase') < PhasesFrom(phase)
      /\ phase = "verify" /\ phase' = "readTXM" => PhasesFrom(phase') < PhasesFrom(phase)
      /\ phase = "readTXM" /\ phase' = "session" => PhasesFrom(phase') < PhasesFrom(phase)
  BY PhasesFromEach
<1> USE DEF Begin, BeginJIT
<1>5. CASE Probe \/ Download
  BY <1>1, <1>3, <1>4, <1>5 DEF Probe, Download
<1>6. CASE Checked
  BY <1>1, <1>2, <1>3, <1>4, <1>6 DEF Checked
<1>7. CASE Mounted
  BY <1>1, <1>3, <1>4, <1>7 DEF Mounted
<1>8. CASE Verified \/ CallReturns
  BY <1>2, <1>3, <1>4, <1>8 DEF Verified, CallReturns
<1>9. CASE ReadTXM
  BY <1>1, <1>3, <1>4, <1>9 DEF ReadTXM
<1> QED BY <1>5, <1>6, <1>7, <1>8, <1>9 DEF FacadeStep

\* A call takes finitely many steps, whatever fails: none of its phases and none of the
\* steps of its routines comes twice.
THEOREM CallsAlwaysAdvance ==
  Spec => CallsAdvance
<1>1. ASSUME HandleInv, [Next]_vars, call # "none", call' # "none"
      PROVE  UNCHANGED <<call, phase, control, defers>> \/ StepsLeft' \in 0 .. (StepsLeft - 1)
  <2>1. CASE CacheChanges \/ UNCHANGED vars
    BY <2>1 DEF CacheChanges, vars, sessionVars, handles, facadeVars
  <2>2. ~Kill /\ ~Reboot /\ \A c : ~StartCall(c)
    BY <1>1 DEF Kill, Reboot, ForgetCall, StartCall
  <2> QED BY <1>1, <2>1, <2>2, SessionAdvance, FacadeAdvance DEF Next
<1>2. HandleInv /\ [Next]_vars =>
        [call # "none" /\ call' # "none" =>
           UNCHANGED <<call, phase, control, defers>> \/ StepsLeft' \in 0 .. (StepsLeft - 1)]_vars
  BY <1>1
<1> QED BY <1>2, CourseHolds, PTL DEF Spec, CallsAdvance
=============================================================================
