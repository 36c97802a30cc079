------------------------------- MODULE DDICache -------------------------------
(***************************************************************************)
(* The three cached files of the developer disk image and everything that  *)
(* writes, checks, reads or removes them: StikJIT.prepareDevice with its   *)
(* SynchronousDDIDownloader, resetCachedDDI, and the downloadIfNeeded      *)
(* calls of the DeveloperDiskImageService actor.  Helpers call the first   *)
(* two, one at a time ("one dedicated serial background queue"); Tasks     *)
(* call the actor, which runs one of them at a time between two awaits.    *)
(* The server may publish new files, the process may be killed, the device *)
(* may reboot, any transfer or device call may fail.                       *)
(***************************************************************************)
EXTENDS Naturals, Sequences, FiniteSets

CONSTANTS
  Helpers, Tasks,    \* callers of the synchronous API, and of the actor
  Nobody,            \* no task is inside the actor
  MaxCalls, MaxVersion, MaxFaults   \* bounds; kills and reboots count as faults

ASSUME DDIAssumption ==
  /\ Nobody \notin Tasks /\ Helpers \cap Tasks = {}
  /\ {MaxCalls, MaxFaults} \subseteq Nat /\ MaxVersion \in Nat \ {0}

Files == {"image", "trustcache", "manifest"}
DownloadOrder == <<"manifest", "image", "trustcache">>  \* DDIDownloadCatalog.items
PathOrder == <<"image", "trustcache", "manifest">>      \* allPaths, and mountDDI
Missing == 0                                            \* a file that is not there

Clients == Helpers \cup Tasks

VARIABLES
  files,      \* the version of each cached file
  published,  \* the version the server offers
  mounted,    \* is the image mounted on the device?
  actor,      \* the task that runs inside the actor
  pc, todo,   \* per client: where it is, the files it still has to handle
  temporary,  \* the version of the file it transferred
  loaded,     \* the versions it read for mountDDI
  outcome,    \* how the latest call that ended did
  calls, faults,  \* bounds left
  fresh,      \* history: version offered when a reset last succeeded
  used,       \* history: the APIs called so far, queue (synchronous) or actor
  disturbed   \* history: cut (a call ended early, or files were published under one),
              \* torn (a file was removed and its successor could not be moved in)

client == <<pc, todo, temporary, loaded, outcome>>
world  == <<files, published, mounted>>
limits == <<calls, faults>>
past   == <<fresh, used, disturbed>>
vars   == <<world, actor, client, limits, past>>

Init ==
  /\ files = [f \in Files |-> Missing] /\ published = 1 /\ mounted = FALSE
  /\ actor = Nobody
  /\ pc = [c \in Clients |-> "idle"] /\ todo = [c \in Clients |-> <<>>]
  /\ temporary = [c \in Clients |-> Missing] /\ loaded = [c \in Clients |-> <<>>]
  /\ outcome = "none"
  /\ calls = MaxCalls /\ faults = MaxFaults
  /\ fresh = 0 /\ used = {} /\ disturbed = {}

-----------------------------------------------------------------------------
\* The queue of the helpers and the actor of the tasks.
MayStart(h) == \A g \in Helpers : pc[g] = "idle"
MayRun(c) == c \in Tasks => actor \in {Nobody, c}

\* Inside the actor up to the next await or the return.
Stay(c) == actor' = IF c \in Tasks THEN c ELSE actor
LeaveHeld(c) == UNCHANGED actor
Leave(c) == actor' = IF actor = c THEN Nobody ELSE actor

GoTo(c, label, files_) ==
  pc' = [pc EXCEPT ![c] = label] /\ todo' = [todo EXCEPT ![c] = files_]

End(c, result) ==
  /\ GoTo(c, "idle", <<>>) /\ outcome' = result /\ Leave(c)
  /\ temporary' = [temporary EXCEPT ![c] = Missing] /\ loaded' = [loaded EXCEPT ![c] = <<>>]

\* A call of the system fails: the client's function throws.
Fault(c) ==
  /\ faults > 0 /\ faults' = faults - 1 /\ End(c, "failed")
  /\ disturbed' = disturbed \cup {"cut"} \cup (IF pc[c] = "move" THEN {"torn"} ELSE {})
  /\ UNCHANGED <<world, calls, fresh, used>>

\* A file operation fails because another client got there first.
Raced(c) ==
  /\ End(c, "raced") /\ disturbed' = disturbed \cup {"cut"}
  /\ UNCHANGED <<world, limits, fresh, used>>

Begin(c, label, files_) ==
  /\ pc[c] = "idle" /\ calls > 0 /\ calls' = calls - 1
  /\ GoTo(c, label, files_)
  /\ used' = used \cup {IF c \in Helpers THEN "queue" ELSE "actor"}
  /\ UNCHANGED <<world, actor, temporary, loaded, outcome, faults, fresh, disturbed>>

StartPrepare(h) == MayStart(h) /\ Begin(h, "probe", <<>>)

StartReset(h) == MayStart(h) /\ Begin(h, "reset", PathOrder)

StartDownloadIfNeeded(t) == Begin(t, "usable", PathOrder)

\* EndpointProbe, then isMounted: a mounted device needs nothing else.
Probe(h) ==
  /\ pc[h] = "probe"
  /\ \/ /\ GoTo(h, "mounted", <<>>)
        /\ UNCHANGED <<world, actor, temporary, loaded, outcome, limits, past>>
     \/ Fault(h)

CheckMounted(h) ==
  /\ pc[h] = "mounted"
  /\ \/ mounted /\ End(h, "ready") /\ UNCHANGED <<world, limits, past>>
     \/ /\ ~mounted /\ GoTo(h, "usable", PathOrder)
        /\ UNCHANGED <<world, actor, temporary, loaded, outcome, limits, past>>
     \/ Fault(h)

\* The files are there: prepareDevice maps them, downloadIfNeeded returns.
AllFilesThere(c) ==
  \/ /\ c \in Helpers /\ GoTo(c, "load", PathOrder)
     /\ temporary' = [temporary EXCEPT ![c] = Missing] /\ UNCHANGED <<actor, loaded, outcome>>
  \/ c \in Tasks /\ End(c, "done")

\* allFilesUsable looks at one file after the other; one that is missing starts
\* the download of all three.
CheckUsableFirst(c) ==
  /\ pc[c] = "usable" /\ MayRun(c)
  /\ IF files[Head(todo[c])] = Missing
     THEN GoTo(c, "transfer", DownloadOrder) /\ Leave(c) /\ UNCHANGED <<temporary, loaded, outcome>>
     ELSE AllFilesThere(c)
  /\ UNCHANGED <<world, limits, past>>

CheckUsable(c) ==
  /\ pc[c] = "usable" /\ MayRun(c)
  /\ \/ /\ files[Head(todo[c])] = Missing
        /\ GoTo(c, "transfer", DownloadOrder) /\ Leave(c)
        /\ UNCHANGED <<temporary, loaded, outcome>>
     \/ /\ files[Head(todo[c])] # Missing /\ Len(todo[c]) > 1
        /\ GoTo(c, "usable", Tail(todo[c])) /\ Stay(c)
        /\ UNCHANGED <<temporary, loaded, outcome>>
     \/ /\ files[Head(todo[c])] # Missing /\ Len(todo[c]) = 1
        /\ AllFilesThere(c)
  /\ UNCHANGED <<world, limits, past>>

\* The file arrives under a temporary name, or the request fails.
TransferCached(c) ==
  /\ pc[c] = "transfer"
  /\ \/ /\ GoTo(c, "place", todo[c])
        /\ \E v \in 1..published : temporary' = [temporary EXCEPT ![c] = v]
        /\ UNCHANGED <<world, actor, loaded, outcome, limits, past>>
     \/ Fault(c)

Transfer(c) ==
  /\ pc[c] = "transfer"
  /\ \/ /\ GoTo(c, "place", todo[c]) /\ temporary' = [temporary EXCEPT ![c] = published]
        /\ UNCHANGED <<world, actor, loaded, outcome, limits, past>>
     \/ Fault(c)

\* fileExists, removeItem and moveItem: three steps, nothing holds the directory.
\* The actor is entered again after the await, and kept for all three.
PlaceOutside(c) ==
  /\ pc[c] = "place"
  /\ GoTo(c, IF files[Head(todo[c])] = Missing THEN "move" ELSE "clear", todo[c])
  /\ UNCHANGED <<world, actor, temporary, loaded, outcome, limits, past>>

Place(c) ==
  /\ pc[c] = "place" /\ MayRun(c)
  /\ \/ /\ GoTo(c, IF files[Head(todo[c])] = Missing THEN "move" ELSE "clear", todo[c])
        /\ Stay(c) /\ UNCHANGED <<world, temporary, loaded, outcome, limits, past>>
     \/ Fault(c)

RemoveFile(c) ==
  /\ files' = [files EXCEPT ![Head(todo[c])] = Missing]
  /\ UNCHANGED <<published, mounted, actor, temporary, loaded, outcome, limits, past>>

Clear(c) ==
  /\ pc[c] = "clear"
  /\ \/ files[Head(todo[c])] # Missing /\ RemoveFile(c) /\ GoTo(c, "move", todo[c])
     \/ files[Head(todo[c])] = Missing /\ Raced(c)
     \/ Fault(c)

NextItemSame(c) ==
  \/ /\ Len(todo[c]) > 1 /\ GoTo(c, "transfer", todo[c]) /\ Leave(c)
     /\ temporary' = [temporary EXCEPT ![c] = Missing] /\ UNCHANGED <<loaded, outcome>>
  \/ Len(todo[c]) = 1 /\ AllFilesThere(c)

NextItem(c) ==
  \/ /\ Len(todo[c]) > 1 /\ GoTo(c, "transfer", Tail(todo[c])) /\ Leave(c)
     /\ temporary' = [temporary EXCEPT ![c] = Missing] /\ UNCHANGED <<loaded, outcome>>
  \/ Len(todo[c]) = 1 /\ AllFilesThere(c)

Move(c) ==
  /\ pc[c] = "move"
  /\ \/ /\ files[Head(todo[c])] = Missing
        /\ files' = [files EXCEPT ![Head(todo[c])] = temporary[c]]
        /\ NextItem(c)
        /\ UNCHANGED <<published, mounted, limits, past>>
     \/ files[Head(todo[c])] # Missing /\ Raced(c)
     \/ Fault(c)

-----------------------------------------------------------------------------
\* mountDDI reads the three files, then the device decides whether they fit.
LoadUnchecked(h) ==
  /\ pc[h] = "load"
  /\ loaded' = [loaded EXCEPT ![h] = Append(@, files[Head(todo[h])])]
  /\ GoTo(h, IF Len(todo[h]) = 1 THEN "mount" ELSE "load", Tail(todo[h]))
  /\ UNCHANGED <<world, actor, temporary, outcome, limits, past>>

Load(h) ==
  /\ pc[h] = "load"
  /\ \/ /\ files[Head(todo[h])] # Missing
        /\ loaded' = [loaded EXCEPT ![h] = Append(@, files[Head(todo[h])])]
        /\ GoTo(h, IF Len(todo[h]) = 1 THEN "mount" ELSE "load", Tail(todo[h]))
        /\ UNCHANGED <<world, actor, temporary, outcome, limits, past>>
     \/ files[Head(todo[h])] = Missing /\ Raced(h)
     \/ Fault(h)

Fits(versions) == \A i, j \in DOMAIN versions : versions[i] = versions[j]

Mount(h) ==
  /\ pc[h] = "mount"
  /\ \/ /\ Fits(loaded[h]) /\ mounted' = TRUE /\ GoTo(h, "verify", <<>>)
        /\ UNCHANGED <<files, published, actor, temporary, loaded, outcome, limits, past>>
     \/ ~Fits(loaded[h]) /\ End(h, "failed")
        /\ UNCHANGED <<world, limits, past>>
     \/ Fault(h)

Verify(h) ==
  /\ pc[h] = "verify"
  /\ \/ End(h, IF mounted THEN "ready" ELSE "failed")
        /\ UNCHANGED <<world, limits, past>>
     \/ Fault(h)

\* removeCachedFiles: fileExists, then removeItem, for each path, in the order in
\* which Set(allPaths) gives them, which is any.
Without(i, paths) == [j \in 1..(Len(paths) - 1) |-> IF j < i THEN paths[j] ELSE paths[j + 1]]

NextPath(h, rest) ==
  \/ /\ rest # <<>> /\ GoTo(h, "reset", rest)
     /\ UNCHANGED <<actor, temporary, loaded, outcome, fresh>>
  \/ rest = <<>> /\ End(h, "done") /\ fresh' = published

ResetPathKeeps(h) ==
  /\ pc[h] = "reset" /\ NextPath(h, Tail(todo[h]))
  /\ UNCHANGED <<world, limits, used, disturbed>>

ResetPath(h) ==
  /\ pc[h] = "reset"
  /\ \E i \in 1..Len(todo[h]) :
       LET f == todo[h][i]
           rest == Without(i, todo[h])
       IN  \/ files[f] = Missing /\ NextPath(h, rest)
           \/ /\ files[f] # Missing /\ GoTo(h, "unlink", <<f>> \o rest)
              /\ UNCHANGED <<actor, temporary, loaded, outcome, fresh>>
  /\ UNCHANGED <<world, limits, used, disturbed>>

Unlink(h) ==
  /\ pc[h] = "unlink"
  /\ \/ /\ files[Head(todo[h])] # Missing
        /\ files' = [files EXCEPT ![Head(todo[h])] = Missing]
        /\ NextPath(h, Tail(todo[h]))
        /\ UNCHANGED <<published, mounted, limits, used, disturbed>>
     \/ files[Head(todo[h])] = Missing /\ Raced(h)
     \/ Fault(h)

-----------------------------------------------------------------------------
\* The outside world.
Publish ==
  /\ published < MaxVersion /\ published' = published + 1
  /\ disturbed' = IF \E c \in Clients : pc[c] # "idle" THEN disturbed \cup {"cut"} ELSE disturbed
  /\ UNCHANGED <<files, mounted, actor, client, limits, fresh, used>>

\* The helper is killed, alone or with the device it runs on: its calls end without a
\* result, the files stay; a reboot also unmounts the image.
Crash ==
  /\ faults > 0 /\ faults' = faults - 1
  /\ mounted' \in {mounted, FALSE}
  /\ pc' = [c \in Clients |-> "idle"] /\ todo' = [c \in Clients |-> <<>>]
  /\ temporary' = [c \in Clients |-> Missing] /\ loaded' = [c \in Clients |-> <<>>]
  /\ outcome' = "none" /\ actor' = Nobody
  /\ disturbed' = IF \E c \in Clients : pc[c] # "idle" THEN disturbed \cup {"cut"} ELSE disturbed
  /\ UNCHANGED <<files, published, calls, fresh, used>>

\* Nobody calls any more.
Quiet == calls = 0 /\ (\A c \in Clients : pc[c] = "idle") /\ UNCHANGED vars

HelperStep(h) ==
  \/ Probe(h) \/ CheckMounted(h) \/ Load(h) \/ Mount(h) \/ Verify(h)
  \/ ResetPath(h) \/ Unlink(h)

DownloadStep(c) == CheckUsable(c) \/ Transfer(c) \/ Place(c) \/ Clear(c) \/ Move(c)

Next ==
  \/ \E h \in Helpers : StartPrepare(h) \/ StartReset(h) \/ HelperStep(h)
  \/ \E t \in Tasks : StartDownloadIfNeeded(t)
  \/ \E c \in Clients : DownloadStep(c)
  \/ Publish \/ Crash \/ Quiet

Spec == Init /\ [][Next]_vars

\* Threads and tasks keep running, and a URL request ends (resource timeout 600 s).
FairSpec ==
  /\ Spec
  /\ \A h \in Helpers : WF_vars(HelperStep(h))
  /\ \A c \in Clients : WF_vars(DownloadStep(c))

-----------------------------------------------------------------------------
(* Properties.                                                             *)

Labels == {"idle", "probe", "mounted", "usable", "transfer", "place", "clear", "move",
           "load", "mount", "verify", "reset", "unlink"}

TypeOK ==
  /\ files \in [Files -> 0..MaxVersion] /\ published \in 1..MaxVersion
  /\ mounted \in BOOLEAN /\ actor \in Tasks \cup {Nobody}
  /\ pc \in [Clients -> Labels] /\ todo \in [Clients -> Seq(Files)]
  /\ temporary \in [Clients -> 0..MaxVersion]
  /\ loaded \in [Clients -> Seq(1..MaxVersion)]
  /\ outcome \in {"none", "ready", "done", "failed", "raced"}
  /\ calls \in 0..MaxCalls /\ faults \in 0..MaxFaults
  /\ fresh \in 0..MaxVersion /\ used \subseteq {"queue", "actor"}
  /\ disturbed \subseteq {"cut", "torn"}

\* Only one of the two APIs has been used.
OneAPI == Cardinality(used) <= 1

Complete == \A f \in Files : files[f] # Missing

\* As long as only one of the two APIs is used, callers never fail because of each
\* other: between fileExists and moveItem nobody else touches the file.
NoRaces == OneAPI => outcome # "raced"

\* downloadIfNeeded returns with all three files in place, also when another
\* task is replacing them at the same time, unless a file was removed and its
\* successor could not be moved in, or the queue removes files at the same time.
DoneMeansComplete ==
  [][\A t \in Tasks : pc[t] # "idle" /\ pc'[t] = "idle" /\ outcome' = "done" /\ "torn" \notin disturbed
                       /\ "queue" \notin used => Complete']_vars

\* Files of different versions make the mount fail for as long as they are all
\* there, since files that are there are not downloaded again.  They can only
\* come from a call that was cut short or from files published during one.
MixedMeansDisturbed ==
  OneAPI /\ Complete /\ disturbed = {} => \A f, g \in Files : files[f] = files[g]

\* "The next preparation downloads them again": what is mounted after a reset
\* was downloaded after it, as long as no task downloads behind the queue's back.
MountsFreshFiles ==
  "actor" \notin used => \A h \in Helpers : pc[h] = "mount" =>
    \A i \in DOMAIN loaded[h] : loaded[h][i] >= fresh

\* A task holds the actor from one await to the next and no longer: whoever waits for
\* the network, and whoever has returned, leaves it to the others.
ActorIsPassedOn == actor # Nobody => pc[actor] \in {"usable", "clear", "move"}

\* The steps a call can still take, from a label with n files to handle.
StepsFrom(label, n) ==
  CASE label = "probe"    -> 23
    [] label = "mounted"  -> 22
    [] label = "usable"   -> n + 18
    [] label = "transfer" -> 4 * n + 6
    [] label = "place"    -> 4 * n + 5
    [] label = "clear"    -> 4 * n + 4
    [] label = "move"     -> 4 * n + 3
    [] label = "load"     -> n + 2
    [] label = "mount"    -> 2
    [] label = "verify"   -> 1
    [] label = "reset"    -> 2 * n
    [] label = "unlink"   -> 2 * n - 1
    [] OTHER              -> 0
StepsLeft(c) == StepsFrom(pc[c], Len(todo[c]))

\* A call gets nearer to its end with every step of its own, and no step of another
\* sets it back: however the files change under it, it checks, transfers, moves, reads
\* and removes each of them once.
CallsAdvance ==
  [][\A c \in Clients : pc[c] # "idle" /\ pc'[c] # "idle" =>
       \/ UNCHANGED <<pc[c], todo[c], temporary[c], loaded[c]>>
       \/ StepsLeft(c)' \in 0..(StepsLeft(c) - 1)]_vars

\* Every call ends, whatever fails on the way: no loop over the files starts again, and a
\* task never waits for itself to leave the actor.  (A synchronous transfer is one step
\* here: that its completion handler signals the waiting thread, as it does on every path,
\* SynchronousDDIDownloader.swift:25, is not part of the model.)
CallsEnd == \A c \in Clients : (pc[c] # "idle") ~> (pc[c] = "idle")
=============================================================================
