---------------------------- MODULE DDICacheProofs ----------------------------
(***************************************************************************)
(* Proofs about the cached files of the disk image, for any number of      *)
(* helpers and of tasks.                                                   *)
(***************************************************************************)
EXTENDS DDICache, FiniteSetTheorems, SequenceTheorems, TLAPS

\* Labels at which a client has a file to handle.
Downloading == {"usable", "transfer", "place", "clear", "move"}
Walking     == Downloading \cup {"load", "reset", "unlink"}
\* The files a client still has to handle.
Pending(paths) == {paths[i] : i \in 1 .. Len(paths)}

Paths ==
  \A c \in Clients :
    /\ pc[c] \in Walking => todo[c] # <<>>
    /\ pc[c] \in {"place", "clear", "move"} => temporary[c] # Missing

\* One helper calls at a time, and one task is between fileExists and moveItem.
Roles ==
  /\ \A h \in Helpers : pc[h] # "idle" => "queue" \in used
  /\ \A g, h \in Helpers : pc[g] # "idle" /\ pc[h] # "idle" => g = h
  /\ \A t \in Tasks :
       /\ pc[t] \in {"idle"} \cup Downloading
       /\ pc[t] # "idle" => "actor" \in used
       /\ pc[t] \in {"clear", "move"} => actor = t

Base == TypeOK /\ Paths /\ Roles

-----------------------------------------------------------------------------
(* Sequences of paths.                                                      *)

LEMMA Orders ==
  /\ DownloadOrder \in Seq(Files) /\ DownloadOrder # <<>> /\ Pending(DownloadOrder) = Files
  /\ PathOrder \in Seq(Files) /\ PathOrder # <<>> /\ Pending(PathOrder) = Files
<1>1. ASSUME NEW a, NEW b, NEW c PROVE Pending(<<a, b, c>>) = {a, b, c}
  BY DEF Pending
<1> QED BY <1>1 DEF DownloadOrder, PathOrder, Files

LEMMA HeadAndTail ==
  ASSUME NEW s \in Seq(Files), s # <<>>
  PROVE  /\ Head(s) \in Files /\ Tail(s) \in Seq(Files)
         /\ Pending(s) = {Head(s)} \cup Pending(Tail(s))
         /\ Len(s) > 1 => Tail(s) # <<>>
         /\ Len(s) = 1 => Tail(s) = <<>> /\ Pending(s) = {Head(s)}
<1>1. /\ Head(s) \in Files /\ Tail(s) \in Seq(Files) /\ Head(s) = s[1]
      /\ Len(s) \in Nat \ {0} /\ Len(Tail(s)) = Len(s) - 1
      /\ \A i \in 1 .. Len(s) - 1 : Tail(s)[i] = s[i + 1]
  OBVIOUS
<1>2. Pending(s) \subseteq {Head(s)} \cup Pending(Tail(s))
  <2> SUFFICES ASSUME NEW i \in 1 .. Len(s), s[i] # Head(s) PROVE s[i] \in Pending(Tail(s))
    BY DEF Pending
  <2>1. i - 1 \in 1 .. Len(Tail(s)) /\ s[i] = Tail(s)[i - 1]
    BY <1>1
  <2> QED BY <2>1 DEF Pending
<1>3. {Head(s)} \cup Pending(Tail(s)) \subseteq Pending(s)
  <2>1. Head(s) \in Pending(s)
    BY <1>1 DEF Pending
  <2>2. \A i \in 1 .. Len(Tail(s)) : i + 1 \in 1 .. Len(s) /\ Tail(s)[i] = s[i + 1]
    BY <1>1
  <2> QED BY <2>1, <2>2 DEF Pending
<1>4. Len(s) > 1 => Tail(s) # <<>>
  <2>1. Len(s) > 1 => Len(Tail(s)) # 0
    BY <1>1
  <2> QED BY <1>1, <2>1, EmptySeq
<1>5. Len(s) = 1 => Tail(s) = <<>> /\ Pending(s) = {Head(s)}
  <2>0. Len(s) = 1 => Len(Tail(s)) = 0
    BY <1>1
  <2>1. Len(s) = 1 => Tail(s) = <<>>
    BY <1>1, <2>0, EmptySeq
  <2>2. Pending(<<>>) = {}
    BY DEF Pending
  <2> QED BY <1>2, <1>3, <2>1, <2>2
<1> QED BY <1>1, <1>2, <1>3, <1>4, <1>5

LEMMA Removing ==
  ASSUME NEW s \in Seq(Files), NEW i \in 1 .. Len(s)
  PROVE  /\ s[i] \in Files /\ Without(i, s) \in Seq(Files)
         /\ Pending(s) \subseteq {s[i]} \cup Pending(Without(i, s))
<1> DEFINE rest == Without(i, s)
<1>1. Len(s) \in Nat /\ Len(s) - 1 \in Nat /\ s[i] \in Files
  OBVIOUS
<1>2. \A j \in 1 .. Len(s) - 1 : (IF j < i THEN s[j] ELSE s[j + 1]) \in Files
  BY <1>1
<1>3. rest \in Seq(Files) /\ Len(rest) = Len(s) - 1
  BY <1>1, <1>2 DEF Without
<1>4. ASSUME NEW j \in 1 .. Len(s), j # i PROVE s[j] \in Pending(rest)
  <2>1. CASE j < i
    <3>1. j \in 1 .. Len(s) - 1 /\ rest[j] = s[j]
      BY <1>1, <2>1 DEF Without
    <3> QED BY <1>3, <3>1 DEF Pending
  <2>2. CASE j > i
    <3>1. j - 1 \in 1 .. Len(s) - 1 /\ ~(j - 1 < i) /\ (j - 1) + 1 = j
      BY <1>1, <2>2
    <3>2. rest[j - 1] = s[j]
      BY <3>1 DEF Without
    <3> QED BY <1>3, <3>1, <3>2 DEF Pending
  <2> QED BY <1>4, <2>1, <2>2
<1> QED BY <1>1, <1>3, <1>4 DEF Pending

LEMMA Prefixed ==
  ASSUME NEW f \in Files, NEW s \in Seq(Files)
  PROVE  /\ <<f>> \o s \in Seq(Files) /\ <<f>> \o s # <<>>
         /\ Head(<<f>> \o s) = f /\ Tail(<<f>> \o s) = s
         /\ Pending(<<f>> \o s) = {f} \cup Pending(s)
<1> DEFINE whole == <<f>> \o s
<1>1. whole \in Seq(Files) /\ Len(whole) = Len(s) + 1 /\ whole[1] = f
  OBVIOUS
<1>2. whole # <<>> /\ Head(whole) = f
  BY <1>1
<1>3. Tail(whole) = s
  <2>1. \A i \in 1 .. Len(s) : whole[i + 1] = s[i]
    OBVIOUS
  <2>2. Tail(whole) \in Seq(Files) /\ Len(Tail(whole)) = Len(s)
    BY <1>1, <1>2
  <2>3. \A i \in 1 .. Len(s) : Tail(whole)[i] = s[i]
    BY <1>1, <2>1
  <2> HIDE DEF whole
  <2> QED BY <2>2, <2>3, SeqEqual
<1> HIDE DEF whole
<1>4. Pending(whole) = {f} \cup Pending(s)
  BY <1>1, <1>2, <1>3, HeadAndTail
<1> QED BY <1>1, <1>2, <1>3, <1>4 DEF whole

-----------------------------------------------------------------------------
(* Types, roles and what is left to do.                                     *)

LEMMA TypeInit ==
  Init => Base
<1> SUFFICES ASSUME Init PROVE Base
  OBVIOUS
<1>1. TypeOK
  <2>1. "idle" \in Labels /\ <<>> \in Seq(Files) /\ <<>> \in Seq(1 .. MaxVersion)
    BY DEF Labels
  <2>2. 1 \in 1 .. MaxVersion /\ 0 \in 0 .. MaxVersion /\ MaxCalls \in 0 .. MaxCalls
        /\ MaxFaults \in 0 .. MaxFaults
    BY DDIAssumption
  <2> QED BY <2>1, <2>2 DEF Init, TypeOK, Missing
<1>2. Paths /\ Roles
  BY DEF Init, Paths, Roles, Walking, Downloading, Clients
<1> QED BY <1>1, <1>2 DEF Base

LEMMA EndBase ==
  ASSUME Base, NEW c \in Clients, NEW o \in {"ready", "done", "failed", "raced"}, End(c, o),
         (files \in [Files -> 0 .. MaxVersion] /\ mounted \in BOOLEAN)', UNCHANGED <<published, used>>,
         calls' = calls, faults' \in 0 .. MaxFaults, (fresh \in 0 .. MaxVersion)',
         (disturbed \subseteq {"cut", "torn"})'
  PROVE  Base'
<1>1. TypeOK'
  <2>1. (pc \in [Clients -> Labels] /\ todo \in [Clients -> Seq(Files)])'
    <3>1. "idle" \in Labels /\ <<>> \in Seq(Files)
      BY DEF Labels
    <3> QED BY <3>1 DEF Base, TypeOK, End, GoTo
  <2>2. (temporary \in [Clients -> 0 .. MaxVersion])'
    BY DDIAssumption DEF Base, TypeOK, End, Missing
  <2>3. (loaded \in [Clients -> Seq(1 .. MaxVersion)])'
    <3>1. <<>> \in Seq(1 .. MaxVersion)
      OBVIOUS
    <3> QED BY <3>1 DEF Base, TypeOK, End
  <2>4. (actor \in Tasks \cup {Nobody} /\ outcome \in {"none", "ready", "done", "failed", "raced"})'
    BY DEF Base, TypeOK, End, Leave
  <2> QED BY <2>1, <2>2, <2>3, <2>4 DEF Base, TypeOK
<1>2. Paths' /\ Roles'
  BY DDIAssumption DEF Base, TypeOK, Paths, Roles, End, GoTo, Leave, Walking, Downloading, Clients
<1> QED BY <1>1, <1>2 DEF Base

LEMMA FaultBase ==
  ASSUME Base, NEW c \in Clients, Fault(c) \/ Raced(c)
  PROVE  Base'
<1>1. /\ \E o \in {"ready", "done", "failed", "raced"} : End(c, o)
      /\ UNCHANGED <<world, published, used, calls, fresh>> /\ faults' \in 0 .. MaxFaults
      /\ (disturbed \subseteq {"cut", "torn"})'
  <2>1. CASE Fault(c)
    <3>1. faults > 0 /\ faults' = faults - 1 /\ faults \in 0 .. MaxFaults
      BY <2>1 DEF Fault, Base, TypeOK
    <3>2. faults' \in 0 .. MaxFaults
      BY <3>1, DDIAssumption
    <3> QED BY <2>1, <3>2 DEF Fault, world, Base, TypeOK
  <2>2. CASE Raced(c)
    BY <2>2 DEF Raced, world, limits, Base, TypeOK
  <2> QED BY <2>1, <2>2
<1> QED BY <1>1, EndBase DEF world, Base, TypeOK

\* A client goes on to another label.
LEMMA GoToBase ==
  ASSUME Base, NEW c \in Clients, NEW l \in Labels, NEW s \in Seq(Files), GoTo(c, l, s),
         pc[c] # "idle", l # "idle",
         c \in Tasks => l \in Downloading,
         c \in Tasks /\ l \in {"clear", "move"} => actor' = c,
         actor' # actor => actor \in {Nobody, c} /\ actor' \in {Nobody, c} \cap (Tasks \cup {Nobody}),
         l \in Walking => s # <<>>,
         temporary' = temporary \/ (\E v \in 0 .. MaxVersion : temporary' = [temporary EXCEPT ![c] = v]),
         l \in {"place", "clear", "move"} => temporary'[c] # Missing,
         loaded' = loaded \/ (\E v \in 1 .. MaxVersion : loaded' = [loaded EXCEPT ![c] = Append(@, v)]),
         (files \in [Files -> 0 .. MaxVersion] /\ mounted \in BOOLEAN)',
         UNCHANGED <<published, outcome, limits, past>>
  PROVE  Base'
<1>1. TypeOK'
  <2>1. (pc \in [Clients -> Labels] /\ todo \in [Clients -> Seq(Files)])'
    BY DEF Base, TypeOK, GoTo
  <2>2. (temporary \in [Clients -> 0 .. MaxVersion])'
    BY DEF Base, TypeOK
  <2>3. (loaded \in [Clients -> Seq(1 .. MaxVersion)])'
    <3>1. ASSUME NEW v \in 1 .. MaxVersion PROVE Append(loaded[c], v) \in Seq(1 .. MaxVersion)
      BY AppendProperties DEF Base, TypeOK
    <3> QED BY <3>1 DEF Base, TypeOK
  <2>4. (actor \in Tasks \cup {Nobody})'
    BY DEF Base, TypeOK
  <2> QED BY <2>1, <2>2, <2>3, <2>4 DEF Base, TypeOK, limits, past
<1>2. Paths'
  BY DEF Base, TypeOK, Paths, GoTo
<1>3. Roles'
  <2>1. pc' = [pc EXCEPT ![c] = l] /\ pc \in [Clients -> Labels] /\ used' = used
    BY DEF Base, TypeOK, GoTo, past
  <2>2. (\A h \in Helpers : pc[h] # "idle" => "queue" \in used)'
    BY <2>1 DEF Base, Roles, Clients
  <2>3. (\A g, h \in Helpers : pc[g] # "idle" /\ pc[h] # "idle" => g = h)'
    BY <2>1 DEF Base, Roles, Clients
  <2>4. ASSUME NEW t \in Tasks
        PROVE  (/\ pc[t] \in {"idle"} \cup Downloading
                /\ pc[t] # "idle" => "actor" \in used
                /\ pc[t] \in {"clear", "move"} => actor = t)'
    <3>1. CASE t = c
      BY <2>1, <3>1 DEF Base, Roles, Clients
    <3>2. CASE t # c
      <4>1. pc'[t] = pc[t] /\ (pc[t] \in {"clear", "move"} => actor = t)
        BY <2>1, <3>2 DEF Base, Roles, Clients
      <4>2. pc[t] \in {"clear", "move"} => actor' = t
        BY <3>2, <4>1, DDIAssumption
      <4> QED BY <2>1, <4>1, <4>2 DEF Base, Roles
    <3> QED BY <3>1, <3>2
  <2> QED BY <2>2, <2>3, <2>4 DEF Roles
<1> QED BY <1>1, <1>2, <1>3 DEF Base

LEMMA BeginBase ==
  ASSUME Base, NEW c \in Clients, NEW l \in {"probe", "reset", "usable"}, NEW s \in Seq(Files),
         Begin(c, l, s), l \in Walking => s # <<>>,
         (c \in Helpers /\ MayStart(c)) \/ (c \in Tasks /\ l = "usable")
  PROVE  Base'
<1>1. l \in Labels /\ calls' \in 0 .. MaxCalls
  <2>1. calls > 0 /\ calls' = calls - 1 /\ calls \in 0 .. MaxCalls
    BY DEF Begin, Base, TypeOK
  <2> QED BY <2>1, DDIAssumption DEF Labels
<1>2. TypeOK'
  BY <1>1 DEF Base, TypeOK, Begin, GoTo, world
<1>3. Paths'
  BY DEF Base, TypeOK, Paths, Begin, GoTo
<1>4. Roles'
  <2>1. /\ pc' = [pc EXCEPT ![c] = l] /\ pc \in [Clients -> Labels] /\ pc[c] = "idle"
        /\ used' = used \cup {IF c \in Helpers THEN "queue" ELSE "actor"} /\ actor' = actor
    BY DEF Base, TypeOK, Begin, GoTo
  <2>2. (\A h \in Helpers : pc[h] # "idle" => "queue" \in used)'
    BY <2>1 DEF Base, Roles, Clients
  <2>3. (\A g, h \in Helpers : pc[g] # "idle" /\ pc[h] # "idle" => g = h)'
    BY <2>1, DDIAssumption DEF Base, Roles, Clients, MayStart
  <2>4. ASSUME NEW t \in Tasks
        PROVE  (/\ pc[t] \in {"idle"} \cup Downloading
                /\ pc[t] # "idle" => "actor" \in used
                /\ pc[t] \in {"clear", "move"} => actor = t)'
    <3>1. CASE t = c
      <4>1. l = "usable" /\ c \notin Helpers
        BY <3>1, DDIAssumption
      <4> QED BY <2>1, <3>1, <4>1 DEF Downloading
    <3>2. CASE t # c
      BY <2>1, <3>2 DEF Base, Roles, Clients
    <3> QED BY <3>1, <3>2
  <2> QED BY <2>2, <2>3, <2>4 DEF Roles
<1> QED BY <1>2, <1>3, <1>4 DEF Base

\* What a client that walks along a list of paths has in its hands.
LEMMA Hands ==
  ASSUME Base, NEW c \in Clients, pc[c] \in Walking
  PROVE  /\ todo[c] \in Seq(Files) /\ todo[c] # <<>>
         /\ Head(todo[c]) \in Files /\ Tail(todo[c]) \in Seq(Files)
         /\ temporary[c] \in 0 .. MaxVersion /\ Len(todo[c]) \in Nat \ {0}
         /\ files[Head(todo[c])] \in 0 .. MaxVersion
         /\ \A f \in Files, v \in 0 .. MaxVersion :
              [files EXCEPT ![f] = v] \in [Files -> 0 .. MaxVersion]
<1>1. todo[c] \in Seq(Files) /\ todo[c] # <<>>
  BY DEF Base, TypeOK, Paths
<1>2. Head(todo[c]) \in Files /\ Tail(todo[c]) \in Seq(Files) /\ Len(todo[c]) \in Nat \ {0}
  BY <1>1, HeadAndTail, EmptySeq
<1> QED BY <1>1, <1>2 DEF Base, TypeOK

LEMMA DownloadBase ==
  ASSUME Base, NEW c \in Clients, DownloadStep(c)
  PROVE  Base'
<1> USE DEF Labels, Downloading, Walking
<1>1. ASSUME Fault(c) \/ Raced(c) PROVE Base'
  BY <1>1, FaultBase
<1>2. ASSUME AllFilesThere(c), pc[c] # "idle", (files \in [Files -> 0 .. MaxVersion])',
             UNCHANGED <<published, mounted, limits, past>>
      PROVE  Base'
  <2>1. CASE c \in Helpers
    <3>1. /\ GoTo(c, "load", PathOrder) /\ temporary' = [temporary EXCEPT ![c] = 0]
          /\ UNCHANGED <<actor, loaded, outcome>>
      BY <1>2, <2>1, DDIAssumption DEF AllFilesThere, Missing
    <3>2. 0 \in 0 .. MaxVersion /\ c \notin Tasks
      BY <2>1, DDIAssumption
    <3> QED BY <1>2, <3>1, <3>2, Orders, GoToBase DEF Base, TypeOK
  <2>2. CASE c \notin Helpers
    <3>1. End(c, "done")
      BY <1>2, <2>2 DEF AllFilesThere
    <3> QED BY <1>2, <3>1, EndBase DEF limits, past, Base, TypeOK
  <2> QED BY <2>1, <2>2
<1>3. CASE CheckUsable(c)
  <2>1. /\ pc[c] = "usable" /\ MayRun(c) /\ UNCHANGED <<files, published, mounted, limits, past>>
        /\ todo[c] # <<>> /\ Tail(todo[c]) \in Seq(Files)
    BY <1>3, Hands DEF CheckUsable, world
  <2>2. CASE GoTo(c, "transfer", DownloadOrder) /\ Leave(c) /\ UNCHANGED <<temporary, loaded, outcome>>
    BY <2>1, <2>2, Orders, GoToBase DEF Leave, Base, TypeOK
  <2>3. CASE /\ Len(todo[c]) > 1 /\ GoTo(c, "usable", Tail(todo[c])) /\ Stay(c)
             /\ UNCHANGED <<temporary, loaded, outcome>>
    <3>1. Tail(todo[c]) # <<>>
      BY <2>1, <2>3, HeadAndTail DEF Base, TypeOK
    <3>2. actor' # actor => actor = Nobody /\ actor' = c /\ c \in Tasks
      BY <2>1, <2>3 DEF Stay, MayRun
    <3> QED BY <2>1, <2>3, <3>1, <3>2, GoToBase DEF Base, TypeOK
  <2>4. CASE AllFilesThere(c)
    BY <1>2, <2>1, <2>4 DEF Base, TypeOK
  <2> QED BY <1>3, <2>2, <2>3, <2>4 DEF CheckUsable
<1>4. CASE Transfer(c)
  <2>1. ASSUME ~Fault(c) PROVE Base'
    <3>1. /\ pc[c] = "transfer" /\ GoTo(c, "place", todo[c])
          /\ temporary' = [temporary EXCEPT ![c] = published]
          /\ UNCHANGED <<files, published, mounted, actor, loaded, outcome, limits, past>>
      BY <1>4, <2>1 DEF Transfer, world
    <3>2. published \in 0 .. MaxVersion /\ temporary'[c] # Missing
      BY <3>1, DDIAssumption DEF Base, TypeOK, Missing
    <3>3. todo[c] \in Seq(Files) /\ todo[c] # <<>>
      BY <3>1, Hands
    <3> QED BY <3>1, <3>2, <3>3, GoToBase DEF Base, TypeOK
  <2> QED BY <1>1, <2>1
<1>5. CASE Place(c)
  <2>1. ASSUME ~Fault(c) PROVE Base'
    <3>1. /\ pc[c] = "place" /\ MayRun(c) /\ Stay(c)
          /\ \E l \in {"move", "clear"} : GoTo(c, l, todo[c])
          /\ UNCHANGED <<files, published, mounted, temporary, loaded, outcome, limits, past>>
      BY <1>5, <2>1 DEF Place, world
    <3>2. todo[c] \in Seq(Files) /\ todo[c] # <<>> /\ temporary'[c] # Missing
      BY <3>1, Hands DEF Base, Paths
    <3>3. /\ actor' # actor => actor = Nobody /\ actor' = c /\ c \in Tasks
          /\ c \in Tasks => actor' = c
      BY <3>1 DEF Stay, MayRun
    <3> QED BY <3>1, <3>2, <3>3, GoToBase DEF Base, TypeOK
  <2> QED BY <1>1, <2>1
<1>6. CASE Clear(c)
  <2>1. ASSUME ~Fault(c), ~Raced(c) PROVE Base'
    <3>1. pc[c] = "clear" /\ RemoveFile(c) /\ GoTo(c, "move", todo[c])
      BY <1>6, <2>1 DEF Clear
    <3>2. todo[c] \in Seq(Files) /\ todo[c] # <<>> /\ temporary'[c] # Missing
      BY <3>1, Hands DEF Base, Paths, RemoveFile
    <3>3. (files \in [Files -> 0 .. MaxVersion])'
      <4>1. Missing \in 0 .. MaxVersion
        BY DDIAssumption DEF Missing
      <4> QED BY <3>1, <4>1, Hands DEF RemoveFile
    <3>4. c \in Tasks => actor' = c
      BY <3>1 DEF Base, Roles, RemoveFile
    <3> QED BY <3>1, <3>2, <3>3, <3>4, GoToBase DEF Base, TypeOK, RemoveFile
  <2> QED BY <1>1, <2>1
<1>7. CASE Move(c)
  <2>1. ASSUME ~Fault(c), ~Raced(c) PROVE Base'
    <3>1. /\ pc[c] = "move" /\ files' = [files EXCEPT ![Head(todo[c])] = temporary[c]]
          /\ NextItem(c) /\ UNCHANGED <<published, mounted, limits, past>>
      BY <1>7, <2>1 DEF Move
    <3>2. (files \in [Files -> 0 .. MaxVersion])'
      BY <3>1, Hands
    <3>3. CASE AllFilesThere(c)
      BY <1>2, <3>1, <3>2, <3>3
    <3>4. CASE ~AllFilesThere(c)
      <4>1. /\ Len(todo[c]) > 1 /\ GoTo(c, "transfer", Tail(todo[c])) /\ Leave(c)
            /\ temporary' = [temporary EXCEPT ![c] = 0] /\ UNCHANGED <<loaded, outcome>>
        BY <3>1, <3>4 DEF NextItem, Missing
      <4>2. Tail(todo[c]) \in Seq(Files) /\ Tail(todo[c]) # <<>>
        BY <3>1, <4>1, Hands, HeadAndTail
      <4>3. 0 \in 0 .. MaxVersion
        BY DDIAssumption
      <4> QED BY <3>1, <3>2, <4>1, <4>2, <4>3, GoToBase DEF Leave, Base, TypeOK
    <3> QED BY <3>3, <3>4
  <2> QED BY <1>1, <2>1
<1> QED BY <1>3, <1>4, <1>5, <1>6, <1>7 DEF DownloadStep

LEMMA HelperBase ==
  ASSUME Base, NEW h \in Helpers, HelperStep(h)
  PROVE  Base'
<1> USE DEF Labels, Downloading, Walking
<1>1. h \in Clients /\ h \notin Tasks /\ <<>> \in Seq(Files)
  BY DDIAssumption DEF Clients
<1>2. ASSUME Fault(h) \/ Raced(h) PROVE Base'
  BY <1>1, <1>2, FaultBase
<1>3. ASSUME NEW o \in {"ready", "done", "failed"}, End(h, o),
             UNCHANGED <<files, published, mounted, calls, faults, used, disturbed>>,
             fresh' \in {fresh, published}
      PROVE  Base'
  <2>1. (fresh \in 0 .. MaxVersion)'
    BY <1>3, DDIAssumption DEF Base, TypeOK
  <2> QED BY <1>1, <1>3, <2>1, EndBase DEF Base, TypeOK
<1>4. CASE Probe(h)
  <2>1. ASSUME ~Fault(h) PROVE Base'
    <3>1. /\ pc[h] = "probe" /\ GoTo(h, "mounted", <<>>)
          /\ UNCHANGED <<files, published, mounted, actor, temporary, loaded, outcome, limits, past>>
      BY <1>4, <2>1 DEF Probe, world
    <3> QED BY <1>1, <3>1, GoToBase DEF Base, TypeOK
  <2> QED BY <1>2, <2>1
<1>5. CASE CheckMounted(h)
  <2>1. ASSUME ~Fault(h) PROVE Base'
    <3>1. CASE End(h, "ready") /\ UNCHANGED <<world, limits, past>>
      BY <1>3, <3>1 DEF world, limits, past
    <3>2. CASE /\ GoTo(h, "usable", PathOrder)
               /\ UNCHANGED <<world, actor, temporary, loaded, outcome, limits, past>>
      <4>1. pc[h] = "mounted" /\ UNCHANGED <<files, published, mounted>>
        BY <1>5, <3>2 DEF CheckMounted, world
      <4> QED BY <1>1, <3>2, <4>1, Orders, GoToBase DEF Base, TypeOK
    <3> QED BY <1>5, <2>1, <3>1, <3>2 DEF CheckMounted
  <2> QED BY <1>2, <2>1
<1>6. CASE Load(h)
  <2>1. ASSUME ~Fault(h), ~Raced(h) PROVE Base'
    <3>1. /\ pc[h] = "load" /\ files[Head(todo[h])] # Missing
          /\ loaded' = [loaded EXCEPT ![h] = Append(@, files[Head(todo[h])])]
          /\ GoTo(h, IF Len(todo[h]) = 1 THEN "mount" ELSE "load", Tail(todo[h]))
          /\ UNCHANGED <<files, published, mounted, actor, temporary, outcome, limits, past>>
      BY <1>6, <2>1 DEF Load, world
    <3>2. /\ Tail(todo[h]) \in Seq(Files) /\ (Len(todo[h]) # 1 => Tail(todo[h]) # <<>>)
          /\ files[Head(todo[h])] \in 1 .. MaxVersion
      <4>0. /\ todo[h] \in Seq(Files) /\ todo[h] # <<>> /\ Tail(todo[h]) \in Seq(Files)
            /\ Len(todo[h]) \in Nat \ {0} /\ files[Head(todo[h])] \in 0 .. MaxVersion
        BY <1>1, <3>1, Hands
      <4>1. Len(todo[h]) > 1 => Tail(todo[h]) # <<>>
        BY <4>0, HeadAndTail
      <4>2. Len(todo[h]) # 1 => Len(todo[h]) > 1
        <5>1. \A n \in Nat \ {0} : n # 1 => n > 1
          OBVIOUS
        <5> QED BY <4>0, <5>1
      <4>3. files[Head(todo[h])] \in 1 .. MaxVersion
        BY <3>1, <4>0, DDIAssumption DEF Missing
      <4> QED BY <4>0, <4>1, <4>2, <4>3
    <3>3. CASE Len(todo[h]) = 1
      BY <1>1, <3>1, <3>2, <3>3, GoToBase DEF Base, TypeOK
    <3>4. CASE Len(todo[h]) # 1
      BY <1>1, <3>1, <3>2, <3>4, GoToBase DEF Base, TypeOK
    <3> QED BY <3>3, <3>4
  <2> QED BY <1>2, <2>1
<1>7. CASE Mount(h)
  <2>1. ASSUME ~Fault(h) PROVE Base'
    <3>1. CASE End(h, "failed") /\ UNCHANGED <<world, limits, past>>
      BY <1>3, <3>1 DEF world, limits, past
    <3>2. CASE /\ mounted' = TRUE /\ GoTo(h, "verify", <<>>)
               /\ UNCHANGED <<files, published, actor, temporary, loaded, outcome, limits, past>>
      <4>1. pc[h] = "mount"
        BY <1>7 DEF Mount
      <4> QED BY <1>1, <3>2, <4>1, GoToBase DEF Base, TypeOK
    <3> QED BY <1>7, <2>1, <3>1, <3>2 DEF Mount
  <2> QED BY <1>2, <2>1
<1>8. CASE Verify(h)
  <2>1. ASSUME ~Fault(h) PROVE Base'
    <3>1. \E o \in {"ready", "failed"} : End(h, o) /\ UNCHANGED <<world, limits, past>>
      BY <1>8, <2>1 DEF Verify
    <3> QED BY <1>3, <3>1 DEF world, limits, past
  <2> QED BY <1>2, <2>1
<1>9. ASSUME NEW s \in Seq(Files), NextPath(h, s), pc[h] # "idle",
             (files \in [Files -> 0 .. MaxVersion])',
             UNCHANGED <<published, mounted, limits, used, disturbed>>
      PROVE  Base'
  <2>1. CASE s # <<>> /\ GoTo(h, "reset", s) /\ UNCHANGED <<actor, temporary, loaded, outcome, fresh>>
    BY <1>1, <1>9, <2>1, GoToBase DEF Base, TypeOK, past
  <2>2. CASE End(h, "done") /\ fresh' = published
    <3>1. (fresh \in 0 .. MaxVersion)'
      BY <2>2, DDIAssumption DEF Base, TypeOK
    <3> QED BY <1>1, <1>9, <2>2, <3>1, EndBase DEF Base, TypeOK, limits
  <2> QED BY <1>9, <2>1, <2>2 DEF NextPath
<1>10. CASE ResetPath(h)
  <2>1. PICK i \in 1 .. Len(todo[h]) :
          \/ NextPath(h, Without(i, todo[h]))
          \/ /\ GoTo(h, "unlink", <<todo[h][i]>> \o Without(i, todo[h]))
             /\ UNCHANGED <<actor, temporary, loaded, outcome, fresh>>
    BY <1>10 DEF ResetPath
  <2>2. pc[h] = "reset" /\ UNCHANGED <<files, published, mounted, limits, used, disturbed>>
    BY <1>10 DEF ResetPath, world
  <2>3. todo[h][i] \in Files /\ Without(i, todo[h]) \in Seq(Files)
    BY <1>1, <2>2, Hands, Removing
  <2>4. CASE NextPath(h, Without(i, todo[h]))
    BY <1>9, <2>2, <2>3, <2>4 DEF Base, TypeOK
  <2>5. CASE /\ GoTo(h, "unlink", <<todo[h][i]>> \o Without(i, todo[h]))
             /\ UNCHANGED <<actor, temporary, loaded, outcome, fresh>>
    <3>1. PICK whole \in Seq(Files) \ {<<>>} : whole = <<todo[h][i]>> \o Without(i, todo[h])
      BY <2>3, Prefixed
    <3> QED BY <1>1, <2>2, <2>5, <3>1, GoToBase DEF Base, TypeOK, past
  <2> QED BY <2>1, <2>4, <2>5
<1>11. CASE Unlink(h)
  <2>1. ASSUME ~Fault(h), ~Raced(h) PROVE Base'
    <3>1. /\ pc[h] = "unlink" /\ files' = [files EXCEPT ![Head(todo[h])] = Missing]
          /\ NextPath(h, Tail(todo[h])) /\ UNCHANGED <<published, mounted, limits, used, disturbed>>
      BY <1>11, <2>1 DEF Unlink
    <3>2. Tail(todo[h]) \in Seq(Files) /\ (files \in [Files -> 0 .. MaxVersion])'
      <4>1. Missing \in 0 .. MaxVersion
        BY DDIAssumption DEF Missing
      <4> QED BY <1>1, <3>1, <4>1, Hands
    <3> QED BY <1>9, <3>1, <3>2
  <2> QED BY <1>2, <2>1
<1> QED BY <1>4, <1>5, <1>6, <1>7, <1>8, <1>10, <1>11 DEF HelperStep

LEMMA BaseStep ==
  Base /\ [Next]_vars => Base'
<1> SUFFICES ASSUME Base, [Next]_vars PROVE Base'
  OBVIOUS
<1>1. ASSUME NEW h \in Helpers, StartPrepare(h) \/ StartReset(h) PROVE Base'
  <2>1. h \in Clients /\ <<>> \in Seq(Files)
    BY DEF Clients
  <2> QED BY <1>1, <2>1, Orders, BeginBase DEF StartPrepare, StartReset, Walking, Downloading
<1>2. ASSUME NEW h \in Helpers, HelperStep(h) PROVE Base'
  BY <1>2, HelperBase
<1>3. ASSUME NEW t \in Tasks, StartDownloadIfNeeded(t) PROVE Base'
  BY <1>3, Orders, BeginBase DEF StartDownloadIfNeeded, Clients
<1>4. ASSUME NEW c \in Clients, DownloadStep(c) PROVE Base'
  BY <1>4, DownloadBase
<1>5. CASE Publish
  <2>1. published' \in 1 .. MaxVersion
    BY <1>5, DDIAssumption DEF Publish, Base, TypeOK
  <2> QED BY <1>5, <2>1 DEF Publish, Base, TypeOK, Paths, Roles, client, limits
<1>6. CASE Crash
  <2>1. faults' \in 0 .. MaxFaults
    <3>1. faults > 0 /\ faults' = faults - 1 /\ faults \in 0 .. MaxFaults
      BY <1>6 DEF Crash, Base, TypeOK
    <3> QED BY <3>1, DDIAssumption
  <2>2. (temporary \in [Clients -> 0 .. MaxVersion])' /\ (loaded \in [Clients -> Seq(1 .. MaxVersion)])'
    <3>1. <<>> \in Seq(1 .. MaxVersion) /\ 0 \in 0 .. MaxVersion
      BY DDIAssumption
    <3> QED BY <1>6, <3>1 DEF Crash, Missing
  <2>3. (pc \in [Clients -> Labels] /\ todo \in [Clients -> Seq(Files)])'
    BY <1>6 DEF Crash, Labels
  <2>4. TypeOK'
    BY <1>6, <2>1, <2>2, <2>3 DEF Crash, Base, TypeOK
  <2>5. Paths' /\ Roles'
    BY <1>6 DEF Crash, Paths, Roles, Walking, Downloading, Clients
  <2> QED BY <2>4, <2>5 DEF Base
<1>7. CASE UNCHANGED vars
  BY <1>7 DEF vars, world, client, limits, past, Base, TypeOK, Paths, Roles
<1> QED BY <1>1, <1>2, <1>3, <1>4, <1>5, <1>6, <1>7 DEF Next, Quiet

LEMMA BaseHolds ==
  Spec => []Base
BY TypeInit, BaseStep, PTL DEF Spec

-----------------------------------------------------------------------------
(* What a client may count on between two of its steps.                     *)

Either == "queue" \notin used \/ "actor" \notin used
\* The files a client has dealt with are there, or a task is moving one in.
Present(c) ==
  pc[c] \in Downloading =>
    \A f \in Files \ Pending(todo[c]) :
      files[f] # Missing \/ \E t \in Tasks : t # c /\ pc[t] = "move" /\ Head(todo[t]) = f
CountsOn(c) ==
  /\ pc[c] \in {"clear", "unlink"} => files[Head(todo[c])] # Missing
  /\ pc[c] = "move" => files[Head(todo[c])] = Missing
  /\ pc[c] = "load" => Complete
  /\ pc[c] \in {"reset", "unlink"} => \A f \in Files \ Pending(todo[c]) : files[f] = Missing
  /\ (c \in Helpers \/ "torn" \notin disturbed) => Present(c)

Ground == Either => outcome # "raced" /\ \A c \in Clients : CountsOn(c)

LEMMA OneAPIMeansEither ==
  ASSUME Base, OneAPI
  PROVE  Either
<1> SUFFICES ASSUME used = {"queue", "actor"} PROVE FALSE
  BY DEF Either, Base, TypeOK
<1>1. IsFiniteSet({"queue"}) /\ Cardinality({"queue"}) = 1
  BY FS_Singleton
<1>2. Cardinality({"queue"} \cup {"actor"}) = 2
  BY <1>1, FS_AddElement
<1>3. used = {"queue"} \cup {"actor"}
  OBVIOUS
<1> QED BY <1>2, <1>3 DEF OneAPI

\* Nobody else touches the files while a client changes one of them.
LEMMA Undisturbed ==
  ASSUME Base, Either, NEW c \in Clients, pc[c] # "idle"
  PROVE  /\ \A h \in Helpers : h # c => pc[h] = "idle"
         /\ c \in Helpers => \A d \in Clients : d # c => pc[d] = "idle"
         /\ c \in Helpers \/ actor \in {Nobody, c} =>
              \A t \in Tasks : t # c => pc[t] \notin {"clear", "move"}
<1>1. CASE c \in Helpers
  <2>1. "queue" \in used /\ "actor" \notin used
    BY <1>1 DEF Base, Roles, Either
  <2>2. \A h \in Helpers : h # c => pc[h] = "idle"
    BY <1>1 DEF Base, Roles
  <2>3. \A t \in Tasks : pc[t] = "idle"
    BY <2>1 DEF Base, Roles
  <2> QED BY <2>2, <2>3 DEF Clients
<1>2. CASE c \in Tasks
  <2>1. "actor" \in used /\ "queue" \notin used
    BY <1>2 DEF Base, Roles, Either
  <2>2. \A h \in Helpers : pc[h] = "idle"
    BY <2>1 DEF Base, Roles
  <2>3. actor \in {Nobody, c} => \A t \in Tasks : t # c => pc[t] \notin {"clear", "move"}
    BY DDIAssumption DEF Base, Roles
  <2> QED BY <1>2, <2>2, <2>3, DDIAssumption
<1> QED BY <1>1, <1>2 DEF Clients

\* A step of one client that changes no file.
LEMMA GroundFrame ==
  ASSUME Base, Ground, NEW c \in Clients, UNCHANGED <<files, used>>, disturbed \subseteq disturbed',
         \A d \in Clients : d # c => pc'[d] = pc[d] /\ todo'[d] = todo[d],
         pc[c] = "move" => "torn" \in disturbed',
         Either => outcome' # "raced" /\ CountsOn(c)'
  PROVE  Ground'
<1> SUFFICES ASSUME Either, NEW d \in Clients, d # c PROVE CountsOn(d)'
  BY DEF Ground, Either
<1>1. CountsOn(d) /\ pc'[d] = pc[d] /\ todo'[d] = todo[d]
  BY DEF Ground
<1>2. ASSUME d \in Helpers \/ "torn" \notin disturbed' PROVE Present(d)'
  <2> SUFFICES ASSUME pc[d] \in Downloading, NEW f \in Files \ Pending(todo[d]), files[f] = Missing
               PROVE  \E t \in Tasks : t # d /\ pc'[t] = "move" /\ Head(todo'[t]) = f
    BY <1>1 DEF Present
  <2>1. PICK t \in Tasks : t # d /\ pc[t] = "move" /\ Head(todo[t]) = f
    BY <1>1, <1>2 DEF CountsOn, Present
  <2>2. pc[d] # "idle"
    BY DEF Downloading
  <2>3. t # c
    <3>1. CASE d \in Helpers
      BY <2>1, <2>2, <3>1, Undisturbed DEF Clients
    <3>2. CASE "torn" \notin disturbed'
      BY <2>1, <3>2
    <3> QED BY <1>2, <3>1, <3>2
  <2> QED BY <2>1, <2>3 DEF Clients
<1> QED BY <1>1, <1>2 DEF CountsOn, Complete

LEMMA EndGround ==
  ASSUME Base, Ground, NEW c \in Clients, NEW o, o # "raced", End(c, o),
         UNCHANGED <<files, used>>, disturbed \subseteq disturbed',
         pc[c] = "move" => "torn" \in disturbed'
  PROVE  Ground'
<1>1. pc'[c] = "idle" /\ \A d \in Clients : d # c => pc'[d] = pc[d] /\ todo'[d] = todo[d]
  BY DEF End, GoTo, Base, TypeOK
<1>2. CountsOn(c)'
  BY <1>1 DEF CountsOn, Present, Downloading
<1> QED BY <1>1, <1>2, GroundFrame DEF End

LEMMA FaultGround ==
  ASSUME Base, Ground, NEW c \in Clients, Fault(c) \/ (Raced(c) /\ ~Either)
  PROVE  Ground'
<1>1. CASE Fault(c)
  <2>1. /\ End(c, "failed") /\ UNCHANGED <<files, used>> /\ disturbed \subseteq disturbed'
        /\ (pc[c] = "move" => "torn" \in disturbed')
    BY <1>1 DEF Fault, world
  <2> QED BY <2>1, EndGround
<1>2. CASE Raced(c) /\ ~Either
  BY <1>2 DEF Raced, Ground, Either
<1> QED BY <1>1, <1>2

\* After its last file, a client finds all three.
LEMMA LastFile ==
  ASSUME Base, Ground, Either, NEW c \in Clients, pc[c] \in Downloading, Len(todo[c]) = 1,
         c \in Helpers \/ (actor \in {Nobody, c} /\ "torn" \notin disturbed)
  PROVE  \A f \in Files : f # Head(todo[c]) => files[f] # Missing
<1>1. Pending(todo[c]) = {Head(todo[c])}
  BY Hands, HeadAndTail DEF Walking
<1>2. Present(c)
  BY DEF Ground, CountsOn
<1>3. \A t \in Tasks : t # c => pc[t] # "move"
  BY Undisturbed DEF Downloading
<1> QED BY <1>1, <1>2, <1>3 DEF Present

LEMMA DownloadGround ==
  ASSUME Base, Ground, NEW c \in Clients, DownloadStep(c)
  PROVE  Ground'
<1> USE DEF Downloading, Walking
<1>1. ASSUME Fault(c) PROVE Ground'
  BY <1>1, FaultGround
<1>2. ASSUME AllFilesThere(c), c \in Helpers, Either => Complete'
      PROVE  pc'[c] = "load" /\ (Either => CountsOn(c)')
  <2>1. pc'[c] = "load"
    BY <1>2, DDIAssumption DEF AllFilesThere, GoTo, Base, TypeOK
  <2> QED BY <1>2, <2>1 DEF CountsOn, Present
<1>3. ASSUME NEW l, NEW s, GoTo(c, l, s)
      PROVE  /\ pc'[c] = l /\ todo'[c] = s
             /\ \A d \in Clients : d # c => pc'[d] = pc[d] /\ todo'[d] = todo[d]
  BY <1>3 DEF GoTo, Base, TypeOK
<1>4. CASE CheckUsable(c)
  <2>1. /\ pc[c] = "usable" /\ MayRun(c) /\ UNCHANGED <<files, used>> /\ disturbed' = disturbed
        /\ todo[c] \in Seq(Files) /\ todo[c] # <<>>
    BY <1>4, Hands DEF CheckUsable, world, past
  <2>2. CASE GoTo(c, "transfer", DownloadOrder) /\ UNCHANGED outcome
    <3>1. pc'[c] = "transfer" /\ todo'[c] = DownloadOrder
      BY <1>3, <2>2
    <3>2. CountsOn(c)'
      BY <3>1, Orders DEF CountsOn, Present
    <3> QED BY <1>3, <2>1, <2>2, <3>2, GroundFrame DEF Ground
  <2>3. CASE GoTo(c, "usable", Tail(todo[c])) /\ files[Head(todo[c])] # Missing /\ UNCHANGED outcome
    <3>1. pc'[c] = "usable" /\ todo'[c] = Tail(todo[c])
      BY <1>3, <2>3
    <3>2. Pending(todo[c]) = {Head(todo[c])} \cup Pending(Tail(todo[c]))
      BY <2>1, HeadAndTail
    <3>3. ASSUME Either, Present(c) PROVE Present(c)'
      <4> SUFFICES ASSUME NEW f \in Files \ Pending(todo'[c]), files[f] = Missing
                   PROVE  \E t \in Tasks : t # c /\ pc'[t] = "move" /\ Head(todo'[t]) = f
        BY <2>1 DEF Present
      <4>1. f \notin Pending(todo[c])
        BY <2>3, <3>1, <3>2
      <4>2. PICK t \in Tasks : t # c /\ pc[t] = "move" /\ Head(todo[t]) = f
        BY <2>1, <3>3, <4>1 DEF Present
      <4> QED BY <1>3, <2>3, <4>2 DEF Clients
    <3>4. Either => CountsOn(c)'
      BY <2>1, <3>1, <3>3 DEF CountsOn, Ground
    <3> QED BY <1>3, <2>1, <2>3, <3>4, GroundFrame DEF Ground
  <2>4. CASE AllFilesThere(c) /\ files[Head(todo[c])] # Missing /\ Len(todo[c]) = 1
    <3>1. CASE c \in Helpers
      <4>1. Either => Complete'
        BY <2>1, <2>4, <3>1, LastFile DEF Complete
      <4>2. GoTo(c, "load", PathOrder) /\ UNCHANGED outcome
        BY <2>4, <3>1, DDIAssumption DEF AllFilesThere
      <4> QED BY <1>2, <1>3, <2>1, <2>4, <3>1, <4>1, <4>2, GroundFrame DEF Ground
    <3>2. CASE c \notin Helpers
      BY <2>1, <2>4, <3>2, EndGround DEF AllFilesThere
    <3> QED BY <3>1, <3>2
  <2> QED BY <1>4, <2>2, <2>3, <2>4 DEF CheckUsable
<1>5. CASE Transfer(c) /\ ~Fault(c)
  <2>1. /\ pc[c] = "transfer" /\ GoTo(c, "place", todo[c]) /\ UNCHANGED <<files, used, disturbed, outcome>>
    BY <1>5 DEF Transfer, world, past
  <2>2. ASSUME Present(c) PROVE Present(c)'
    BY <1>3, <2>1, <2>2 DEF Present, Clients
  <2>3. pc'[c] = "place"
    BY <1>3, <2>1
  <2>4. Either => CountsOn(c)'
    BY <2>1, <2>2, <2>3 DEF CountsOn, Ground
  <2> QED BY <1>3, <2>1, <2>4, GroundFrame DEF Ground
<1>6. CASE Place(c) /\ ~Fault(c)
  <2>1. /\ pc[c] = "place" /\ UNCHANGED <<files, used, disturbed, outcome>>
        /\ GoTo(c, IF files[Head(todo[c])] = Missing THEN "move" ELSE "clear", todo[c])
    BY <1>6 DEF Place, world, past
  <2>2. /\ pc'[c] = IF files[Head(todo[c])] = Missing THEN "move" ELSE "clear"
        /\ todo'[c] = todo[c]
    BY <1>3, <2>1
  <2>3. ASSUME Present(c) PROVE Present(c)'
    BY <1>3, <2>1, <2>2, <2>3 DEF Present, Clients
  <2>4. Either => CountsOn(c)'
    BY <2>1, <2>2, <2>3 DEF CountsOn, Ground
  <2> QED BY <1>3, <2>1, <2>4, GroundFrame DEF Ground
\* A file changes: the others are not looking, or see who is about to put it there.
<1>7. ASSUME pc[c] \in {"clear", "move"}, Either, UNCHANGED disturbed,
             \A f \in Files : f # Head(todo[c]) => files'[f] = files[f],
             \A d \in Clients : d # c => pc'[d] = pc[d] /\ todo'[d] = todo[d],
             NEW d \in Clients, d # c,
             files'[Head(todo[c])] = Missing =>
               pc[c] = "clear" /\ pc'[c] = "move" /\ todo'[c] = todo[c]
      PROVE  CountsOn(d)'
  <2>1. pc'[d] = pc[d] /\ todo'[d] = todo[d] /\ CountsOn(d)
    BY <1>7 DEF Ground
  <2>2. CASE pc[d] = "idle"
    BY <2>1, <2>2 DEF CountsOn, Present
  <2>3. CASE pc[d] # "idle"
    <3>1. c \in Tasks /\ d \in Tasks /\ actor = c
      BY <1>7, <2>3, Undisturbed DEF Clients, Base, Roles
    <3>2. pc[d] \notin {"clear", "move", "unlink", "load", "reset"}
      BY <1>7, <3>1, Undisturbed DEF Base, Roles
    <3>3. ASSUME Present(d) PROVE Present(d)'
      <4> SUFFICES ASSUME pc[d] \in Downloading, NEW f \in Files \ Pending(todo[d]), files'[f] = Missing
                   PROVE  \E t \in Tasks : t # d /\ pc'[t] = "move" /\ Head(todo'[t]) = f
        BY <2>1 DEF Present
      <4>1. CASE f = Head(todo[c])
        BY <1>7, <3>1, <4>1
      <4>2. CASE f # Head(todo[c])
        <5>1. PICK t \in Tasks : t # d /\ pc[t] = "move" /\ Head(todo[t]) = f
          BY <1>7, <3>3, <4>2 DEF Present
        <5> QED BY <1>7, <4>2, <5>1 DEF Clients
      <4> QED BY <4>1, <4>2
    <3> QED BY <1>7, <2>1, <3>1, <3>2, <3>3, DDIAssumption DEF CountsOn
  <2> QED BY <2>2, <2>3
<1>8. CASE Clear(c)
  <2>1. ASSUME RemoveFile(c), GoTo(c, "move", todo[c]), Either PROVE Ground'
    <3>1. /\ files' = [files EXCEPT ![Head(todo[c])] = Missing] /\ pc[c] = "clear"
          /\ UNCHANGED <<used, disturbed, outcome>> /\ Head(todo[c]) \in Files
      BY <1>8, <2>1, Hands DEF RemoveFile, past, Clear
    <3>2. pc'[c] = "move" /\ todo'[c] = todo[c]
      BY <1>3, <2>1
    <3>3. \A f \in Files : files'[f] = IF f = Head(todo[c]) THEN Missing ELSE files[f]
      BY <3>1 DEF Base, TypeOK
    <3>4. ASSUME Present(c) PROVE Present(c)'
      <4>1. Head(todo[c]) \in Pending(todo[c])
        BY <3>1, Hands, HeadAndTail
      <4> QED BY <1>3, <2>1, <3>1, <3>2, <3>3, <3>4, <4>1 DEF Present, Clients
    <3>5. CountsOn(c)'
      BY <2>1, <3>1, <3>2, <3>3, <3>4 DEF CountsOn, Ground
    <3>6. \A d \in Clients : d # c => CountsOn(d)'
      BY <1>3, <1>7, <2>1, <3>1, <3>2, <3>3
    <3> QED BY <3>1, <3>5, <3>6 DEF Ground, Either
  <2>2. CASE Raced(c) /\ files[Head(todo[c])] = Missing
    <3>1. ~Either
      BY <1>8, <2>2 DEF Clear, Ground, CountsOn
    <3> QED BY <2>2, <3>1, FaultGround
  <2>3. ASSUME ~Either, RemoveFile(c) PROVE Ground'
    BY <2>3 DEF RemoveFile, past, Ground, Either
  <2> QED BY <1>1, <1>8, <2>1, <2>2, <2>3 DEF Clear
<1>9. CASE Move(c)
  <2>1. ASSUME files' = [files EXCEPT ![Head(todo[c])] = temporary[c]], NextItem(c),
               UNCHANGED <<used, disturbed>>, Either
        PROVE  Ground'
    <3>1. pc[c] = "move" /\ Head(todo[c]) \in Files /\ temporary[c] # Missing
      BY <1>9, Hands DEF Move, Base, Paths
    <3>2. \A f \in Files : files'[f] = IF f = Head(todo[c]) THEN temporary[c] ELSE files[f]
      BY <2>1, <3>1 DEF Base, TypeOK
    <3>3. todo[c] \in Seq(Files) /\ todo[c] # <<>>
      BY <3>1, Hands
    <3>4. c \in Helpers \/ actor \in {Nobody, c}
      BY <3>1 DEF Base, Roles, Clients
    <3>5. \A d \in Clients : d # c => pc'[d] = pc[d] /\ todo'[d] = todo[d]
      BY <1>3, <2>1 DEF NextItem, AllFilesThere, End
    <3>6. \A d \in Clients : d # c => CountsOn(d)'
      BY <1>7, <2>1, <3>1, <3>2, <3>5
    <3>7. CountsOn(c)' /\ outcome' # "raced"
      <4>1. CASE Len(todo[c]) > 1 /\ GoTo(c, "transfer", Tail(todo[c])) /\ UNCHANGED outcome
        <5>1. pc'[c] = "transfer" /\ todo'[c] = Tail(todo[c])
          BY <1>3, <4>1
        <5>2. Pending(todo[c]) = {Head(todo[c])} \cup Pending(Tail(todo[c]))
          BY <3>3, HeadAndTail
        <5>3. ASSUME Present(c) PROVE Present(c)'
          <6> SUFFICES ASSUME NEW f \in Files \ Pending(Tail(todo[c])), files'[f] = Missing
                       PROVE  \E t \in Tasks : t # c /\ pc'[t] = "move" /\ Head(todo'[t]) = f
            BY <5>1 DEF Present
          <6>1. f \notin Pending(todo[c]) /\ files[f] = Missing
            BY <3>1, <3>2, <5>2
          <6>2. PICK t \in Tasks : t # c /\ pc[t] = "move" /\ Head(todo[t]) = f
            BY <3>1, <5>3, <6>1 DEF Present
          <6> QED BY <3>5, <6>2 DEF Clients
        <5> QED BY <2>1, <4>1, <5>1, <5>3 DEF CountsOn, Ground
      <4>2. CASE Len(todo[c]) = 1 /\ AllFilesThere(c)
        <5>1. CASE c \in Helpers
          <6>1. Complete'
            BY <2>1, <3>1, <3>2, <4>2, <5>1, LastFile DEF Complete
          <6> QED BY <1>2, <2>1, <4>2, <5>1, <6>1, DDIAssumption DEF AllFilesThere, Ground
        <5>2. CASE c \notin Helpers
          <6>1. pc'[c] = "idle" /\ outcome' = "done"
            BY <1>3, <4>2, <5>2 DEF AllFilesThere, End
          <6> QED BY <6>1 DEF CountsOn, Present
        <5> QED BY <5>1, <5>2
      <4> QED BY <2>1, <4>1, <4>2 DEF NextItem
    <3> QED BY <2>1, <3>6, <3>7 DEF Ground, Either
  <2>2. CASE Raced(c) /\ files[Head(todo[c])] # Missing
    <3>1. ~Either
      BY <1>9, <2>2 DEF Move, Ground, CountsOn
    <3> QED BY <2>2, <3>1, FaultGround
  <2>3. ASSUME ~Either, UNCHANGED used PROVE Ground'
    BY <2>3 DEF Ground, Either
  <2> QED BY <1>1, <1>9, <2>1, <2>2, <2>3 DEF Move, past
<1> QED BY <1>1, <1>4, <1>5, <1>6, <1>8, <1>9 DEF DownloadStep

LEMMA HelperGround ==
  ASSUME Base, Ground, NEW h \in Helpers, HelperStep(h)
  PROVE  Ground'
<1> USE DEF Downloading, Walking
<1>1. h \in Clients /\ h \notin Tasks
  BY DDIAssumption DEF Clients
<1>2. ASSUME Fault(h) \/ (Raced(h) /\ ~Either) PROVE Ground'
  BY <1>1, <1>2, FaultGround
<1>3. ASSUME NEW l, NEW s, GoTo(h, l, s)
      PROVE  /\ pc'[h] = l /\ todo'[h] = s
             /\ \A d \in Clients : d # h => pc'[d] = pc[d] /\ todo'[d] = todo[d]
  BY <1>1, <1>3 DEF GoTo, Base, TypeOK
<1>4. ASSUME NEW o, o # "raced", End(h, o), pc[h] # "move", UNCHANGED <<files, used, disturbed>>
      PROVE  Ground'
  BY <1>1, <1>4, EndGround
<1>5. ASSUME NEW l, NEW s, GoTo(h, l, s), pc[h] # "move", UNCHANGED <<files, used, disturbed, outcome>>,
             l \in {"mounted", "mount", "verify"} \/ (l = "usable" /\ s = PathOrder)
               \/ (l = "load" /\ pc[h] = "load")
      PROVE  Ground'
  <2>1. Either => CountsOn(h)'
    BY <1>1, <1>3, <1>5, Orders DEF CountsOn, Present, Ground, Complete
  <2> QED BY <1>1, <1>3, <1>5, <2>1, GroundFrame DEF Ground
<1>6. CASE (Probe(h) \/ CheckMounted(h) \/ Mount(h) \/ Verify(h)) /\ ~Fault(h)
  <2>1. /\ pc[h] # "move" /\ UNCHANGED <<files, used, disturbed>>
        /\ \/ \E o \in {"ready", "failed"} : End(h, o)
           \/ UNCHANGED outcome /\ GoTo(h, "mounted", <<>>)
           \/ UNCHANGED outcome /\ GoTo(h, "usable", PathOrder)
           \/ UNCHANGED outcome /\ GoTo(h, "verify", <<>>)
    BY <1>6 DEF Probe, CheckMounted, Mount, Verify, world, past
  <2> QED BY <1>4, <1>5, <2>1
<1>7. CASE Load(h) /\ ~Fault(h)
  <2>1. CASE Raced(h) /\ files[Head(todo[h])] = Missing
    <3>1. pc[h] = "load" /\ Head(todo[h]) \in Files
      BY <1>1, <1>7, Hands DEF Load
    <3>2. ~Either
      BY <1>1, <2>1, <3>1 DEF Ground, CountsOn, Complete
    <3> QED BY <1>2, <2>1, <3>2
  <2>2. CASE ~(Raced(h) /\ files[Head(todo[h])] = Missing)
    <3>1. /\ pc[h] = "load" /\ UNCHANGED <<files, used, disturbed, outcome>>
          /\ GoTo(h, IF Len(todo[h]) = 1 THEN "mount" ELSE "load", Tail(todo[h]))
      BY <1>7, <2>2 DEF Load, world, past
    <3>2. CASE Len(todo[h]) = 1
      BY <1>5, <3>1, <3>2
    <3>3. CASE Len(todo[h]) # 1
      BY <1>5, <3>1, <3>3
    <3> QED BY <3>2, <3>3
  <2> QED BY <1>7, <2>1, <2>2 DEF Load
\* The queue removes files while no task is about.
<1>8. ASSUME NEW s \in Seq(Files), NextPath(h, s), pc[h] \in {"reset", "unlink"},
             \A f \in Files \ Pending(s) : Either => files'[f] = Missing,
             UNCHANGED <<used, disturbed>>
      PROVE  Ground'
  <2> SUFFICES ASSUME Either PROVE outcome' # "raced" /\ \A d \in Clients : CountsOn(d)'
    BY <1>8 DEF Ground, Either
  <2>1. \A d \in Clients : d # h => pc'[d] = "idle"
    <3>1. \A d \in Clients : d # h => pc[d] = "idle"
      BY <1>1, <1>8, Undisturbed
    <3> QED BY <1>3, <1>8, <3>1 DEF NextPath, End
  <2>2. CountsOn(h)' /\ outcome' # "raced"
    <3>1. CASE s # <<>> /\ GoTo(h, "reset", s) /\ UNCHANGED outcome
      BY <1>3, <1>8, <3>1 DEF CountsOn, Present, Ground
    <3>2. CASE End(h, "done")
      BY <1>3, <3>2 DEF CountsOn, Present, End
    <3> QED BY <1>8, <3>1, <3>2 DEF NextPath
  <2>3. \A d \in Clients : d # h => CountsOn(d)'
    BY <2>1 DEF CountsOn, Present
  <2> QED BY <2>2, <2>3
<1>9. CASE ResetPath(h)
  <2>1. PICK i \in 1 .. Len(todo[h]) :
          \/ files[todo[h][i]] = Missing /\ NextPath(h, Without(i, todo[h]))
          \/ /\ files[todo[h][i]] # Missing /\ UNCHANGED outcome
             /\ GoTo(h, "unlink", <<todo[h][i]>> \o Without(i, todo[h]))
    BY <1>9 DEF ResetPath
  <2>2. pc[h] = "reset" /\ UNCHANGED <<files, used, disturbed>>
    BY <1>9 DEF ResetPath, world
  <2>3. /\ todo[h][i] \in Files /\ Without(i, todo[h]) \in Seq(Files)
        /\ Pending(todo[h]) \subseteq {todo[h][i]} \cup Pending(Without(i, todo[h]))
    BY <1>1, <2>2, Hands, Removing
  <2>4. Either => \A f \in Files \ Pending(todo[h]) : files[f] = Missing
    BY <1>1, <2>2 DEF Ground, CountsOn
  <2>5. CASE files[todo[h][i]] = Missing /\ NextPath(h, Without(i, todo[h]))
    <3>1. \A f \in Files \ Pending(Without(i, todo[h])) : Either => files'[f] = Missing
      BY <2>2, <2>3, <2>4, <2>5
    <3> QED BY <1>8, <2>2, <2>3, <2>5, <3>1
  <2>6. CASE /\ files[todo[h][i]] # Missing /\ UNCHANGED outcome
             /\ GoTo(h, "unlink", <<todo[h][i]>> \o Without(i, todo[h]))
    <3>1. PICK whole : whole = <<todo[h][i]>> \o Without(i, todo[h])
      OBVIOUS
    <3>2. Head(whole) = todo[h][i] /\ Pending(whole) = {todo[h][i]} \cup Pending(Without(i, todo[h]))
      BY <2>3, <3>1, Prefixed
    <3>3. GoTo(h, "unlink", whole) /\ pc'[h] = "unlink" /\ todo'[h] = whole
      BY <1>3, <2>6, <3>1
    <3>4. Either => CountsOn(h)'
      BY <2>2, <2>3, <2>4, <2>6, <3>2, <3>3 DEF CountsOn, Present
    <3>5. \A d \in Clients : d # h => pc'[d] = pc[d] /\ todo'[d] = todo[d]
      BY <1>3, <3>3
    <3> QED BY <1>1, <2>2, <2>6, <3>4, <3>5, GroundFrame DEF Ground
  <2> QED BY <2>1, <2>5, <2>6
<1>10. CASE Unlink(h) /\ ~Fault(h)
  <2>1. pc[h] = "unlink" /\ todo[h] \in Seq(Files) /\ todo[h] # <<>> /\ Head(todo[h]) \in Files
        /\ Tail(todo[h]) \in Seq(Files)
    BY <1>1, <1>10, Hands DEF Unlink
  <2>2. CASE Raced(h) /\ files[Head(todo[h])] = Missing
    <3>1. ~Either
      BY <1>1, <2>1, <2>2 DEF Ground, CountsOn
    <3> QED BY <1>2, <2>2, <3>1
  <2>3. CASE /\ files' = [files EXCEPT ![Head(todo[h])] = Missing] /\ NextPath(h, Tail(todo[h]))
             /\ UNCHANGED <<used, disturbed>>
    <3>1. \A f \in Files : files'[f] = IF f = Head(todo[h]) THEN Missing ELSE files[f]
      BY <2>1, <2>3 DEF Base, TypeOK
    <3>2. Either => \A f \in Files \ Pending(todo[h]) : files[f] = Missing
      BY <1>1, <2>1 DEF Ground, CountsOn
    <3>3. Pending(todo[h]) = {Head(todo[h])} \cup Pending(Tail(todo[h]))
      BY <2>1, HeadAndTail
    <3>4. \A f \in Files \ Pending(Tail(todo[h])) : Either => files'[f] = Missing
      BY <3>1, <3>2, <3>3
    <3> QED BY <1>8, <2>1, <2>3, <3>4
  <2> QED BY <1>10, <2>2, <2>3 DEF Unlink
<1> QED BY <1>2, <1>6, <1>7, <1>9, <1>10 DEF HelperStep

LEMMA GroundStep ==
  Base /\ Ground /\ [Next]_vars => Ground'
<1> SUFFICES ASSUME Base, Ground, [Next]_vars PROVE Ground'
  OBVIOUS
<1>1. ASSUME NEW c \in Clients, NEW l \in {"probe", "reset", "usable"}, NEW s,
             Begin(c, l, s), l \in {"reset", "usable"} => s = PathOrder
      PROVE  Ground'
  <2>1. /\ pc'[c] = l /\ todo'[c] = s /\ pc[c] = "idle" /\ UNCHANGED <<files, disturbed, outcome>>
        /\ \A d \in Clients : d # c => pc'[d] = pc[d] /\ todo'[d] = todo[d]
        /\ used \subseteq used'
    BY <1>1 DEF Begin, GoTo, world, Base, TypeOK
  <2> SUFFICES ASSUME Either' PROVE outcome' # "raced" /\ \A d \in Clients : CountsOn(d)'
    BY DEF Ground
  <2>2. outcome' # "raced" /\ \A d \in Clients : CountsOn(d)
    BY <2>1 DEF Either, Ground
  <2>3. ASSUME NEW d \in Clients PROVE CountsOn(d)'
    <3>1. CASE d = c
      BY <1>1, <2>1, <3>1, Orders DEF CountsOn, Present, Downloading
    <3>2. CASE d # c
      BY <2>1, <2>2, <3>2 DEF CountsOn, Present, Complete, Clients
    <3> QED BY <3>1, <3>2
  <2> QED BY <2>2, <2>3
<1>2. ASSUME NEW h \in Helpers, StartPrepare(h) \/ StartReset(h) PROVE Ground'
  BY <1>1, <1>2 DEF StartPrepare, StartReset, Clients
<1>3. ASSUME NEW h \in Helpers, HelperStep(h) PROVE Ground'
  BY <1>3, HelperGround
<1>4. ASSUME NEW t \in Tasks, StartDownloadIfNeeded(t) PROVE Ground'
  BY <1>1, <1>4 DEF StartDownloadIfNeeded, Clients
<1>5. ASSUME NEW c \in Clients, DownloadStep(c) PROVE Ground'
  BY <1>5, DownloadGround
<1>6. CASE Publish
  <2>1. UNCHANGED <<files, pc, todo, outcome, used>> /\ disturbed \subseteq disturbed'
    BY <1>6 DEF Publish, client
  <2> QED BY <2>1 DEF Ground, Either, CountsOn, Present, Complete
<1>7. CASE Crash
  BY <1>7 DEF Crash, Ground, Either, CountsOn, Present, Downloading
<1>8. CASE UNCHANGED vars
  BY <1>8 DEF vars, world, client, past, Ground, Either, CountsOn, Present, Complete
<1> QED BY <1>2, <1>3, <1>4, <1>5, <1>6, <1>7, <1>8 DEF Next, Quiet

LEMMA GroundHolds ==
  Spec => [](Base /\ Ground)
<1>1. Init => Ground
  BY DEF Init, Ground, CountsOn, Present, Downloading
<1> QED BY <1>1, TypeInit, BaseStep, GroundStep, PTL DEF Spec

-----------------------------------------------------------------------------
(* Types, races, and what a finished task may count on.                     *)

\* The variables keep their types for any helpers, tasks and bounds.
THEOREM CacheTypeCorrect ==
  Spec => []TypeOK
BY BaseHolds, PTL DEF Base

\* Callers of one of the two APIs never fail because of each other, however many there are.
THEOREM NoRacesCorrect ==
  Spec => []NoRaces
<1>1. Base /\ Ground => NoRaces
  BY OneAPIMeansEither DEF NoRaces, Ground
<1> QED BY <1>1, GroundHolds, PTL

\* A task whose downloadIfNeeded returns normally leaves all three files behind, however many
\* tasks are replacing them.
THEOREM DoneMeansCompleteCorrect ==
  Spec => DoneMeansComplete
<1>1. ASSUME Base, Ground, [Next]_vars, NEW t \in Tasks, pc[t] # "idle", pc'[t] = "idle",
             outcome' = "done", "torn" \notin disturbed, "queue" \notin used
      PROVE  Complete'
  <2>1. t \in Clients /\ t \notin Helpers /\ Either
    BY <1>1, DDIAssumption DEF Clients, Either
  <2>2. ASSUME NEW c, c # t, NEW l, NEW s, GoTo(c, l, s) PROVE FALSE
    BY <1>1, <2>1, <2>2 DEF GoTo, Base, TypeOK
  <2>3. ASSUME DownloadStep(t) PROVE Complete'
    <3>1. ~Fault(t) /\ ~Raced(t)
      BY <1>1 DEF Fault, Raced, End
    <3>2. ASSUME NEW l, NEW s, GoTo(t, l, s) PROVE l = "idle"
      BY <1>1, <2>1, <3>2 DEF GoTo, Base, TypeOK
    <3>3. CASE CheckUsable(t)
      <4>1. pc[t] = "usable" /\ MayRun(t) /\ files' = files
        BY <3>3 DEF CheckUsable, world
      <4>2. files[Head(todo[t])] # Missing /\ Len(todo[t]) = 1
        BY <3>2, <3>3 DEF CheckUsable
      <4> QED BY <1>1, <2>1, <4>1, <4>2, LastFile DEF Complete, MayRun, Downloading
    <3>4. CASE Move(t)
      <4>1. pc[t] = "move" /\ files' = [files EXCEPT ![Head(todo[t])] = temporary[t]] /\ NextItem(t)
        BY <3>1, <3>4 DEF Move
      <4>2. Len(todo[t]) = 1
        BY <3>2, <4>1 DEF NextItem
      <4>3. \A f \in Files : files'[f] = IF f = Head(todo[t]) THEN temporary[t] ELSE files[f]
        BY <1>1, <2>1, <4>1, Hands DEF Walking, Downloading, Base, TypeOK
      <4>4. temporary[t] # Missing /\ actor = t
        BY <1>1, <2>1, <4>1 DEF Base, Paths, Roles
      <4> QED BY <1>1, <2>1, <4>1, <4>2, <4>3, <4>4, LastFile DEF Complete, Downloading
    <3>5. CASE Transfer(t) \/ Place(t) \/ Clear(t)
      BY <3>1, <3>2, <3>5 DEF Transfer, Place, Clear
    <3> QED BY <2>3, <3>3, <3>4, <3>5 DEF DownloadStep
  <2>4. ASSUME NEW c \in Clients, c # t, DownloadStep(c) PROVE FALSE
    BY <2>2, <2>4 DEF DownloadStep, CheckUsable, Transfer, Place, Clear, Move, NextItem, AllFilesThere,
       Fault, Raced, End
  <2>5. ASSUME NEW h \in Helpers, HelperStep(h) PROVE FALSE
    <3>1. h # t
      BY <2>1
    <3> QED BY <2>2, <2>5, <3>1 DEF HelperStep, Probe, CheckMounted, Load, Mount, Verify, ResetPath,
               Unlink, NextPath, Fault, Raced, End
  <2>6. ASSUME NEW c \in Clients, NEW l, NEW s, Begin(c, l, s), l # "idle" PROVE FALSE
    BY <1>1, <2>1, <2>6 DEF Begin, GoTo, Base, TypeOK
  <2>7. ~Publish /\ ~Crash /\ ~UNCHANGED vars
    BY <1>1 DEF Publish, Crash, vars, client
  <2> QED BY <1>1, <2>3, <2>4, <2>5, <2>6, <2>7
          DEF Next, Quiet, StartPrepare, StartReset, StartDownloadIfNeeded, Clients
<1>2. Base /\ Ground /\ [Next]_vars =>
        [\A t \in Tasks : pc[t] # "idle" /\ pc'[t] = "idle" /\ outcome' = "done" /\ "torn" \notin disturbed
                            /\ "queue" \notin used => Complete']_vars
  BY <1>1
<1> QED BY <1>2, GroundHolds, PTL DEF Spec, DoneMeansComplete

-----------------------------------------------------------------------------
(* What is mounted after a reset.                                           *)

Carries(h) ==
  /\ pc[h] \in {"place", "clear", "move"} => temporary[h] >= fresh
  /\ pc[h] \notin {"load", "mount", "verify"} => loaded[h] = <<>>
  /\ \A i \in 1 .. Len(loaded[h]) : loaded[h][i] >= fresh

Fresh ==
  "actor" \notin used =>
    /\ fresh <= published
    /\ \A f \in Files : files[f] = Missing \/ files[f] >= fresh
    /\ \A h \in Helpers : Carries(h)

\* A helper that steps while no task ever called.
LEMMA FreshFrame ==
  ASSUME Base, Fresh, "actor" \notin used, NEW h \in Helpers, UNCHANGED <<published, fresh, used>>,
         \A f \in Files : files'[f] \in {Missing, files[f]} \/ files'[f] >= fresh,
         \A g \in Helpers : g # h => pc'[g] = pc[g] /\ temporary'[g] = temporary[g] /\ loaded'[g] = loaded[g],
         Carries(h)'
  PROVE  Fresh'
<1>1. \A g \in Helpers : g # h => Carries(g)'
  BY DEF Fresh, Carries
<1> QED BY <1>1 DEF Fresh

LEMMA EndFresh ==
  ASSUME Base, Fresh, NEW h \in Helpers, NEW o, End(h, o), UNCHANGED <<files, published, fresh, used>>
  PROVE  Fresh'
<1> SUFFICES ASSUME "actor" \notin used PROVE Fresh'
  BY DEF Fresh
<1>1. /\ pc'[h] = "idle" /\ loaded'[h] = <<>>
      /\ \A g \in Helpers : g # h =>
           pc'[g] = pc[g] /\ temporary'[g] = temporary[g] /\ loaded'[g] = loaded[g]
  BY DEF End, GoTo, Base, TypeOK, Clients
<1>2. Carries(h)'
  BY <1>1 DEF Carries
<1> QED BY <1>1, <1>2, FreshFrame

LEMMA GoToFresh ==
  ASSUME Base, Fresh, "actor" \notin used, NEW h \in Helpers, NEW l, NEW s, GoTo(h, l, s), l \in Labels,
         UNCHANGED <<published, fresh, used>>, UNCHANGED loaded,
         \A f \in Files : files'[f] \in {Missing, files[f]} \/ files'[f] >= fresh,
         \A g \in Helpers : g # h => temporary'[g] = temporary[g],
         l \in {"place", "clear", "move"} => temporary'[h] >= fresh,
         l \in {"load", "mount", "verify"} \/ pc[h] \notin {"load", "mount", "verify"}
  PROVE  Fresh'
<1>1. /\ pc'[h] = l
      /\ \A g \in Helpers : g # h =>
           pc'[g] = pc[g] /\ temporary'[g] = temporary[g] /\ loaded'[g] = loaded[g]
  BY DEF GoTo, Base, TypeOK, Clients
<1>2. Carries(h)'
  BY <1>1 DEF Carries, Fresh
<1> QED BY <1>1, <1>2, FreshFrame

LEMMA FreshStep ==
  Base /\ Ground /\ Fresh /\ [Next]_vars => Fresh'
<1> SUFFICES ASSUME Base, Ground, Fresh, [Next]_vars, "actor" \notin used' PROVE Fresh'
  BY DEF Fresh
<1> USE DEF Labels
<1>1. ASSUME NEW c \in Clients, Fault(c) \/ Raced(c), pc[c] # "idle" PROVE Fresh'
  <2>1. "actor" \notin used /\ UNCHANGED <<files, published, used, fresh>> /\ \E o : End(c, o)
    BY <1>1 DEF Fault, Raced, world
  <2>2. c \in Helpers
    BY <1>1, <2>1 DEF Base, Roles, Clients
  <2> QED BY <2>1, <2>2, EndFresh
<1>2. ASSUME NEW c \in Clients, DownloadStep(c), ~Fault(c), ~Raced(c) PROVE Fresh'
  <2>1. "actor" \notin used /\ UNCHANGED <<published, used, fresh>>
    BY <1>2 DEF DownloadStep, CheckUsable, Transfer, Place, Clear, Move, RemoveFile, world, past
  <2>2. pc[c] \in Downloading
    BY <1>2 DEF DownloadStep, CheckUsable, Transfer, Place, Clear, Move, Downloading
  <2>3. c \in Helpers /\ c \notin Tasks
    BY <2>1, <2>2, DDIAssumption DEF Base, Roles, Clients, Downloading
  <2>4. /\ Head(todo[c]) \in Files /\ temporary[c] \in 0 .. MaxVersion
        /\ (pc[c] \in {"place", "clear", "move"} => temporary[c] >= fresh)
    BY <2>1, <2>2, <2>3, Hands DEF Walking, Fresh, Carries
  <2>5. ASSUME NEW f \in Files, NEW v, files' = [files EXCEPT ![f] = v], v = Missing \/ v >= fresh
        PROVE  \A g \in Files : files'[g] \in {Missing, files[g]} \/ files'[g] >= fresh
    BY <2>5 DEF Base, TypeOK
  <2>6. CASE CheckUsable(c)
    <3>1. /\ files' = files
          /\ \/ UNCHANGED <<temporary, loaded>> /\ GoTo(c, "transfer", DownloadOrder)
             \/ UNCHANGED <<temporary, loaded>> /\ GoTo(c, "usable", Tail(todo[c]))
             \/ /\ temporary' = [temporary EXCEPT ![c] = Missing] /\ UNCHANGED loaded
                /\ GoTo(c, "load", PathOrder)
      BY <2>3, <2>6 DEF CheckUsable, AllFilesThere, world
    <3>2. \A g \in Helpers : g # c => temporary'[g] = temporary[g]
      BY <3>1 DEF Base, TypeOK, Clients
    <3> QED BY <2>1, <2>2, <2>3, <3>1, <3>2, GoToFresh DEF Downloading
  <2>7. CASE Transfer(c)
    <3>1. /\ UNCHANGED <<files, loaded>> /\ temporary' = [temporary EXCEPT ![c] = published]
          /\ GoTo(c, "place", todo[c])
      BY <1>2, <2>7 DEF Transfer, world
    <3>2. temporary'[c] >= fresh /\ \A g \in Helpers : g # c => temporary'[g] = temporary[g]
      BY <2>1, <3>1 DEF Base, TypeOK, Clients, Fresh
    <3> QED BY <2>1, <2>2, <2>3, <3>1, <3>2, GoToFresh DEF Downloading
  <2>8. CASE Place(c)
    <3>1. /\ UNCHANGED <<files, loaded, temporary>> /\ pc[c] = "place"
          /\ (GoTo(c, "move", todo[c]) \/ GoTo(c, "clear", todo[c]))
      BY <1>2, <2>8 DEF Place, world
    <3> QED BY <2>1, <2>2, <2>3, <2>4, <3>1, GoToFresh DEF Downloading
  <2>9. CASE Clear(c)
    <3>1. /\ UNCHANGED <<loaded, temporary>> /\ files' = [files EXCEPT ![Head(todo[c])] = Missing]
          /\ pc[c] = "clear" /\ GoTo(c, "move", todo[c])
      BY <1>2, <2>9 DEF Clear, RemoveFile
    <3> QED BY <2>1, <2>2, <2>3, <2>4, <2>5, <3>1, GoToFresh DEF Downloading
  <2>10. CASE Move(c)
    <3>1. /\ files' = [files EXCEPT ![Head(todo[c])] = temporary[c]] /\ pc[c] = "move" /\ UNCHANGED loaded
          /\ temporary' = [temporary EXCEPT ![c] = Missing]
          /\ GoTo(c, "transfer", Tail(todo[c])) \/ GoTo(c, "load", PathOrder)
      BY <1>2, <2>3, <2>10 DEF Move, NextItem, AllFilesThere
    <3>2. \A g \in Helpers : g # c => temporary'[g] = temporary[g]
      BY <3>1 DEF Base, TypeOK, Clients
    <3> QED BY <2>1, <2>2, <2>3, <2>4, <2>5, <3>1, <3>2, GoToFresh DEF Downloading
  <2> QED BY <1>2, <2>6, <2>7, <2>8, <2>9, <2>10 DEF DownloadStep
<1>3. ASSUME NEW h \in Helpers, HelperStep(h), ~Fault(h), ~Raced(h) PROVE Fresh'
  <2>1. "actor" \notin used /\ UNCHANGED <<published, used>> /\ pc[h] # "idle" /\ h \in Clients
    BY <1>3 DEF HelperStep, Probe, CheckMounted, Load, Mount, Verify, ResetPath, Unlink, world, past, Clients
  <2>2. Carries(h)
    BY <2>1 DEF Fresh
  <2>3. CASE Probe(h) \/ CheckMounted(h) \/ Mount(h) \/ Verify(h)
    <3>1. /\ UNCHANGED <<files, fresh>>
          /\ \/ \E o : End(h, o)
             \/ /\ UNCHANGED <<temporary, loaded>>
                /\ \/ pc[h] \in {"probe", "mounted"} /\ \E s : GoTo(h, "mounted", s) \/ GoTo(h, "usable", s)
                   \/ \E s : GoTo(h, "verify", s)
      BY <1>3, <2>3 DEF Probe, CheckMounted, Mount, Verify, world, past
    <3> QED BY <2>1, <3>1, EndFresh, GoToFresh
  <2>4. CASE Load(h)
    <3>1. /\ UNCHANGED <<files, fresh, temporary>> /\ files[Head(todo[h])] # Missing /\ pc[h] = "load"
          /\ loaded' = [loaded EXCEPT ![h] = Append(@, files[Head(todo[h])])]
          /\ \E l \in {"mount", "load"} : GoTo(h, l, Tail(todo[h]))
      BY <1>3, <2>4 DEF Load, world, past
    <3>2. pc'[h] \in {"mount", "load"} /\ \A g \in Helpers : g # h => pc'[g] = pc[g] /\ loaded'[g] = loaded[g]
      BY <2>1, <3>1 DEF GoTo, Base, TypeOK, Clients
    <3>3. loaded'[h] = Append(loaded[h], files[Head(todo[h])]) /\ loaded[h] \in Seq(1 .. MaxVersion)
      BY <2>1, <3>1 DEF Base, TypeOK
    <3>4. files[Head(todo[h])] >= fresh /\ files[Head(todo[h])] \in 0 .. MaxVersion
      BY <2>1, <3>1, Hands DEF Fresh, Walking
    <3>5. \A i \in 1 .. Len(loaded'[h]) : loaded'[h][i] >= fresh
      BY <2>2, <3>3, <3>4 DEF Carries
    <3>6. Carries(h)'
      BY <3>1, <3>2, <3>5 DEF Carries
    <3> QED BY <2>1, <3>1, <3>2, <3>6, FreshFrame
  <2>5. ASSUME NEW s \in Seq(Files), NextPath(h, s), pc[h] \in {"reset", "unlink"},
               \A f \in Files : files'[f] \in {Missing, files[f]},
               s = <<>> => \A f \in Files : files'[f] = Missing
        PROVE  Fresh'
    <3>1. CASE GoTo(h, "reset", s) /\ UNCHANGED <<temporary, loaded, fresh>>
      BY <2>1, <2>5, <3>1, GoToFresh
    <3>2. CASE s = <<>> /\ End(h, "done") /\ fresh' = published
      <4>1. \A g \in Helpers : g # h => pc[g] = "idle" /\ loaded[g] = <<>>
        BY <2>1 DEF Base, Roles, Fresh, Carries
      <4>2. pc'[h] = "idle" /\ loaded'[h] = <<>>
            /\ \A g \in Helpers : g # h => pc'[g] = pc[g] /\ loaded'[g] = loaded[g]
        BY <2>1, <3>2 DEF End, GoTo, Base, TypeOK, Clients
      <4>3. \A g \in Helpers : Carries(g)'
        BY <4>1, <4>2 DEF Carries
      <4>4. fresh' <= published'
        BY <2>1, <3>2 DEF Base, TypeOK
      <4> QED BY <2>5, <3>2, <4>3, <4>4 DEF Fresh
    <3> QED BY <2>5, <3>1, <3>2 DEF NextPath
  <2>6. CASE ResetPath(h)
    <3>1. PICK i \in 1 .. Len(todo[h]) :
            \/ files[todo[h][i]] = Missing /\ NextPath(h, Without(i, todo[h]))
            \/ /\ GoTo(h, "unlink", <<todo[h][i]>> \o Without(i, todo[h]))
               /\ UNCHANGED <<temporary, loaded, fresh>>
      BY <2>6 DEF ResetPath
    <3>2. pc[h] = "reset" /\ files' = files
      BY <2>6 DEF ResetPath, world
    <3>3. /\ Without(i, todo[h]) \in Seq(Files)
          /\ Pending(todo[h]) \subseteq {todo[h][i]} \cup Pending(Without(i, todo[h]))
      BY <2>1, <3>2, Hands, Removing DEF Walking
    <3>4. \A f \in Files \ Pending(todo[h]) : files[f] = Missing
      BY <2>1, <3>2 DEF Ground, CountsOn, Either
    <3>5. CASE files[todo[h][i]] = Missing /\ NextPath(h, Without(i, todo[h]))
      <4>1. Without(i, todo[h]) = <<>> => \A f \in Files : files'[f] = Missing
        <5>1. Pending(<<>>) = {}
          BY DEF Pending
        <5> QED BY <3>2, <3>3, <3>4, <3>5, <5>1
      <4> QED BY <2>5, <3>2, <3>3, <3>5, <4>1
    <3>6. CASE /\ GoTo(h, "unlink", <<todo[h][i]>> \o Without(i, todo[h]))
               /\ UNCHANGED <<temporary, loaded, fresh>>
      BY <2>1, <3>2, <3>6, GoToFresh
    <3> QED BY <3>1, <3>5, <3>6
  <2>7. CASE Unlink(h)
    <3>1. /\ pc[h] = "unlink" /\ files' = [files EXCEPT ![Head(todo[h])] = Missing]
          /\ NextPath(h, Tail(todo[h]))
      BY <1>3, <2>7 DEF Unlink
    <3>2. /\ Head(todo[h]) \in Files /\ Tail(todo[h]) \in Seq(Files)
          /\ todo[h] \in Seq(Files) /\ todo[h] # <<>>
      BY <2>1, <3>1, Hands DEF Walking
    <3>3. \A f \in Files : files'[f] = IF f = Head(todo[h]) THEN Missing ELSE files[f]
      BY <3>1, <3>2 DEF Base, TypeOK
    <3>4. \A f \in Files \ Pending(todo[h]) : files[f] = Missing
      BY <2>1, <3>1 DEF Ground, CountsOn, Either
    <3>5. Pending(todo[h]) = {Head(todo[h])} \cup Pending(Tail(todo[h]))
      BY <3>2, HeadAndTail
    <3>6. Tail(todo[h]) = <<>> => \A f \in Files : files'[f] = Missing
      BY <3>3, <3>4, <3>5 DEF Pending
    <3> QED BY <2>5, <3>1, <3>2, <3>3, <3>6
  <2> QED BY <1>3, <2>3, <2>4, <2>6, <2>7 DEF HelperStep
<1>4. ASSUME NEW c \in Clients, NEW l \in {"probe", "reset", "usable"}, NEW s, Begin(c, l, s) PROVE Fresh'
  <2>1. /\ "actor" \notin used /\ c \in Helpers /\ pc[c] = "idle" /\ UNCHANGED <<files, published, fresh>>
        /\ UNCHANGED <<temporary, loaded>> /\ GoTo(c, l, s) /\ "actor" \notin used'
    BY <1>4 DEF Begin, world, Clients
  <2>2. /\ pc'[c] = l /\ \A g \in Helpers : g # c => pc'[g] = pc[g]
    BY <2>1 DEF GoTo, Base, TypeOK, Clients
  <2>3. \A g \in Helpers : Carries(g)'
    BY <2>1, <2>2 DEF Fresh, Carries
  <2> QED BY <2>1, <2>3 DEF Fresh
<1>5. CASE Publish
  <2>1. published' = published + 1 /\ UNCHANGED <<files, pc, temporary, loaded, fresh, used>>
    BY <1>5 DEF Publish, client
  <2>2. fresh <= published' /\ "actor" \notin used
    BY <2>1 DEF Base, TypeOK, Fresh
  <2> QED BY <2>1, <2>2 DEF Fresh, Carries
<1>6. CASE Crash
  <2>1. /\ UNCHANGED <<files, published, fresh, used>>
        /\ \A h \in Helpers : pc'[h] = "idle" /\ loaded'[h] = <<>>
    BY <1>6 DEF Crash, Clients
  <2> QED BY <2>1 DEF Fresh, Carries
<1>7. CASE UNCHANGED vars
  BY <1>7 DEF vars, world, client, past, Fresh, Carries
<1>8. ASSUME NEW c \in Clients, DownloadStep(c) PROVE pc[c] # "idle"
  BY <1>8 DEF DownloadStep, CheckUsable, Transfer, Place, Clear, Move
<1>9. ASSUME NEW h \in Helpers, HelperStep(h) PROVE pc[h] # "idle"
  BY <1>9 DEF HelperStep, Probe, CheckMounted, Load, Mount, Verify, ResetPath, Unlink
<1> QED BY <1>1, <1>2, <1>3, <1>4, <1>5, <1>6, <1>7, <1>8, <1>9
        DEF Next, Quiet, StartPrepare, StartReset, StartDownloadIfNeeded, Clients

\* What a helper mounts was downloaded after the latest reset, as long as no task ever calls.
THEOREM MountsFreshFilesCorrect ==
  Spec => []MountsFreshFiles
<1>1. Init => Fresh
  BY DDIAssumption DEF Init, Fresh, Carries, Clients
<1>2. Base /\ Fresh => MountsFreshFiles
  <2> SUFFICES ASSUME Base, Fresh, "actor" \notin used, NEW h \in Helpers, NEW i \in DOMAIN loaded[h]
               PROVE  loaded[h][i] >= fresh
    BY DEF MountsFreshFiles
  <2>1. loaded[h] \in Seq(1 .. MaxVersion)
    BY DEF Base, TypeOK, Clients
  <2>2. i \in 1 .. Len(loaded[h])
    BY <2>1, LenProperties
  <2> QED BY <2>2 DEF Fresh, Carries
<1> QED BY <1>1, <1>2, FreshStep, GroundHolds, PTL DEF Spec

-----------------------------------------------------------------------------
(* Where files of different versions come from.                             *)

Fetching == {"transfer", "place", "clear", "move"}
Touching == Fetching \cup {"reset", "unlink"}
Nothing  == \A f \in Files : files[f] = Missing
Latest   == \A f \in Files : files[f] \in {Missing, published}

Even ==
  Either /\ disturbed = {} =>
    /\ \A f, g \in Files : files[f] # Missing /\ files[g] # Missing => files[f] = files[g]
    /\ \A c \in Clients : pc[c] \in Fetching => Latest
    /\ \A c \in Clients : pc[c] \in {"place", "clear", "move"} => temporary[c] = published
    /\ (\A c \in Clients : pc[c] \notin Touching) => Complete \/ Nothing

LEMMA EvenFrame ==
  ASSUME Base, Even, Either, disturbed = {}, NEW c \in Clients, UNCHANGED published,
         \A d \in Clients : d # c => pc'[d] = pc[d] /\ temporary'[d] = temporary[d],
         \A f \in Files : files'[f] \in {Missing, files[f]} \/ (files'[f] = published /\ pc[c] \in Fetching),
         pc'[c] \in Fetching => Latest',
         pc'[c] \in {"place", "clear", "move"} => temporary'[c] = published,
         pc'[c] \in Touching \/ (Complete \/ Nothing)'
           \/ (pc[c] \notin Touching /\ \A f \in Files : files'[f] = files[f])
  PROVE  Even'
<1>1. \A f, g \in Files : files'[f] # Missing /\ files'[g] # Missing => files'[f] = files'[g]
  <2>1. CASE pc[c] \in Fetching
    BY <2>1 DEF Even, Latest
  <2>2. CASE pc[c] \notin Fetching
    BY <2>2 DEF Even
  <2> QED BY <2>1, <2>2
<1>2. \A d \in Clients : pc'[d] \in Fetching => Latest'
  <2> SUFFICES ASSUME NEW d \in Clients, pc'[d] \in Fetching, d # c PROVE Latest'
    OBVIOUS
  <2>1. Latest
    BY DEF Even
  <2> QED BY <2>1 DEF Latest
<1>3. \A d \in Clients : pc'[d] \in {"place", "clear", "move"} => temporary'[d] = published'
  BY DEF Even
<1>4. (\A d \in Clients : pc'[d] \notin Touching) => Complete' \/ Nothing'
  <2> SUFFICES ASSUME \A d \in Clients : pc'[d] \notin Touching, ~Complete', ~Nothing' PROVE FALSE
    OBVIOUS
  <2>1. /\ \A d \in Clients : pc[d] \notin Touching
        /\ \A f \in Files : files'[f] = files[f]
    OBVIOUS
  <2> QED BY <2>1 DEF Even, Complete, Nothing
<1> QED BY <1>1, <1>2, <1>3, <1>4 DEF Even

LEMMA EvenStep ==
  Base /\ Ground /\ Even /\ [Next]_vars => Even'
<1> SUFFICES ASSUME Base, Ground, Even, [Next]_vars, Either', disturbed' = {} PROVE Even'
  BY DEF Even
<1> USE DEF Fetching, Touching
<1>1. ASSUME NEW c \in Clients, Fault(c) \/ Raced(c) PROVE FALSE
  BY <1>1 DEF Fault, Raced
<1>2. ASSUME NEW c \in Clients, NEW l, NEW s, GoTo(c, l, s)
      PROVE  pc'[c] = l /\ \A d \in Clients : d # c => pc'[d] = pc[d]
  BY <1>2 DEF GoTo, Base, TypeOK
<1>3. ASSUME NEW c \in Clients, NEW o, End(c, o)
      PROVE  /\ pc'[c] = "idle"
             /\ \A d \in Clients : d # c => pc'[d] = pc[d] /\ temporary'[d] = temporary[d]
  BY <1>3 DEF End, GoTo, Base, TypeOK
\* Nobody looks closer at a step outside of downloads and resets.
<1>4. ASSUME NEW c \in Clients, UNCHANGED <<files, published, used, disturbed>>,
             \A d \in Clients : d # c => pc'[d] = pc[d] /\ temporary'[d] = temporary[d],
             pc[c] \notin Touching, pc'[c] \notin Touching
      PROVE  Even'
  BY <1>4, EvenFrame DEF Either
<1>5. ASSUME NEW c \in Clients, DownloadStep(c) PROVE Even'
  <2>1. /\ Either /\ disturbed = {} /\ UNCHANGED <<published, used, disturbed>>
        /\ pc[c] \in Downloading
    BY <1>1, <1>5 DEF DownloadStep, CheckUsable, Transfer, Place, Clear, Move, RemoveFile, world, past,
       Either, Downloading
  <2>2. Head(todo[c]) \in Files /\ (pc[c] \in {"place", "clear", "move"} => temporary[c] = published)
    BY <2>1, Hands DEF Walking, Even
  <2>3. pc[c] \in Fetching => Latest
    BY <2>1 DEF Even
  <2>4. CASE CheckUsable(c)
    <3>1. pc[c] = "usable" /\ files' = files
      BY <2>4 DEF CheckUsable, world
    <3>2. CASE GoTo(c, "transfer", DownloadOrder) /\ files[Head(todo[c])] = Missing /\ UNCHANGED temporary
      <4>1. Latest
        <5>1. CASE \E d \in Clients : pc[d] \in Fetching
          BY <2>1, <5>1 DEF Even
        <5>2. CASE \A d \in Clients : pc[d] \notin Fetching
          <6>1. \A d \in Clients : pc[d] \notin {"reset", "unlink"}
            <7> SUFFICES ASSUME NEW d \in Clients, pc[d] \in {"reset", "unlink"} PROVE FALSE
              OBVIOUS
            <7>1. d \in Helpers /\ d # c
              BY <3>1 DEF Base, Roles, Clients, Downloading
            <7> QED BY <2>1, <3>1, <7>1, Undisturbed
          <6> QED BY <2>1, <2>2, <3>2, <5>2, <6>1 DEF Even, Complete, Nothing, Latest
        <5> QED BY <5>1, <5>2
      <4>2. pc'[c] = "transfer" /\ \A d \in Clients : d # c => pc'[d] = pc[d] /\ temporary'[d] = temporary[d]
        BY <1>2, <3>2
      <4>3. Latest'
        BY <2>1, <3>1, <4>1 DEF Latest
      <4> QED BY <2>1, <3>1, <4>2, <4>3, EvenFrame
    <3>3. CASE GoTo(c, "usable", Tail(todo[c])) /\ UNCHANGED temporary
      <4>1. pc'[c] = "usable" /\ \A d \in Clients : d # c => pc'[d] = pc[d] /\ temporary'[d] = temporary[d]
        BY <1>2, <3>3
      <4> QED BY <1>4, <2>1, <3>1, <4>1
    <3>4. CASE AllFilesThere(c)
      <4>1. /\ pc'[c] \in {"load", "idle"}
            /\ \A d \in Clients : d # c => pc'[d] = pc[d] /\ temporary'[d] = temporary[d]
        BY <1>2, <1>3, <3>4 DEF AllFilesThere, Base, TypeOK
      <4> QED BY <1>4, <2>1, <3>1, <4>1
    <3> QED BY <2>4, <3>2, <3>3, <3>4 DEF CheckUsable
  <2>5. CASE Transfer(c) \/ Place(c)
    <3>1. /\ pc[c] \in Fetching /\ files' = files
          /\ \/ GoTo(c, "place", todo[c]) /\ temporary' = [temporary EXCEPT ![c] = published]
             \/ /\ GoTo(c, "move", todo[c]) \/ GoTo(c, "clear", todo[c])
                /\ UNCHANGED temporary /\ pc[c] = "place"
      BY <1>1, <2>5 DEF Transfer, Place, world
    <3>2. /\ pc'[c] \in {"place", "move", "clear"} /\ temporary'[c] = published
          /\ \A d \in Clients : d # c => pc'[d] = pc[d] /\ temporary'[d] = temporary[d]
      BY <1>2, <2>2, <3>1 DEF Base, TypeOK
    <3>3. Latest'
      BY <2>1, <2>3, <3>1 DEF Latest
    <3> QED BY <2>1, <3>1, <3>2, <3>3, EvenFrame
  <2>6. CASE Clear(c)
    <3>1. /\ pc[c] = "clear" /\ files' = [files EXCEPT ![Head(todo[c])] = Missing]
          /\ GoTo(c, "move", todo[c]) /\ UNCHANGED temporary
      BY <1>1, <2>6 DEF Clear, RemoveFile
    <3>2. \A f \in Files : files'[f] = IF f = Head(todo[c]) THEN Missing ELSE files[f]
      BY <2>2, <3>1 DEF Base, TypeOK
    <3>3. pc'[c] = "move" /\ \A d \in Clients : d # c => pc'[d] = pc[d] /\ temporary'[d] = temporary[d]
      BY <1>2, <3>1
    <3>4. Latest'
      BY <2>1, <2>3, <3>1, <3>2 DEF Latest
    <3> QED BY <2>1, <2>2, <3>1, <3>2, <3>3, <3>4, EvenFrame
  <2>7. CASE Move(c)
    <3>1. /\ pc[c] = "move" /\ files' = [files EXCEPT ![Head(todo[c])] = temporary[c]] /\ NextItem(c)
      BY <1>1, <2>7 DEF Move
    <3>2. \A f \in Files : files'[f] = IF f = Head(todo[c]) THEN published ELSE files[f]
      BY <2>2, <3>1 DEF Base, TypeOK
    <3>3. Latest'
      BY <2>1, <2>3, <3>1, <3>2 DEF Latest
    <3>4. \A d \in Clients : d # c => pc'[d] = pc[d] /\ temporary'[d] = temporary[d]
      BY <1>2, <1>3, <3>1 DEF NextItem, AllFilesThere, Base, TypeOK
    <3>5. CASE Len(todo[c]) > 1 /\ GoTo(c, "transfer", Tail(todo[c]))
      <4>1. pc'[c] = "transfer"
        BY <1>2, <3>5
      <4> QED BY <2>1, <3>1, <3>2, <3>3, <3>4, <4>1, EvenFrame
    <3>6. CASE Len(todo[c]) = 1 /\ AllFilesThere(c)
      <4>1. pc'[c] \in {"load", "idle"}
        BY <1>2, <1>3, <3>6 DEF AllFilesThere
      <4>2. c \in Helpers \/ actor \in {Nobody, c}
        BY <3>1 DEF Base, Roles, Clients
      <4>3. Complete'
        <5>1. \A f \in Files : f # Head(todo[c]) => files[f] # Missing
          BY <2>1, <3>6, <4>2, LastFile
        <5>2. published # Missing
          BY DDIAssumption DEF Base, TypeOK, Missing
        <5>3. \A f \in Files : files'[f] # Missing
          BY <3>2, <5>1, <5>2
        <5> QED BY <5>3 DEF Complete
      <4> QED BY <2>1, <3>1, <3>2, <3>4, <4>1, <4>3, EvenFrame
    <3> QED BY <3>1, <3>5, <3>6 DEF NextItem
  <2> QED BY <1>5, <2>4, <2>5, <2>6, <2>7 DEF DownloadStep
<1>6. ASSUME NEW h \in Helpers, HelperStep(h) PROVE Even'
  <2>1. /\ Either /\ disturbed = {} /\ UNCHANGED <<published, used, disturbed>>
        /\ h \in Clients /\ pc[h] # "idle"
    BY <1>1, <1>6 DEF HelperStep, Probe, CheckMounted, Load, Mount, Verify, ResetPath, Unlink, world, past,
       Either, Clients
  <2>2. CASE Probe(h) \/ CheckMounted(h) \/ Load(h) \/ Mount(h) \/ Verify(h)
    <3>1. /\ UNCHANGED files /\ pc[h] \notin Touching
          /\ \/ \E o : End(h, o)
             \/ /\ UNCHANGED temporary
                /\ \E l \in {"mounted", "usable", "load", "mount", "verify"} : \E s : GoTo(h, l, s)
      BY <1>1, <2>1, <2>2 DEF Probe, CheckMounted, Load, Mount, Verify, world
    <3>2. /\ pc'[h] \notin Touching
          /\ \A d \in Clients : d # h => pc'[d] = pc[d] /\ temporary'[d] = temporary[d]
      BY <1>2, <1>3, <2>1, <3>1
    <3> QED BY <1>4, <2>1, <3>1, <3>2
  <2>3. ASSUME NEW s \in Seq(Files), NextPath(h, s), pc[h] \in {"reset", "unlink"},
               \A f \in Files : files'[f] \in {Missing, files[f]},
               s = <<>> => Nothing'
        PROVE  Even'
    <3>1. CASE GoTo(h, "reset", s) /\ UNCHANGED temporary
      <4>1. pc'[h] = "reset" /\ \A d \in Clients : d # h => pc'[d] = pc[d] /\ temporary'[d] = temporary[d]
        BY <1>2, <2>1, <3>1
      <4> QED BY <2>1, <2>3, <4>1, EvenFrame
    <3>2. CASE End(h, "done") /\ s = <<>>
      <4>1. pc'[h] = "idle" /\ \A d \in Clients : d # h => pc'[d] = pc[d] /\ temporary'[d] = temporary[d]
        BY <1>3, <2>1, <3>2
      <4> QED BY <2>1, <2>3, <3>2, <4>1, EvenFrame
    <3> QED BY <2>3, <3>1, <3>2 DEF NextPath
  <2>4. CASE ResetPath(h)
    <3>1. PICK i \in 1 .. Len(todo[h]) :
            \/ files[todo[h][i]] = Missing /\ NextPath(h, Without(i, todo[h]))
            \/ GoTo(h, "unlink", <<todo[h][i]>> \o Without(i, todo[h])) /\ UNCHANGED temporary
      BY <2>4 DEF ResetPath
    <3>2. pc[h] = "reset" /\ files' = files
      BY <2>4 DEF ResetPath, world
    <3>3. /\ Without(i, todo[h]) \in Seq(Files)
          /\ Pending(todo[h]) \subseteq {todo[h][i]} \cup Pending(Without(i, todo[h]))
      BY <2>1, <3>2, Hands, Removing DEF Walking
    <3>4. \A f \in Files \ Pending(todo[h]) : files[f] = Missing
      BY <2>1, <3>2 DEF Ground, CountsOn
    <3>5. CASE files[todo[h][i]] = Missing /\ NextPath(h, Without(i, todo[h]))
      <4>1. Without(i, todo[h]) = <<>> => Nothing'
        <5>1. Pending(<<>>) = {}
          BY DEF Pending
        <5> QED BY <3>2, <3>3, <3>4, <3>5, <5>1 DEF Nothing
      <4> QED BY <2>3, <3>2, <3>3, <3>5, <4>1
    <3>6. CASE GoTo(h, "unlink", <<todo[h][i]>> \o Without(i, todo[h])) /\ UNCHANGED temporary
      <4>1. pc'[h] = "unlink" /\ \A d \in Clients : d # h => pc'[d] = pc[d] /\ temporary'[d] = temporary[d]
        BY <1>2, <2>1, <3>6
      <4> QED BY <2>1, <3>2, <4>1, EvenFrame
    <3> QED BY <3>1, <3>5, <3>6
  <2>5. CASE Unlink(h)
    <3>1. /\ pc[h] = "unlink" /\ files' = [files EXCEPT ![Head(todo[h])] = Missing]
          /\ NextPath(h, Tail(todo[h]))
      BY <1>1, <2>1, <2>5 DEF Unlink
    <3>2. /\ Head(todo[h]) \in Files /\ Tail(todo[h]) \in Seq(Files)
          /\ todo[h] \in Seq(Files) /\ todo[h] # <<>>
      BY <2>1, <3>1, Hands DEF Walking
    <3>3. \A f \in Files : files'[f] = IF f = Head(todo[h]) THEN Missing ELSE files[f]
      BY <3>1, <3>2 DEF Base, TypeOK
    <3>4. \A f \in Files \ Pending(todo[h]) : files[f] = Missing
      BY <2>1, <3>1 DEF Ground, CountsOn
    <3>5. Pending(todo[h]) = {Head(todo[h])} \cup Pending(Tail(todo[h]))
      BY <3>2, HeadAndTail
    <3>6. Tail(todo[h]) = <<>> => Nothing'
      <4>1. Pending(<<>>) = {}
        BY DEF Pending
      <4> QED BY <3>3, <3>4, <3>5, <4>1 DEF Nothing
    <3> QED BY <2>3, <3>1, <3>2, <3>3, <3>6
  <2> QED BY <1>6, <2>2, <2>4, <2>5 DEF HelperStep
<1>7. ASSUME NEW c \in Clients, NEW l \in {"probe", "reset", "usable"}, NEW s, Begin(c, l, s) PROVE Even'
  <2>1. /\ Either /\ disturbed = {} /\ UNCHANGED <<files, published, temporary>> /\ pc[c] = "idle"
        /\ pc'[c] = l /\ \A d \in Clients : d # c => pc'[d] = pc[d] /\ temporary'[d] = temporary[d]
    BY <1>2, <1>7 DEF Begin, Either, world
  <2> QED BY <2>1, EvenFrame
<1>8. CASE Publish \/ Crash
  <2>1. /\ Either /\ disturbed = {} /\ files' = files
        /\ \A c \in Clients : pc[c] = "idle" /\ pc'[c] = "idle"
    BY <1>8 DEF Publish, Crash, Either, client
  <2> QED BY <2>1 DEF Even, Complete, Nothing
<1>9. CASE UNCHANGED vars
  BY <1>9 DEF vars, world, client, past, Even, Either, Complete, Nothing, Latest
<1> QED BY <1>5, <1>6, <1>7, <1>8, <1>9
        DEF Next, Quiet, StartPrepare, StartReset, StartDownloadIfNeeded, Clients

\* With one API in use, no call cut short and no publication under one, the three cached files
\* are of one version, however many callers there are.
THEOREM MixedMeansDisturbedCorrect ==
  Spec => []MixedMeansDisturbed
<1>1. Init => Even
  BY DEF Init, Even, Fetching, Touching, Nothing, Complete
<1>2. Base /\ Even => MixedMeansDisturbed
  BY OneAPIMeansEither DEF MixedMeansDisturbed, Even, Complete
<1> QED BY <1>1, <1>2, EvenStep, GroundHolds, PTL DEF Spec

-----------------------------------------------------------------------------
(* The actor is passed on.                                                  *)

Inside == {"usable", "clear", "move"}

\* A client that goes on outside the actor, leaves it, or is at a label inside it.
LEMMA Passing ==
  ASSUME Base, ActorIsPassedOn, NEW c \in Clients, NEW l, pc' = [pc EXCEPT ![c] = l],
         \/ Leave(c)
         \/ actor' = actor /\ (c \in Helpers \/ pc[c] \notin Inside)
         \/ actor' \in {actor, c} /\ l \in Inside
  PROVE  ActorIsPassedOn'
<1>1. pc \in [Clients -> Labels] /\ actor \in Tasks \cup {Nobody} /\ (actor # Nobody => pc[actor] \in Inside)
  BY DEF Base, TypeOK, ActorIsPassedOn, Inside
<1>2. \A d \in Clients : pc'[d] = IF d = c THEN l ELSE pc[d]
  BY <1>1
<1>3. actor' # Nobody => actor' \in Clients /\ pc'[actor'] \in Inside
  BY <1>1, <1>2, DDIAssumption DEF Leave, Clients
<1> QED BY <1>3 DEF ActorIsPassedOn, Inside

LEMMA PassedOnStep ==
  Base /\ ActorIsPassedOn /\ [Next]_vars => ActorIsPassedOn'
<1> SUFFICES ASSUME Base, ActorIsPassedOn, [Next]_vars PROVE ActorIsPassedOn'
  OBVIOUS
<1> USE DEF GoTo, Inside
<1>1. ASSUME NEW c \in Clients, \/ Fault(c) \/ Raced(c) \/ \E o : End(c, o) PROVE ActorIsPassedOn'
  BY <1>1, Passing DEF Fault, Raced, End
<1>2. ASSUME NEW c \in Clients, NEW l \in {"probe", "reset", "usable"}, NEW s, Begin(c, l, s)
      PROVE  ActorIsPassedOn'
  BY <1>2, Passing DEF Begin
<1>3. ASSUME NEW c \in Clients, AllFilesThere(c) PROVE ActorIsPassedOn'
  BY <1>1, <1>3, Passing DEF AllFilesThere
<1>4. ASSUME NEW c \in Clients, DownloadStep(c) PROVE ActorIsPassedOn'
  <2>1. CASE CheckUsable(c)
    <3>1. CASE GoTo(c, "usable", Tail(todo[c])) /\ Stay(c)
      BY <3>1, Passing DEF Stay
    <3>2. CASE GoTo(c, "transfer", DownloadOrder) /\ Leave(c)
      BY <3>2, Passing
    <3> QED BY <1>3, <2>1, <3>1, <3>2 DEF CheckUsable
  <2>2. CASE Transfer(c)
    BY <1>1, <2>2, Passing DEF Transfer
  <2>3. CASE Place(c)
    <3>1. CASE Stay(c) /\ GoTo(c, IF files[Head(todo[c])] = Missing THEN "move" ELSE "clear", todo[c])
      BY <3>1, Passing DEF Stay
    <3> QED BY <1>1, <2>3, <3>1 DEF Place
  <2>4. CASE Clear(c)
    BY <1>1, <2>4, Passing DEF Clear, RemoveFile
  <2>5. CASE Move(c)
    BY <1>1, <1>3, <2>5, Passing DEF Move, NextItem
  <2> QED BY <1>4, <2>1, <2>2, <2>3, <2>4, <2>5 DEF DownloadStep
<1>5. ASSUME NEW h \in Helpers, HelperStep(h) PROVE ActorIsPassedOn'
  <2> h \in Clients
    BY DEF Clients
  <2>1. CASE \/ Fault(h) \/ Raced(h) \/ \E o : End(h, o)
    BY <1>1, <2>1
  <2>2. CASE \E l, s : GoTo(h, l, s) /\ actor' = actor
    BY <2>2, Passing
  <2> QED BY <1>5, <2>1, <2>2
          DEF HelperStep, Probe, CheckMounted, Load, Mount, Verify, ResetPath, Unlink, NextPath
<1>6. CASE Publish \/ Crash \/ UNCHANGED vars
  BY <1>6 DEF Publish, Crash, vars, client, ActorIsPassedOn
<1> QED BY <1>2, <1>4, <1>5, <1>6
        DEF Next, Quiet, StartPrepare, StartReset, StartDownloadIfNeeded, Clients

\* For any number of tasks: none keeps the others out of the actor while it waits for the
\* network, or after it has returned.
THEOREM ActorAlwaysPassedOn ==
  Spec => []ActorIsPassedOn
<1>1. Init => ActorIsPassedOn
  BY DEF Init, ActorIsPassedOn
<1> QED BY <1>1, PassedOnStep, BaseHolds, PTL DEF Spec

-----------------------------------------------------------------------------
(* Calls advance.                                                           *)

LEMMA StepsFromEach ==
  ASSUME NEW n \in Nat
  PROVE  /\ StepsFrom("probe", n) = 23 /\ StepsFrom("mounted", n) = 22
         /\ StepsFrom("usable", n) = n + 18 /\ StepsFrom("transfer", n) = 4 * n + 6
         /\ StepsFrom("place", n) = 4 * n + 5 /\ StepsFrom("clear", n) = 4 * n + 4
         /\ StepsFrom("move", n) = 4 * n + 3 /\ StepsFrom("load", n) = n + 2
         /\ StepsFrom("mount", n) = 2 /\ StepsFrom("verify", n) = 1
         /\ StepsFrom("reset", n) = 2 * n /\ StepsFrom("unlink", n) = 2 * n - 1
BY DEF StepsFrom

LEMMA Lengths ==
  /\ Len(DownloadOrder) = 3 /\ Len(PathOrder) = 3 /\ Len(<<>>) = 0
  /\ \A s \in Seq(Files) : s # <<>> => Len(s) \in Nat \ {0} /\ Len(Tail(s)) = Len(s) - 1
  /\ \A s \in Seq(Files) : \A i \in 1 .. Len(s) :
       /\ Len(Without(i, s)) = Len(s) - 1
       /\ Len(<<s[i]>> \o Without(i, s)) = Len(s)
<1>1. Len(DownloadOrder) = 3 /\ Len(PathOrder) = 3 /\ Len(<<>>) = 0
  BY DEF DownloadOrder, PathOrder
<1>2. ASSUME NEW s \in Seq(Files), s # <<>> PROVE Len(s) \in Nat \ {0} /\ Len(Tail(s)) = Len(s) - 1
  BY <1>2
<1>3. ASSUME NEW s \in Seq(Files), NEW i \in 1 .. Len(s)
      PROVE  /\ Len(Without(i, s)) = Len(s) - 1
             /\ Len(<<s[i]>> \o Without(i, s)) = Len(s)
  <2>1. Len(Without(i, s)) = Len(s) - 1 /\ Len(s) - 1 \in Nat
    BY DEF Without
  <2>2. Without(i, s) \in Seq(Files) /\ s[i] \in Files
    BY Removing
  <2>3. ASSUME NEW r \in Seq(Files) PROVE Len(<<s[i]>> \o r) = Len(r) + 1
    BY <2>2
  <2> QED BY <2>1, <2>2, <2>3
<1> QED BY <1>1, <1>2, <1>3

\* Where a client goes and how far it still is from there.
LEMMA Nearer ==
  ASSUME Base, NEW c \in Clients, NEW l, NEW s, GoTo(c, l, s)
  PROVE  StepsLeft(c)' = StepsFrom(l, Len(s))
<1>1. pc'[c] = l /\ todo'[c] = s
  BY DEF Base, TypeOK, GoTo
<1> QED BY <1>1 DEF StepsLeft

LEMMA OwnStep ==
  ASSUME Base, NEW c \in Clients, DownloadStep(c) \/ (c \in Helpers /\ HelperStep(c)), pc'[c] # "idle"
  PROVE  StepsLeft(c)' \in 0 .. (StepsLeft(c) - 1)
<1> DEFINE n == Len(todo[c])
<1>0. /\ todo[c] \in Seq(Files) /\ n \in Nat /\ pc \in [Clients -> Labels]
      /\ pc[c] \in Walking => todo[c] # <<>>
  BY DEF Base, TypeOK, Paths
<1>1. ~Fault(c) /\ ~Raced(c) /\ \A o : ~End(c, o)
  BY <1>0 DEF Fault, Raced, End, GoTo
<1>2. pc[c] \in Walking => n \in Nat \ {0} /\ Len(Tail(todo[c])) = n - 1
  BY <1>0, Lengths
<1>3. StepsLeft(c) = StepsFrom(pc[c], n)
  BY DEF StepsLeft
<1> HIDE DEF n
\* How far it is from where the client may be, and from where it may go.
<1>here. /\ pc[c] = "usable" => StepsLeft(c) = n + 18
         /\ pc[c] = "transfer" => StepsLeft(c) = 4 * n + 6
         /\ pc[c] = "place" => StepsLeft(c) = 4 * n + 5
         /\ pc[c] = "clear" => StepsLeft(c) = 4 * n + 4
         /\ pc[c] = "move" => StepsLeft(c) = 4 * n + 3
         /\ pc[c] = "load" => StepsLeft(c) = n + 2
         /\ pc[c] = "reset" => StepsLeft(c) = 2 * n
         /\ pc[c] = "unlink" => StepsLeft(c) = 2 * n - 1
         /\ pc[c] = "probe" => StepsLeft(c) = 23
         /\ pc[c] = "mounted" => StepsLeft(c) = 22
         /\ pc[c] = "mount" => StepsLeft(c) = 2
  BY <1>0, <1>3, StepsFromEach
<1>there. /\ StepsFrom("place", n) = 4 * n + 5 /\ StepsFrom("clear", n) = 4 * n + 4
          /\ StepsFrom("move", n) = 4 * n + 3 /\ StepsFrom("unlink", n) = 2 * n - 1
  BY <1>0, StepsFromEach
<1>next. pc[c] \in Walking =>
           /\ StepsFrom("usable", n - 1) = (n - 1) + 18 /\ StepsFrom("transfer", n - 1) = 4 * (n - 1) + 6
           /\ StepsFrom("load", n - 1) = (n - 1) + 2 /\ StepsFrom("reset", n - 1) = 2 * (n - 1)
           /\ StepsFrom("mount", n - 1) = 2
  <2>1. pc[c] \in Walking => n - 1 \in Nat
    BY <1>2
  <2> QED BY <2>1, StepsFromEach
<1>4. ASSUME AllFilesThere(c) PROVE StepsLeft(c)' = 5
  <2>1. GoTo(c, "load", PathOrder)
    BY <1>1, <1>4 DEF AllFilesThere
  <2>2. StepsFrom("load", 3) = 5 /\ Len(PathOrder) = 3
    BY StepsFromEach, Lengths
  <2> QED BY <2>1, <2>2, Nearer
<1>5. CASE CheckUsable(c)
  <2>1. pc[c] = "usable" /\ n \in Nat \ {0} /\ Len(Tail(todo[c])) = n - 1
    BY <1>2, <1>5 DEF CheckUsable, Walking, Downloading
  <2>2. CASE GoTo(c, "transfer", DownloadOrder)
    <3>1. Len(DownloadOrder) = 3 /\ StepsFrom("transfer", 3) = 18
      BY Lengths, StepsFromEach
    <3>2. StepsLeft(c)' = 18
      BY <2>2, <3>1, Nearer
    <3> QED BY <1>here, <2>1, <3>2
  <2>3. CASE GoTo(c, "usable", Tail(todo[c]))
    <3>1. StepsLeft(c)' = StepsFrom("usable", Len(Tail(todo[c])))
      BY <2>3, Nearer
    <3>2. StepsLeft(c)' = (n - 1) + 18
      BY <1>next, <2>1, <3>1 DEF Walking, Downloading
    <3> QED BY <1>here, <2>1, <3>2
  <2>4. CASE AllFilesThere(c)
    BY <1>4, <1>here, <2>1, <2>4
  <2> QED BY <1>5, <2>2, <2>3, <2>4 DEF CheckUsable
<1>6. CASE Transfer(c)
  <2>1. pc[c] = "transfer" /\ GoTo(c, "place", todo[c])
    BY <1>1, <1>6 DEF Transfer
  <2>2. StepsLeft(c)' = 4 * n + 5
    BY <1>there, <2>1, Nearer DEF n
  <2> QED BY <1>0, <1>here, <2>1, <2>2
<1>7. CASE Place(c)
  <2>1. pc[c] = "place" /\ GoTo(c, IF files[Head(todo[c])] = Missing THEN "move" ELSE "clear", todo[c])
    BY <1>1, <1>7 DEF Place
  <2>2. StepsLeft(c)' \in {4 * n + 3, 4 * n + 4}
    BY <1>there, <2>1, Nearer DEF n
  <2> QED BY <1>0, <1>here, <2>1, <2>2
<1>8. CASE Clear(c)
  <2>1. pc[c] = "clear" /\ GoTo(c, "move", todo[c])
    BY <1>1, <1>8 DEF Clear
  <2>2. StepsLeft(c)' = 4 * n + 3
    BY <1>there, <2>1, Nearer DEF n
  <2> QED BY <1>0, <1>here, <2>1, <2>2
<1>9. CASE Move(c)
  <2>1. pc[c] = "move" /\ NextItem(c)
    BY <1>1, <1>9 DEF Move
  <2>2. n \in Nat \ {0} /\ Len(Tail(todo[c])) = n - 1
    BY <1>2, <2>1 DEF Walking, Downloading
  <2>3. CASE GoTo(c, "transfer", Tail(todo[c]))
    <3>1. StepsLeft(c)' = StepsFrom("transfer", Len(Tail(todo[c])))
      BY <2>3, Nearer
    <3>2. StepsLeft(c)' = 4 * (n - 1) + 6
      BY <1>next, <2>1, <2>2, <3>1 DEF Walking, Downloading
    <3> QED BY <1>here, <2>1, <2>2, <3>2
  <2>4. CASE AllFilesThere(c)
    BY <1>4, <1>here, <2>1, <2>2, <2>4
  <2> QED BY <2>1, <2>3, <2>4 DEF NextItem
<1>10. CASE Probe(c) \/ CheckMounted(c) \/ Mount(c) \/ Verify(c)
  <2>1. \/ pc[c] = "probe" /\ GoTo(c, "mounted", <<>>)
        \/ pc[c] = "mounted" /\ GoTo(c, "usable", PathOrder)
        \/ pc[c] = "mount" /\ GoTo(c, "verify", <<>>)
    BY <1>1, <1>10 DEF Probe, CheckMounted, Mount, Verify
  <2>2. /\ Len(<<>>) = 0 /\ Len(PathOrder) = 3 /\ StepsFrom("mounted", 0) = 22
        /\ StepsFrom("usable", 3) = 21 /\ StepsFrom("verify", 0) = 1
    BY Lengths, StepsFromEach
  <2>3. CASE pc[c] = "probe" /\ GoTo(c, "mounted", <<>>)
    <3>1. StepsLeft(c) = 23 /\ StepsLeft(c)' = 22
      BY <1>here, <2>2, <2>3, Nearer
    <3> QED BY <3>1
  <2>4. CASE pc[c] = "mounted" /\ GoTo(c, "usable", PathOrder)
    <3>1. StepsLeft(c) = 22
      BY <1>here, <2>4
    <3>2. StepsLeft(c)' = StepsFrom("usable", Len(PathOrder))
      BY <2>4, Nearer
    <3> QED BY <2>2, <3>1, <3>2
  <2>5. CASE pc[c] = "mount" /\ GoTo(c, "verify", <<>>)
    <3>1. StepsLeft(c) = 2 /\ StepsLeft(c)' = 1
      BY <1>here, <2>2, <2>5, Nearer
    <3> QED BY <3>1
  <2> QED BY <2>1, <2>3, <2>4, <2>5
<1>11. CASE Load(c)
  <2>1. pc[c] = "load" /\ GoTo(c, IF Len(todo[c]) = 1 THEN "mount" ELSE "load", Tail(todo[c]))
    BY <1>1, <1>11 DEF Load
  <2>2. n \in Nat \ {0} /\ Len(Tail(todo[c])) = n - 1
    BY <1>2, <2>1 DEF Walking
  <2>3. /\ pc[c] = "load"
        /\ \/ StepsLeft(c)' = StepsFrom("mount", Len(Tail(todo[c])))
           \/ StepsLeft(c)' = StepsFrom("load", Len(Tail(todo[c])))
    <3>1. CASE GoTo(c, "mount", Tail(todo[c]))
      BY <2>1, <3>1, Nearer
    <3>2. CASE GoTo(c, "load", Tail(todo[c]))
      BY <2>1, <3>2, Nearer
    <3> QED BY <2>1, <3>1, <3>2
  <2>4. StepsLeft(c)' = 2 \/ StepsLeft(c)' = (n - 1) + 2
    BY <1>next, <2>2, <2>3 DEF Walking
  <2> QED BY <1>here, <2>1, <2>2, <2>4
<1>12. CASE ResetPath(c)
  <2>1. pc[c] = "reset"
    BY <1>12 DEF ResetPath
  <2>2. n \in Nat \ {0}
    BY <1>2, <2>1 DEF Walking
  <2>3. PICK i \in 1 .. n : \/ GoTo(c, "reset", Without(i, todo[c]))
                           \/ GoTo(c, "unlink", <<todo[c][i]>> \o Without(i, todo[c]))
    BY <1>1, <1>12 DEF ResetPath, NextPath, n
  <2>4. Len(Without(i, todo[c])) = n - 1 /\ Len(<<todo[c][i]>> \o Without(i, todo[c])) = n
    BY <1>0, Lengths DEF n
  <2>5. CASE GoTo(c, "reset", Without(i, todo[c]))
    <3>1. StepsLeft(c)' = 2 * (n - 1)
      BY <1>next, <2>1, <2>4, <2>5, Nearer DEF Walking
    <3> QED BY <1>here, <2>1, <2>2, <3>1
  <2>6. CASE GoTo(c, "unlink", <<todo[c][i]>> \o Without(i, todo[c]))
    <3>1. StepsLeft(c)' = 2 * n - 1
      BY <1>there, <2>4, <2>6, Nearer
    <3> QED BY <1>here, <2>1, <2>2, <3>1
  <2> QED BY <2>3, <2>5, <2>6
<1>13. CASE Unlink(c)
  <2>1. pc[c] = "unlink" /\ GoTo(c, "reset", Tail(todo[c]))
    BY <1>1, <1>13 DEF Unlink, NextPath
  <2>2. n \in Nat \ {0} /\ Len(Tail(todo[c])) = n - 1
    BY <1>2, <2>1 DEF Walking
  <2>3. StepsLeft(c)' = 2 * (n - 1)
    BY <1>next, <2>1, <2>2, Nearer DEF Walking
  <2> QED BY <1>here, <2>1, <2>2, <2>3
<1> QED BY <1>5, <1>6, <1>7, <1>8, <1>9, <1>10, <1>11, <1>12, <1>13 DEF DownloadStep, HelperStep

\* A client changes no more than what is its own.
LEMMA OthersKeep ==
  ASSUME Base, NEW d \in Clients, NEW c \in Clients \ {d},
         \/ DownloadStep(d) \/ HelperStep(d) \/ \E l, s : Begin(d, l, s)
  PROVE  UNCHANGED <<pc[c], todo[c], temporary[c], loaded[c]>>
<1> DEFINE Kept == UNCHANGED <<pc[c], todo[c], temporary[c], loaded[c]>>
<1> USE DEF GoTo
<1>0. /\ DOMAIN pc = Clients /\ DOMAIN todo = Clients
      /\ DOMAIN temporary = Clients /\ DOMAIN loaded = Clients
  BY DEF Base, TypeOK
<1>1. \A l, s : GoTo(d, l, s) => UNCHANGED <<pc[c], todo[c]>>
  BY <1>0
<1>2. ASSUME NEW o, End(d, o) PROVE Kept
  BY <1>0, <1>2 DEF End
<1>3. Fault(d) \/ Raced(d) => Kept
  BY <1>2 DEF Fault, Raced
<1>4. AllFilesThere(d) => Kept
  BY <1>0, <1>2 DEF AllFilesThere
<1>5. CASE DownloadStep(d)
  <2>1. CheckUsable(d) => Kept
    BY <1>1, <1>4 DEF CheckUsable
  <2>2. Transfer(d) => Kept
    BY <1>0, <1>3 DEF Transfer
  <2>3. Place(d) => Kept
    BY <1>1, <1>3 DEF Place
  <2>4. Clear(d) => Kept
    BY <1>1, <1>3 DEF Clear, RemoveFile
  <2>5. Move(d) => Kept
    BY <1>0, <1>3, <1>4 DEF Move, NextItem
  <2> QED BY <1>5, <2>1, <2>2, <2>3, <2>4, <2>5 DEF DownloadStep
<1>6. CASE HelperStep(d)
  <2>1. Probe(d) \/ CheckMounted(d) \/ Mount(d) \/ Verify(d) => Kept
    BY <1>1, <1>2, <1>3 DEF Probe, CheckMounted, Mount, Verify
  <2>2. Load(d) => Kept
    BY <1>0, <1>3 DEF Load
  <2>3. \A s : NextPath(d, s) /\ UNCHANGED <<published>> => Kept
    BY <1>1, <1>2 DEF NextPath
  <2>4. ResetPath(d) => Kept
    BY <1>1, <2>3 DEF ResetPath, world
  <2>5. Unlink(d) => Kept
    BY <1>3, <2>3 DEF Unlink
  <2> QED BY <1>6, <2>1, <2>2, <2>4, <2>5 DEF HelperStep
<1>7. CASE \E l, s : Begin(d, l, s)
  BY <1>1, <1>7 DEF Begin
<1> QED BY <1>5, <1>6, <1>7

LEMMA CallsAdvanceStep ==
  ASSUME Base, [Next]_vars, NEW c \in Clients, pc[c] # "idle", pc'[c] # "idle"
  PROVE  \/ UNCHANGED <<pc[c], todo[c], temporary[c], loaded[c]>>
         \/ StepsLeft(c)' \in 0 .. (StepsLeft(c) - 1)
<1>1. ASSUME NEW d \in Clients, DownloadStep(d) \/ (d \in Helpers /\ HelperStep(d))
      PROVE  \/ UNCHANGED <<pc[c], todo[c], temporary[c], loaded[c]>>
             \/ StepsLeft(c)' \in 0 .. (StepsLeft(c) - 1)
  BY <1>1, OwnStep, OthersKeep
<1>2. ASSUME NEW d \in Clients, NEW l, NEW s, Begin(d, l, s)
      PROVE  UNCHANGED <<pc[c], todo[c], temporary[c], loaded[c]>>
  BY <1>2, OthersKeep DEF Begin
<1>3. ~Crash
  BY DEF Crash
<1> QED BY <1>1, <1>2, <1>3
        DEF Next, Quiet, Publish, StartPrepare, StartReset, StartDownloadIfNeeded, Clients, vars, client

\* For any number of callers, with any faults and whatever the others do to the files: a
\* call takes finitely many steps.
THEOREM CallsAlwaysAdvance ==
  Spec => CallsAdvance
<1>1. Base /\ [Next]_vars =>
        [\A c \in Clients : pc[c] # "idle" /\ pc'[c] # "idle" =>
           \/ UNCHANGED <<pc[c], todo[c], temporary[c], loaded[c]>>
           \/ StepsLeft(c)' \in 0 .. (StepsLeft(c) - 1)]_vars
  BY CallsAdvanceStep
<1> QED BY <1>1, BaseHolds, PTL DEF Spec, CallsAdvance
=============================================================================
