-------------------------- MODULE EndpointProbeProofs --------------------------
(***************************************************************************)
(* Proofs about EndpointProbe for any errors and any number of updates of  *)
(* the connection: the first verdict stands, and whose verdict it is.      *)
(***************************************************************************)
EXTENDS EndpointProbe, Integers, TLAPS

\* The semaphore is signalled by whoever settled the verdict, once.
SignalledOnce ==
  /\ semaphore = 1 => isFinished
  /\ callback = "signal" => isFinished /\ semaphore = 0

\* The caller leaves its wait with a verdict, and returns it.
CallerSettled ==
  /\ caller = "called" => ~isFinished
  /\ caller \in {"settled", "quiet"} => isFinished
  /\ caller = "returned" => result = IF isFinished THEN storedReason ELSE InvalidEndpoint

\* Until then the queue has met nothing but waiting, and has missed nothing.
Taken == Len(reported) - Len(updates)
Undecided ==
  ~isFinished =>
    /\ caller \in {"called", "returned"} => callback = "idle" /\ updates = <<>>
    /\ caller \in {"waiting", "expired"} => handler
    /\ Taken >= 0 /\ \A k \in 1..Len(updates) : updates[k] = reported[Taken + k]
    /\ callback = "update" => Taken >= 1 /\ reported[Taken] = update
    /\ \A j \in 1..(IF callback = "update" THEN Taken - 1 ELSE Taken) : reported[j] = "waiting"

FirstReported(u) ==
  \E i \in 1..Len(reported) : reported[i] = u /\ \A j \in 1..(i - 1) : reported[j] = "waiting"

\* A verdict is the connection's first, or the timeout's.
VerdictOrigin ==
  isFinished =>
    /\ storedReason = Unset => FirstReported("ready")
    /\ storedReason \in Reasons => FirstReported(storedReason)

ProbeInv == TypeOK /\ SignalledOnce /\ CallerSettled /\ Undecided /\ VerdictOrigin

-----------------------------------------------------------------------------
\* What has been reported stays reported.
LEMMA ReportedStays ==
  ASSUME TypeOK, NEW u \in Updates, reported' = Append(reported, u)
  PROVE  \A w : FirstReported(w) => FirstReported(w)'
<1>1. Len(reported') = Len(reported) + 1 /\ \A i \in 1..Len(reported) : reported'[i] = reported[i]
  BY DEF TypeOK
<1>2. Len(reported) \in Nat
  BY DEF TypeOK
<1> QED BY <1>1, <1>2 DEF FirstReported

LEMMA ProbeInit ==
  Init => ProbeInv
<1> SUFFICES ASSUME Init PROVE ProbeInv
  OBVIOUS
<1>1. TypeOK
  <2>1. {handler, isFinished} \subseteq BOOLEAN
    BY DEF Init
  <2>2. updates \in Seq(Updates) /\ reported \in Seq(Updates) /\ semaphore \in 0..1
    BY DEF Init
  <2>3. {storedReason, result} \subseteq {Unset, TimedOut, InvalidEndpoint} \cup Reasons
    BY DEF Init
  <2> QED BY <2>1, <2>2, <2>3 DEF Init, TypeOK, Updates
<1>2. SignalledOnce /\ CallerSettled /\ VerdictOrigin
  BY DEF Init, SignalledOnce, CallerSettled, VerdictOrigin
<1>3. Undecided
  BY DEF Init, Undecided, Taken
<1> QED BY <1>1, <1>2, <1>3 DEF ProbeInv

LEMMA ProbeTypeStep ==
  ASSUME ProbeInv, [Next]_vars
  PROVE  TypeOK'
<1> USE DEF ProbeInv, TypeOK
<1>1. CASE RejectEndpoint BY <1>1 DEF RejectEndpoint
<1>2. CASE StartConnection BY <1>2 DEF StartConnection
<1>3. CASE Wake BY <1>3 DEF Wake
<1>4. CASE Expire BY <1>4 DEF Expire
<1>5. CASE SettleTimeout BY <1>5 DEF SettleTimeout, Finish
<1>6. CASE ClearHandler BY <1>6 DEF ClearHandler
<1>7. CASE Return BY <1>7 DEF Return
<1>8. CASE TakeUpdate
  <2>1. Head(updates) \in Updates /\ Tail(updates) \in Seq(Updates)
    BY <1>8 DEF TakeUpdate
  <2> QED BY <1>8, <2>1 DEF TakeUpdate
<1>9. CASE HandleUpdate
  <2>1. update # "waiting" => (IF update = "ready" THEN Unset ELSE update) \in {Unset} \cup Reasons
    BY DEF Updates
  <2> QED BY <1>9, <2>1 DEF HandleUpdate, Finish
<1>10. CASE Signal BY <1>10 DEF Signal, SignalledOnce
<1>11. ASSUME NEW u \in Updates, Report(u)
       PROVE  TypeOK'
  BY <1>11 DEF Report
<1>12. CASE Done \/ UNCHANGED vars BY <1>12 DEF Done, vars
<1> QED
  BY <1>1, <1>2, <1>3, <1>4, <1>5, <1>6, <1>7, <1>8, <1>9, <1>10, <1>11, <1>12
     DEF Next, Caller, Queue

LEMMA SettledStep ==
  ASSUME ProbeInv, [Next]_vars
  PROVE  SignalledOnce' /\ CallerSettled'
<1> USE DEF ProbeInv, TypeOK, SignalledOnce, CallerSettled
<1>1. CASE RejectEndpoint BY <1>1 DEF RejectEndpoint
<1>2. CASE StartConnection BY <1>2 DEF StartConnection
<1>3. CASE Wake BY <1>3 DEF Wake
<1>4. CASE Expire BY <1>4 DEF Expire
<1>5. CASE SettleTimeout BY <1>5 DEF SettleTimeout, Finish
<1>6. CASE ClearHandler BY <1>6 DEF ClearHandler
<1>7. CASE Return BY <1>7 DEF Return
<1>8. CASE TakeUpdate BY <1>8 DEF TakeUpdate
<1>9. CASE HandleUpdate BY <1>9 DEF HandleUpdate, Finish, Undecided
<1>10. CASE Signal BY <1>10 DEF Signal
<1>11. ASSUME NEW u \in Updates, Report(u)
       PROVE  SignalledOnce' /\ CallerSettled'
  BY <1>11 DEF Report
<1>12. CASE Done \/ UNCHANGED vars BY <1>12 DEF Done, vars
<1> QED
  BY <1>1, <1>2, <1>3, <1>4, <1>5, <1>6, <1>7, <1>8, <1>9, <1>10, <1>11, <1>12
     DEF Next, Caller, Queue

LEMMA UndecidedStep ==
  ASSUME ProbeInv, [Next]_vars
  PROVE  Undecided'
<1> USE DEF ProbeInv, Undecided, Taken
<1>1. CASE RejectEndpoint BY <1>1 DEF RejectEndpoint
<1>2. CASE StartConnection BY <1>2 DEF StartConnection
<1>3. CASE Wake BY <1>3 DEF Wake, TypeOK, SignalledOnce
<1>4. CASE Expire BY <1>4 DEF Expire
<1>5. CASE SettleTimeout BY <1>5 DEF SettleTimeout, Finish
<1>6. CASE ClearHandler BY <1>6 DEF ClearHandler, CallerSettled
<1>7. CASE Return BY <1>7 DEF Return, CallerSettled
<1>8. CASE TakeUpdate
  <2> SUFFICES ASSUME ~isFinished PROVE Undecided'
    BY <1>8 DEF TakeUpdate
  <2>1. updates \in Seq(Updates) /\ updates # <<>> /\ reported \in Seq(Updates)
    BY <1>8 DEF TakeUpdate, TypeOK
  <2>2. Len(updates') = Len(updates) - 1 /\ \A k \in 1..Len(updates') : updates'[k] = updates[k + 1]
    BY <1>8, <2>1 DEF TakeUpdate
  <2>3. caller \in {"waiting", "expired"} /\ handler
    BY <1>8, <2>1 DEF TakeUpdate, TypeOK, CallerSettled
  <2>4. callback' = "update" /\ update' = updates[1] /\ UNCHANGED <<caller, handler, reported, isFinished>>
    BY <1>8, <2>1, <2>3 DEF TakeUpdate
  <2>5. Taken' = Taken + 1 /\ Taken \in Int /\ Len(updates) \in Nat \ {0} /\ Len(reported) \in Nat
    BY <2>1, <2>2, <2>4
  <2>6. callback = "idle" /\ \A j \in 1..Taken : reported[j] = "waiting"
    BY <1>8 DEF TakeUpdate
  <2>7. reported'[Taken'] = update'
    BY <2>4, <2>5
  <2>8. \A k \in 1..Len(updates') : updates'[k] = reported'[Taken' + k]
    BY <2>2, <2>4, <2>5
  <2> QED BY <2>3, <2>4, <2>5, <2>6, <2>7, <2>8
<1>9. CASE HandleUpdate BY <1>9 DEF HandleUpdate, Finish, TypeOK
<1>10. CASE Signal BY <1>10 DEF Signal, SignalledOnce
<1>11. ASSUME NEW u \in Updates, Report(u)
       PROVE  Undecided'
  <2> SUFFICES ASSUME ~isFinished PROVE Undecided'
    BY <1>11 DEF Report
  <2>1. updates \in Seq(Updates) /\ reported \in Seq(Updates)
    BY DEF TypeOK
  <2>2. /\ Len(updates') = Len(updates) + 1 /\ Len(reported') = Len(reported) + 1
        /\ updates'[Len(updates')] = u /\ reported'[Len(reported')] = u
        /\ \A k \in 1..Len(updates) : updates'[k] = updates[k]
        /\ \A k \in 1..Len(reported) : reported'[k] = reported[k]
    BY <1>11, <2>1 DEF Report
  <2>3. Taken' = Taken /\ Len(updates) \in Nat /\ Len(reported) \in Nat /\ Taken \in Nat
    BY <2>1, <2>2
  <2>4. \A k \in 1..Len(updates') : updates'[k] = reported'[Taken' + k]
    <3>1. ASSUME NEW k \in 1..Len(updates)
          PROVE  updates'[k] = reported'[Taken' + k]
      <4>1. Taken + k \in 1..Len(reported) /\ updates[k] = reported[Taken + k]
        BY <2>3
      <4> QED BY <2>2, <2>3, <4>1
    <3>2. Taken' + Len(updates') = Len(reported')
      BY <2>2, <2>3
    <3>3. \A k \in 1..Len(updates') : k \in 1..Len(updates) \/ k = Len(updates')
      BY <2>2, <2>3
    <3> QED BY <2>2, <3>1, <3>2, <3>3
  <2>5. UNCHANGED <<caller, callback, update, handler, isFinished>>
        /\ caller \notin {"called", "returned"}
    BY <1>11 DEF Report
  <2>6. \A j \in 1..Taken : reported'[j] = reported[j]
    BY <2>2, <2>3
  <2>7. callback = "update" => Taken' >= 1 /\ reported'[Taken'] = update'
    BY <2>3, <2>5, <2>6
  <2>8. \A j \in 1..(IF callback' = "update" THEN Taken' - 1 ELSE Taken') : reported'[j] = "waiting"
    BY <2>3, <2>5, <2>6
  <2>9. Taken' >= 0
    BY <2>3
  <2> HIDE DEF Taken
  <2> QED BY <2>4, <2>5, <2>7, <2>8, <2>9
<1>12. CASE Done \/ UNCHANGED vars BY <1>12 DEF Done, vars
<1> QED
  BY <1>1, <1>2, <1>3, <1>4, <1>5, <1>6, <1>7, <1>8, <1>9, <1>10, <1>11, <1>12
     DEF Next, Caller, Queue

LEMMA OriginStep ==
  ASSUME ProbeInv, [Next]_vars
  PROVE  VerdictOrigin'
<1>1. CASE RejectEndpoint \/ StartConnection \/ Wake \/ Expire \/ ClearHandler \/ Return
           \/ TakeUpdate \/ Signal \/ Done \/ UNCHANGED vars
  <2>1. UNCHANGED <<reported, isFinished, storedReason>>
    BY <1>1 DEF RejectEndpoint, StartConnection, Wake, Expire, ClearHandler, Return, TakeUpdate,
                Signal, Done, vars
  <2> QED BY <2>1 DEF ProbeInv, VerdictOrigin, FirstReported
<1>2. CASE SettleTimeout
  <2>1. UNCHANGED reported /\ storedReason' = (IF isFinished THEN storedReason ELSE TimedOut)
    BY <1>2 DEF SettleTimeout, Finish
  <2>2. TimedOut # Unset /\ TimedOut \notin Reasons
    BY ProbeAssumption
  <2> QED BY <2>1, <2>2 DEF ProbeInv, VerdictOrigin, FirstReported
<1>3. CASE HandleUpdate
  <2>1. UNCHANGED reported
    BY <1>3 DEF HandleUpdate
  <2>2. CASE UNCHANGED <<isFinished, storedReason>>
    BY <2>1, <2>2 DEF ProbeInv, VerdictOrigin, FirstReported
  <2>3. CASE ~isFinished /\ update # "waiting"
    <3>1. Taken \in 1..Len(reported) /\ reported[Taken] = update
          /\ \A j \in 1..(Taken - 1) : reported[j] = "waiting"
      <4>1. Len(reported) \in Nat /\ Len(updates) \in Nat
        BY DEF ProbeInv, TypeOK
      <4> QED BY <1>3, <2>3, <4>1 DEF HandleUpdate, ProbeInv, Undecided, Taken
    <3>2. storedReason' = IF update = "ready" THEN Unset ELSE update
      BY <1>3, <2>3 DEF HandleUpdate, Finish
    <3>3. update # "ready" => storedReason' # Unset /\ FirstReported(storedReason')
      BY <2>3, <3>1, <3>2, ProbeAssumption DEF ProbeInv, TypeOK, Updates, FirstReported
    <3>4. update = "ready" => storedReason' \notin Reasons /\ FirstReported("ready")
      BY <2>3, <3>1, <3>2, ProbeAssumption DEF FirstReported
    <3> QED BY <2>1, <3>3, <3>4 DEF VerdictOrigin, FirstReported
  <2> QED BY <1>3, <2>2, <2>3 DEF HandleUpdate, Finish, ProbeInv, TypeOK
<1>4. ASSUME NEW u \in Updates, Report(u)
      PROVE  VerdictOrigin'
  BY <1>4, ReportedStays DEF Report, ProbeInv, VerdictOrigin
<1> QED BY <1>1, <1>2, <1>3, <1>4 DEF Next, Caller, Queue

LEMMA ProbeInvariance ==
  Spec => []ProbeInv
<1>1. ProbeInv /\ [Next]_vars => ProbeInv'
  BY ProbeTypeStep, SettledStep, UndecidedStep, OriginStep DEF ProbeInv
<1> QED BY ProbeInit, <1>1, PTL DEF Spec

-----------------------------------------------------------------------------
\* The values stay in their types; the semaphore is never above one, so no signal
\* of an earlier verdict can wake the caller (EndpointProbe.swift:28).
THEOREM ProbeTypeCorrect == Spec => []TypeOK
BY ProbeInvariance, PTL DEF ProbeInv

\* An error of the connection is returned only if nothing but waiting came before it, and
\* no reason only for a connection that became ready before anything else but waiting.
THEOREM FirstVerdictCorrect == Spec => []FirstVerdictWins
<1>1. ProbeInv => FirstVerdictWins
  BY ProbeAssumption
     DEF ProbeInv, FirstVerdictWins, CallerSettled, VerdictOrigin, FirstReported
<1> QED BY <1>1, ProbeInvariance, PTL

\* A settled verdict is never replaced, and it is what is returned.
THEOREM VerdictCorrect == Spec => VerdictStands
<1>1. ASSUME ProbeInv, Next
      PROVE  isFinished => isFinished' /\ storedReason' = storedReason
                           /\ (result' # result => result' = storedReason)
  BY <1>1 DEF ProbeInv, CallerSettled, TypeOK, Next, Caller, Queue, RejectEndpoint, StartConnection,
              Wake, Expire, SettleTimeout, ClearHandler, Return, TakeUpdate, HandleUpdate,
              Signal, Report, Finish, Done, vars
<1>2. ProbeInv /\ [Next]_vars =>
        [isFinished => isFinished' /\ storedReason' = storedReason
                       /\ (result' # result => result' = storedReason)]_vars
  BY <1>1
<1> QED BY <1>2, ProbeInvariance, PTL DEF Spec, VerdictStands
=============================================================================
