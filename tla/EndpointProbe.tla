---------------------------- MODULE EndpointProbe ----------------------------
(***************************************************************************)
(* EndpointProbe.failureReason: the caller starts a connection, waits on a *)
(* semaphore with a timeout and returns ProbeState.reason, while the state *)
(* updates of the connection run on the probe's own queue.  Both may try   *)
(* to settle the verdict.  The connection itself is external: it may be    *)
(* ready, fail, fail after it was ready, wait for a path, or say nothing.  *)
(***************************************************************************)
EXTENDS Naturals, Sequences

CONSTANTS Unset, TimedOut, \* no reason; the timeout's
          InvalidEndpoint, \* the reason of an address that cannot be used
          Reasons,         \* the reasons of the connection's errors
          MaxUpdates       \* bound: state updates the connection reports

ASSUME ProbeAssumption ==
  /\ MaxUpdates \in Nat
  /\ {Unset, TimedOut, InvalidEndpoint} \cap Reasons = {}
  /\ Unset \notin {TimedOut, InvalidEndpoint}

VARIABLES
  caller,        \* called, waiting, expired, settled, quiet, returned
  callback,      \* what the queue is in: idle, update, signal
  update,        \* the update it is handling: ready, waiting, or a reason
  updates,       \* updates reported and not yet handled
  handler,       \* is stateUpdateHandler set?
  isFinished, storedReason, semaphore,
  result,        \* what failureReason returned
  reported       \* history: all updates reported

vars == <<caller, callback, update, updates, handler, isFinished, storedReason,
          semaphore, result, reported>>

Updates == {"ready", "waiting"} \cup Reasons

Init ==
  /\ caller = "called" /\ callback = "idle" /\ update = "waiting" /\ updates = <<>>
  /\ handler = FALSE /\ isFinished = FALSE /\ storedReason = Unset /\ semaphore = 0
  /\ result = Unset /\ reported = <<>>

\* state.finish(reason:), under its lock: the first verdict stays.
FinishLast(reason) == isFinished' = TRUE /\ storedReason' = reason

Finish(reason) ==
  /\ isFinished' = TRUE
  /\ storedReason' = IF isFinished THEN storedReason ELSE reason

\* An empty address is refused at once.
RejectEndpoint ==
  /\ caller = "called" /\ caller' = "returned" /\ result' = InvalidEndpoint
  /\ UNCHANGED <<callback, update, updates, handler, isFinished, storedReason, semaphore, reported>>

StartConnection ==
  /\ caller = "called" /\ caller' = "waiting" /\ handler' = TRUE
  /\ UNCHANGED <<callback, update, updates, isFinished, storedReason, semaphore, result, reported>>

\* The connection changes state, until it is cancelled.
Report(u) ==
  /\ Len(reported) < MaxUpdates /\ caller \notin {"called", "returned"}
  /\ updates' = Append(updates, u) /\ reported' = Append(reported, u)
  /\ UNCHANGED <<caller, callback, update, handler, isFinished, storedReason, semaphore, result>>

\* The queue takes an update; without a handler it is dropped.
TakeUpdate ==
  /\ callback = "idle" /\ updates # <<>> /\ updates' = Tail(updates)
  /\ IF handler THEN callback' = "update" /\ update' = Head(updates)
     ELSE UNCHANGED <<callback, update>>
  /\ UNCHANGED <<caller, handler, isFinished, storedReason, semaphore, result, reported>>

HandleUpdateSignals ==
  /\ callback = "update"
  /\ IF update = "waiting"
     THEN callback' = "idle" /\ UNCHANGED <<isFinished, storedReason>>
     ELSE callback' = "signal" /\ Finish(IF update = "ready" THEN Unset ELSE update)
  /\ UNCHANGED <<caller, update, updates, handler, semaphore, result, reported>>

HandleUpdate ==
  /\ callback = "update"
  /\ IF update = "waiting"
     THEN callback' = "idle" /\ UNCHANGED <<isFinished, storedReason>>
     ELSE /\ callback' = IF isFinished THEN "idle" ELSE "signal"
          /\ Finish(IF update = "ready" THEN Unset ELSE update)
  /\ UNCHANGED <<caller, update, updates, handler, semaphore, result, reported>>

Signal ==
  /\ callback = "signal" /\ callback' = "idle" /\ semaphore' = semaphore + 1
  /\ UNCHANGED <<caller, update, updates, handler, isFinished, storedReason, result, reported>>

\* semaphore.wait returns: signalled, or at the timeout.
Wake ==
  /\ caller = "waiting" /\ semaphore > 0
  /\ caller' = "settled" /\ semaphore' = semaphore - 1
  /\ UNCHANGED <<callback, update, updates, handler, isFinished, storedReason, result, reported>>

ExpireNever == FALSE

Expire ==
  /\ caller = "waiting" /\ semaphore = 0 /\ caller' = "expired"
  /\ UNCHANGED <<callback, update, updates, handler, isFinished, storedReason, semaphore,
                 result, reported>>

SettleTimeoutUnset ==
  /\ caller = "expired" /\ caller' = "settled"
  /\ UNCHANGED <<callback, update, updates, handler, isFinished, storedReason, semaphore,
                 result, reported>>

SettleTimeout ==
  /\ caller = "expired" /\ caller' = "settled" /\ Finish(TimedOut)
  /\ UNCHANGED <<callback, update, updates, handler, semaphore, result, reported>>

ClearHandler ==
  /\ caller = "settled" /\ caller' = "quiet" /\ handler' = FALSE
  /\ UNCHANGED <<callback, update, updates, isFinished, storedReason, semaphore, result, reported>>

Return ==
  /\ caller = "quiet" /\ caller' = "returned" /\ result' = storedReason
  /\ UNCHANGED <<callback, update, updates, handler, isFinished, storedReason, semaphore, reported>>

Done == caller = "returned" /\ callback = "idle" /\ updates = <<>> /\ UNCHANGED vars

Caller == RejectEndpoint \/ StartConnection \/ Wake \/ Expire \/ SettleTimeout \/ ClearHandler \/ Return
Queue  == TakeUpdate \/ HandleUpdate \/ Signal
Next   == Caller \/ Queue \/ (\E u \in Updates : Report(u)) \/ Done

Spec == Init /\ [][Next]_vars

\* The wait has a timeout, so the caller never depends on the queue.
FairSpec == Spec /\ WF_vars(Caller)

-----------------------------------------------------------------------------
TypeOK ==
  /\ caller \in {"called", "waiting", "expired", "settled", "quiet", "returned"}
  /\ callback \in {"idle", "update", "signal"} /\ update \in Updates
  /\ updates \in Seq(Updates) /\ reported \in Seq(Updates)
  /\ {handler, isFinished} \subseteq BOOLEAN /\ semaphore \in 0..1
  /\ {storedReason, result} \subseteq {Unset, TimedOut, InvalidEndpoint} \cup Reasons

\* The reason returned is the timeout's or one the connection gave, and what was
\* settled first: an update that comes later, or races the timeout, changes nothing.
VerdictStands ==
  [][isFinished => isFinished' /\ storedReason' = storedReason
                   /\ (result' # result => result' = storedReason)]_vars

\* prepareDevice takes "no reason" for "reachable".  An error is returned, or none, only
\* if the connection failed with it, or became ready, before it did anything else but
\* wait: never because nobody settled the verdict, nor for what came later.
FirstVerdictWins ==
  caller = "returned" /\ result \in Reasons \cup {Unset} =>
    \E i \in 1..Len(reported) :
      /\ reported[i] = IF result = Unset THEN "ready" ELSE result
      /\ \A j \in 1..(i - 1) : reported[j] = "waiting"

\* The probe always returns, also when the connection says nothing at all.
Returns == <>(caller = "returned")
=============================================================================
