--------------------------- MODULE CircuitBreaker ---------------------------
(***************************************************************************)
(* One circuit breaker of the orchestrator                                 *)
(* (services/orchestrator/resilience/circuit_breaker.py) shared by         *)
(* concurrent asyncio tasks.  A task runs alone between two awaits, so an  *)
(* action is what call() does between them: the locked admission, the end  *)
(* of the protected function, the end of a fallback.  Time is abstracted   *)
(* to whether recovery_timeout has passed since the last failure.          *)
(***************************************************************************)
EXTENDS Integers, FiniteSets

CONSTANTS
    Calls,          \* tasks, each making one call after another
    WithFallback,   \* the tasks that pass a fallback
    Nobody,         \* holder of a free lock
    Threshold,      \* failure_threshold
    HalfOpenMax,    \* half_open_max_calls
    CancelPoints,   \* the awaits at which a task may be cancelled
    Resets          \* whether reset() is called

ASSUME ConstantsAssumption ==
    /\ IsFiniteSet(Calls)
    /\ WithFallback \subseteq Calls
    /\ Nobody \notin Calls
    /\ Threshold \in Nat \ {0}
    /\ HalfOpenMax \in Nat \ {0}
    /\ CancelPoints \subseteq {"waiting", "calling", "fallback", "guarded"}
    /\ Resets \in BOOLEAN

VARIABLES
    state,      \* _state
    failures,   \* _failure_count, saturating at Threshold
    slots,      \* _half_open_calls
    timer,      \* recovery_timeout since _last_failure_time: "running", "elapsed"
    lock,       \* holder of _lock across an await
    pc,         \* where each task stands
    probes,     \* history: calls in flight admitted in this half-open period
    streak,     \* history: failures since the last success, saturating
    service     \* the protected service: "failing", or "up" for good

vars == <<state, failures, slots, timer, lock, pc, probes, streak, service>>

\* Failures beyond the threshold make no difference to any guard.
Saturate(n) == IF n < Threshold THEN n ELSE Threshold

Init ==
    /\ state = "CLOSED"
    /\ failures = 0
    /\ slots = 0
    /\ timer = "running"
    /\ lock = Nobody
    /\ pc = [c \in Calls |-> "idle"]
    /\ probes = {}
    /\ streak = 0
    /\ service = "failing"

Goto(c, from, to) ==
    /\ pc[c] = from
    /\ pc' = [pc EXCEPT ![c] = to]

-----------------------------------------------------------------------------
(* call(): the part under the lock                                         *)

Begin(c) ==
    /\ Goto(c, "idle", "waiting")
    /\ UNCHANGED <<state, failures, slots, timer, lock, probes, streak, service>>

\* The state after _check_state_transition.
Checked == IF state = "OPEN" /\ timer = "elapsed" THEN "HALF_OPEN" ELSE state

\* The calls counted in the half-open period, afresh when it starts here.
CheckedSlots == IF state = "OPEN" /\ timer = "elapsed" THEN 0 ELSE slots
CheckedProbes == IF state = "OPEN" /\ timer = "elapsed" THEN {} ELSE probes

Full == CheckedSlots >= HalfOpenMax

\* The circuit lets the call through; half-open, it counts it.
Admit(c) ==
    /\ lock = Nobody
    /\ Goto(c, "waiting", "calling")
    /\ state' = Checked
    /\ \/ /\ Checked = "CLOSED"
          /\ UNCHANGED <<slots, probes>>
       \/ /\ Checked = "HALF_OPEN" /\ ~Full
          /\ slots' = CheckedSlots + 1
          /\ probes' = CheckedProbes \cup {c}
    /\ UNCHANGED <<failures, timer, lock, streak, service>>

\* Mutant of Reject: the lock is never released after the fallback.
RejectLocked(c) ==
    /\ lock = Nobody
    /\ Checked = "OPEN" \/ (Checked = "HALF_OPEN" /\ Full)
    /\ state' = Checked
    /\ Goto(c, "waiting", IF c \in WithFallback THEN "fallback" ELSE "idle")
    /\ lock' = IF c \in WithFallback THEN c ELSE lock
    /\ UNCHANGED <<failures, slots, timer, probes, streak, service>>

\* The circuit rejects the call: CircuitOpenError, or the fallback, which is
\* awaited with the lock held.
Reject(c) ==
    /\ lock = Nobody
    /\ Checked = "OPEN" \/ (Checked = "HALF_OPEN" /\ Full)
    /\ state' = Checked
    /\ slots' = CheckedSlots
    /\ probes' = CheckedProbes
    /\ \/ /\ c \in WithFallback
          /\ Goto(c, "waiting", "guarded")
          /\ lock' = c
       \/ /\ c \notin WithFallback
          /\ Goto(c, "waiting", "idle")
          /\ UNCHANGED lock
    /\ UNCHANGED <<failures, timer, streak, service>>

-----------------------------------------------------------------------------
(* call(): the protected function has returned or raised                   *)

\* Mutant of record_success: a half-open circuit is left as it is.
record_success_ignored(c) ==
    /\ Goto(c, "calling", "idle")
    /\ failures' = IF state = "CLOSED" THEN 0 ELSE failures
    /\ streak' = 0
    /\ probes' = probes \ {c}
    /\ UNCHANGED <<state, slots, timer, lock, service>>

record_success(c) ==
    /\ Goto(c, "calling", "idle")
    /\ streak' = 0
    /\ \/ /\ state = "HALF_OPEN"
          /\ state' = "CLOSED"
          /\ failures' = 0
          /\ slots' = 0
          /\ probes' = {}
       \/ /\ state = "CLOSED"
          /\ failures' = 0
          /\ UNCHANGED <<state, slots, probes>>
       \/ /\ state = "OPEN"
          /\ UNCHANGED <<state, failures, slots, probes>>
    /\ UNCHANGED <<timer, lock, service>>

\* Mutant of record_failure: the threshold is only reached when exceeded.
record_failure_late(c) ==
    /\ service = "failing"
    /\ Goto(c, "calling", IF c \in WithFallback THEN "fallback" ELSE "idle")
    /\ failures' = Saturate(failures + 1)
    /\ streak' = Saturate(streak + 1)
    /\ timer' = "running"
    /\ state' = IF state = "HALF_OPEN" \/ failures = Threshold THEN "OPEN" ELSE state
    /\ slots' = IF state = "HALF_OPEN" THEN 0 ELSE slots
    /\ probes' = IF state = "HALF_OPEN" THEN {} ELSE probes
    /\ UNCHANGED <<lock, service>>

\* Whatever the state, the failure restarts recovery_timeout.
record_failure(c) ==
    /\ service = "failing"
    /\ Goto(c, "calling", IF c \in WithFallback THEN "fallback" ELSE "idle")
    /\ failures' = Saturate(failures + 1)
    /\ streak' = Saturate(streak + 1)
    /\ timer' = "running"
    /\ \/ /\ state = "HALF_OPEN"
          /\ state' = "OPEN"
          /\ slots' = 0
          /\ probes' = {}
       \/ /\ state = "CLOSED" /\ failures' = Threshold
          /\ state' = "OPEN"
          /\ UNCHANGED <<slots, probes>>
       \/ /\ state = "OPEN" \/ (state = "CLOSED" /\ failures' < Threshold)
          /\ UNCHANGED <<state, slots, probes>>
    /\ UNCHANGED <<lock, service>>

\* A fallback ends; a rejected call then leaves the lock.
FallbackEnds(c) ==
    /\ \/ Goto(c, "fallback", "idle") /\ UNCHANGED lock
       \/ Goto(c, "guarded", "idle") /\ lock' = Nobody
    /\ UNCHANGED <<state, failures, slots, timer, probes, streak, service>>

-----------------------------------------------------------------------------
\* CancelledError is no Exception: neither record_success nor record_failure
\* runs, and a half-open slot stays taken.
Cancel(c) ==
    /\ pc[c] \in CancelPoints
    /\ pc' = [pc EXCEPT ![c] = "idle"]
    /\ lock' = IF lock = c THEN Nobody ELSE lock
    /\ probes' = probes \ {c}
    /\ UNCHANGED <<state, failures, slots, timer, streak, service>>

\* reset(): no last failure any more.
Reset ==
    /\ Resets
    /\ state' = "CLOSED"
    /\ failures' = 0
    /\ slots' = 0
    /\ timer' = "running"
    /\ probes' = {}
    /\ streak' = 0
    /\ UNCHANGED <<lock, pc, service>>

\* recovery_timeout passes.
Elapse ==
    /\ state = "OPEN" /\ timer = "running"
    /\ timer' = "elapsed"
    /\ UNCHANGED <<state, failures, slots, lock, pc, probes, streak, service>>

\* The service is up again, for good.
ServiceRecovers ==
    /\ service = "failing"
    /\ service' = "up"
    /\ UNCHANGED <<state, failures, slots, timer, lock, pc, probes, streak>>

-----------------------------------------------------------------------------
Enter(c) == Admit(c) \/ Reject(c)
Return(c) == record_success(c) \/ record_failure(c) \/ FallbackEnds(c)

Next ==
    \/ \E c \in Calls : Begin(c) \/ Enter(c) \/ Return(c) \/ Cancel(c)
    \/ Reset \/ Elapse \/ ServiceRecovers

Spec == Init /\ [][Next]_vars

\* asyncio.Lock serves its waiters in order; the protected function and the
\* fallback return; time passes; requests keep coming.
Fairness ==
    /\ \A c \in Calls : WF_vars(Begin(c)) /\ SF_vars(Enter(c)) /\ WF_vars(Return(c))
    /\ WF_vars(Elapse)

FairSpec == Spec /\ Fairness

-----------------------------------------------------------------------------
(* Properties                                                              *)

\* Every variable keeps its type.
TypeOK ==
    /\ state \in {"CLOSED", "OPEN", "HALF_OPEN"}
    /\ failures \in 0..Threshold
    /\ slots \in 0..HalfOpenMax
    /\ timer \in {"running", "elapsed"}
    /\ lock \in Calls \cup {Nobody}
    /\ pc \in [Calls -> {"idle", "waiting", "calling", "fallback", "guarded"}]
    /\ probes \subseteq Calls
    /\ streak \in 0..Threshold
    /\ service \in {"failing", "up"}

\* A service that failed Threshold times in a row is called again only after
\* recovery_timeout without a further failure, whichever period the failed
\* calls were admitted in.
Shielded ==
    streak >= Threshold => state = "OPEN" \/ (state = "HALF_OPEN" /\ timer = "elapsed")

\* "HALF_OPEN: Testing recovery, limited requests allowed": at most
\* half_open_max_calls of them are in flight.
ProbesLimited == state = "HALF_OPEN" => Cardinality(probes) <= HalfOpenMax

\* A half-open circuit that rejects calls is waiting for one it let through,
\* whose end will close or reopen it ("Resuming normal operation on
\* successful recovery", circuit_breaker.py:7).
RejectsOnlyWhileProbing == state = "HALF_OPEN" /\ slots = HalfOpenMax => probes # {}

\* Once the service has recovered, the circuit closes and stays closed.
ClosesAfterRecovery == service = "up" ~> [](state = "CLOSED")

\* Every call is answered, though a fallback may hold the lock meanwhile.
EveryCallReturns == \A c \in Calls : pc[c] = "waiting" ~> pc[c] = "idle"

-----------------------------------------------------------------------------
\* The inductive invariant: what the counters say of the calls in flight.
Inv ==
    /\ TypeOK
    /\ state = "CLOSED" => failures = streak /\ streak < Threshold
    /\ state = "HALF_OPEN" => timer = "elapsed"
    /\ state # "HALF_OPEN" => slots = 0 /\ probes = {}
    /\ \A c \in probes : pc[c] = "calling"
    /\ Cardinality(probes) <= slots
    /\ "calling" \notin CancelPoints => slots = Cardinality(probes)
=============================================================================
