---------------------------- MODULE BreakerOps ----------------------------
(***************************************************************************)
(* The data and the operations of internal/proxy/circuitbreaker.go, as     *)
(* pure functions of a breaker record.  Every method of the Go type runs   *)
(* under cb.mutex, so one operator application is one critical section.    *)
(*                                                                         *)
(* openedAt is kept as its age: the time since the breaker opened,         *)
(* saturated at RecoveryTimeout, because the code only ever compares       *)
(* nowFn().Sub(openedAt) with recoveryTimeout.  The zero time of a new     *)
(* breaker is long past, hence a saturated age.                            *)
(***************************************************************************)
EXTENDS Integers

CONSTANTS
  FailureThreshold,  \* counted failures that open a closed breaker
  RecoveryTimeout    \* ticks an open breaker rests before it grants a probe

ASSUME BreakerOpsAssumption ==
  /\ FailureThreshold \in Nat \ {0}
  /\ RecoveryTimeout \in Nat \ {0}

State == {"closed", "open", "halfOpen"}

Breaker ==
  [state : State, generation : Nat \ {0}, consecutiveFailures : Nat,
   age : 0 .. RecoveryTimeout, pendingProbe : BOOLEAN]

Lease == [generation : Nat, halfOpen : BOOLEAN]

\* BreakerLease{}: the zero value, also what a settled probeGuard amounts to.
NoLease == [generation |-> 0, halfOpen |-> FALSE]

NewBreaker ==
  [state |-> "closed", generation |-> 1, consecutiveFailures |-> 0,
   age |-> RecoveryTimeout, pendingProbe |-> FALSE]

Cooled(cb) == cb.age >= RecoveryTimeout

\* Every move between states starts a new generation, which is what makes
\* the leases granted before it stale; pendingProbe is set on the way into
\* halfOpen and cleared on every way out.
Mutant_Move(cb, s, failures, age) ==
  [state |-> s, generation |-> cb.generation,
   consecutiveFailures |-> failures, age |-> age, pendingProbe |-> s = "halfOpen"]

Move(cb, s, failures, age) ==
  [state |-> s, generation |-> cb.generation + 1,
   consecutiveFailures |-> failures, age |-> age, pendingProbe |-> s = "halfOpen"]

\* The matcher's read-only availability check.
WouldAllow(cb) ==
  \/ cb.state = "closed"
  \/ cb.state = "open" /\ Cooled(cb)
  \/ cb.state = "halfOpen" /\ ~cb.pendingProbe

---------------------------------------------------------------------------
(* Acquire: whether it grants, the breaker it leaves, the lease it hands   *)
(* out.                                                                    *)

Mutant_GrantsEarly(cb) == cb.state = "halfOpen" => ~cb.pendingProbe

Grants(cb) ==
  CASE cb.state = "closed"   -> TRUE
    [] cb.state = "open"     -> Cooled(cb)
    [] cb.state = "halfOpen" -> ~cb.pendingProbe

AfterAcquire(cb) ==
  IF cb.state = "closed" THEN cb
  ELSE Move(cb, "halfOpen", cb.consecutiveFailures, cb.age)

LeaseGranted(cb) ==
  [generation |-> AfterAcquire(cb).generation,
   halfOpen   |-> cb.state # "closed"]

---------------------------------------------------------------------------
(* What the holder of a lease may still do to the breaker.  canContinue,   *)
(* settle and settleCancel test the same facts about the lease.            *)

Mutant_CanContinue(cb, lease) ==
  /\ lease.generation # 0
  /\ IF lease.halfOpen THEN cb.state = "halfOpen" /\ cb.pendingProbe
                       ELSE cb.state = "closed"

CanContinue(cb, lease) ==
  /\ lease.generation # 0
  /\ lease.generation = cb.generation
  /\ IF lease.halfOpen THEN cb.state = "halfOpen" /\ cb.pendingProbe
                       ELSE cb.state = "closed"

\* The lease-less Record that settle replaced.
Mutant_SettleSuccess(cb, lease) ==
  IF cb.state = "closed" THEN [cb EXCEPT !.consecutiveFailures = 0]
  ELSE Move(cb, "closed", 0, cb.age)

SettleSuccess(cb, lease) ==
  IF ~CanContinue(cb, lease) THEN cb
  ELSE IF lease.halfOpen THEN Move(cb, "closed", 0, cb.age)
  ELSE [cb EXCEPT !.consecutiveFailures = 0]

\* A probe's failure re-opens at once; a closed breaker waits for the
\* threshold.
Opens(cb, lease) ==
  lease.halfOpen \/ cb.consecutiveFailures + 1 >= FailureThreshold

Mutant_SettleFailure(cb, lease) ==
  IF ~CanContinue(cb, lease) THEN cb
  ELSE IF Opens(cb, lease) THEN Move(cb, "open", cb.consecutiveFailures, 0)
  ELSE [cb EXCEPT !.consecutiveFailures = @ + 1]

SettleFailure(cb, lease) ==
  IF ~CanContinue(cb, lease) THEN cb
  ELSE IF Opens(cb, lease) THEN Move(cb, "open", cb.consecutiveFailures + 1, 0)
  ELSE [cb EXCEPT !.consecutiveFailures = @ + 1]

Mutant_SettleCancel(cb, lease) ==
  IF lease.halfOpen /\ CanContinue(cb, lease)
  THEN Move(cb, "open", cb.consecutiveFailures, 0)
  ELSE cb

Mutant_SettleCancelIgnored(cb, lease) == cb

\* openedAt is left alone: the next Acquire may probe again immediately.
SettleCancel(cb, lease) ==
  IF lease.halfOpen /\ CanContinue(cb, lease)
  THEN Move(cb, "open", cb.consecutiveFailures, cb.age)
  ELSE cb

---------------------------------------------------------------------------
Mutant_Aged(cb) == [cb EXCEPT !.age = @ + 1]

\* The clock of the nowFn comparison.  In the other two states the age is
\* saturated already, or is reset before it is next compared.
Aged(cb) ==
  IF cb.state = "open" /\ ~Cooled(cb) THEN [cb EXCEPT !.age = @ + 1] ELSE cb
===========================================================================
