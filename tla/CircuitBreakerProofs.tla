----------------------- MODULE CircuitBreakerProofs -----------------------
(***************************************************************************)
(* Theorems about CircuitBreaker for any set of requests, any threshold,   *)
(* any cooldown and any bound on generations.                              *)
(***************************************************************************)
EXTENDS CircuitBreaker, TLAPS

LEMMA InitTypeOK == Init => TypeOK
  BY BreakerOpsAssumption
     DEF Init, TypeOK, NewBreaker, Breaker, State, Lease, NoLease

LEMMA MoveType ==
  ASSUME NEW cb \in Breaker, NEW s \in State,
         NEW n \in Nat, NEW a \in 0 .. RecoveryTimeout
  PROVE  Move(cb, s, n, a) \in Breaker
  BY DEF Move, Breaker

\* What each operation on a well-typed breaker returns is well typed.
LEMMA OpsType ==
  ASSUME NEW cb \in Breaker, NEW l \in Lease
  PROVE  /\ AfterAcquire(cb) \in Breaker
         /\ LeaseGranted(cb) \in Lease
         /\ SettleSuccess(cb, l) \in Breaker
         /\ SettleFailure(cb, l) \in Breaker
         /\ SettleCancel(cb, l) \in Breaker
         /\ Aged(cb) \in Breaker
  <1>0. /\ cb.consecutiveFailures \in Nat
        /\ cb.consecutiveFailures + 1 \in Nat
        /\ cb.age \in 0 .. RecoveryTimeout
        /\ 0 \in 0 .. RecoveryTimeout
        /\ {"closed", "open", "halfOpen"} = State
    BY BreakerOpsAssumption DEF Breaker, State
  <1>a. ASSUME NEW n \in Nat
        PROVE  [cb EXCEPT !.consecutiveFailures = n] \in Breaker
    BY DEF Breaker
  <1>1. AfterAcquire(cb) \in Breaker
    BY <1>0, MoveType DEF AfterAcquire
  <1>2. LeaseGranted(cb) \in Lease
    BY <1>1 DEF LeaseGranted, Lease, Breaker
  <1>3. SettleSuccess(cb, l) \in Breaker
    BY <1>0, <1>a, MoveType DEF SettleSuccess
  <1>4. SettleFailure(cb, l) \in Breaker
    BY <1>0, <1>a, MoveType DEF SettleFailure
  <1>5. SettleCancel(cb, l) \in Breaker
    BY <1>0, MoveType DEF SettleCancel
  <1>6. Aged(cb) \in Breaker
    <2>1. ~Cooled(cb) => cb.age + 1 \in 0 .. RecoveryTimeout
      BY <1>0, BreakerOpsAssumption DEF Cooled
    <2>2. ASSUME NEW a \in 0 .. RecoveryTimeout
          PROVE  [cb EXCEPT !.age = a] \in Breaker
      BY DEF Breaker
    <2>3. QED
      BY <2>1, <2>2 DEF Aged
  <1>7. QED
    BY <1>1, <1>2, <1>3, <1>4, <1>5, <1>6

LEMMA NextTypeOK == TypeOK /\ [Next]_vars => TypeOK'
  <1> SUFFICES ASSUME TypeOK, [Next]_vars PROVE TypeOK'
    OBVIOUS
  <1>0. NoLease \in Lease
    BY DEF NoLease, Lease
  <1>1. ASSUME NEW r \in Requests, Acquire(r) PROVE TypeOK'
    BY <1>1, OpsType DEF Acquire, TypeOK
  <1>2. ASSUME NEW r \in Requests, Success(r) PROVE TypeOK'
    BY <1>0, <1>2, OpsType DEF Success, Close, TypeOK
  <1>3. ASSUME NEW r \in Requests, Failure(r) PROVE TypeOK'
    BY <1>0, <1>3, OpsType DEF Failure, Close, TypeOK
  <1>4. ASSUME NEW r \in Requests, Cancel(r) PROVE TypeOK'
    BY <1>0, <1>4, OpsType DEF Cancel, Close, TypeOK
  <1>5. CASE Tick
    BY <1>0, <1>5, OpsType DEF Tick, TypeOK
  <1>6. CASE UNCHANGED vars
    BY <1>6 DEF vars, TypeOK
  <1>7. QED
    BY <1>1, <1>2, <1>3, <1>4, <1>5, <1>6 DEF Next

(* Type correctness of the breaker and its leases. *)
THEOREM Typing == Spec => []TypeOK
  BY InitTypeOK, NextTypeOK, PTL DEF Spec
---------------------------------------------------------------------------
(* The invariants.  Each settlement leaves the breaker alone, counts in a  *)
(* closed breaker, or moves it out of the state the lease was good for.    *)

Untouched(cb, l, cb2) == ~CanContinue(cb, l) /\ cb2 = cb

Counted(cb, cb2) ==
  /\ cb.state = "closed" /\ cb2.state = "closed"
  /\ cb2.generation = cb.generation
  /\ cb2.pendingProbe = cb.pendingProbe

Moved(cb, l, cb2) ==
  /\ CanContinue(cb, l)
  /\ cb2.state \in {"closed", "open"}
  /\ cb.state = "closed" => cb2.state = "open"
  /\ cb2.generation = cb.generation + 1
  /\ cb2.pendingProbe = FALSE

LEMMA SettleShape ==
  ASSUME NEW cb \in Breaker, NEW l \in Lease,
         NEW cb2 \in {SettleSuccess(cb, l), SettleFailure(cb, l), SettleCancel(cb, l)}
  PROVE  Untouched(cb, l, cb2) \/ Counted(cb, cb2) \/ Moved(cb, l, cb2)
  <1>0. \A s, n, a : s \in {"closed", "open"} =>
          /\ Move(cb, s, n, a).state = s
          /\ Move(cb, s, n, a).generation = cb.generation + 1
          /\ Move(cb, s, n, a).pendingProbe = FALSE
    BY DEF Move
  <1>1. CASE ~CanContinue(cb, l)
    BY <1>1 DEF SettleSuccess, SettleFailure, SettleCancel, Untouched
  <1>2. CASE CanContinue(cb, l) /\ l.halfOpen
    <2>1. cb2 \in {Move(cb, "closed", 0, cb.age),
                   Move(cb, "open", cb.consecutiveFailures + 1, 0),
                   Move(cb, "open", cb.consecutiveFailures, cb.age)}
      BY <1>2, Zenon DEF SettleSuccess, SettleFailure, SettleCancel, Opens
    <2>2. QED
      BY <1>0, <1>2, <2>1 DEF Moved, CanContinue
  <1>3. CASE CanContinue(cb, l) /\ ~l.halfOpen
    <2>1. cb.state = "closed"
      BY <1>3 DEF CanContinue
    <2>2. \/ cb2 = cb
          \/ cb2 = [cb EXCEPT !.consecutiveFailures = 0]
          \/ cb2 = [cb EXCEPT !.consecutiveFailures = cb.consecutiveFailures + 1]
          \/ cb2 = Move(cb, "open", cb.consecutiveFailures + 1, 0)
      BY <1>3, Zenon DEF SettleSuccess, SettleFailure, SettleCancel
    <2>3. CASE cb2 = Move(cb, "open", cb.consecutiveFailures + 1, 0)
      BY <1>0, <1>3, <2>3 DEF Moved
    <2>4. CASE cb2 # Move(cb, "open", cb.consecutiveFailures + 1, 0)
      BY <2>1, <2>2, <2>4 DEF Counted, Breaker
    <2>5. QED
      BY <2>3, <2>4
  <1>4. QED
    BY <1>1, <1>2, <1>3

\* The count and the clock: what every operation preserves.
Calibrated(cb) ==
  /\ cb.state = "closed" <=> cb.consecutiveFailures < FailureThreshold
  /\ cb.state # "open" => Cooled(cb)

LEMMA OpsCalibrated ==
  ASSUME NEW cb \in Breaker, NEW l \in Lease, Calibrated(cb)
  PROVE  /\ Grants(cb) => Calibrated(AfterAcquire(cb))
         /\ Calibrated(SettleSuccess(cb, l))
         /\ Calibrated(SettleFailure(cb, l))
         /\ Calibrated(SettleCancel(cb, l))
         /\ cb.state = "open" => Calibrated(Aged(cb))
  <1> USE BreakerOpsAssumption DEF Calibrated, Cooled, Breaker, State
  <1>1. Grants(cb) => Calibrated(AfterAcquire(cb))
    BY DEF Grants, AfterAcquire, Move
  <1>2. Calibrated(SettleSuccess(cb, l))
    BY DEF SettleSuccess, CanContinue, Move
  <1>3. Calibrated(SettleFailure(cb, l))
    BY DEF SettleFailure, CanContinue, Opens, Move
  <1>4. Calibrated(SettleCancel(cb, l))
    BY DEF SettleCancel, CanContinue, Move
  <1>5. cb.state = "open" => Calibrated(Aged(cb))
    BY DEF Aged
  <1>6. QED
    BY <1>1, <1>2, <1>3, <1>4, <1>5

IInv == TypeOK /\ LeaseInv /\ ExclusiveProbe /\ Calibrated(breaker)

LEMMA InitIInv == Init => IInv
  <1> SUFFICES ASSUME Init PROVE IInv
    OBVIOUS
  <1>1. TypeOK
    BY InitTypeOK
  <1>2. LeaseInv
    BY DEF Init, NewBreaker, LeaseInv, NoLease
  <1>3. ExclusiveProbe
    BY DEF Init, NewBreaker, ExclusiveProbe
  <1>4. Calibrated(breaker)
    BY BreakerOpsAssumption DEF Init, NewBreaker, Calibrated, Cooled
  <1>5. QED
    BY <1>1, <1>2, <1>3, <1>4 DEF IInv

LEMMA AcquireIInv ==
  ASSUME IInv, NEW r \in Requests, Acquire(r)
  PROVE  LeaseInv' /\ ExclusiveProbe' /\ Calibrated(breaker)'
  <1>1. /\ breaker \in Breaker
        /\ lease \in [Requests -> Lease]
        /\ lease' = [lease EXCEPT ![r] = LeaseGranted(breaker)]
        /\ breaker' = AfterAcquire(breaker)
        /\ \A q \in Requests : lease[q] \in Lease
    BY DEF IInv, TypeOK, Acquire
  <1>2. Calibrated(breaker)'
    BY <1>1, OpsCalibrated DEF IInv, Acquire, Calibrated, NoLease, Lease, Cooled
  <1>3. CASE breaker.state = "closed"
    <2>1. /\ breaker' = breaker
          /\ LeaseGranted(breaker) = [generation |-> breaker.generation, halfOpen |-> FALSE]
          /\ breaker.generation \in Nat \ {0}
      BY <1>1, <1>3 DEF AfterAcquire, LeaseGranted, Breaker
    <2>2. LeaseInv'
      BY <1>1, <1>3, <2>1 DEF IInv, LeaseInv, Holds, CanContinue
    <2>3. ExclusiveProbe'
      BY <1>1, <1>3, <2>1 DEF IInv, ExclusiveProbe
    <2>4. QED
      BY <1>2, <2>2, <2>3
  <1>4. CASE breaker.state # "closed"
    <2>1. /\ breaker'.state = "halfOpen" /\ breaker'.pendingProbe = TRUE
          /\ breaker'.generation = breaker.generation + 1
          /\ LeaseGranted(breaker) = [generation |-> breaker.generation + 1, halfOpen |-> TRUE]
          /\ breaker.generation \in Nat \ {0}
      BY <1>1, <1>4 DEF AfterAcquire, LeaseGranted, Move, Breaker
    <2>2. /\ lease'[r] = [generation |-> breaker.generation + 1, halfOpen |-> TRUE]
          /\ \A q \in Requests \ {r} : lease'[q] = lease[q]
          /\ \A q \in Requests : lease[q].generation \in Nat
      BY <1>1, <2>1 DEF Lease
    <2>3. \A q \in Requests \ {r} : lease'[q].generation < breaker'.generation
      BY <2>1, <2>2 DEF IInv, LeaseInv
    <2>4. \A q \in Requests : Holds(q)' <=> q = r
      BY <2>1, <2>2, <2>3 DEF Holds, CanContinue
    <2>5. LeaseInv'
      <3> SUFFICES ASSUME NEW q \in Requests
                   PROVE  /\ lease'[q].generation <= breaker'.generation
                          /\ lease'[q].generation = 0 => lease'[q] = NoLease
                          /\ lease'[q].generation = breaker'.generation => Holds(q)'
        BY DEF LeaseInv
      <3>1. CASE q = r
        BY <2>1, <2>2, <2>4, <3>1
      <3>2. CASE q # r
        BY <2>1, <2>2, <2>3, <3>2 DEF IInv, LeaseInv
      <3>3. QED
        BY <3>1, <3>2
    <2>6. ExclusiveProbe'
      BY <2>1, <2>2, <2>4 DEF ExclusiveProbe
    <2>7. QED
      BY <1>2, <2>5, <2>6
  <1>5. QED
    BY <1>3, <1>4

LEMMA SettleIInv ==
  ASSUME IInv, NEW r \in Requests, Success(r) \/ Failure(r) \/ Cancel(r)
  PROVE  LeaseInv' /\ ExclusiveProbe' /\ Calibrated(breaker)'
  <1>1. /\ breaker \in Breaker
        /\ lease \in [Requests -> Lease]
        /\ lease[r] \in Lease
    BY DEF IInv, TypeOK
  <1>2. /\ breaker' \in {SettleSuccess(breaker, lease[r]),
                         SettleFailure(breaker, lease[r]),
                         SettleCancel(breaker, lease[r])}
        /\ lease' = [lease EXCEPT ![r] = NoLease]
        /\ lease[r] # NoLease
    BY DEF Success, Failure, Cancel, Close
  <1>3. Calibrated(breaker)'
    <2>1. /\ Calibrated(SettleSuccess(breaker, lease[r]))
          /\ Calibrated(SettleFailure(breaker, lease[r]))
          /\ Calibrated(SettleCancel(breaker, lease[r]))
      BY <1>1, OpsCalibrated DEF IInv
    <2>2. QED
      BY <1>2, <2>1 DEF Calibrated, Cooled
  <1>4. /\ lease'[r] = NoLease
        /\ \A q \in Requests \ {r} : lease'[q] = lease[q]
        /\ breaker.generation \in Nat \ {0}
        /\ NoLease.generation = 0
        /\ \A q \in Requests : lease[q].generation \in Nat
    BY <1>1, <1>2 DEF Breaker, Lease, NoLease
  <1>5. CASE Untouched(breaker, lease[r], breaker') \/ Counted(breaker, breaker')
    <2>1. /\ breaker'.state = breaker.state
          /\ breaker'.generation = breaker.generation
          /\ breaker'.pendingProbe = breaker.pendingProbe
      BY <1>5 DEF Untouched, Counted
    <2>2. \A q \in Requests \ {r} : Holds(q)' <=> Holds(q)
      BY <1>4, <2>1 DEF Holds, CanContinue
    <2>3. ~Holds(r)'
      BY <1>4 DEF Holds, CanContinue
    <2>4. LeaseInv'
      BY <1>4, <2>1, <2>2 DEF IInv, LeaseInv
    <2>5. ASSUME breaker.state = "halfOpen" PROVE ~Holds(r)
      BY <1>5, <2>5 DEF Untouched, Counted, Holds
    <2>6. ExclusiveProbe'
      <3>1. CASE breaker.state = "halfOpen"
        <4>1. PICK p \in Requests :
                lease[p].halfOpen /\ \A q \in Requests : Holds(q) <=> q = p
          BY <3>1 DEF IInv, ExclusiveProbe
        <4>2. p # r
          BY <2>5, <3>1, <4>1
        <4>3. lease'[p].halfOpen /\ \A q \in Requests : Holds(q)' <=> q = p
          BY <1>4, <2>2, <2>3, <4>1, <4>2
        <4>4. QED
          BY <2>1, <4>3 DEF IInv, ExclusiveProbe
      <3>2. CASE breaker.state # "halfOpen"
        BY <2>1, <3>2 DEF IInv, ExclusiveProbe
      <3>3. QED
        BY <3>1, <3>2
    <2>7. QED
      BY <1>3, <2>4, <2>6
  <1>6. CASE Moved(breaker, lease[r], breaker')
    <2>1. /\ breaker'.state # "halfOpen"
          /\ breaker'.generation = breaker.generation + 1
          /\ breaker'.pendingProbe = FALSE
      BY <1>6 DEF Moved
    <2>2. LeaseInv'
      BY <1>4, <2>1 DEF IInv, LeaseInv
    <2>3. ExclusiveProbe'
      BY <2>1 DEF ExclusiveProbe
    <2>4. QED
      BY <1>3, <2>2, <2>3
  <1>7. QED
    BY <1>1, <1>2, <1>5, <1>6, SettleShape

LEMMA TickIInv ==
  ASSUME IInv, Tick
  PROVE  LeaseInv' /\ ExclusiveProbe' /\ Calibrated(breaker)'
  <1>1. /\ breaker \in Breaker /\ breaker.state = "open"
        /\ breaker' = Aged(breaker) /\ lease' = lease
        /\ NoLease \in Lease
    BY DEF IInv, TypeOK, Tick, NoLease, Lease
  <1>2. /\ breaker'.state = breaker.state
        /\ breaker'.generation = breaker.generation
        /\ breaker'.pendingProbe = breaker.pendingProbe
    BY <1>1 DEF Aged, Breaker
  <1>3. Calibrated(breaker)'
    BY <1>1, OpsCalibrated DEF IInv, Calibrated, Cooled
  <1>4. LeaseInv'
    BY <1>1, <1>2 DEF IInv, LeaseInv, Holds, CanContinue
  <1>5. ExclusiveProbe'
    BY <1>1, <1>2 DEF IInv, ExclusiveProbe
  <1>6. QED
    BY <1>3, <1>4, <1>5

LEMMA NextIInv == IInv /\ [Next]_vars => IInv'
  <1> SUFFICES ASSUME IInv, [Next]_vars PROVE IInv'
    OBVIOUS
  <1>1. TypeOK'
    BY NextTypeOK DEF IInv
  <1>2. CASE \E r \in Requests : Acquire(r)
    BY <1>1, <1>2, AcquireIInv DEF IInv
  <1>3. CASE \E r \in Requests : Success(r) \/ Failure(r) \/ Cancel(r)
    BY <1>1, <1>3, SettleIInv DEF IInv
  <1>4. CASE Tick
    BY <1>1, <1>4, TickIInv DEF IInv
  <1>5. CASE UNCHANGED vars
    BY <1>1, <1>5 DEF vars, IInv, LeaseInv, ExclusiveProbe, Holds, Calibrated, Cooled
  <1>6. QED
    BY <1>2, <1>3, <1>4, <1>5 DEF Next

LEMMA InductiveInvariant == Spec => []IInv
  BY InitIInv, NextIInv, PTL DEF Spec

(* No lease is ever ahead of the breaker, and a lease of the current       *)
(* generation can always be settled.                                       *)
THEOREM LeasesInStep == Spec => []LeaseInv
  <1>1. IInv => LeaseInv
    BY DEF IInv
  <1>2. QED
    BY <1>1, InductiveInvariant, PTL

(* A half-open breaker is in the hands of exactly one request.             *)
THEOREM ProbeExclusive == Spec => []ExclusiveProbe
  <1>1. IInv => ExclusiveProbe
    BY DEF IInv
  <1>2. QED
    BY <1>1, InductiveInvariant, PTL

(* The breaker is closed exactly while the count is below the threshold.   *)
THEOREM TripsAtThreshold == Spec => []ClosedBelowThreshold
  <1>1. IInv => ClosedBelowThreshold
    BY DEF IInv, Calibrated, ClosedBelowThreshold
  <1>2. QED
    BY <1>1, InductiveInvariant, PTL

(* Whatever is not open has served its cooldown.                           *)
THEOREM CooldownKept == Spec => []CooldownServed
  <1>1. IInv => CooldownServed
    BY DEF IInv, Calibrated, CooldownServed
  <1>2. QED
    BY <1>1, InductiveInvariant, PTL

---------------------------------------------------------------------------
(* The action properties, and the refinement.  A step is described once,   *)
(* by what it does to the breaker and to one request's lease.              *)

\* r is admitted to a closed breaker.
Admitted(r) ==
  /\ lease[r] = NoLease /\ breaker.state = "closed"
  /\ breaker' = breaker
  /\ lease' = [lease EXCEPT ![r] = [generation |-> breaker.generation, halfOpen |-> FALSE]]

\* r becomes the probe of an open breaker.
SentOut(r) ==
  /\ lease[r] = NoLease /\ breaker.state = "open" /\ Cooled(breaker)
  /\ breaker'.state = "halfOpen" /\ breaker'.pendingProbe
  /\ breaker'.generation = breaker.generation + 1
  /\ lease' = [lease EXCEPT ![r] = [generation |-> breaker.generation + 1, halfOpen |-> TRUE]]

\* r closes its guard.
Released(r) ==
  /\ lease[r] # NoLease
  /\ lease' = [lease EXCEPT ![r] = NoLease]
  /\ \/ Untouched(breaker, lease[r], breaker')
     \/ Counted(breaker, breaker')
     \/ Moved(breaker, lease[r], breaker')

\* Time passes.
Rested ==
  /\ lease' = lease
  /\ breaker.state = "open" /\ breaker'.state = "open"
  /\ breaker'.generation = breaker.generation

LEMMA StepShape ==
  ASSUME IInv, Next
  PROVE  Rested \/ \E r \in Requests : Admitted(r) \/ SentOut(r) \/ Released(r)
  <1>1. /\ breaker \in Breaker
        /\ \A r \in Requests : lease[r] \in Lease
    BY DEF IInv, TypeOK
  <1>2. ASSUME NEW r \in Requests, Acquire(r)
        PROVE  Admitted(r) \/ SentOut(r)
    <2>1. CASE breaker.state = "closed"
      BY <1>2, <2>1 DEF Acquire, AfterAcquire, LeaseGranted, Admitted
    <2>2. CASE breaker.state = "halfOpen"
      <3>1. breaker.pendingProbe
        BY <2>2 DEF IInv, ExclusiveProbe
      <3>2. ~Grants(breaker)
        BY <2>2, <3>1 DEF Grants
      <3>3. QED
        BY <1>2, <3>2 DEF Acquire
    <2>3. CASE breaker.state = "open"
      <3>1. Cooled(breaker)
        BY <1>2, <2>3 DEF Acquire, Grants
      <3>2. breaker' = Move(breaker, "halfOpen", breaker.consecutiveFailures, breaker.age)
        BY <1>2, <2>3 DEF Acquire, AfterAcquire
      <3>3. /\ breaker'.state = "halfOpen" /\ breaker'.pendingProbe
            /\ breaker'.generation = breaker.generation + 1
        BY <3>2 DEF Move
      <3>4. LeaseGranted(breaker) = [generation |-> breaker.generation + 1, halfOpen |-> TRUE]
        BY <1>2, <2>3, <3>3 DEF Acquire, LeaseGranted
      <3>5. QED
        BY <1>2, <2>3, <3>1, <3>3, <3>4 DEF Acquire, SentOut
    <2>4. QED
      BY <1>1, <2>1, <2>2, <2>3 DEF Breaker, State
  <1>3. ASSUME NEW r \in Requests, Success(r) \/ Failure(r) \/ Cancel(r)
        PROVE  Released(r)
    <2>1. /\ lease[r] # NoLease
          /\ lease' = [lease EXCEPT ![r] = NoLease]
          /\ breaker' \in {SettleSuccess(breaker, lease[r]),
                           SettleFailure(breaker, lease[r]),
                           SettleCancel(breaker, lease[r])}
      BY <1>3 DEF Success, Failure, Cancel, Close
    <2>2. QED
      BY <1>1, <2>1, SettleShape DEF Released
  <1>4. ASSUME Tick PROVE Rested
    <2>1. \A a : [breaker EXCEPT !.age = a].state = breaker.state
                 /\ [breaker EXCEPT !.age = a].generation = breaker.generation
      BY <1>1 DEF Breaker
    <2>2. QED
      BY <1>4, <2>1 DEF Tick, Aged, Rested
  <1>5. QED
    BY <1>2, <1>3, <1>4 DEF Next

(* A lease that has lost its effect never regains it.                      *)
THEOREM NoABA == Spec => RevokedForGood
  <1>1. ASSUME IInv, [Next]_vars,
               NEW r \in Requests, lease[r] # NoLease, lease'[r] = lease[r], ~Holds(r)
        PROVE  ~Holds(r)'
    <2>1. /\ lease[r].generation \in Nat /\ lease[r].generation < breaker.generation
          /\ lease \in [Requests -> Lease]
          /\ breaker.generation \in Nat
      BY <1>1 DEF IInv, TypeOK, LeaseInv, Lease, Breaker
    <2>2. CASE UNCHANGED vars
      BY <1>1, <2>2 DEF vars, Holds
    <2>3. breaker'.generation \in {breaker.generation, breaker.generation + 1}
          \/ UNCHANGED vars
      BY <1>1, StepShape
         DEF Admitted, SentOut, Released, Untouched, Counted, Moved, Rested
    <2>4. QED
      BY <1>1, <2>1, <2>2, <2>3 DEF Holds, CanContinue
  <1>2. IInv /\ [Next]_vars =>
          [\A r \in Requests :
             (lease[r] # NoLease /\ lease'[r] = lease[r] /\ ~Holds(r)) => ~Holds(r)']_vars
    BY <1>1
  <1>3. QED
    BY <1>2, InductiveInvariant, PTL DEF Spec, RevokedForGood

(* Only the holder of the probe closes a breaker that is not closed.       *)
THEOREM OnlyProbeCloses == Spec => ReclosedByProbe
  <1>1. ASSUME IInv, Next, breaker.state # "closed", breaker'.state = "closed"
        PROVE  \E r \in Requests : lease[r].halfOpen /\ Holds(r) /\ lease'[r] = NoLease
    <2>1. PICK r \in Requests : Released(r) /\ Moved(breaker, lease[r], breaker')
      BY <1>1, StepShape DEF Admitted, SentOut, Released, Rested, Untouched, Counted
    <2>2. lease'[r] = NoLease
      BY <1>1, <2>1 DEF Released, IInv, TypeOK
    <2>3. Holds(r) /\ lease[r].halfOpen
      BY <1>1, <2>1 DEF Moved, Holds, CanContinue
    <2>4. QED
      BY <2>2, <2>3
  <1>2. IInv /\ [Next]_vars =>
          [(breaker.state # "closed" /\ breaker'.state = "closed") =>
             \E r \in Requests : lease[r].halfOpen /\ Holds(r) /\ lease'[r] = NoLease]_vars
    BY <1>1
  <1>3. QED
    BY <1>2, InductiveInvariant, PTL DEF Spec, ReclosedByProbe

(* A probe that ends without a verdict leaves a breaker that grants the    *)
(* next one.                                                               *)
THEOREM CancelledProbeRetries == Spec => CancelKeepsCooldown
  <1>1. ASSUME IInv, Next, breaker.state = "halfOpen", breaker'.state = "open",
               breaker'.consecutiveFailures = breaker.consecutiveFailures
        PROVE  Grants(breaker')
    <2>1. /\ breaker \in Breaker /\ Cooled(breaker)
          /\ breaker.consecutiveFailures \in Nat
      BY <1>1 DEF IInv, TypeOK, Calibrated, Breaker
    <2>2. \A s, n, a : /\ Move(breaker, s, n, a).state = s
                       /\ Move(breaker, s, n, a).consecutiveFailures = n
                       /\ Move(breaker, s, n, a).age = a
      BY DEF Move
    <2>3. PICK r \in Requests : Success(r) \/ Failure(r) \/ Cancel(r)
      BY <1>1, <2>2 DEF Next, Acquire, AfterAcquire, Tick
    <2>4. breaker' \in {SettleSuccess(breaker, lease[r]),
                        SettleFailure(breaker, lease[r]),
                        SettleCancel(breaker, lease[r])}
      BY <2>3 DEF Success, Failure, Cancel, Close
    <2>5. CanContinue(breaker, lease[r]) /\ lease[r].halfOpen
      BY <1>1, <2>4 DEF SettleSuccess, SettleFailure, SettleCancel, CanContinue
    <2>6. breaker' \in {Move(breaker, "closed", 0, breaker.age),
                        Move(breaker, "open", breaker.consecutiveFailures + 1, 0),
                        Move(breaker, "open", breaker.consecutiveFailures, breaker.age)}
      BY <2>4, <2>5 DEF SettleSuccess, SettleFailure, SettleCancel, Opens
    <2>7. breaker'.age = breaker.age
      BY <1>1, <2>1, <2>2, <2>6
    <2>8. QED
      BY <1>1, <2>1, <2>7 DEF Grants, Cooled
  <1>2. IInv /\ [Next]_vars =>
          [(breaker.state = "halfOpen" /\ breaker'.state = "open" /\
            breaker'.consecutiveFailures = breaker.consecutiveFailures)
             => Grants(breaker')]_vars
    BY <1>1
  <1>3. QED
    BY <1>2, InductiveInvariant, PTL DEF Spec, CancelKeepsCooldown

---------------------------------------------------------------------------
(* The refinement.  View is the permit of one request; a lease that can    *)
(* move the breaker is a probe exactly in the half-open state.             *)

View(r) ==
  IF lease[r] = NoLease THEN "none"
  ELSE IF ~Holds(r) THEN "stale"
  ELSE IF lease[r].halfOpen THEN "probe" ELSE "normal"

LEMMA PermitOf ==
  /\ GatePermit \in [Requests -> {"none", "normal", "probe", "stale"}]
  /\ \A r \in Requests : GatePermit[r] = View(r)
  BY DEF GatePermit, View

\* A new lease for r, when nobody else can move the breaker or the breaker
\* stays as it is, changes r's permit only.
LEMMA OnePermit ==
  ASSUME NEW r \in Requests, NEW p,
         View(r)' = p,
         \A q \in Requests \ {r} : View(q)' = View(q)
  PROVE  GatePermit' = [GatePermit EXCEPT ![r] = p]
  BY DEF GatePermit, View

LEMMA InitRefines == Init => Gate!Init
  BY DEF Init, Gate!Init, GateMode, GatePermit, NewBreaker

LEMMA AdmittedRefines ==
  ASSUME IInv, NEW r \in Requests, Admitted(r)
  PROVE  Gate!Admit(r)
  <1>1. /\ breaker \in Breaker /\ lease \in [Requests -> Lease]
        /\ breaker.generation \in Nat \ {0}
    BY DEF IInv, TypeOK, Breaker
  <1>2. /\ lease'[r] = [generation |-> breaker.generation, halfOpen |-> FALSE]
        /\ \A q \in Requests \ {r} : lease'[q] = lease[q]
    BY <1>1 DEF Admitted
  <1>3. View(r)' = "normal"
    BY <1>1, <1>2 DEF View, Admitted, Holds, CanContinue, NoLease
  <1>4. \A q \in Requests \ {r} : View(q)' = View(q)
    BY <1>2 DEF View, Admitted, Holds
  <1>5. GatePermit' = [GatePermit EXCEPT ![r] = "normal"]
    BY <1>3, <1>4, OnePermit
  <1>6. GatePermit[r] = "none" /\ GateMode = "closed" /\ GateMode' = GateMode
    BY PermitOf DEF View, Admitted, GateMode
  <1>7. QED
    BY <1>5, <1>6 DEF Gate!Admit, Gate!Give

LEMMA SentOutRefines ==
  ASSUME IInv, NEW r \in Requests, SentOut(r)
  PROVE  Gate!AdmitProbe(r)
  <1>1. /\ lease \in [Requests -> Lease]
        /\ breaker.generation \in Nat \ {0}
        /\ \A q \in Requests : lease[q].generation \in Nat
    BY DEF IInv, TypeOK, Breaker, Lease
  <1>2. /\ lease'[r] = [generation |-> breaker.generation + 1, halfOpen |-> TRUE]
        /\ \A q \in Requests \ {r} : lease'[q] = lease[q]
    BY <1>1 DEF SentOut
  <1>3. View(r)' = "probe"
    BY <1>1, <1>2 DEF View, SentOut, Holds, CanContinue, NoLease
  <1>4. ASSUME NEW q \in Requests \ {r} PROVE View(q)' = View(q)
    <2>1. ~Holds(q)
      BY DEF SentOut, Holds, CanContinue
    <2>2. lease[q].generation # breaker.generation + 1
      BY <1>1 DEF IInv, LeaseInv
    <2>3. ~Holds(q)'
      BY <1>2, <2>2 DEF SentOut, Holds, CanContinue
    <2>4. QED
      BY <1>2, <2>1, <2>3 DEF View
  <1>5. GatePermit' = [GatePermit EXCEPT ![r] = "probe"]
    BY <1>3, <1>4, OnePermit
  <1>6. GatePermit[r] = "none" /\ GateMode = "open" /\ GateMode' = "probing"
    BY PermitOf DEF View, SentOut, GateMode
  <1>7. QED
    BY <1>5, <1>6 DEF Gate!AdmitProbe, Gate!Give

LEMMA ReleasedRefines ==
  ASSUME IInv, NEW r \in Requests, Released(r)
  PROVE  Gate!Return(r) \/ Gate!Trip(r) \/ Gate!EndProbe(r)
  <1>1. /\ breaker \in Breaker /\ lease \in [Requests -> Lease]
        /\ breaker.generation \in Nat \ {0}
        /\ breaker.state \in {"closed", "open", "halfOpen"}
        /\ \A q \in Requests : lease[q].generation \in Nat /\ lease[q].halfOpen \in BOOLEAN
    BY DEF IInv, TypeOK, Breaker, Lease, State
  <1>2. /\ lease'[r] = NoLease
        /\ \A q \in Requests \ {r} : lease'[q] = lease[q]
        /\ View(r)' = "none"
        /\ GatePermit[r] = View(r)
    BY <1>1, PermitOf DEF Released, View
  <1>3. CASE Untouched(breaker, lease[r], breaker')
    <2>1. View(r) = "stale" /\ breaker' = breaker
      BY <1>3 DEF Untouched, View, Holds, Released
    <2>2. \A q \in Requests \ {r} : View(q)' = View(q)
      BY <1>2, <2>1 DEF View, Holds
    <2>3. GatePermit' = [GatePermit EXCEPT ![r] = "none"]
      BY <1>2, <2>2, OnePermit
    <2>4. GateMode' = GateMode
      BY <2>1 DEF GateMode
    <2>5. QED
      BY <1>2, <2>1, <2>3, <2>4 DEF Gate!Return, Gate!Give
  <1>4. CASE Counted(breaker, breaker')
    <2>1. View(r) \in {"stale", "normal"}
      BY <1>1, <1>4 DEF Counted, View, Holds, CanContinue, Released
    <2>2. \A q \in Requests \ {r} : View(q)' = View(q)
      BY <1>2, <1>4 DEF Counted, View, Holds, CanContinue
    <2>3. GatePermit' = [GatePermit EXCEPT ![r] = "none"]
      BY <1>2, <2>2, OnePermit
    <2>4. GateMode' = GateMode
      BY <1>4 DEF GateMode, Counted
    <2>5. QED
      BY <1>2, <2>1, <2>3, <2>4 DEF Gate!Return, Gate!Give
  <1>5. CASE Moved(breaker, lease[r], breaker')
    <2>1. /\ Holds(r)
          /\ lease[r].halfOpen => breaker.state = "halfOpen"
          /\ ~lease[r].halfOpen => breaker.state = "closed"
      BY <1>5 DEF Moved, Holds, CanContinue
    <2>2. \A q \in Requests \ {r} : ~Holds(q)'
      BY <1>1, <1>2, <1>5 DEF Moved, Holds, CanContinue, IInv, LeaseInv
    <2>3. \A q \in Requests \ {r} :
            View(q)' = IF lease[q] = NoLease THEN "none" ELSE "stale"
      BY <1>2, <2>2 DEF View
    <2>4. GateMode' \in {"closed", "open"}
      BY <1>5 DEF Moved, GateMode
    <2>5. CASE lease[r].halfOpen
      <3>1. \A q \in Requests \ {r} : ~Holds(q)
        BY <2>1, <2>5 DEF IInv, ExclusiveProbe
      <3>2. \A q \in Requests \ {r} : View(q)' = View(q)
        BY <2>3, <3>1 DEF View
      <3>3. GatePermit' = [GatePermit EXCEPT ![r] = "none"]
        BY <1>2, <3>2, OnePermit
      <3>4. GatePermit[r] = "probe" /\ GateMode = "probing"
        BY <1>2, <2>1, <2>5 DEF View, GateMode, Released
      <3>5. QED
        BY <2>4, <3>3, <3>4 DEF Gate!EndProbe, Gate!Give
    <2>6. CASE ~lease[r].halfOpen
      <3>1. \A q \in Requests \ {r} : Holds(q) => View(q) \in {"normal", "none"}
        BY <1>1, <2>1, <2>6 DEF View, Holds, CanContinue
      <3>2. GatePermit[r] = "normal" /\ GateMode = "closed"
        BY <1>2, <2>1, <2>6 DEF View, GateMode, Released
      <3>3. \A q \in Requests \ {r} :
              View(q)' = IF View(q) = "normal" THEN "stale" ELSE View(q)
        BY <2>3, <3>1 DEF View
      <3>4. GatePermit' =
              [q \in Requests |->
                 IF q = r THEN "none"
                 ELSE IF GatePermit[q] = "normal" THEN "stale" ELSE GatePermit[q]]
        BY <1>2, <3>3, PermitOf DEF GatePermit, View
      <3>5. GateMode' = "open"
        BY <1>5, <2>1, <2>6 DEF Moved, GateMode
      <3>6. QED
        BY <3>2, <3>4, <3>5 DEF Gate!Trip, Gate!Revoke
    <2>7. QED
      BY <1>1, <2>5, <2>6
  <1>6. QED
    BY <1>3, <1>4, <1>5 DEF Released

LEMMA RestedRefines ==
  ASSUME IInv, Rested
  PROVE  UNCHANGED Gate!vars
  <1>1. \A q \in Requests : View(q)' = View(q)
    BY DEF Rested, View, Holds, CanContinue
  <1>2. GatePermit' = GatePermit
    BY <1>1 DEF GatePermit, View
  <1>3. GateMode' = GateMode
    BY DEF Rested, GateMode
  <1>4. QED
    BY <1>2, <1>3 DEF Gate!vars

LEMMA StepRefines == IInv /\ [Next]_vars => [Gate!Next]_(Gate!vars)
  <1> SUFFICES ASSUME IInv, [Next]_vars PROVE [Gate!Next]_(Gate!vars)
    OBVIOUS
  <1>1. CASE UNCHANGED vars
    BY <1>1 DEF vars, Gate!vars, GateMode, GatePermit, Holds
  <1>2. CASE Next
    <2>1. CASE Rested
      BY <2>1, RestedRefines
    <2>2. ASSUME NEW r \in Requests, Admitted(r) \/ SentOut(r) \/ Released(r)
          PROVE  Gate!Next
      BY <2>2, AdmittedRefines, SentOutRefines, ReleasedRefines DEF Gate!Next
    <2>3. QED
      BY <1>2, <2>1, <2>2, StepShape
  <1>3. QED
    BY <1>1, <1>2

(* The breaker is a gate: normal traffic while closed, one probe at a      *)
(* time while probing, and nothing a request admitted before the last move *)
(* reports has any effect.                                                 *)
THEOREM Implementation == Spec => ImplementsGate
  BY InitRefines, StepRefines, InductiveInvariant, PTL
     DEF Spec, ImplementsGate, Gate!Spec
===========================================================================
