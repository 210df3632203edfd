-------------------------- MODULE CircuitBreaker --------------------------
(***************************************************************************)
(* One CircuitBreaker of internal/proxy shared by concurrent requests.     *)
(* Each request owns at most one probeGuard on it (proxy.go:1063-1105): it *)
(* acquires a lease, and later reports success, reports failure or         *)
(* cancels, exactly once.  Leases outlive the breaker state they were      *)
(* granted in: a request may report long after others have opened, probed  *)
(* and closed the breaker.  The generation in the lease is what keeps such *)
(* late reports out.                                                       *)
(*                                                                         *)
(* A guard is its lease while it is open and NoLease once it is closed:    *)
(* the methods of a closed guard do nothing, and so do those of the        *)
(* breaker on the zero lease.                                              *)
(***************************************************************************)
EXTENDS BreakerOps

CONSTANTS
  Requests,       \* the requests that use this provider (or route mode)
  MaxGeneration   \* bound of the model: no probe is granted beyond it

ASSUME CircuitBreakerAssumption == MaxGeneration \in Nat

VARIABLES
  breaker,        \* the shared CircuitBreaker
  lease           \* lease[r]: the lease of r's open guard, or NoLease

vars == <<breaker, lease>>

Init ==
  /\ breaker = NewBreaker
  /\ lease = [r \in Requests |-> NoLease]

Acquire(r) ==
  /\ lease[r] = NoLease
  /\ Grants(breaker)
  /\ breaker.state = "closed" \/ breaker.generation < MaxGeneration
  /\ breaker' = AfterAcquire(breaker)
  /\ lease' = [lease EXCEPT ![r] = LeaseGranted(breaker)]

\* Every way to close a guard: one critical section, then g.closed.
Close(r, cb) ==
  /\ lease[r] # NoLease
  /\ breaker' = cb
  /\ lease' = [lease EXCEPT ![r] = NoLease]

Success(r) == Close(r, SettleSuccess(breaker, lease[r]))
Failure(r) == Close(r, SettleFailure(breaker, lease[r]))
Cancel(r)  == Close(r, SettleCancel(breaker, lease[r]))

Tick ==
  /\ breaker.state = "open"
  /\ breaker' = Aged(breaker)
  /\ UNCHANGED lease

Settle(r) == Success(r) \/ Failure(r) \/ Cancel(r)

Next ==
  \/ \E r \in Requests : Acquire(r) \/ Success(r) \/ Failure(r) \/ Cancel(r)
  \/ Tick

Spec == Init /\ [][Next]_vars

\* Every exit of the forwarding loops settles its guards, so a request that
\* holds a lease eventually does too, provided its upstream call ends.
Fairness == \A r \in Requests : WF_vars(Settle(r))

FairSpec == Spec /\ Fairness

---------------------------------------------------------------------------
TypeOK ==
  /\ breaker \in Breaker
  /\ lease \in [Requests -> Lease]

\* r's lease can still move the breaker.
Holds(r) == CanContinue(breaker, lease[r])

\* No lease comes from the future, and a lease of the current generation is
\* of the kind the current state calls for.  (The strengthening the proofs
\* rest on.)
LeaseInv ==
  \A r \in Requests :
    /\ lease[r].generation <= breaker.generation
    /\ lease[r].generation = 0 => lease[r] = NoLease
    /\ lease[r].generation = breaker.generation => Holds(r)

\* A half-open breaker is in the hands of exactly one request: the probe is
\* never lost (which would deny the provider for good, since only its holder
\* can resolve it) and never duplicated, whatever late reports arrive.
ExclusiveProbe ==
  /\ breaker.state = "halfOpen" <=> breaker.pendingProbe
  /\ breaker.state = "halfOpen" =>
       \E r \in Requests : lease[r].halfOpen /\ \A q \in Requests : Holds(q) <=> q = r

\* The breaker trips at the threshold, neither before nor after: the count is
\* below it exactly while the breaker is closed, also after probes that
\* failed, were cancelled or succeeded in between.
ClosedBelowThreshold ==
  breaker.state = "closed" <=> breaker.consecutiveFailures < FailureThreshold

\* Outside the open state the cooldown has been served: a half-open breaker
\* was not entered early.
CooldownServed ==
  breaker.state # "open" => Cooled(breaker)

\* Once a lease has lost its effect it never regains it, even when the
\* breaker returns to the state the lease was granted in (no ABA).
RevokedForGood ==
  [][\A r \in Requests :
       (lease[r] # NoLease /\ lease'[r] = lease[r] /\ ~Holds(r)) => ~Holds(r)']_vars

\* A breaker that is not closed closes only in the step in which the holder
\* of its probe reports: a success of a request admitted before the trip
\* never re-opens the traffic to a failing provider.
ReclosedByProbe ==
  [][(breaker.state # "closed" /\ breaker'.state = "closed") =>
       \E r \in Requests : lease[r].halfOpen /\ Holds(r) /\ lease'[r] = NoLease]_vars

\* A probe that ends without a verdict gives the next request its chance at
\* once: cancelling costs no second cooldown.
CancelKeepsCooldown ==
  [][(breaker.state = "halfOpen" /\ breaker'.state = "open" /\
      breaker'.consecutiveFailures = breaker.consecutiveFailures)
        => Grants(breaker')]_vars

\* A probe is always resolved: the breaker does not stay half-open.
ProbeResolves == breaker.pendingProbe ~> ~breaker.pendingProbe

---------------------------------------------------------------------------
(* The abstract gate, and the view of the breaker that implements it.      *)

GateMode ==
  IF breaker.state = "halfOpen" THEN "probing" ELSE breaker.state

GatePermit ==
  [r \in Requests |->
     IF lease[r] = NoLease THEN "none"
     ELSE IF ~Holds(r) THEN "stale"
     ELSE IF lease[r].halfOpen THEN "probe" ELSE "normal"]

Gate == INSTANCE ProbeGate WITH mode <- GateMode, permit <- GatePermit

\* The breaker implements the abstract gate.
ImplementsGate == Gate!Spec
===========================================================================
