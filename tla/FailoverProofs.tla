--------------------------- MODULE FailoverProofs ---------------------------
(***************************************************************************)
(* Theorems about Failover, for any requests, chains, caps, thresholds and *)
(* cooldown.                                                               *)
(***************************************************************************)
EXTENDS Failover, FiniteSetTheorems, TLAPS

Labels == {"resolve", "target", "acquire", "prepare", "loop", "backoff",
           "send", "sending", "waiting", "answered", "opening", "streaming", "writing",
           "copying", "done"}
Outcomes == {"none", "reply", "error", "aborted"}

LocalVars == [pc : Labels, cands : Seq(Candidate), pos : Nat \ {0}, attempt : Nat,
              fail : Failure \cup {"none"}, total : Nat, calls : Nat,
              armed : BOOLEAN, spent : BOOLEAN]

\* Local variables in a state the loops can be in: at a candidate of the chain,
\* within its retries, and under the cap.
Placed(c) ==
  /\ c.pc = "resolve" => c.pos = 1 /\ c.attempt = 0
  /\ c.pc \notin {"resolve", "done"} =>
       c.pos \in DOMAIN c.cands /\ c.attempt \in 0 .. c.cands[c.pos].maxRetries

UnderCap(c) ==
  /\ c.calls <= c.total /\ c.total <= MaxTotalAttempts
  /\ c.pc \in {"backoff", "send"} => c.total < MaxTotalAttempts

CtlInv ==
  /\ ctl \in [Requests -> LocalVars]
  /\ \A r \in Requests : Placed(ctl[r]) /\ UnderCap(ctl[r])

SharedInv ==
  /\ prov \in [Providers -> Prov!Breaker] /\ route \in [Modes -> Route!Breaker]
  /\ target \in [Modes -> Nat]
  /\ provLease \in [Requests -> Prov!Lease] /\ routeLease \in [Requests -> Prov!Lease]
  /\ targetOpen \in [Requests -> BOOLEAN] /\ gone \in [Requests -> BOOLEAN]
  /\ answer \in [Requests -> Outcomes]

\* A request has leases only between the claim and the settlement.
InCall == {"sending", "waiting", "answered", "opening"}
Claimed == {"loop", "backoff", "send", "streaming", "writing"} \cup InCall
Holding == Claimed \cup {"prepare", "copying"}

LeaseInv ==
  \A r \in Requests :
    /\ provLease[r] # NoLease => pc(r) \in Holding
    /\ routeLease[r] # NoLease => pc(r) \in Claimed

ReplyInv == \A r \in Requests : answer[r] = "reply" => pc(r) \in {"copying", "streaming", "writing", "done"}

\* Of the leases L handed out to H, none is ahead of breaker b, those of its
\* generation are of the kind its state calls for, and a half-open breaker has
\* one of them.
Sound(b, H, L) ==
  /\ b.pendingProbe <=> b.state = "halfOpen"
  /\ \A r \in H : /\ L[r].generation <= b.generation
                  /\ L[r].generation = b.generation =>
                       b.state = IF L[r].halfOpen THEN "halfOpen" ELSE "closed"
  /\ b.state = "halfOpen" =>
       \E r \in H : /\ L[r].generation = b.generation
                    /\ \A q \in H : L[q].generation = b.generation => q = r

ProviderHolders(p) == {r \in Requests : provLease[r] # NoLease /\ Cand(r).provider = p}
RouteHolders(m) == {r \in Requests : routeLease[r] # NoLease /\ Cand(r).mode = m}

ProbeInv ==
  /\ \A p \in Providers : Sound(prov[p], ProviderHolders(p), provLease)
  /\ \A m \in Modes : Sound(route[m], RouteHolders(m), routeLease)

\* A candidate is blamed once its call has been sent, and never again once the
\* request has moved on.
FaultInv ==
  /\ IsFiniteSet(faults)
  /\ \A f \in faults :
       /\ f.request \in Requests /\ f.pos \in Nat
       /\ pc(f.request) # "done" => f.pos <= ctl[f.request].pos
       /\ pc(f.request) \notin (Holding \ {"prepare"}) \cup {"done"} =>
            f.pos < ctl[f.request].pos

\* The blame that has been settled: the candidate's lease is closed.
ProviderSettled(p) ==
  {f \in Seen(p, "upstream") :
     provLease[f.request] = NoLease \/ f.pos # ctl[f.request].pos}
RouteSettled(m) ==
  {f \in Seen(m, "conversion") :
     routeLease[f.request] = NoLease \/ f.pos # ctl[f.request].pos}

BlameInv ==
  /\ \A p \in Providers : prov[p].state = "closed" =>
       prov[p].consecutiveFailures <= Cardinality(ProviderSettled(p))
  /\ \A m \in Modes : route[m].state = "closed" =>
       route[m].consecutiveFailures <= Cardinality(RouteSettled(m))

IInv ==
  CtlInv /\ SharedInv /\ LeaseInv /\ ReplyInv /\ ProbeInv /\ FaultInv /\ BlameInv

---------------------------------------------------------------------------
(* The breakers.                                                           *)

Verdicts == {"success", "failure", "cancel"}

LEMMA Constants ==
  /\ ProviderThreshold \in Nat \ {0} /\ RouteThreshold \in Nat \ {0}
  /\ RecoveryTimeout \in Nat \ {0} /\ MaxTotalAttempts \in Nat
  BY FailoverAssumption

LEMMA NoLeaseType == NoLease \in Prov!Lease /\ NoLease.generation = 0
  BY DEF NoLease, Prov!NoLease, Prov!Lease

LEMMA SameLeases == Route!NoLease = NoLease /\ Route!Lease = Prov!Lease /\ Route!Breaker = Prov!Breaker
  BY DEF NoLease, Prov!NoLease, Route!NoLease, Prov!Lease, Route!Lease, Prov!Breaker, Route!Breaker,
         Prov!State, Route!State

\* What a step makes of a breaker, as far as its leases can tell: a new
\* generation begins with every change of state, and a half-open one has a
\* probe pending.
Still(b, a) == a.generation = b.generation /\ a.state = b.state /\ a.pendingProbe = b.pendingProbe
Fresh(b, a, s) ==
  /\ a.generation = b.generation + 1 /\ a.state = s
  /\ a.pendingProbe = (s = "halfOpen")

\* canContinue, the same for both kinds of breaker.
Can(b, l) ==
  /\ l.generation # 0 /\ l.generation = b.generation
  /\ IF l.halfOpen THEN b.state = "halfOpen" /\ b.pendingProbe ELSE b.state = "closed"

\* What closing a guard with lease l and verdict v may make of breaker b: only
\* a lease in force changes it, a probe's ends the half-open state, and only a
\* failure adds to the count of a closed one.
Settles(b, l, v, a) ==
  /\ a \in Prov!Breaker
  /\ ~Can(b, l) => a = b
  /\ Can(b, l) /\ l.halfOpen => Fresh(b, a, "closed") \/ Fresh(b, a, "open")
  /\ Can(b, l) /\ ~l.halfOpen => Still(b, a) \/ Fresh(b, a, "open")
  /\ a.state = "closed" =>
       \/ a.consecutiveFailures = 0
       \/ b.state = "closed" /\ a.consecutiveFailures = b.consecutiveFailures
       \/ /\ v = "failure" /\ Can(b, l) /\ b.state = "closed"
          /\ a.consecutiveFailures = b.consecutiveFailures + 1

LEMMA ProvSettles ==
  ASSUME NEW b \in Prov!Breaker, NEW l \in Prov!Lease, NEW v \in Verdicts
  PROVE  Settles(b, l, v, ProviderAfter(b, l, v))
  <1> DEFINE a == ProviderAfter(b, l, v)
             K == Prov!CanContinue(b, l)
  <1>1. K <=> Can(b, l)
    BY DEF Can, Prov!CanContinue
  <1>2. /\ b.consecutiveFailures \in Nat /\ b.generation \in Nat \ {0} /\ b.age \in 0 .. RecoveryTimeout
        /\ 0 \in 0 .. RecoveryTimeout /\ b.state \in {"closed", "open", "halfOpen"}
        /\ b.pendingProbe \in BOOLEAN /\ l.halfOpen \in BOOLEAN
    BY Constants DEF Prov!Breaker, Prov!State, Prov!Lease
  <1>3. ASSUME NEW s \in {"closed", "open"}, NEW n \in Nat, NEW age \in 0 .. RecoveryTimeout
        PROVE  /\ Prov!Move(b, s, n, age) \in Prov!Breaker /\ Fresh(b, Prov!Move(b, s, n, age), s)
               /\ Prov!Move(b, s, n, age).state = s /\ Prov!Move(b, s, n, age).consecutiveFailures = n
    BY <1>2 DEF Prov!Move, Prov!Breaker, Prov!State, Fresh
  <1>4. ASSUME NEW n \in Nat
        PROVE  LET c == [b EXCEPT !.consecutiveFailures = n]
               IN c \in Prov!Breaker /\ Still(b, c) /\ c.state = b.state /\ c.consecutiveFailures = n
    BY <1>2 DEF Prov!Breaker, Still
  <1>5. b.consecutiveFailures + 1 \in Nat
    BY <1>2
  <1>6. CASE v = "success"
    <2>1. a = Prov!SettleSuccess(b, l)
      BY <1>6 DEF ProviderAfter
    <2>2. CASE ~K
      BY <1>1, <1>2, <2>1, <2>2 DEF Settles, Prov!SettleSuccess
    <2>3. CASE K /\ l.halfOpen
      <3>1. a = Prov!Move(b, "closed", 0, b.age)
        BY <2>1, <2>3 DEF Prov!SettleSuccess
      <3> QED
        BY <1>1, <1>2, <1>3, <2>3, <3>1 DEF Settles
    <2>4. CASE K /\ ~l.halfOpen
      <3>1. a = [b EXCEPT !.consecutiveFailures = 0]
        BY <2>1, <2>4 DEF Prov!SettleSuccess
      <3> QED
        BY <1>1, <1>2, <1>4, <2>4, <3>1 DEF Settles
    <2> QED
      BY <2>2, <2>3, <2>4
  <1>7. CASE v = "failure"
    <2>1. a = Prov!SettleFailure(b, l)
      BY <1>7 DEF ProviderAfter
    <2>2. CASE ~K
      BY <1>1, <1>2, <2>1, <2>2 DEF Settles, Prov!SettleFailure
    <2>3. CASE K /\ Prov!Opens(b, l)
      <3>1. a = Prov!Move(b, "open", b.consecutiveFailures + 1, 0)
        BY <2>1, <2>3 DEF Prov!SettleFailure
      <3> QED
        BY <1>1, <1>2, <1>3, <1>5, <2>3, <3>1 DEF Settles
    <2>4. CASE K /\ ~Prov!Opens(b, l)
      <3>1. a = [b EXCEPT !.consecutiveFailures = b.consecutiveFailures + 1]
        BY <2>1, <2>4 DEF Prov!SettleFailure
      <3>2. ~l.halfOpen
        BY <2>4 DEF Prov!Opens
      <3>3. b.state = "closed"
        BY <1>1, <2>4, <3>2 DEF Can
      <3> QED
        BY <1>1, <1>2, <1>4, <1>5, <1>7, <2>4, <3>1, <3>2, <3>3 DEF Settles
    <2> QED
      BY <2>2, <2>3, <2>4
  <1>8. CASE v = "cancel"
    <2>1. a = Prov!SettleCancel(b, l)
      BY <1>8 DEF ProviderAfter
    <2>2. CASE K /\ l.halfOpen
      <3>1. a = Prov!Move(b, "open", b.consecutiveFailures, b.age)
        BY <2>1, <2>2 DEF Prov!SettleCancel
      <3> QED
        BY <1>1, <1>2, <1>3, <2>2, <3>1 DEF Settles
    <2>3. CASE ~(K /\ l.halfOpen)
      <3>1. a = b
        BY <2>1, <2>3 DEF Prov!SettleCancel
      <3> QED
        BY <1>1, <1>2, <2>3, <3>1 DEF Settles, Still
    <2> QED
      BY <2>2, <2>3
  <1> QED
    BY <1>6, <1>7, <1>8 DEF Verdicts

LEMMA RouteSettles ==
  ASSUME NEW b \in Prov!Breaker, NEW l \in Prov!Lease, NEW v \in Verdicts
  PROVE  Settles(b, l, v, RouteAfter(b, l, v))
  <1> DEFINE a == RouteAfter(b, l, v)
             K == Route!CanContinue(b, l)
  <1>1. K <=> Can(b, l)
    BY DEF Can, Route!CanContinue
  <1>2. /\ b.consecutiveFailures \in Nat /\ b.generation \in Nat \ {0} /\ b.age \in 0 .. RecoveryTimeout
        /\ 0 \in 0 .. RecoveryTimeout /\ b.state \in {"closed", "open", "halfOpen"}
        /\ b.pendingProbe \in BOOLEAN /\ l.halfOpen \in BOOLEAN
    BY Constants DEF Prov!Breaker, Prov!State, Prov!Lease
  <1>3. ASSUME NEW s \in {"closed", "open"}, NEW n \in Nat, NEW age \in 0 .. RecoveryTimeout
        PROVE  /\ Route!Move(b, s, n, age) \in Prov!Breaker /\ Fresh(b, Route!Move(b, s, n, age), s)
               /\ Route!Move(b, s, n, age).state = s /\ Route!Move(b, s, n, age).consecutiveFailures = n
    BY <1>2 DEF Route!Move, Prov!Breaker, Prov!State, Fresh
  <1>4. ASSUME NEW n \in Nat
        PROVE  LET c == [b EXCEPT !.consecutiveFailures = n]
               IN c \in Prov!Breaker /\ Still(b, c) /\ c.state = b.state /\ c.consecutiveFailures = n
    BY <1>2 DEF Prov!Breaker, Still
  <1>5. b.consecutiveFailures + 1 \in Nat
    BY <1>2
  <1>6. CASE v = "success"
    <2>1. a = Route!SettleSuccess(b, l)
      BY <1>6 DEF RouteAfter
    <2>2. CASE ~K
      BY <1>1, <1>2, <2>1, <2>2 DEF Settles, Route!SettleSuccess
    <2>3. CASE K /\ l.halfOpen
      <3>1. a = Route!Move(b, "closed", 0, b.age)
        BY <2>1, <2>3 DEF Route!SettleSuccess
      <3> QED
        BY <1>1, <1>2, <1>3, <2>3, <3>1 DEF Settles
    <2>4. CASE K /\ ~l.halfOpen
      <3>1. a = [b EXCEPT !.consecutiveFailures = 0]
        BY <2>1, <2>4 DEF Route!SettleSuccess
      <3> QED
        BY <1>1, <1>2, <1>4, <2>4, <3>1 DEF Settles
    <2> QED
      BY <2>2, <2>3, <2>4
  <1>7. CASE v = "failure"
    <2>1. a = Route!SettleFailure(b, l)
      BY <1>7 DEF RouteAfter
    <2>2. CASE ~K
      BY <1>1, <1>2, <2>1, <2>2 DEF Settles, Route!SettleFailure
    <2>3. CASE K /\ Route!Opens(b, l)
      <3>1. a = Route!Move(b, "open", b.consecutiveFailures + 1, 0)
        BY <2>1, <2>3 DEF Route!SettleFailure
      <3> QED
        BY <1>1, <1>2, <1>3, <1>5, <2>3, <3>1 DEF Settles
    <2>4. CASE K /\ ~Route!Opens(b, l)
      <3>1. a = [b EXCEPT !.consecutiveFailures = b.consecutiveFailures + 1]
        BY <2>1, <2>4 DEF Route!SettleFailure
      <3>2. ~l.halfOpen
        BY <2>4 DEF Route!Opens
      <3>3. b.state = "closed"
        BY <1>1, <2>4, <3>2 DEF Can
      <3> QED
        BY <1>1, <1>2, <1>4, <1>5, <1>7, <2>4, <3>1, <3>2, <3>3 DEF Settles
    <2> QED
      BY <2>2, <2>3, <2>4
  <1>8. CASE v = "cancel"
    <2>1. a = Route!SettleCancel(b, l)
      BY <1>8 DEF RouteAfter
    <2>2. CASE K /\ l.halfOpen
      <3>1. a = Route!Move(b, "open", b.consecutiveFailures, b.age)
        BY <2>1, <2>2 DEF Route!SettleCancel
      <3> QED
        BY <1>1, <1>2, <1>3, <2>2, <3>1 DEF Settles
    <2>3. CASE ~(K /\ l.halfOpen)
      <3>1. a = b
        BY <2>1, <2>3 DEF Route!SettleCancel
      <3> QED
        BY <1>1, <1>2, <2>3, <3>1 DEF Settles, Still
    <2> QED
      BY <2>2, <2>3
  <1> QED
    BY <1>6, <1>7, <1>8 DEF Verdicts

\* What Acquire makes of a breaker that grants, and the lease it hands out.
Granting(b, a, l) ==
  /\ a \in Prov!Breaker /\ l \in Prov!Lease /\ l.generation = a.generation
  /\ b.state = "halfOpen" => ~b.pendingProbe
  /\ \/ b.state = "closed" /\ a = b /\ l.halfOpen = FALSE
     \/ b.state # "closed" /\ Fresh(b, a, "halfOpen") /\ l.halfOpen = TRUE

LEMMA ProvGrant ==
  ASSUME NEW b \in Prov!Breaker, Prov!Grants(b)
  PROVE  Granting(b, Prov!AfterAcquire(b), Prov!LeaseGranted(b))
  <1>1. /\ b.consecutiveFailures \in Nat /\ b.generation \in Nat \ {0} /\ b.age \in 0 .. RecoveryTimeout
        /\ b.state \in {"closed", "open", "halfOpen"}
    BY DEF Prov!Breaker, Prov!State
  <1>2. b.state = "halfOpen" => ~b.pendingProbe
    BY DEF Prov!Grants
  <1>3. CASE b.state = "closed"
    <2>1. Prov!AfterAcquire(b) = b
      BY <1>3 DEF Prov!AfterAcquire
    <2>2. Prov!LeaseGranted(b) = [generation |-> b.generation, halfOpen |-> FALSE]
      BY <1>3, <2>1 DEF Prov!LeaseGranted
    <2> QED
      BY <1>1, <1>2, <1>3, <2>1, <2>2 DEF Granting, Prov!Lease
  <1>4. CASE b.state # "closed"
    <2> DEFINE a == Prov!Move(b, "halfOpen", b.consecutiveFailures, b.age)
    <2>1. Prov!AfterAcquire(b) = a
      BY <1>4 DEF Prov!AfterAcquire
    <2>2. a \in Prov!Breaker /\ Fresh(b, a, "halfOpen") /\ a.generation = b.generation + 1
      BY <1>1 DEF Prov!Move, Prov!Breaker, Prov!State, Fresh
    <2>3. Prov!LeaseGranted(b) = [generation |-> a.generation, halfOpen |-> TRUE]
      BY <1>4, <2>1 DEF Prov!LeaseGranted
    <2> HIDE DEF a
    <2> QED
      BY <1>1, <1>2, <1>4, <2>1, <2>2, <2>3 DEF Granting, Prov!Lease
  <1> QED
    BY <1>3, <1>4

LEMMA ProvAged ==
  ASSUME NEW b \in Prov!Breaker
  PROVE  /\ Prov!Aged(b) \in Prov!Breaker /\ Still(b, Prov!Aged(b))
         /\ Prov!Aged(b).consecutiveFailures = b.consecutiveFailures
  <1>1. CASE b.state = "open" /\ ~Prov!Cooled(b)
    <2>1. b.age + 1 \in 0 .. RecoveryTimeout
      BY <1>1, Constants DEF Prov!Cooled, Prov!Breaker
    <2> QED
      BY <1>1, <2>1 DEF Prov!Aged, Prov!Breaker, Still
  <1>2. CASE ~(b.state = "open" /\ ~Prov!Cooled(b))
    BY <1>2 DEF Prov!Aged, Still
  <1> QED
    BY <1>1, <1>2

LEMMA RouteGrant ==
  ASSUME NEW b \in Prov!Breaker, Route!Grants(b)
  PROVE  Granting(b, Route!AfterAcquire(b), Route!LeaseGranted(b))
  <1>1. /\ b.consecutiveFailures \in Nat /\ b.generation \in Nat \ {0} /\ b.age \in 0 .. RecoveryTimeout
        /\ b.state \in {"closed", "open", "halfOpen"}
    BY DEF Prov!Breaker, Prov!State
  <1>2. b.state = "halfOpen" => ~b.pendingProbe
    BY DEF Route!Grants
  <1>3. CASE b.state = "closed"
    <2>1. Route!AfterAcquire(b) = b
      BY <1>3 DEF Route!AfterAcquire
    <2>2. Route!LeaseGranted(b) = [generation |-> b.generation, halfOpen |-> FALSE]
      BY <1>3, <2>1 DEF Route!LeaseGranted
    <2> QED
      BY <1>1, <1>2, <1>3, <2>1, <2>2 DEF Granting, Prov!Lease
  <1>4. CASE b.state # "closed"
    <2> DEFINE a == Route!Move(b, "halfOpen", b.consecutiveFailures, b.age)
    <2>1. Route!AfterAcquire(b) = a
      BY <1>4 DEF Route!AfterAcquire
    <2>2. a \in Prov!Breaker /\ Fresh(b, a, "halfOpen") /\ a.generation = b.generation + 1
      BY <1>1 DEF Route!Move, Prov!Breaker, Prov!State, Fresh
    <2>3. Route!LeaseGranted(b) = [generation |-> a.generation, halfOpen |-> TRUE]
      BY <1>4, <2>1 DEF Route!LeaseGranted
    <2> HIDE DEF a
    <2> QED
      BY <1>1, <1>2, <1>4, <2>1, <2>2, <2>3 DEF Granting, Prov!Lease
  <1> QED
    BY <1>3, <1>4

LEMMA RouteAged ==
  ASSUME NEW b \in Prov!Breaker
  PROVE  /\ Route!Aged(b) \in Prov!Breaker /\ Still(b, Route!Aged(b))
         /\ Route!Aged(b).consecutiveFailures = b.consecutiveFailures
  <1>1. CASE b.state = "open" /\ ~Route!Cooled(b)
    <2>1. b.age + 1 \in 0 .. RecoveryTimeout
      BY <1>1, Constants DEF Route!Cooled, Prov!Breaker
    <2> QED
      BY <1>1, <2>1 DEF Route!Aged, Prov!Breaker, Still
  <1>2. CASE ~(b.state = "open" /\ ~Route!Cooled(b))
    BY <1>2 DEF Route!Aged, Still
  <1> QED
    BY <1>1, <1>2

---------------------------------------------------------------------------
(* A breaker and its leases.                                               *)

LEMMA SoundSettle ==
  ASSUME NEW b \in Prov!Breaker, NEW H \in SUBSET Requests, NEW L \in [Requests -> Prov!Lease],
         Sound(b, H, L), NEW r \in Requests, r \in H \/ L[r].generation = 0,
         NEW v, NEW a, Settles(b, L[r], v, a),
         NEW L2, \A q \in H \ {r} : L2[q] = L[q]
  PROVE  Sound(a, H \ {r}, L2)
  <1>1. /\ b.generation \in Nat \ {0} /\ b.pendingProbe \in BOOLEAN
        /\ \A q \in Requests : L[q].generation \in Nat /\ L[q].halfOpen \in BOOLEAN
    BY DEF Prov!Breaker, Prov!Lease
  <1>2. CASE ~Can(b, L[r])
    <2>1. a = b
      BY <1>2 DEF Settles
    <2>2. r \in H => L[r].generation # b.generation
      BY <1>1, <1>2 DEF Can, Sound
    <2>3. b.state = "halfOpen" =>
            \E q \in H \ {r} : /\ L[q].generation = b.generation
                             /\ \A x \in H \ {r} : L[x].generation = b.generation => x = q
      BY <2>2 DEF Sound
    <2> QED
      BY <2>1, <2>3 DEF Sound
  <1>3. CASE Can(b, L[r]) /\ (Fresh(b, a, "closed") \/ Fresh(b, a, "open"))
    <2>1. a.generation = b.generation + 1 /\ a.state # "halfOpen" /\ a.pendingProbe = FALSE
      BY <1>3 DEF Fresh
    <2>2. \A q \in H \ {r} : L2[q].generation < a.generation
      BY <1>1, <2>1 DEF Sound
    <2> QED
      BY <1>1, <2>1, <2>2 DEF Sound, Settles, Prov!Breaker
  <1>4. CASE Can(b, L[r]) /\ ~L[r].halfOpen /\ Still(b, a)
    <2>1. b.state = "closed"
      BY <1>4 DEF Can
    <2> QED
      BY <1>4, <2>1 DEF Sound, Still
  <1> QED
    BY <1>1, <1>2, <1>3, <1>4 DEF Settles

LEMMA SoundGrant ==
  ASSUME NEW b \in Prov!Breaker, NEW H \in SUBSET Requests, NEW L \in [Requests -> Prov!Lease],
         Sound(b, H, L), NEW r \in Requests, r \notin H,
         NEW a, NEW l, Granting(b, a, l),
         NEW L2, L2[r] = l, \A q \in H : L2[q] = L[q]
  PROVE  Sound(a, H \cup {r}, L2)
  <1>1. /\ b.generation \in Nat \ {0} /\ b.pendingProbe \in BOOLEAN
        /\ \A q \in Requests : L[q].generation \in Nat /\ L[q].halfOpen \in BOOLEAN
    BY DEF Prov!Breaker, Prov!Lease
  <1>2. CASE b.state = "closed" /\ a = b /\ l.halfOpen = FALSE
    BY <1>1, <1>2 DEF Sound, Granting
  <1>3. CASE Fresh(b, a, "halfOpen") /\ l.halfOpen = TRUE
    <2>1. /\ a.generation = b.generation + 1 /\ a.state = "halfOpen" /\ a.pendingProbe = TRUE
          /\ l.generation = a.generation
      BY <1>3 DEF Fresh, Granting
    <2>2. \A q \in H : L2[q].generation < a.generation
      BY <1>1, <2>1 DEF Sound
    <2>3. \A q \in H \cup {r} : /\ L2[q].generation <= a.generation
                              /\ L2[q].generation = a.generation => q = r /\ L2[q].halfOpen = TRUE
      BY <1>1, <1>3, <2>1, <2>2 DEF Granting, Prov!Lease
    <2> QED
      BY <1>1, <2>1, <2>3 DEF Sound
  <1> QED
    BY <1>2, <1>3 DEF Granting

LEMMA SoundStill ==
  ASSUME NEW b, NEW a, NEW H, NEW L, NEW L2, Sound(b, H, L), Still(b, a),
         \A q \in H : L2[q] = L[q]
  PROVE  Sound(a, H, L2)
  BY DEF Sound, Still

---------------------------------------------------------------------------
(* Both sides of a step.  What it does to the providers' breakers         *)
(* and leases, and what it does to the route modes'.                       *)

CandKept(q) == ctl'[q].cands = ctl[q].cands /\ ctl'[q].pos = ctl[q].pos

ProvIdle == UNCHANGED <<prov, provLease>> /\ \A q \in Requests : provLease[q] # NoLease => CandKept(q)

ProvClosed(r, v) ==
  /\ pc(r) \notin {"resolve", "done"} /\ SettleProvider(r, v)
  /\ \A q \in Requests \ {r} : provLease[q] # NoLease => CandKept(q)

ProvGranted(r) ==
  /\ pc(r) = "acquire" /\ Prov!Grants(prov[Cand(r).provider])
  /\ prov' = [prov EXCEPT ![Cand(r).provider] = Prov!AfterAcquire(prov[Cand(r).provider])]
  /\ provLease' = [provLease EXCEPT ![r] = Prov!LeaseGranted(prov[Cand(r).provider])]
  /\ \A q \in Requests : CandKept(q)

ProvCools(p) ==
  /\ prov' = [prov EXCEPT ![p] = Prov!Aged(@)] /\ UNCHANGED provLease
  /\ \A q \in Requests : CandKept(q)

ProvSound ==
  /\ prov \in [Providers -> Prov!Breaker] /\ provLease \in [Requests -> Prov!Lease]
  /\ \A p \in Providers : Sound(prov[p], ProviderHolders(p), provLease)
  /\ \A p \in Providers : prov[p].state = "closed" =>
                       prov[p].consecutiveFailures <= Cardinality(ProviderSettled(p))

LEMMA ProvFromIInv == IInv => ProvSound
  BY SameLeases DEF IInv, SharedInv, ProbeInv, BlameInv, ProvSound

\* The count of a closed breaker stays covered when the blame that has been
\* settled only grows, and when a step adds to both.
LEMMA ProvBlame ==
  ASSUME ProvSound, NEW p \in Providers, NEW a, a.consecutiveFailures \in Nat,
         faults \subseteq faults', IsFiniteSet(faults'), ProviderSettled(p) \subseteq ProviderSettled(p)',
         a.state = "closed" =>
           \/ a.consecutiveFailures = 0
           \/ prov[p].state = "closed" /\ a.consecutiveFailures = prov[p].consecutiveFailures
           \/ /\ prov[p].state = "closed"
              /\ a.consecutiveFailures = prov[p].consecutiveFailures + 1
              /\ \E f \in ProviderSettled(p)' : f \notin ProviderSettled(p)
  PROVE  a.state = "closed" => a.consecutiveFailures <= Cardinality(ProviderSettled(p)')
  <1> DEFINE S == ProviderSettled(p)
  <1>1. IsFiniteSet(S') /\ IsFiniteSet(S)
    <2>1. S' \subseteq faults' /\ S \subseteq faults'
      BY DEF ProviderSettled, Seen
    <2> QED
      BY <2>1, FS_Subset
  <1> HIDE DEF S
  <1>2. Cardinality(S) \in Nat /\ Cardinality(S') \in Nat /\ Cardinality(S) <= Cardinality(S')
    <2>1. S \subseteq S'
      BY DEF S
    <2> QED
      BY <1>1, <2>1, FS_Subset, FS_CardinalityType
  <1>3. ASSUME NEW f \in S', f \notin S PROVE Cardinality(S) + 1 <= Cardinality(S')
    <2>1. S \cup {f} \subseteq S'
      BY <1>3 DEF S
    <2>2. Cardinality(S \cup {f}) = Cardinality(S) + 1
      BY <1>1, <1>3, FS_AddElement
    <2> QED
      BY <1>1, <2>1, <2>2, FS_Subset
  <1>4. prov[p].consecutiveFailures \in Nat
    BY DEF ProvSound, Prov!Breaker
  <1>5. prov[p].state = "closed" => prov[p].consecutiveFailures <= Cardinality(S)
    BY DEF ProvSound, S
  <1>6. SUFFICES ASSUME a.state = "closed" PROVE a.consecutiveFailures <= Cardinality(S')
    BY DEF S
  <1>7. CASE a.consecutiveFailures = 0
    BY <1>2, <1>7
  <1>8. CASE prov[p].state = "closed" /\ a.consecutiveFailures = prov[p].consecutiveFailures
    BY <1>2, <1>4, <1>5, <1>8
  <1>9. CASE /\ prov[p].state = "closed"
             /\ a.consecutiveFailures = prov[p].consecutiveFailures + 1
             /\ \E f \in S' : f \notin S
    BY <1>2, <1>3, <1>4, <1>5, <1>9
  <1> QED
    BY <1>6, <1>7, <1>8, <1>9 DEF S

LEMMA ProvIdleKeeps ==
  ASSUME ProvSound, ProvIdle, faults \subseteq faults', IsFiniteSet(faults'),
         \A f \in faults : f.request \in Requests
  PROVE  ProvSound'
  <1>1. ASSUME NEW p \in Providers
        PROVE  /\ Sound(prov'[p], ProviderHolders(p)', provLease')
               /\ prov'[p].state = "closed" =>
                    prov'[p].consecutiveFailures <= Cardinality(ProviderSettled(p)')
    <2>1. ProviderHolders(p)' = ProviderHolders(p)
      BY DEF ProvIdle, ProviderHolders, Cand, CandKept
    <2>2. Sound(prov'[p], ProviderHolders(p)', provLease')
      <3>1. Sound(prov[p], ProviderHolders(p), provLease)
        BY DEF ProvSound
      <3>2. prov'[p] = prov[p] /\ provLease' = provLease
        BY DEF ProvIdle
      <3> QED
        BY <2>1, <3>1, <3>2
    <2>3. ProviderSettled(p) \subseteq ProviderSettled(p)'
      BY DEF ProvIdle, ProviderSettled, Seen, CandKept
    <2>4. prov'[p].consecutiveFailures \in Nat /\ prov'[p] = prov[p]
      BY DEF ProvIdle, ProvSound, Prov!Breaker
    <2> QED
      BY <2>2, <2>3, <2>4, ProvBlame
  <1> QED
    BY <1>1 DEF ProvSound, ProvIdle

LEMMA ProvClosedKeeps ==
  ASSUME ProvSound, NEW r \in Requests, Cand(r).provider \in Providers, NEW v \in Verdicts, ProvClosed(r, v),
         faults \subseteq faults', IsFiniteSet(faults'), \A f \in faults : f.request \in Requests,
         v = "failure" => Fault(r, Cand(r).provider, "upstream") \in faults'
  PROVE  ProvSound'
  <1> DEFINE own == Cand(r).provider
  <1>1. /\ prov' = [prov EXCEPT ![own] = ProviderAfter(prov[own], provLease[r], v)]
        /\ provLease' = [provLease EXCEPT ![r] = NoLease]
    BY DEF ProvClosed, SettleProvider
  <1>2. Settles(prov[own], provLease[r], v, prov'[own])
    BY <1>1, ProvSettles DEF ProvSound
  <1>3. provLease' \in [Requests -> Prov!Lease] /\ provLease'[r] = NoLease
    BY <1>1, NoLeaseType DEF ProvSound
  <1>4. prov' \in [Providers -> Prov!Breaker]
    BY <1>1, <1>2 DEF ProvSound, Settles
  <1>5. ASSUME NEW p \in Providers
        PROVE  /\ Sound(prov'[p], ProviderHolders(p)', provLease')
               /\ prov'[p].state = "closed" =>
                    prov'[p].consecutiveFailures <= Cardinality(ProviderSettled(p)')
    <2> DEFINE H == ProviderHolders(p)
    <2>1. H' = H \ {r} /\ H \subseteq Requests /\ \A q \in H \ {r} : provLease'[q] = provLease[q]
      BY <1>1, <1>3 DEF ProvClosed, ProviderHolders, Cand, CandKept, ProvSound
    <2>2. Sound(prov'[p], H', provLease')
      <3>1. CASE p = own
        <4>1. r \in H \/ provLease[r].generation = 0
          BY <3>1, NoLeaseType DEF ProviderHolders
        <4>2. /\ prov[p] \in Prov!Breaker /\ provLease \in [Requests -> Prov!Lease]
              /\ Sound(prov[p], H, provLease) /\ H \in SUBSET Requests
          BY <2>1 DEF ProvSound
        <4>3. Settles(prov[p], provLease[r], v, prov'[p])
          BY <1>2, <3>1
        <4> HIDE DEF H
        <4>4. Sound(prov'[p], H \ {r}, provLease')
          BY <2>1, <4>1, <4>2, <4>3, SoundSettle
        <4> QED
          BY <2>1, <4>4
      <3>2. CASE p # own
        <4>1. prov'[p] = prov[p] /\ r \notin H
          BY <1>1, <3>2 DEF ProviderHolders, ProvSound
        <4>2. Sound(prov[p], H, provLease) /\ Still(prov[p], prov'[p])
          BY <4>1 DEF ProvSound, Still
        <4>3. H \ {r} = H
          BY <4>1
        <4> HIDE DEF H
        <4> QED
          BY <2>1, <4>2, <4>3, SoundStill
      <3> QED
        BY <3>1, <3>2
    <2>3. ProviderSettled(p) \subseteq ProviderSettled(p)'
      BY <1>1, <1>3 DEF ProvClosed, ProviderSettled, Seen, CandKept, ProvSound
    <2>4. prov'[p].consecutiveFailures \in Nat
      BY <1>4 DEF Prov!Breaker
    <2>5. CASE p # own
      <3>1. prov'[p] = prov[p]
        BY <1>1, <2>5 DEF ProvSound
      <3> QED
        BY <2>2, <2>3, <2>4, <3>1, ProvBlame
    <2>6. CASE p = own
      <3>1. ASSUME v = "failure", Can(prov[own], provLease[r])
            PROVE  \E f \in ProviderSettled(p)' : f \notin ProviderSettled(p)
        <4> DEFINE f == Fault(r, own, "upstream")
        <4>1. f \in ProviderSettled(p)'
          BY <1>3, <2>6, <3>1 DEF ProviderSettled, Seen, Fault
        <4>2. provLease[r] # NoLease
          BY <3>1, NoLeaseType DEF Can
        <4>3. f \notin ProviderSettled(p)
          BY <4>2 DEF ProviderSettled, Fault
        <4> QED
          BY <4>1, <4>3
      <3>2. prov'[p].state = "closed" =>
              \/ prov'[p].consecutiveFailures = 0
              \/ prov[p].state = "closed" /\ prov'[p].consecutiveFailures = prov[p].consecutiveFailures
              \/ /\ prov[p].state = "closed"
                 /\ prov'[p].consecutiveFailures = prov[p].consecutiveFailures + 1
                 /\ \E f \in ProviderSettled(p)' : f \notin ProviderSettled(p)
        BY <1>2, <2>6, <3>1 DEF Settles
      <3> QED
        BY <2>2, <2>3, <2>4, <3>2, ProvBlame
    <2> QED
      BY <2>5, <2>6
  <1> QED
    BY <1>3, <1>4, <1>5 DEF ProvSound

LEMMA ProvGrantedKeeps ==
  ASSUME ProvSound, NEW r \in Requests, Cand(r).provider \in Providers, ProvGranted(r), provLease[r] = NoLease,
         UNCHANGED faults, IsFiniteSet(faults),
         \A f \in faults : f.request \in Requests /\ (f.request = r => f.pos # ctl[r].pos)
  PROVE  ProvSound'
  <1> DEFINE own == Cand(r).provider
  <1>1. /\ prov' = [prov EXCEPT ![own] = Prov!AfterAcquire(prov[own])]
        /\ provLease' = [provLease EXCEPT ![r] = Prov!LeaseGranted(prov[own])]
        /\ \A q \in Requests : CandKept(q)
    BY DEF ProvGranted
  <1>2. Granting(prov[own], prov'[own], provLease'[r])
    BY <1>1, ProvGrant DEF ProvSound, ProvGranted
  <1>3. prov' \in [Providers -> Prov!Breaker] /\ provLease' \in [Requests -> Prov!Lease]
    <2>1. Prov!AfterAcquire(prov[own]) \in Prov!Breaker /\ Prov!LeaseGranted(prov[own]) \in Prov!Lease
      BY ProvGrant DEF ProvSound, ProvGranted, Granting
    <2> QED
      BY <1>1, <2>1 DEF ProvSound
  <1>4. provLease'[r] # NoLease
    BY <1>2, <1>3, NoLeaseType DEF Granting, Prov!Breaker
  <1>5. ASSUME NEW p \in Providers
        PROVE  /\ Sound(prov'[p], ProviderHolders(p)', provLease')
               /\ prov'[p].state = "closed" =>
                    prov'[p].consecutiveFailures <= Cardinality(ProviderSettled(p)')
    <2> DEFINE H == ProviderHolders(p)
    <2>1. /\ H' = IF p = own THEN H \cup {r} ELSE H
          /\ r \notin H /\ H \subseteq Requests /\ \A q \in H : provLease'[q] = provLease[q]
      <3>1. r \notin H /\ H \subseteq Requests
        BY DEF ProviderHolders
      <3>2. \A q \in Requests \ {r} : provLease'[q] = provLease[q]
        BY <1>1 DEF ProvSound
      <3>3. \A q \in Requests : Cand(q)' = Cand(q)
        BY <1>1 DEF Cand, CandKept
      <3>4. \A q \in Requests \ {r} : q \in H' <=> q \in H
        BY <3>2, <3>3 DEF ProviderHolders
      <3>5. r \in H' <=> p = own
        BY <1>4, <3>3 DEF ProviderHolders
      <3>6. H' \subseteq Requests
        BY DEF ProviderHolders
      <3> HIDE DEF H, own
      <3> QED
        BY <3>1, <3>2, <3>4, <3>5, <3>6
    <2>2. Sound(prov'[p], H', provLease')
      <3>1. CASE p = own
        <4>1. H' = H \cup {r}
          BY <2>1, <3>1
        <4> HIDE DEF H, own
        <4> QED
          BY <1>2, <2>1, <3>1, <4>1, SoundGrant DEF ProvSound, H
      <3>2. CASE p # own
        <4>1. prov'[p] = prov[p] /\ H' = H
          BY <1>1, <2>1, <3>2 DEF ProvSound
        <4>2. Sound(prov[p], H, provLease) /\ Still(prov[p], prov'[p])
          BY <4>1 DEF ProvSound, Still
        <4> HIDE DEF H
        <4> QED
          BY <2>1, <4>1, <4>2, SoundStill
      <3> QED
        BY <3>1, <3>2
    <2>3. ProviderSettled(p) \subseteq ProviderSettled(p)'
      BY <1>1, <1>3 DEF ProviderSettled, Seen, CandKept, ProvSound
    <2>4. prov'[p].consecutiveFailures \in Nat
      BY <1>3 DEF Prov!Breaker
    <2>5. prov'[p].state = "closed" => prov'[p] = prov[p]
      BY <1>1, <1>2 DEF Granting, Fresh, ProvSound
    <2> QED
      BY <2>2, <2>3, <2>4, <2>5, ProvBlame
  <1> QED
    BY <1>3, <1>5 DEF ProvSound

LEMMA ProvCoolsKeeps ==
  ASSUME ProvSound, NEW p \in Providers, ProvCools(p), UNCHANGED faults, IsFiniteSet(faults),
         \A f \in faults : f.request \in Requests
  PROVE  ProvSound'
  <1>1. /\ prov' \in [Providers -> Prov!Breaker] /\ provLease' = provLease
        /\ \A x \in Providers : /\ Still(prov[x], prov'[x])
                            /\ prov'[x].consecutiveFailures = prov[x].consecutiveFailures
    BY ProvAged DEF ProvCools, ProvSound, Still
  <1>2. ASSUME NEW x \in Providers
        PROVE  /\ Sound(prov'[x], ProviderHolders(x)', provLease')
               /\ prov'[x].state = "closed" =>
                    prov'[x].consecutiveFailures <= Cardinality(ProviderSettled(x)')
    <2>1. ProviderHolders(x)' = ProviderHolders(x)
      BY DEF ProvCools, ProviderHolders, Cand, CandKept
    <2>2. Sound(prov'[x], ProviderHolders(x)', provLease')
      <3>1. Sound(prov[x], ProviderHolders(x), provLease)
        BY DEF ProvSound
      <3> QED
        BY <1>1, <2>1, <3>1, SoundStill
    <2>3. ProviderSettled(x) \subseteq ProviderSettled(x)'
      BY DEF ProvCools, ProviderSettled, Seen, CandKept
    <2>4. prov'[x].consecutiveFailures \in Nat /\ prov'[x].state = prov[x].state
      BY <1>1 DEF Prov!Breaker, Still
    <2> QED
      BY <1>1, <2>2, <2>3, <2>4, ProvBlame
  <1> QED
    BY <1>1, <1>2 DEF ProvSound

RouteIdle == UNCHANGED <<route, routeLease>> /\ \A q \in Requests : routeLease[q] # NoLease => CandKept(q)

RouteClosed(r, v) ==
  /\ pc(r) \notin {"resolve", "done"} /\ SettleRoute(r, v)
  /\ \A q \in Requests \ {r} : routeLease[q] # NoLease => CandKept(q)

RouteGranted(r) ==
  /\ pc(r) = "prepare" /\ Route!Grants(route[Cand(r).mode])
  /\ route' = [route EXCEPT ![Cand(r).mode] = Route!AfterAcquire(route[Cand(r).mode])]
  /\ routeLease' = [routeLease EXCEPT ![r] = Route!LeaseGranted(route[Cand(r).mode])]
  /\ \A q \in Requests : CandKept(q)

RouteCools(m) ==
  /\ route' = [route EXCEPT ![m] = Route!Aged(@)] /\ UNCHANGED routeLease
  /\ \A q \in Requests : CandKept(q)

RouteSound ==
  /\ route \in [Modes -> Prov!Breaker] /\ routeLease \in [Requests -> Prov!Lease]
  /\ \A m \in Modes : Sound(route[m], RouteHolders(m), routeLease)
  /\ \A m \in Modes : route[m].state = "closed" =>
                       route[m].consecutiveFailures <= Cardinality(RouteSettled(m))

LEMMA RouteFromIInv == IInv => RouteSound
  BY SameLeases DEF IInv, SharedInv, ProbeInv, BlameInv, RouteSound

\* The count of a closed breaker stays covered when the blame that has been
\* settled only grows, and when a step adds to both.
LEMMA RouteBlame ==
  ASSUME RouteSound, NEW m \in Modes, NEW a, a.consecutiveFailures \in Nat,
         faults \subseteq faults', IsFiniteSet(faults'), RouteSettled(m) \subseteq RouteSettled(m)',
         a.state = "closed" =>
           \/ a.consecutiveFailures = 0
           \/ route[m].state = "closed" /\ a.consecutiveFailures = route[m].consecutiveFailures
           \/ /\ route[m].state = "closed"
              /\ a.consecutiveFailures = route[m].consecutiveFailures + 1
              /\ \E f \in RouteSettled(m)' : f \notin RouteSettled(m)
  PROVE  a.state = "closed" => a.consecutiveFailures <= Cardinality(RouteSettled(m)')
  <1> DEFINE S == RouteSettled(m)
  <1>1. IsFiniteSet(S') /\ IsFiniteSet(S)
    <2>1. S' \subseteq faults' /\ S \subseteq faults'
      BY DEF RouteSettled, Seen
    <2> QED
      BY <2>1, FS_Subset
  <1> HIDE DEF S
  <1>2. Cardinality(S) \in Nat /\ Cardinality(S') \in Nat /\ Cardinality(S) <= Cardinality(S')
    <2>1. S \subseteq S'
      BY DEF S
    <2> QED
      BY <1>1, <2>1, FS_Subset, FS_CardinalityType
  <1>3. ASSUME NEW f \in S', f \notin S PROVE Cardinality(S) + 1 <= Cardinality(S')
    <2>1. S \cup {f} \subseteq S'
      BY <1>3 DEF S
    <2>2. Cardinality(S \cup {f}) = Cardinality(S) + 1
      BY <1>1, <1>3, FS_AddElement
    <2> QED
      BY <1>1, <2>1, <2>2, FS_Subset
  <1>4. route[m].consecutiveFailures \in Nat
    BY DEF RouteSound, Prov!Breaker
  <1>5. route[m].state = "closed" => route[m].consecutiveFailures <= Cardinality(S)
    BY DEF RouteSound, S
  <1>6. SUFFICES ASSUME a.state = "closed" PROVE a.consecutiveFailures <= Cardinality(S')
    BY DEF S
  <1>7. CASE a.consecutiveFailures = 0
    BY <1>2, <1>7
  <1>8. CASE route[m].state = "closed" /\ a.consecutiveFailures = route[m].consecutiveFailures
    BY <1>2, <1>4, <1>5, <1>8
  <1>9. CASE /\ route[m].state = "closed"
             /\ a.consecutiveFailures = route[m].consecutiveFailures + 1
             /\ \E f \in S' : f \notin S
    BY <1>2, <1>3, <1>4, <1>5, <1>9
  <1> QED
    BY <1>6, <1>7, <1>8, <1>9 DEF S

LEMMA RouteIdleKeeps ==
  ASSUME RouteSound, RouteIdle, faults \subseteq faults', IsFiniteSet(faults'),
         \A f \in faults : f.request \in Requests
  PROVE  RouteSound'
  <1>1. ASSUME NEW m \in Modes
        PROVE  /\ Sound(route'[m], RouteHolders(m)', routeLease')
               /\ route'[m].state = "closed" =>
                    route'[m].consecutiveFailures <= Cardinality(RouteSettled(m)')
    <2>1. RouteHolders(m)' = RouteHolders(m)
      BY DEF RouteIdle, RouteHolders, Cand, CandKept
    <2>2. Sound(route'[m], RouteHolders(m)', routeLease')
      <3>1. Sound(route[m], RouteHolders(m), routeLease)
        BY DEF RouteSound
      <3>2. route'[m] = route[m] /\ routeLease' = routeLease
        BY DEF RouteIdle
      <3> QED
        BY <2>1, <3>1, <3>2
    <2>3. RouteSettled(m) \subseteq RouteSettled(m)'
      BY DEF RouteIdle, RouteSettled, Seen, CandKept
    <2>4. route'[m].consecutiveFailures \in Nat /\ route'[m] = route[m]
      BY DEF RouteIdle, RouteSound, Prov!Breaker
    <2> QED
      BY <2>2, <2>3, <2>4, RouteBlame
  <1> QED
    BY <1>1 DEF RouteSound, RouteIdle

LEMMA RouteClosedKeeps ==
  ASSUME RouteSound, NEW r \in Requests, Cand(r).mode \in Modes, NEW v \in Verdicts, RouteClosed(r, v),
         faults \subseteq faults', IsFiniteSet(faults'), \A f \in faults : f.request \in Requests,
         v = "failure" => Fault(r, Cand(r).mode, "conversion") \in faults'
  PROVE  RouteSound'
  <1> DEFINE own == Cand(r).mode
  <1>1. /\ route' = [route EXCEPT ![own] = RouteAfter(route[own], routeLease[r], v)]
        /\ routeLease' = [routeLease EXCEPT ![r] = NoLease]
    BY DEF RouteClosed, SettleRoute
  <1>2. Settles(route[own], routeLease[r], v, route'[own])
    BY <1>1, RouteSettles DEF RouteSound
  <1>3. routeLease' \in [Requests -> Prov!Lease] /\ routeLease'[r] = NoLease
    BY <1>1, NoLeaseType DEF RouteSound
  <1>4. route' \in [Modes -> Prov!Breaker]
    BY <1>1, <1>2 DEF RouteSound, Settles
  <1>5. ASSUME NEW m \in Modes
        PROVE  /\ Sound(route'[m], RouteHolders(m)', routeLease')
               /\ route'[m].state = "closed" =>
                    route'[m].consecutiveFailures <= Cardinality(RouteSettled(m)')
    <2> DEFINE H == RouteHolders(m)
    <2>1. H' = H \ {r} /\ H \subseteq Requests /\ \A q \in H \ {r} : routeLease'[q] = routeLease[q]
      BY <1>1, <1>3 DEF RouteClosed, RouteHolders, Cand, CandKept, RouteSound
    <2>2. Sound(route'[m], H', routeLease')
      <3>1. CASE m = own
        <4>1. r \in H \/ routeLease[r].generation = 0
          BY <3>1, NoLeaseType DEF RouteHolders
        <4>2. /\ route[m] \in Prov!Breaker /\ routeLease \in [Requests -> Prov!Lease]
              /\ Sound(route[m], H, routeLease) /\ H \in SUBSET Requests
          BY <2>1 DEF RouteSound
        <4>3. Settles(route[m], routeLease[r], v, route'[m])
          BY <1>2, <3>1
        <4> HIDE DEF H
        <4>4. Sound(route'[m], H \ {r}, routeLease')
          BY <2>1, <4>1, <4>2, <4>3, SoundSettle
        <4> QED
          BY <2>1, <4>4
      <3>2. CASE m # own
        <4>1. route'[m] = route[m] /\ r \notin H
          BY <1>1, <3>2 DEF RouteHolders, RouteSound
        <4>2. Sound(route[m], H, routeLease) /\ Still(route[m], route'[m])
          BY <4>1 DEF RouteSound, Still
        <4>3. H \ {r} = H
          BY <4>1
        <4> HIDE DEF H
        <4> QED
          BY <2>1, <4>2, <4>3, SoundStill
      <3> QED
        BY <3>1, <3>2
    <2>3. RouteSettled(m) \subseteq RouteSettled(m)'
      BY <1>1, <1>3 DEF RouteClosed, RouteSettled, Seen, CandKept, RouteSound
    <2>4. route'[m].consecutiveFailures \in Nat
      BY <1>4 DEF Prov!Breaker
    <2>5. CASE m # own
      <3>1. route'[m] = route[m]
        BY <1>1, <2>5 DEF RouteSound
      <3> QED
        BY <2>2, <2>3, <2>4, <3>1, RouteBlame
    <2>6. CASE m = own
      <3>1. ASSUME v = "failure", Can(route[own], routeLease[r])
            PROVE  \E f \in RouteSettled(m)' : f \notin RouteSettled(m)
        <4> DEFINE f == Fault(r, own, "conversion")
        <4>1. f \in RouteSettled(m)'
          BY <1>3, <2>6, <3>1 DEF RouteSettled, Seen, Fault
        <4>2. routeLease[r] # NoLease
          BY <3>1, NoLeaseType DEF Can
        <4>3. f \notin RouteSettled(m)
          BY <4>2 DEF RouteSettled, Fault
        <4> QED
          BY <4>1, <4>3
      <3>2. route'[m].state = "closed" =>
              \/ route'[m].consecutiveFailures = 0
              \/ route[m].state = "closed" /\ route'[m].consecutiveFailures = route[m].consecutiveFailures
              \/ /\ route[m].state = "closed"
                 /\ route'[m].consecutiveFailures = route[m].consecutiveFailures + 1
                 /\ \E f \in RouteSettled(m)' : f \notin RouteSettled(m)
        BY <1>2, <2>6, <3>1 DEF Settles
      <3> QED
        BY <2>2, <2>3, <2>4, <3>2, RouteBlame
    <2> QED
      BY <2>5, <2>6
  <1> QED
    BY <1>3, <1>4, <1>5 DEF RouteSound

LEMMA RouteGrantedKeeps ==
  ASSUME RouteSound, NEW r \in Requests, Cand(r).mode \in Modes, RouteGranted(r), routeLease[r] = NoLease,
         UNCHANGED faults, IsFiniteSet(faults),
         \A f \in faults : f.request \in Requests /\ (f.request = r => f.pos # ctl[r].pos)
  PROVE  RouteSound'
  <1> DEFINE own == Cand(r).mode
  <1>1. /\ route' = [route EXCEPT ![own] = Route!AfterAcquire(route[own])]
        /\ routeLease' = [routeLease EXCEPT ![r] = Route!LeaseGranted(route[own])]
        /\ \A q \in Requests : CandKept(q)
    BY DEF RouteGranted
  <1>2. Granting(route[own], route'[own], routeLease'[r])
    BY <1>1, RouteGrant DEF RouteSound, RouteGranted
  <1>3. route' \in [Modes -> Prov!Breaker] /\ routeLease' \in [Requests -> Prov!Lease]
    <2>1. Route!AfterAcquire(route[own]) \in Prov!Breaker /\ Route!LeaseGranted(route[own]) \in Prov!Lease
      BY RouteGrant DEF RouteSound, RouteGranted, Granting
    <2> QED
      BY <1>1, <2>1 DEF RouteSound
  <1>4. routeLease'[r] # NoLease
    BY <1>2, <1>3, NoLeaseType DEF Granting, Prov!Breaker
  <1>5. ASSUME NEW m \in Modes
        PROVE  /\ Sound(route'[m], RouteHolders(m)', routeLease')
               /\ route'[m].state = "closed" =>
                    route'[m].consecutiveFailures <= Cardinality(RouteSettled(m)')
    <2> DEFINE H == RouteHolders(m)
    <2>1. /\ H' = IF m = own THEN H \cup {r} ELSE H
          /\ r \notin H /\ H \subseteq Requests /\ \A q \in H : routeLease'[q] = routeLease[q]
      <3>1. r \notin H /\ H \subseteq Requests
        BY DEF RouteHolders
      <3>2. \A q \in Requests \ {r} : routeLease'[q] = routeLease[q]
        BY <1>1 DEF RouteSound
      <3>3. \A q \in Requests : Cand(q)' = Cand(q)
        BY <1>1 DEF Cand, CandKept
      <3>4. \A q \in Requests \ {r} : q \in H' <=> q \in H
        BY <3>2, <3>3 DEF RouteHolders
      <3>5. r \in H' <=> m = own
        BY <1>4, <3>3 DEF RouteHolders
      <3>6. H' \subseteq Requests
        BY DEF RouteHolders
      <3> HIDE DEF H, own
      <3> QED
        BY <3>1, <3>2, <3>4, <3>5, <3>6
    <2>2. Sound(route'[m], H', routeLease')
      <3>1. CASE m = own
        <4>1. H' = H \cup {r}
          BY <2>1, <3>1
        <4> HIDE DEF H, own
        <4> QED
          BY <1>2, <2>1, <3>1, <4>1, SoundGrant DEF RouteSound, H
      <3>2. CASE m # own
        <4>1. route'[m] = route[m] /\ H' = H
          BY <1>1, <2>1, <3>2 DEF RouteSound
        <4>2. Sound(route[m], H, routeLease) /\ Still(route[m], route'[m])
          BY <4>1 DEF RouteSound, Still
        <4> HIDE DEF H
        <4> QED
          BY <2>1, <4>1, <4>2, SoundStill
      <3> QED
        BY <3>1, <3>2
    <2>3. RouteSettled(m) \subseteq RouteSettled(m)'
      BY <1>1, <1>3 DEF RouteSettled, Seen, CandKept, RouteSound
    <2>4. route'[m].consecutiveFailures \in Nat
      BY <1>3 DEF Prov!Breaker
    <2>5. route'[m].state = "closed" => route'[m] = route[m]
      BY <1>1, <1>2 DEF Granting, Fresh, RouteSound
    <2> QED
      BY <2>2, <2>3, <2>4, <2>5, RouteBlame
  <1> QED
    BY <1>3, <1>5 DEF RouteSound

LEMMA RouteCoolsKeeps ==
  ASSUME RouteSound, NEW m \in Modes, RouteCools(m), UNCHANGED faults, IsFiniteSet(faults),
         \A f \in faults : f.request \in Requests
  PROVE  RouteSound'
  <1>1. /\ route' \in [Modes -> Prov!Breaker] /\ routeLease' = routeLease
        /\ \A x \in Modes : /\ Still(route[x], route'[x])
                            /\ route'[x].consecutiveFailures = route[x].consecutiveFailures
    BY RouteAged DEF RouteCools, RouteSound, Still
  <1>2. ASSUME NEW x \in Modes
        PROVE  /\ Sound(route'[x], RouteHolders(x)', routeLease')
               /\ route'[x].state = "closed" =>
                    route'[x].consecutiveFailures <= Cardinality(RouteSettled(x)')
    <2>1. RouteHolders(x)' = RouteHolders(x)
      BY DEF RouteCools, RouteHolders, Cand, CandKept
    <2>2. Sound(route'[x], RouteHolders(x)', routeLease')
      <3>1. Sound(route[x], RouteHolders(x), routeLease)
        BY DEF RouteSound
      <3> QED
        BY <1>1, <2>1, <3>1, SoundStill
    <2>3. RouteSettled(x) \subseteq RouteSettled(x)'
      BY DEF RouteCools, RouteSettled, Seen, CandKept
    <2>4. route'[x].consecutiveFailures \in Nat /\ route'[x].state = route[x].state
      BY <1>1 DEF Prov!Breaker, Still
    <2> QED
      BY <1>1, <2>2, <2>3, <2>4, RouteBlame
  <1> QED
    BY <1>1, <1>2 DEF RouteSound

---------------------------------------------------------------------------
(* A step of a request.                                                     *)

Early == {"resolve", "target", "acquire", "prepare"}
Later == Claimed \cup {"copying"}

Moves(r) ==
  /\ ctl' \in [Requests -> LocalVars] /\ \A q \in Requests \ {r} : ctl'[q] = ctl[q]
  /\ Placed(ctl'[r]) /\ UnderCap(ctl'[r])

\* The candidates are taken in turn, and none twice.
Onward(r) ==
  \/ ctl'[r].pc = "done"
  \/ ctl'[r].pos = ctl[r].pos + 1 /\ pc(r) # "done"
  \/ /\ ctl'[r].pos = ctl[r].pos /\ pc(r) # "done"
     /\ ctl'[r].pc \in Later \/ pc(r) \in Early

FaultStep(r) ==
  \/ faults' = faults
  \/ /\ \E key, cause : faults' = faults \cup {Fault(r, key, cause)}
     /\ \/ ctl'[r].pc = "done" \/ ctl'[r].pos = ctl[r].pos + 1
        \/ ctl'[r].pos = ctl[r].pos /\ ctl'[r].pc \in Later

ProvSide(r) ==
  \/ ProvIdle
  \/ \E v \in Verdicts : /\ ProvClosed(r, v)
                         /\ v = "failure" => Fault(r, Cand(r).provider, "upstream") \in faults'
  \/ ProvGranted(r) /\ UNCHANGED faults

RouteSide(r) ==
  \/ RouteIdle
  \/ \E v \in Verdicts : /\ RouteClosed(r, v)
                         /\ v = "failure" => Fault(r, Cand(r).mode, "conversion") \in faults'
  \/ RouteGranted(r) /\ UNCHANGED faults

LeaseStep(r) ==
  /\ provLease'[r] # NoLease => ctl'[r].pc \in Holding
  /\ routeLease'[r] # NoLease => ctl'[r].pc \in Claimed

\* What the client was sent of a reply is final.
ReplyStep(r) ==
  /\ answer' \in [Requests -> Outcomes] /\ \A q \in Requests \ {r} : answer'[q] = answer[q]
  /\ answer'[r] = "reply" => ctl'[r].pc \in {"copying", "streaming", "writing", "done"}
  /\ answer[r] = "reply" => ctl'[r].calls <= ctl[r].calls /\ answer'[r] # "error"

TargetStep == target' \in [Modes -> Nat] /\ targetOpen' \in [Requests -> BOOLEAN]

Good(r) ==
  /\ Moves(r) /\ Onward(r) /\ FaultStep(r) /\ ProvSide(r) /\ RouteSide(r)
  /\ LeaseStep(r) /\ ReplyStep(r) /\ TargetStep /\ gone' \in [Requests -> BOOLEAN]

LEMMA CandType ==
  ASSUME CtlInv, NEW r \in Requests, pc(r) \notin {"resolve", "done"}
  PROVE  /\ ctl[r] \in LocalVars /\ Cand(r) \in Candidate
         /\ Cand(r).provider \in Providers /\ Cand(r).mode \in Modes /\ Cand(r).maxRetries \in Nat
  <1>1. ctl[r] \in LocalVars /\ ctl[r].pos \in DOMAIN ctl[r].cands
    BY DEF CtlInv, Placed, pc
  <1>2. Cand(r) \in Candidate
    BY <1>1 DEF LocalVars, Cand
  <1> QED
    BY <1>1, <1>2 DEF Candidate

LEMMA TurnTo ==
  ASSUME CtlInv, NEW r \in Requests, NEW c \in LocalVars, Placed(c), UnderCap(c), Update(r, c)
  PROVE  Moves(r) /\ ctl'[r] = c
  BY DEF CtlInv, Moves, Update

LEMMA StopMoves ==
  ASSUME CtlInv, NEW r \in Requests, Stop(r)
  PROVE  Moves(r) /\ ctl'[r].pc = "done" /\ ctl'[r].calls = 0 /\ Onward(r)
  <1>1. Stopped \in LocalVars /\ Stopped.pc = "done" /\ Stopped.calls = 0 /\ Stopped.total = 0
    <2>1. /\ <<>> \in Seq(Candidate) /\ "resolve" \in Labels /\ "none" \in Failure \cup {"none"}
          /\ "done" \in Labels /\ 1 \in Nat \ {0} /\ 0 \in Nat
      BY DEF Labels
    <2>2. Start(<<>>) \in LocalVars /\ Start(<<>>).calls = 0 /\ Start(<<>>).total = 0
      BY <2>1 DEF Start, LocalVars
    <2> QED
      BY <2>1, <2>2 DEF Stopped, LocalVars
  <1>2. Placed(Stopped) /\ UnderCap(Stopped)
    BY <1>1, Constants DEF Placed, UnderCap
  <1>3. Moves(r) /\ ctl'[r] = Stopped
    BY <1>1, <1>2, TurnTo DEF Stop
  <1> QED
    BY <1>1, <1>3 DEF Onward

\* On to the next candidate, or out with an error after the last.
LEMMA NextMoves ==
  ASSUME CtlInv, NEW r \in Requests, pc(r) \notin {"resolve", "done"}, NEW c \in LocalVars,
         c.cands = ctl[r].cands, c.pos = ctl[r].pos, c.calls <= c.total, c.total <= MaxTotalAttempts,
         NextCandidate(r, c)
  PROVE  /\ Moves(r) /\ Onward(r)
         /\ \/ ctl'[r].pc = "done" /\ answer' = [answer EXCEPT ![r] = "error"]
            \/ ctl'[r].pc = "target" /\ ctl'[r].pos = ctl[r].pos + 1 /\ answer' = answer
  <1>1. CASE LastCandidate(r)
    BY <1>1, StopMoves DEF NextCandidate, Return, Answer
  <1>2. CASE ~LastCandidate(r)
    <2> DEFINE d == [c EXCEPT !.pc = "target", !.pos = @ + 1, !.attempt = 0,
                              !.fail = "none", !.armed = FALSE]
    <2>1. Update(r, d) /\ answer' = answer
      BY <1>2 DEF NextCandidate
    <2>2. /\ d \in LocalVars /\ d.pc = "target" /\ d.pos = c.pos + 1 /\ d.attempt = 0
          /\ d.cands = c.cands /\ d.total = c.total /\ d.calls = c.calls
      <3>1. c.pos + 1 \in Nat \ {0} /\ "target" \in Labels /\ "none" \in Failure \cup {"none"}
        BY DEF LocalVars, Labels
      <3> QED
        BY <3>1 DEF LocalVars
    <2>3. d.pos \in DOMAIN d.cands /\ d.cands[d.pos].maxRetries \in Nat
      <3>1. /\ ctl[r].cands \in Seq(Candidate) /\ ctl[r].pos \in DOMAIN ctl[r].cands
            /\ ctl[r].pos # Len(ctl[r].cands)
        BY <1>2 DEF CtlInv, LocalVars, Placed, pc, LastCandidate
      <3>2. ctl[r].pos + 1 \in DOMAIN ctl[r].cands
        BY <3>1
      <3>3. ctl[r].cands[ctl[r].pos + 1] \in Candidate
        BY <3>1, <3>2
      <3> QED
        BY <2>2, <3>2, <3>3 DEF Candidate
    <2> HIDE DEF d
    <2>4. Placed(d) /\ UnderCap(d)
      BY <2>2, <2>3 DEF Placed, UnderCap
    <2>5. Moves(r) /\ ctl'[r] = d
      BY <2>1, <2>2, <2>4, TurnTo
    <2> QED
      BY <2>1, <2>2, <2>5 DEF Onward
  <1> QED
    BY <1>1, <1>2

LEMMA SettleSides ==
  ASSUME CtlInv, SharedInv, NEW r \in Requests, pc(r) \notin {"resolve", "done"}, Moves(r),
         NEW v \in Verdicts, NEW w \in Verdicts, NEW failed \in BOOLEAN, Settle(r, v, w, failed),
         v = "failure" => Fault(r, Cand(r).provider, "upstream") \in faults',
         w = "failure" => Fault(r, Cand(r).mode, "conversion") \in faults'
  PROVE  ProvSide(r) /\ RouteSide(r) /\ LeaseStep(r) /\ TargetStep
  <1>1. \A q \in Requests \ {r} : CandKept(q)
    BY DEF Moves, CandKept
  <1>2. ProvSide(r) /\ RouteSide(r)
    BY <1>1 DEF Settle, ProvSide, RouteSide, ProvClosed, RouteClosed
  <1>3. provLease'[r] = NoLease /\ routeLease'[r] = NoLease
    BY DEF Settle, SettleProvider, SettleRoute, SharedInv
  <1>4. TargetStep
    BY CandType DEF Settle, SettleTarget, SharedInv, TargetStep
  <1> QED
    BY <1>2, <1>3, <1>4 DEF LeaseStep

\* A step that leaves every breaker and guard alone.
LEMMA QuietSides ==
  ASSUME CtlInv, SharedInv, LeaseInv, NEW r \in Requests, Moves(r), UNCHANGED <<breakers, guards>>,
         provLease[r] # NoLease \/ routeLease[r] # NoLease =>
           /\ ctl'[r].pc \in Claimed
           /\ CandKept(r)
  PROVE  ProvSide(r) /\ RouteSide(r) /\ LeaseStep(r) /\ TargetStep
  <1>1. \A q \in Requests : provLease[q] # NoLease \/ routeLease[q] # NoLease => CandKept(q)
    BY DEF Moves, CandKept
  <1>2. ProvSide(r) /\ RouteSide(r)
    BY <1>1 DEF ProvSide, RouteSide, ProvIdle, RouteIdle, breakers, guards
  <1>3. LeaseStep(r)
    BY DEF LeaseStep, LeaseInv, breakers, guards, Holding
  <1> QED
    BY <1>2, <1>3 DEF TargetStep, SharedInv, breakers, guards

\* Before the reply there is none to take back.
LEMMA ReplySteps ==
  ASSUME CtlInv, SharedInv, ReplyInv, NEW r \in Requests, Moves(r),
         \/ /\ pc(r) \notin {"copying", "streaming", "writing", "done"}
            /\ \/ answer' = answer
               \/ answer' = [answer EXCEPT ![r] = "error"] \/ answer' = [answer EXCEPT ![r] = "aborted"]
               \/ answer' = [answer EXCEPT ![r] = "reply"] /\ ctl'[r].pc \in {"copying", "writing"}
         \/ /\ ctl'[r].pc = "done" /\ ctl'[r].calls = 0
            /\ answer' = answer \/ answer' = [answer EXCEPT ![r] = "aborted"]
  PROVE  ReplyStep(r)
  <1>1. ctl[r].calls \in Nat /\ answer \in [Requests -> Outcomes]
    BY DEF CtlInv, LocalVars, SharedInv
  <1>2. CASE pc(r) \notin {"copying", "streaming", "writing", "done"}
    <2>1. answer[r] # "reply"
      BY <1>2 DEF ReplyInv
    <2> QED
      BY <1>1, <1>2, <2>1 DEF ReplyStep, Outcomes
  <1>3. CASE /\ ctl'[r].pc = "done" /\ ctl'[r].calls = 0
             /\ answer' = answer \/ answer' = [answer EXCEPT ![r] = "aborted"]
    BY <1>1, <1>3 DEF ReplyStep, Outcomes
  <1> QED
    BY <1>2, <1>3

---------------------------------------------------------------------------
(* The actions.                                                            *)

LEMMA GotoMoves ==
  ASSUME CtlInv, NEW r \in Requests, pc(r) \notin {"resolve", "done"},
         NEW label \in Labels \ {"resolve"}, Goto(r, label),
         label \in {"backoff", "send"} => ctl[r].total < MaxTotalAttempts
  PROVE  /\ Moves(r) /\ CandKept(r) /\ ctl'[r].pc = label /\ ctl'[r].calls = ctl[r].calls
  <1> DEFINE c == [ctl[r] EXCEPT !.pc = label]
  <1>1. /\ c \in LocalVars /\ c.pc = label /\ c.pos = ctl[r].pos /\ c.cands = ctl[r].cands
        /\ c.total = ctl[r].total /\ c.calls = ctl[r].calls /\ c.attempt = ctl[r].attempt
    BY DEF CtlInv, LocalVars
  <1>2. Update(r, c)
    BY DEF Goto
  <1> HIDE DEF c
  <1>3. Placed(c) /\ UnderCap(c)
    BY <1>1 DEF CtlInv, Placed, UnderCap, pc
  <1> QED
    BY <1>1, <1>2, <1>3, TurnTo DEF CandKept

LEMMA ResolveGood ==
  ASSUME IInv, NEW r \in Requests, Resolve(r)
  PROVE  Good(r)
  <1> USE DEF IInv
  <1>1. pc(r) = "resolve" /\ UNCHANGED <<breakers, guards, gone, faults>>
    BY DEF Resolve
  <1>2. provLease[r] = NoLease /\ routeLease[r] = NoLease
    BY <1>1 DEF LeaseInv, Holding, Claimed, InCall
  <1> DEFINE chain == ctl[r].cands
             left == {i \in DOMAIN chain : Available(chain[i])}
  <1>3. CASE left = {}
    <2>1. Stop(r) /\ answer' = [answer EXCEPT ![r] = "error"]
      BY <1>3 DEF Resolve, Return, Answer
    <2>2. Moves(r) /\ ctl'[r].pc = "done" /\ ctl'[r].calls = 0 /\ Onward(r)
      BY <2>1, StopMoves
    <2>3. ReplyStep(r)
      BY <1>1, <2>1, <2>2, ReplySteps
    <2> QED
      BY <1>1, <1>2, <2>2, <2>3, QuietSides DEF Good, FaultStep, SharedInv
  <1>4. CASE left # {}
    <2>1. PICK e \in InOrder(left) :
            Update(r, [ctl[r] EXCEPT !.pc = "target", !.cands = [i \in DOMAIN e |-> chain[e[i]]]])
      BY <1>4 DEF Resolve
    <2>2. answer' = answer
      BY <1>4 DEF Resolve
    <2>3. chain \in Seq(Candidate) /\ ctl[r] \in LocalVars
      BY DEF CtlInv, LocalVars
    <2>4. IsFiniteSet(left) /\ Cardinality(left) \in Nat /\ Cardinality(left) # 0
      <3>1. IsFiniteSet(1 .. Len(chain)) /\ left \subseteq 1 .. Len(chain)
        BY <2>3, FS_Interval
      <3>2. IsFiniteSet(left)
        BY <3>1, FS_Subset
      <3> QED
        BY <1>4, <3>2, FS_CardinalityType, FS_EmptySet
    <2> DEFINE n == Cardinality(left)
               picked == [i \in DOMAIN e |-> chain[e[i]]]
               c == [ctl[r] EXCEPT !.pc = "target", !.cands = picked]
    <2>5. e \in [1 .. n -> left] /\ DOMAIN e = 1 .. n
      BY DEF InOrder
    <2>6. \A i \in 1 .. n : chain[e[i]] \in Candidate
      <3>1. \A j \in left : j \in DOMAIN chain
        OBVIOUS
      <3>2. \A j \in DOMAIN chain : chain[j] \in Candidate
        BY <2>3
      <3> HIDE DEF left, chain, n
      <3> QED
        BY <2>5, <3>1, <3>2
    <2>7. picked \in Seq(Candidate) /\ 1 \in DOMAIN picked
      <3>1. picked = [i \in 1 .. n |-> chain[e[i]]]
        BY <2>5
      <3>2. n \in Nat /\ 1 \in 1 .. n
        BY <2>4
      <3> HIDE DEF picked, n, chain
      <3> QED
        BY <2>6, <3>1, <3>2
    <2>8. /\ c \in LocalVars /\ c.pc = "target" /\ c.pos = ctl[r].pos /\ c.cands = picked
          /\ c.total = ctl[r].total /\ c.calls = ctl[r].calls /\ c.attempt = ctl[r].attempt
      BY <2>3, <2>7 DEF LocalVars, Labels
    <2>9. Update(r, c)
      BY <2>1
    <2>10. picked[1] \in Candidate
      BY <2>7
    <2> HIDE DEF c, picked, n, left
    <2>11. Placed(c) /\ UnderCap(c)
      BY <1>1, <2>7, <2>8, <2>10 DEF CtlInv, Placed, UnderCap, pc, Candidate
    <2>12. Moves(r) /\ ctl'[r] = c
      BY <2>8, <2>9, <2>11, TurnTo
    <2>13. Onward(r)
      BY <1>1, <2>8, <2>12 DEF Onward, Early
    <2>14. ReplyStep(r)
      BY <1>1, <2>2, <2>12, ReplySteps
    <2> QED
      BY <1>1, <1>2, <2>12, <2>13, <2>14, QuietSides DEF Good, FaultStep, SharedInv
  <1> QED
    BY <1>3, <1>4

LEMMA CheckTargetGood ==
  ASSUME IInv, NEW r \in Requests, CheckTarget(r)
  PROVE  Good(r)
  <1> USE DEF IInv
  <1>1. pc(r) = "target" /\ UNCHANGED <<breakers, provLease, routeLease, gone, faults>>
    BY DEF CheckTarget
  <1>2. provLease[r] = NoLease /\ routeLease[r] = NoLease
    BY <1>1 DEF LeaseInv, Holding, Claimed, InCall
  <1>3. Moves(r) /\ Onward(r) /\ ReplyStep(r) /\ TargetStep
    <2>1. CASE /\ targetOpen' = [targetOpen EXCEPT ![r] = TRUE] /\ Goto(r, "acquire")
               /\ UNCHANGED answer
      <3>1. Moves(r) /\ CandKept(r) /\ ctl'[r].pc = "acquire"
        BY <1>1, <2>1, GotoMoves DEF Labels
      <3>2. Onward(r)
        BY <1>1, <3>1 DEF Onward, Early, CandKept
      <3>3. ReplyStep(r)
        BY <1>1, <2>1, <3>1, ReplySteps
      <3> QED
        BY <1>1, <2>1, <3>1, <3>2, <3>3 DEF TargetStep, SharedInv, breakers
    <2>2. CASE NextCandidate(r, ctl[r]) /\ UNCHANGED targetOpen
      <3>1. /\ Moves(r) /\ Onward(r)
            /\ answer' = [answer EXCEPT ![r] = "error"] \/ answer' = answer
        <4>1. ctl[r] \in LocalVars /\ ctl[r].calls <= ctl[r].total /\ ctl[r].total <= MaxTotalAttempts
          BY DEF CtlInv, UnderCap
        <4> QED
          BY <1>1, <2>2, <4>1, NextMoves
      <3>2. ReplyStep(r)
        BY <1>1, <3>1, ReplySteps
      <3> QED
        BY <1>1, <2>2, <3>1, <3>2 DEF TargetStep, SharedInv, breakers
    <2> QED
      BY <2>1, <2>2 DEF CheckTarget
  <1>4. ProvSide(r) /\ RouteSide(r)
    <2>1. \A q \in Requests : provLease[q] # NoLease \/ routeLease[q] # NoLease => CandKept(q)
      BY <1>2, <1>3 DEF Moves, CandKept
    <2> QED
      BY <1>1, <2>1 DEF ProvSide, RouteSide, ProvIdle, RouteIdle, breakers
  <1>5. LeaseStep(r)
    BY <1>1, <1>2 DEF LeaseStep
  <1> QED
    BY <1>1, <1>3, <1>4, <1>5 DEF Good, FaultStep, SharedInv

LEMMA AcquireProviderGood ==
  ASSUME IInv, NEW r \in Requests, AcquireProvider(r)
  PROVE  Good(r)
  <1> USE DEF IInv
  <1>1. pc(r) = "acquire" /\ UNCHANGED <<route, target, routeLease, gone, faults>>
    BY DEF AcquireProvider
  <1>2. provLease[r] = NoLease /\ routeLease[r] = NoLease
    BY <1>1 DEF LeaseInv, Holding, Claimed, InCall
  <1>3. CASE Prov!Grants(prov[Cand(r).provider])
    <2>1. /\ prov' = [prov EXCEPT ![Cand(r).provider] = Prov!AfterAcquire(prov[Cand(r).provider])]
          /\ provLease' = [provLease EXCEPT ![r] = Prov!LeaseGranted(prov[Cand(r).provider])]
          /\ Goto(r, "prepare") /\ UNCHANGED <<targetOpen, answer>>
      BY <1>3 DEF AcquireProvider
    <2>2. Moves(r) /\ CandKept(r) /\ ctl'[r].pc = "prepare"
      BY <1>1, <2>1, GotoMoves DEF Labels
    <2>3. \A q \in Requests : CandKept(q)
      BY <2>2 DEF Moves, CandKept
    <2>4. ProvSide(r) /\ RouteSide(r)
      BY <1>1, <1>3, <2>1, <2>3 DEF ProvSide, RouteSide, ProvGranted, RouteIdle
    <2>5. Onward(r) /\ LeaseStep(r)
      BY <1>1, <1>2, <2>2 DEF Onward, Early, CandKept, LeaseStep, Holding, Claimed, InCall
    <2>6. ReplyStep(r)
      BY <1>1, <2>1, <2>2, ReplySteps
    <2> QED
      BY <1>1, <2>1, <2>2, <2>4, <2>5, <2>6 DEF Good, FaultStep, TargetStep, SharedInv
  <1>4. CASE ~Prov!Grants(prov[Cand(r).provider])
    <2>1. /\ NextCandidate(r, ctl[r]) /\ targetOpen' = [targetOpen EXCEPT ![r] = FALSE]
          /\ UNCHANGED <<prov, provLease>>
      BY <1>4 DEF AcquireProvider
    <2>2. /\ Moves(r) /\ Onward(r)
          /\ answer' = [answer EXCEPT ![r] = "error"] \/ answer' = answer
      <3>1. ctl[r] \in LocalVars /\ ctl[r].calls <= ctl[r].total /\ ctl[r].total <= MaxTotalAttempts
        BY DEF CtlInv, UnderCap
      <3> QED
        BY <1>1, <2>1, <3>1, NextMoves
    <2>3. ReplyStep(r)
      BY <1>1, <2>2, ReplySteps
    <2>4. \A q \in Requests : provLease[q] # NoLease \/ routeLease[q] # NoLease => CandKept(q)
      BY <1>2, <2>2 DEF Moves, CandKept
    <2>5. ProvSide(r) /\ RouteSide(r)
      BY <1>1, <2>1, <2>4 DEF ProvSide, RouteSide, ProvIdle, RouteIdle
    <2>6. LeaseStep(r) /\ TargetStep
      BY <1>1, <1>2, <2>1 DEF LeaseStep, TargetStep, SharedInv
    <2> QED
      BY <1>1, <2>2, <2>3, <2>5, <2>6 DEF Good, FaultStep, SharedInv
  <1> QED
    BY <1>3, <1>4

\* A step that settles everything with verdicts v and w and moves on or stops.
LEMMA SettledStep ==
  ASSUME IInv, NEW r \in Requests, pc(r) \notin {"resolve", "done"}, Moves(r), Onward(r),
         NEW v \in Verdicts, NEW w \in Verdicts, NEW failed \in BOOLEAN, Settle(r, v, w, failed),
         v = "failure" => Fault(r, Cand(r).provider, "upstream") \in faults',
         w = "failure" => Fault(r, Cand(r).mode, "conversion") \in faults',
         FaultStep(r), ReplyStep(r), UNCHANGED gone
  PROVE  Good(r)
  <1>1. ProvSide(r) /\ RouteSide(r) /\ LeaseStep(r) /\ TargetStep
    BY SettleSides DEF IInv
  <1> QED
    BY <1>1 DEF Good, IInv, SharedInv

\* ... with the fault it blames, to the next candidate.
LEMMA GiveUp ==
  ASSUME IInv, NEW r \in Requests, pc(r) \notin {"resolve", "copying", "streaming", "writing", "done"},
         NEW c \in LocalVars, c.cands = ctl[r].cands, c.pos = ctl[r].pos, c.calls <= c.total,
         c.total <= MaxTotalAttempts, NextCandidate(r, c),
         NEW v \in Verdicts, NEW w \in Verdicts, NEW failed \in BOOLEAN, Settle(r, v, w, failed),
         v = "failure" => Fault(r, Cand(r).provider, "upstream") \in faults',
         w = "failure" => Fault(r, Cand(r).mode, "conversion") \in faults',
         faults' = faults \/ \E key, cause : faults' = faults \cup {Fault(r, key, cause)},
         UNCHANGED gone
  PROVE  Good(r)
  <1> USE DEF IInv
  <1>1. /\ Moves(r) /\ Onward(r)
        /\ \/ ctl'[r].pc = "done" /\ answer' = [answer EXCEPT ![r] = "error"]
           \/ ctl'[r].pc = "target" /\ ctl'[r].pos = ctl[r].pos + 1 /\ answer' = answer
    BY NextMoves
  <1>2. ReplyStep(r)
    BY <1>1, ReplySteps
  <1>3. FaultStep(r)
    BY <1>1 DEF FaultStep
  <1> QED
    BY <1>1, <1>2, <1>3, SettledStep

\* ... or with an answer that ends the request.
LEMMA BowOut ==
  ASSUME IInv, NEW r \in Requests, pc(r) \notin {"resolve", "done"}, Stop(r),
         \/ answer' = answer \/ answer' = [answer EXCEPT ![r] = "aborted"]
         \/ answer' = [answer EXCEPT ![r] = "error"] /\ pc(r) \notin {"copying", "streaming", "writing"},
         NEW v \in Verdicts, NEW w \in Verdicts, NEW failed \in BOOLEAN, Settle(r, v, w, failed),
         v = "failure" => Fault(r, Cand(r).provider, "upstream") \in faults',
         w = "failure" => Fault(r, Cand(r).mode, "conversion") \in faults',
         faults' = faults \/ \E key, cause : faults' = faults \cup {Fault(r, key, cause)},
         UNCHANGED gone
  PROVE  Good(r)
  <1> USE DEF IInv
  <1>1. Moves(r) /\ ctl'[r].pc = "done" /\ ctl'[r].calls = 0 /\ Onward(r)
    BY StopMoves
  <1>2. ReplyStep(r)
    BY <1>1, ReplySteps
  <1>3. FaultStep(r)
    BY <1>1 DEF FaultStep
  <1> QED
    BY <1>1, <1>2, <1>3, SettledStep

LEMMA CtlIs ==
  ASSUME CtlInv, NEW r \in Requests
  PROVE  /\ ctl[r] \in LocalVars /\ ctl[r].calls <= ctl[r].total /\ ctl[r].total <= MaxTotalAttempts
         /\ pc(r) \in {"backoff", "send"} => ctl[r].total < MaxTotalAttempts
         /\ ctl[r].calls \in Nat /\ ctl[r].total \in Nat
  BY DEF CtlInv, UnderCap, LocalVars, pc

LEMMA VerdictsAre == {"success", "failure", "cancel"} = Verdicts
  BY DEF Verdicts

LEMMA PreflightErrorGood ==
  ASSUME IInv, NEW r \in Requests, PreflightError(r)
  PROVE  Good(r)
  <1>1. pc(r) = "prepare" /\ Settle(r, "cancel", "cancel", FALSE) /\ NextCandidate(r, ctl[r])
    BY DEF PreflightError
  <1> QED
    BY <1>1, CtlIs, GiveUp, VerdictsAre DEF PreflightError, IInv

LEMMA ClaimRouteGood ==
  ASSUME IInv, NEW r \in Requests, ClaimRoute(r)
  PROVE  Good(r)
  <1> USE DEF IInv
  <1>1. pc(r) = "prepare" /\ UNCHANGED <<gone, faults>>
    BY DEF ClaimRoute
  <1>2. CASE Goto(r, "loop") /\ UNCHANGED <<breakers, guards, answer>>
    <2>1. Moves(r) /\ CandKept(r) /\ ctl'[r].pc = "loop"
      BY <1>1, <1>2, GotoMoves DEF Labels
    <2>2. Onward(r) /\ ReplyStep(r)
      BY <1>1, <1>2, <2>1, ReplySteps DEF Onward, Early, CandKept
    <2>3. ProvSide(r) /\ RouteSide(r) /\ LeaseStep(r) /\ TargetStep
      BY <1>2, <2>1, QuietSides DEF Later, Claimed, InCall
    <2> QED
      BY <1>1, <2>1, <2>2, <2>3 DEF Good, FaultStep, SharedInv
  <1>3. CASE /\ Route!Grants(route[Cand(r).mode])
             /\ route' = [route EXCEPT ![Cand(r).mode] = Route!AfterAcquire(route[Cand(r).mode])]
             /\ routeLease' = [routeLease EXCEPT ![r] = Route!LeaseGranted(route[Cand(r).mode])]
             /\ Goto(r, "loop")
             /\ UNCHANGED <<prov, target, provLease, targetOpen, answer>>
    <2>1. Moves(r) /\ CandKept(r) /\ ctl'[r].pc = "loop"
      BY <1>1, <1>3, GotoMoves DEF Labels
    <2>2. Onward(r) /\ ReplyStep(r)
      BY <1>1, <1>3, <2>1, ReplySteps DEF Onward, Early, CandKept
    <2>3. \A q \in Requests : CandKept(q)
      BY <2>1 DEF Moves, CandKept
    <2>4. ProvSide(r) /\ RouteSide(r)
      BY <1>1, <1>3, <2>3 DEF ProvSide, RouteSide, ProvIdle, RouteGranted
    <2>5. LeaseStep(r) /\ TargetStep
      BY <1>3, <2>1 DEF LeaseStep, TargetStep, Holding, Later, Claimed, SharedInv
    <2> QED
      BY <1>1, <2>1, <2>2, <2>4, <2>5 DEF Good, FaultStep, SharedInv
  <1>4. CASE RouteDenied(r)
    <2>1. Settle(r, "cancel", "cancel", FALSE) /\ NextCandidate(r, ctl[r])
      BY <1>4 DEF RouteDenied
    <2> QED
      BY <1>1, <2>1, CtlIs, GiveUp, VerdictsAre
  <1> QED
    BY <1>2, <1>3, <1>4 DEF ClaimRoute

LEMMA AbortChainGood ==
  ASSUME IInv, NEW r \in Requests, pc(r) \in {"loop", "backoff", "send"}, AbortChain(r),
         UNCHANGED <<gone, faults>>
  PROVE  Good(r)
  <1>1. /\ Settle(r, "cancel", "cancel", Retries(r)) /\ Stop(r)
        /\ answer' = [answer EXCEPT ![r] = "error"] /\ Retries(r) \in BOOLEAN
    BY DEF AbortChain, Return, Answer, Retries
  <1> QED
    BY <1>1, BowOut, VerdictsAre

\* A step along the retry loop that changes no breaker and answers nothing.
LEMMA InnerStep ==
  ASSUME IInv, NEW r \in Requests, pc(r) \in Later \cup {"prepare"}, Moves(r), CandKept(r),
         ctl'[r].pc \in Claimed, UNCHANGED <<breakers, guards, gone, faults>>, ReplyStep(r)
  PROVE  Good(r)
  <1>1. Onward(r)
    BY DEF Onward, CandKept, Later, Claimed, InCall
  <1>2. ProvSide(r) /\ RouteSide(r) /\ LeaseStep(r) /\ TargetStep
    BY QuietSides DEF IInv
  <1> QED
    BY <1>1, <1>2 DEF Good, FaultStep, IInv, SharedInv

LEMMA TopOfLoopGood ==
  ASSUME IInv, NEW r \in Requests, TopOfLoop(r)
  PROVE  Good(r)
  <1>1. pc(r) = "loop" /\ UNCHANGED <<gone, faults>>
    BY DEF TopOfLoop
  <1>2. CASE Capped(r) \/ ctl[r].spent
    BY <1>1, <1>2, AbortChainGood DEF TopOfLoop
  <1>3. CASE ~(Capped(r) \/ ctl[r].spent)
    <2>1. ctl[r].total < MaxTotalAttempts
      BY <1>3, CtlIs, Constants DEF IInv, Capped
    <2>2. /\ Goto(r, "backoff") \/ Goto(r, "send")
          /\ UNCHANGED <<breakers, guards, answer>>
      BY <1>3 DEF TopOfLoop
    <2>3. Moves(r) /\ CandKept(r) /\ ctl'[r].pc \in {"backoff", "send"}
      BY <1>1, <2>1, <2>2, GotoMoves DEF IInv, Labels
    <2>4. ReplyStep(r)
      BY <1>1, <2>2, <2>3, ReplySteps DEF IInv
    <2> QED
      BY <1>1, <2>2, <2>3, <2>4, InnerStep DEF Later, Claimed, InCall
  <1> QED
    BY <1>2, <1>3

LEMMA BackoffCutGood ==
  ASSUME IInv, NEW r \in Requests, BackoffCut(r)
  PROVE  Good(r)
  <1>1. pc(r) = "backoff" /\ UNCHANGED <<gone, faults>>
    BY DEF BackoffCut
  <1>2. CASE gone[r]
    <2>1. /\ Settle(r, "cancel", "cancel", FALSE) /\ Stop(r)
          /\ answer' = [answer EXCEPT ![r] = "aborted"]
      BY <1>2 DEF BackoffCut, Return, Answer
    <2> QED
      BY <1>1, <2>1, BowOut, VerdictsAre
  <1>3. CASE ~gone[r]
    BY <1>1, <1>3, AbortChainGood DEF BackoffCut
  <1> QED
    BY <1>2, <1>3

LEMMA BackoffOverGood ==
  ASSUME IInv, NEW r \in Requests, BackoffOver(r)
  PROVE  Good(r)
  <1>1. /\ pc(r) = "backoff" /\ Goto(r, "send")
        /\ UNCHANGED <<breakers, guards, gone, faults, answer>>
    BY DEF BackoffOver, hist
  <1>2. Moves(r) /\ CandKept(r) /\ ctl'[r].pc = "send"
    BY <1>1, CtlIs, GotoMoves DEF IInv, Labels
  <1>3. ReplyStep(r)
    BY <1>1, <1>2, ReplySteps DEF IInv
  <1> QED
    BY <1>1, <1>2, <1>3, InnerStep DEF Later, Claimed, InCall

\* The breaker moved during the backoff; c counts the attempt or not.
LEMMA CircuitOpenedGood ==
  ASSUME IInv, NEW r \in Requests, pc(r) = "send", NEW c \in LocalVars,
         c.cands = ctl[r].cands, c.pos = ctl[r].pos, c.calls <= c.total, c.total <= MaxTotalAttempts,
         CircuitOpened(r, c), UNCHANGED <<gone, faults>>
  PROVE  Good(r)
  <1>1. /\ Settle(r, "cancel", "cancel", c.fail \in Counted) /\ NextCandidate(r, c)
        /\ (c.fail \in Counted) \in BOOLEAN
    BY DEF CircuitOpened
  <1> QED
    BY <1>1, GiveUp, VerdictsAre

LEMMA CallGood ==
  ASSUME IInv, NEW r \in Requests, pc(r) = "send", NEW c \in LocalVars, NEW timer \in BOOLEAN,
         c.cands = ctl[r].cands, c.pos = ctl[r].pos, c.attempt = ctl[r].attempt,
         c.calls + 1 <= c.total, c.total <= MaxTotalAttempts,
         Call(r, c, timer), UNCHANGED <<gone, faults>>
  PROVE  Good(r)
  <1> DEFINE d == [c EXCEPT !.pc = "sending", !.calls = @ + 1, !.armed = timer]
  <1>1. Update(r, d) /\ UNCHANGED <<breakers, guards, answer>>
    BY DEF Call
  <1>2. /\ d \in LocalVars /\ d.pc = "sending" /\ d.pos = ctl[r].pos /\ d.cands = ctl[r].cands
        /\ d.calls = c.calls + 1 /\ d.total = c.total /\ d.attempt = ctl[r].attempt
    <2>1. c.calls + 1 \in Nat /\ "sending" \in Labels
      BY DEF LocalVars, Labels
    <2> QED
      BY <2>1 DEF LocalVars
  <1> HIDE DEF d
  <1>3. Placed(d) /\ UnderCap(d)
    BY <1>2 DEF IInv, CtlInv, Placed, UnderCap, pc
  <1>4. Moves(r) /\ ctl'[r] = d
    BY <1>1, <1>2, <1>3, TurnTo DEF IInv
  <1>5. ReplyStep(r)
    BY <1>1, <1>4, ReplySteps DEF IInv
  <1> QED
    BY <1>1, <1>2, <1>4, <1>5, InnerStep DEF Later, Claimed, InCall, CandKept

LEMMA SendGood ==
  ASSUME IInv, NEW r \in Requests, SendBuffered(r) \/ SendStream(r)
  PROVE  Good(r)
  <1> DEFINE c == [ctl[r] EXCEPT !.total = @ + 1]
  <1>1. pc(r) = "send" /\ UNCHANGED <<gone, faults>>
    BY DEF SendBuffered, SendStream
  <1>2. /\ ctl[r] \in LocalVars /\ ctl[r].calls <= ctl[r].total /\ ctl[r].total < MaxTotalAttempts
        /\ ctl[r].total \in Nat /\ ctl[r].calls \in Nat /\ ctl[r].spent \in BOOLEAN
    BY <1>1, CtlIs DEF IInv, LocalVars
  <1>3. /\ c \in LocalVars /\ c.cands = ctl[r].cands /\ c.pos = ctl[r].pos
        /\ c.attempt = ctl[r].attempt /\ c.calls = ctl[r].calls /\ c.total = ctl[r].total + 1
        /\ c.spent = ctl[r].spent
    <2>1. ctl[r].total + 1 \in Nat
      BY <1>2
    <2> QED
      BY <1>2, <2>1 DEF LocalVars
  <1>4. /\ c.calls + 1 <= c.total /\ c.calls <= c.total /\ c.total <= MaxTotalAttempts
        /\ ctl[r].calls <= ctl[r].total /\ ctl[r].total <= MaxTotalAttempts
    BY <1>2, <1>3, Constants
  <1>5. \/ CircuitOpened(r, c) \/ CircuitOpened(r, ctl[r]) \/ AbortChain(r)
        \/ Call(r, c, ~c.spent) \/ Call(r, c, TRUE)
    BY DEF SendBuffered, SendStream
  <1> HIDE DEF c
  <1>6. CASE CircuitOpened(r, c)
    BY <1>1, <1>3, <1>4, <1>6, CircuitOpenedGood
  <1>7. CASE CircuitOpened(r, ctl[r])
    BY <1>1, <1>2, <1>4, <1>7, CircuitOpenedGood
  <1>8. CASE AbortChain(r)
    BY <1>1, <1>8, AbortChainGood
  <1>9. CASE \E timer \in BOOLEAN : Call(r, c, timer)
    BY <1>1, <1>3, <1>4, <1>9, CallGood
  <1>10. (~c.spent) \in BOOLEAN /\ TRUE \in BOOLEAN
    OBVIOUS
  <1> QED
    BY <1>5, <1>6, <1>7, <1>8, <1>9, <1>10

LEMMA RetryableGood ==
  ASSUME IInv, NEW r \in Requests, NEW class \in Failure, Retryable(r, class)
  PROVE  Good(r)
  <1>1. /\ pc(r) \in InCall /\ UNCHANGED gone
        /\ pc(r) \notin {"resolve", "copying", "streaming", "writing", "done"}
    BY DEF Retryable, AtUpstream, InCall
  <1>2. /\ faults' = faults \/ faults' = faults \cup {Fault(r, Cand(r).provider, "upstream")}
        /\ class \in Counted => Fault(r, Cand(r).provider, "upstream") \in faults'
    BY DEF Retryable, Blame
  <1>3. CASE RetriesLeft(r)
    <2> DEFINE c == [ctl[r] EXCEPT !.pc = "loop", !.attempt = @ + 1, !.fail = class, !.armed = FALSE]
    <2>1. Update(r, c) /\ UNCHANGED <<breakers, guards, answer>>
      BY <1>3 DEF Retryable
    <2>2. /\ ctl[r] \in LocalVars /\ ctl[r].attempt \in Nat /\ Cand(r).maxRetries \in Nat
          /\ ctl[r].attempt + 1 \in 0 .. Cand(r).maxRetries
      BY <1>1, <1>3, CandType DEF IInv, LocalVars, RetriesLeft
    <2>3. /\ c \in LocalVars /\ c.pc = "loop" /\ c.pos = ctl[r].pos /\ c.cands = ctl[r].cands
          /\ c.calls = ctl[r].calls /\ c.total = ctl[r].total /\ c.attempt = ctl[r].attempt + 1
      <3>1. ctl[r].attempt + 1 \in Nat /\ "loop" \in Labels /\ class \in Failure \cup {"none"}
        BY <2>2 DEF Labels
      <3> QED
        BY <2>2, <3>1 DEF LocalVars
    <2> HIDE DEF c
    <2>4. Placed(c) /\ UnderCap(c)
      BY <1>1, <2>2, <2>3 DEF IInv, CtlInv, Placed, UnderCap, pc, Cand
    <2>5. Moves(r) /\ ctl'[r] = c
      BY <2>1, <2>3, <2>4, TurnTo DEF IInv
    <2>6. ReplyStep(r)
      BY <1>1, <2>1, <2>5, ReplySteps DEF IInv
    <2>7. Onward(r) /\ FaultStep(r)
      BY <1>1, <1>2, <2>3, <2>5 DEF Onward, FaultStep, Later, Claimed, InCall
    <2>8. ProvSide(r) /\ RouteSide(r) /\ LeaseStep(r) /\ TargetStep
      BY <2>1, <2>3, <2>5, QuietSides DEF IInv, Later, Claimed, InCall, CandKept
    <2> QED
      BY <1>1, <2>5, <2>6, <2>7, <2>8 DEF Good, IInv, SharedInv
  <1>4. CASE ~RetriesLeft(r)
    <2> DEFINE v == IF class \in Counted THEN "failure" ELSE "cancel"
    <2>1. Settle(r, v, "cancel", class \in Counted) /\ NextCandidate(r, ctl[r])
      BY <1>4 DEF Retryable
    <2>2. v \in Verdicts /\ (class \in Counted) \in BOOLEAN /\ (v = "failure" => class \in Counted)
      BY DEF Verdicts
    <2> HIDE DEF v
    <2> QED
      BY <1>1, <1>2, <2>1, <2>2, CtlIs, GiveUp, VerdictsAre DEF IInv
  <1> QED
    BY <1>3, <1>4

LEMMA NonRetryableGood ==
  ASSUME IInv, NEW r \in Requests, NonRetryable(r)
  PROVE  Good(r)
  <1>1. /\ pc(r) = "answered" /\ UNCHANGED gone /\ Stop(r)
        /\ answer' = [answer EXCEPT ![r] = "error"]
        /\ faults' = faults \cup {Fault(r, Cand(r).provider, "upstream")}
        /\ \E v \in {"failure", "cancel"} : Settle(r, v, "cancel", TRUE)
    BY DEF NonRetryable, Return, Answer, Blame
  <1>2. PICK v \in {"failure", "cancel"} : Settle(r, v, "cancel", TRUE)
    BY <1>1
  <1> QED
    BY <1>1, <1>2, BowOut, VerdictsAre

LEMMA ConversionFailsGood ==
  ASSUME IInv, NEW r \in Requests, ConversionFails(r)
  PROVE  Good(r)
  <1>1. /\ pc(r) \in {"opening", "answered"} /\ UNCHANGED gone /\ NextCandidate(r, ctl[r])
        /\ Settle(r, "cancel", "failure", FALSE)
        /\ faults' = faults \cup {Fault(r, Cand(r).mode, "conversion")}
    BY DEF ConversionFails, Replied, Blame
  <1> QED
    BY <1>1, CtlIs, GiveUp, VerdictsAre DEF IInv

LEMMA ClientAbortsGood ==
  ASSUME IInv, NEW r \in Requests, ClientAborts(r)
  PROVE  Good(r)
  <1>1. /\ pc(r) \in InCall \cup {"streaming", "writing"} /\ UNCHANGED <<gone, faults>> /\ Stop(r)
        /\ answer' = [answer EXCEPT ![r] = "aborted"] /\ Settle(r, "cancel", "cancel", FALSE)
    BY DEF ClientAborts, AtUpstream, InCall, Return, Answer
  <1> QED
    BY <1>1, BowOut, VerdictsAre DEF InCall

LEMMA StreamEndsGood ==
  ASSUME IInv, NEW r \in Requests, StreamEnds(r)
  PROVE  Good(r)
  <1>1. pc(r) \in {"streaming", "writing"} /\ Stop(r) /\ UNCHANGED <<gone, answer>>
    BY DEF StreamEnds, StreamSucceeds, StreamTruncated, StreamConversionFails, DownstreamError, hist
  <1>2. CASE StreamSucceeds(r)
    BY <1>1, <1>2, BowOut, VerdictsAre DEF StreamSucceeds, hist
  <1>3. CASE StreamTruncated(r)
    <2>1. /\ Settle(r, "failure", "cancel", TRUE)
          /\ faults' = faults \cup {Fault(r, Cand(r).provider, "upstream")}
      BY <1>3 DEF StreamTruncated, Blame
    <2> QED
      BY <1>1, <2>1, BowOut, VerdictsAre
  <1>4. CASE StreamConversionFails(r)
    <2>1. /\ Settle(r, "cancel", "failure", FALSE)
          /\ faults' = faults \cup {Fault(r, Cand(r).mode, "conversion")}
      BY <1>4 DEF StreamConversionFails, Blame
    <2> QED
      BY <1>1, <2>1, BowOut, VerdictsAre
  <1>5. CASE DownstreamError(r)
    BY <1>1, <1>5, BowOut, VerdictsAre DEF DownstreamError, hist
  <1> QED
    BY <1>2, <1>3, <1>4, <1>5 DEF StreamEnds

\* A call or a stream proceeds: nothing of the request changes but its label.
LEMMA ProceedGood ==
  ASSUME IInv, NEW r \in Requests,
         NEW from \in InCall \cup {"streaming", "writing"},
         NEW to \in InCall \cup {"streaming", "writing"},
         from \in InCall <=> to \in InCall, Proceed(r, from, to)
  PROVE  Good(r)
  <1>1. /\ pc(r) = from /\ Goto(r, to)
        /\ UNCHANGED <<breakers, guards, gone, faults, answer>>
    BY DEF Proceed, hist
  <1>2. from \notin {"resolve", "done"} /\ to \in Labels \ {"resolve", "backoff", "send"}
    BY DEF InCall, Labels
  <1>3. Moves(r) /\ CandKept(r) /\ ctl'[r].pc = to /\ ctl'[r].calls = ctl[r].calls
    BY <1>1, <1>2, GotoMoves DEF IInv
  <1>4. ReplyStep(r)
    BY <1>1, <1>3, CtlIs DEF IInv, ReplyStep, SharedInv, ReplyInv, InCall
  <1>5. ctl'[r].pc \in Claimed /\ pc(r) \in Claimed
    BY <1>1, <1>3 DEF Claimed
  <1> QED
    BY <1>1, <1>2, <1>3, <1>4, <1>5, InnerStep DEF Later

LEMMA ProgressGood ==
  ASSUME IInv, NEW r \in Requests,
         \/ RequestWritten(r) \/ HeaderBegins(r) \/ StreamAccepted(r)
         \/ ChunkWritten(r) \/ ChunkRead(r)
  PROVE  Good(r)
  BY ProceedGood DEF RequestWritten, HeaderBegins, StreamAccepted, ChunkWritten, ChunkRead, InCall

LEMMA CommitGood ==
  ASSUME IInv, NEW r \in Requests, Commit(r)
  PROVE  Good(r)
  <1>1. /\ pc(r) = "opening" /\ Goto(r, "writing") /\ answer' = [answer EXCEPT ![r] = "reply"]
        /\ UNCHANGED <<breakers, guards, gone, faults>>
    BY DEF Commit, Answer
  <1>2. Moves(r) /\ CandKept(r) /\ ctl'[r].pc = "writing"
    BY <1>1, GotoMoves DEF IInv, Labels
  <1>3. ReplyStep(r)
    BY <1>1, <1>2, ReplySteps DEF IInv
  <1> QED
    BY <1>1, <1>2, <1>3, InnerStep DEF Later, Claimed, InCall

LEMMA BufferedSuccessGood ==
  ASSUME IInv, NEW r \in Requests, BufferedSuccess(r)
  PROVE  Good(r)
  <1>1. /\ pc(r) = "answered" /\ SettleTarget(r, FALSE) /\ SettleRoute(r, "success")
        /\ Goto(r, "copying") /\ answer' = [answer EXCEPT ![r] = "reply"]
        /\ UNCHANGED <<prov, provLease, gone, faults>>
    BY DEF BufferedSuccess, Answer
  <1>2. Moves(r) /\ CandKept(r) /\ ctl'[r].pc = "copying"
    BY <1>1, GotoMoves DEF IInv, Labels
  <1>3. ReplyStep(r)
    BY <1>1, <1>2, ReplySteps DEF IInv
  <1>4. \A q \in Requests : CandKept(q)
    BY <1>2 DEF Moves, CandKept
  <1>5. ProvSide(r) /\ RouteSide(r)
    <2>1. "success" \in Verdicts /\ "success" # "failure"
      BY DEF Verdicts
    <2> QED
      BY <1>1, <1>4, <2>1 DEF ProvSide, RouteSide, ProvIdle, RouteClosed
  <1>6. Onward(r) /\ LeaseStep(r)
    <2>1. routeLease'[r] = NoLease
      BY <1>1 DEF SettleRoute, IInv, SharedInv
    <2> QED
      BY <1>1, <1>2, <2>1 DEF Onward, Later, Claimed, InCall, CandKept, LeaseStep, Holding
  <1>7. TargetStep
    BY <1>1, CandType DEF SettleTarget, TargetStep, IInv, SharedInv
  <1> QED
    BY <1>1, <1>2, <1>3, <1>5, <1>6, <1>7 DEF Good, FaultStep, IInv, SharedInv

LEMMA ReplyCopiedGood ==
  ASSUME IInv, NEW r \in Requests, ReplyCopied(r)
  PROVE  Good(r)
  <1>1. /\ pc(r) = "copying" /\ SettleProvider(r, "success") /\ Stop(r)
        /\ UNCHANGED <<route, target, routeLease, targetOpen, gone, faults, answer>>
    BY DEF ReplyCopied, hist
  <1>2. Moves(r) /\ ctl'[r].pc = "done" /\ ctl'[r].calls = 0 /\ Onward(r)
    BY <1>1, StopMoves DEF IInv
  <1>3. ReplyStep(r)
    BY <1>1, <1>2, ReplySteps DEF IInv
  <1>4. \A q \in Requests \ {r} : CandKept(q)
    BY <1>2 DEF Moves, CandKept
  <1>5. provLease'[r] = NoLease /\ routeLease[r] = NoLease
    BY <1>1 DEF SettleProvider, IInv, SharedInv, LeaseInv, Claimed, InCall
  <1>6. ProvSide(r) /\ RouteSide(r)
    <2>1. "success" \in Verdicts /\ "success" # "failure"
      BY DEF Verdicts
    <2> QED
      BY <1>1, <1>4, <1>5, <2>1 DEF ProvSide, RouteSide, ProvClosed, RouteIdle
  <1>7. LeaseStep(r) /\ TargetStep
    BY <1>1, <1>5 DEF LeaseStep, TargetStep, IInv, SharedInv
  <1> QED
    BY <1>1, <1>2, <1>3, <1>6, <1>7 DEF Good, FaultStep, IInv, SharedInv

LEMMA DisconnectGood ==
  ASSUME IInv, NEW r \in Requests, Disconnect(r)
  PROVE  Good(r)
  <1>1. /\ pc(r) \in Later /\ gone' \in [Requests -> BOOLEAN]
        /\ UNCHANGED <<breakers, guards, ctl, faults, answer>>
    BY DEF Disconnect, AtUpstream, Later, Claimed, InCall, hist, IInv, SharedInv
  <1>2. Moves(r) /\ CandKept(r) /\ Onward(r)
    BY <1>1 DEF IInv, CtlInv, Moves, CandKept, Onward, Later, Claimed, InCall, pc
  <1>3. ReplyStep(r)
    BY <1>1, CtlIs DEF IInv, ReplyStep, SharedInv, ReplyInv, pc
  <1>4. ProvSide(r) /\ RouteSide(r) /\ LeaseStep(r) /\ TargetStep
    <2>1. \A q \in Requests : CandKept(q)
      BY <1>1 DEF CandKept
    <2>2. ProvSide(r) /\ RouteSide(r)
      BY <1>1, <2>1 DEF ProvSide, RouteSide, ProvIdle, RouteIdle, breakers, guards
    <2>3. LeaseStep(r)
      BY <1>1 DEF IInv, LeaseInv, LeaseStep, guards, pc
    <2>4. TargetStep
      BY <1>1 DEF IInv, SharedInv, TargetStep, breakers, guards
    <2> QED
      BY <2>2, <2>3, <2>4
  <1> QED
    BY <1>1, <1>2, <1>3, <1>4 DEF Good, FaultStep

LEMMA DeadlinePassesGood ==
  ASSUME IInv, NEW r \in Requests, DeadlinePasses(r)
  PROVE  Good(r)
  <1> DEFINE c == [ctl[r] EXCEPT !.spent = TRUE]
  <1>1. /\ pc(r) \in {"loop", "backoff", "send", "waiting", "opening"} /\ Update(r, c)
        /\ UNCHANGED <<breakers, guards, gone, faults, answer>>
    BY DEF DeadlinePasses, hist
  <1>2. /\ c \in LocalVars /\ c.pc = ctl[r].pc /\ c.pos = ctl[r].pos /\ c.cands = ctl[r].cands
        /\ c.calls = ctl[r].calls /\ c.total = ctl[r].total /\ c.attempt = ctl[r].attempt
    BY DEF IInv, CtlInv, LocalVars
  <1> HIDE DEF c
  <1>3. Placed(c) /\ UnderCap(c)
    BY <1>2 DEF IInv, CtlInv, Placed, UnderCap
  <1>4. Moves(r) /\ ctl'[r] = c
    BY <1>1, <1>2, <1>3, TurnTo DEF IInv
  <1>5. ReplyStep(r)
    BY <1>1, <1>4, ReplySteps DEF IInv
  <1> QED
    BY <1>1, <1>2, <1>4, <1>5, InnerStep DEF Later, Claimed, InCall, CandKept, pc

---------------------------------------------------------------------------
(* The theorems.                                                           *)

LEMMA FaultsKept ==
  ASSUME CtlInv, FaultInv, NEW r \in Requests, Moves(r), Onward(r), FaultStep(r)
  PROVE  FaultInv' /\ faults \subseteq faults' /\ IsFiniteSet(faults')
  <1>1. faults \subseteq faults' /\ IsFiniteSet(faults')
    BY FS_AddElement DEF FaultInv, FaultStep
  <1>2. \A q \in Requests : ctl[q].pos \in Nat /\ ctl'[q].pos \in Nat
    BY DEF CtlInv, Moves, LocalVars
  <1>3. ASSUME NEW f \in faults'
        PROVE  /\ f.request \in Requests /\ f.pos \in Nat
               /\ ctl'[f.request].pc # "done" => f.pos <= ctl'[f.request].pos
               /\ ctl'[f.request].pc \notin (Holding \ {"prepare"}) \cup {"done"} =>
                    f.pos < ctl'[f.request].pos
    <2>1. CASE f \in faults /\ f.request # r
      BY <2>1 DEF FaultInv, Moves, pc
    <2>2. CASE f \in faults /\ f.request = r
      <3>1. /\ f.pos \in Nat
            /\ pc(r) # "done" => f.pos <= ctl[r].pos
            /\ pc(r) \notin (Holding \ {"prepare"}) \cup {"done"} => f.pos < ctl[r].pos
        BY <2>2 DEF FaultInv
      <3>2. CASE ctl'[r].pc = "done"
        BY <2>2, <3>1, <3>2
      <3>3. CASE ctl'[r].pos = ctl[r].pos + 1 /\ pc(r) # "done"
        BY <1>2, <2>2, <3>1, <3>3
      <3>4. CASE /\ ctl'[r].pos = ctl[r].pos /\ pc(r) # "done"
                 /\ ctl'[r].pc \in Later \/ pc(r) \in Early
        BY <2>2, <3>1, <3>4 DEF Later, Early, Holding, Claimed, InCall
      <3> QED
        BY <3>2, <3>3, <3>4 DEF Onward
    <2>3. CASE f \notin faults
      <3>1. PICK key, cause : f = Fault(r, key, cause)
        BY <2>3 DEF FaultStep
      <3>2. f.request = r /\ f.pos = ctl[r].pos
        BY <3>1 DEF Fault
      <3>3. \/ ctl'[r].pc = "done" \/ ctl'[r].pos = ctl[r].pos + 1
            \/ ctl'[r].pos = ctl[r].pos /\ ctl'[r].pc \in Later
        BY <2>3 DEF FaultStep
      <3> QED
        BY <1>2, <3>2, <3>3 DEF Later, Holding, Claimed, InCall
    <2> QED
      BY <2>1, <2>2, <2>3
  <1> QED
    BY <1>1, <1>3 DEF FaultInv, pc

LEMMA SidesKept ==
  ASSUME IInv, NEW r \in Requests, Good(r)
  PROVE  ProvSound' /\ RouteSound'
  <1>1. ProvSound /\ RouteSound
    BY ProvFromIInv, RouteFromIInv
  <1>2. /\ faults \subseteq faults' /\ IsFiniteSet(faults') /\ IsFiniteSet(faults)
        /\ \A f \in faults : f.request \in Requests
    BY FaultsKept DEF Good, IInv, FaultInv
  <1>3. CASE pc(r) \in {"resolve", "done"}
    <2>1. ProvIdle /\ RouteIdle
      BY <1>3 DEF Good, ProvSide, RouteSide, ProvClosed, RouteClosed, ProvGranted, RouteGranted
    <2> QED
      BY <1>1, <1>2, <2>1, ProvIdleKeeps, RouteIdleKeeps
  <1>4. CASE pc(r) \notin {"resolve", "done"}
    <2>1. Cand(r).provider \in Providers /\ Cand(r).mode \in Modes
      BY <1>4, CandType DEF IInv
    <2>2. ProvSound'
      <3>1. CASE ProvIdle
        BY <1>1, <1>2, <3>1, ProvIdleKeeps
      <3>2. ASSUME NEW v \in Verdicts, ProvClosed(r, v),
                   v = "failure" => Fault(r, Cand(r).provider, "upstream") \in faults'
            PROVE  ProvSound'
        BY <1>1, <1>2, <2>1, <3>2, ProvClosedKeeps
      <3>3. CASE ProvGranted(r) /\ UNCHANGED faults
        <4>1. pc(r) = "acquire"
          BY <3>3 DEF ProvGranted
        <4>2. provLease[r] = NoLease
          BY <4>1 DEF IInv, LeaseInv, Holding, Claimed, InCall
        <4>3. \A f \in faults : f.request = r => f.pos # ctl[r].pos
          <5>1. ctl[r].pos \in Nat /\ pc(r) \notin (Holding \ {"prepare"}) \cup {"done"}
            BY <4>1 DEF IInv, CtlInv, LocalVars, Holding, Claimed, InCall
          <5> QED
            BY <5>1 DEF IInv, FaultInv
        <4> QED
          BY <1>1, <1>2, <2>1, <3>3, <4>2, <4>3, ProvGrantedKeeps
      <3> QED
        BY <3>1, <3>2, <3>3 DEF Good, ProvSide
    <2>3. RouteSound'
      <3>1. CASE RouteIdle
        BY <1>1, <1>2, <3>1, RouteIdleKeeps
      <3>2. ASSUME NEW v \in Verdicts, RouteClosed(r, v),
                   v = "failure" => Fault(r, Cand(r).mode, "conversion") \in faults'
            PROVE  RouteSound'
        BY <1>1, <1>2, <2>1, <3>2, RouteClosedKeeps
      <3>3. CASE RouteGranted(r) /\ UNCHANGED faults
        <4>1. pc(r) = "prepare"
          BY <3>3 DEF RouteGranted
        <4>2. routeLease[r] = NoLease
          BY <4>1 DEF IInv, LeaseInv, Claimed, InCall
        <4>3. \A f \in faults : f.request = r => f.pos # ctl[r].pos
          <5>1. ctl[r].pos \in Nat /\ pc(r) \notin (Holding \ {"prepare"}) \cup {"done"}
            BY <4>1 DEF IInv, CtlInv, LocalVars, Holding, Claimed, InCall
          <5> QED
            BY <5>1 DEF IInv, FaultInv
        <4> QED
          BY <1>1, <1>2, <2>1, <3>3, <4>2, <4>3, RouteGrantedKeeps
      <3> QED
        BY <3>1, <3>2, <3>3 DEF Good, RouteSide
    <2> QED
      BY <2>2, <2>3
  <1> QED
    BY <1>3, <1>4

LEMMA StepKeeps ==
  ASSUME IInv, NEW r \in Requests, Good(r)
  PROVE  IInv'
  <1>1. ProvSound' /\ RouteSound' /\ FaultInv'
    BY SidesKept, FaultsKept DEF Good, IInv
  <1>2. CtlInv'
    BY DEF Good, Moves, CtlInv, IInv
  <1>3. SharedInv'
    BY <1>1, SameLeases DEF Good, TargetStep, ReplyStep, SharedInv, ProvSound, RouteSound
  <1>4. ProbeInv' /\ BlameInv'
    BY <1>1 DEF ProbeInv, BlameInv, ProvSound, RouteSound
  <1>5. LeaseInv'
    <2>1. \A q \in Requests \ {r} : /\ provLease'[q] = provLease[q] /\ routeLease'[q] = routeLease[q]
                                    /\ ctl'[q] = ctl[q]
      BY DEF IInv, SharedInv, Good, Moves, ProvSide, RouteSide, ProvIdle, RouteIdle, ProvClosed, RouteClosed,
             ProvGranted, RouteGranted, SettleProvider, SettleRoute
    <2> QED
      BY <2>1 DEF IInv, LeaseInv, Good, LeaseStep, pc
  <1>6. ReplyInv'
    BY DEF IInv, ReplyInv, Good, ReplyStep, Moves, pc
  <1> QED
    BY <1>1, <1>2, <1>3, <1>4, <1>5, <1>6 DEF IInv

\* A step of a request, whatever the action, is one of the good ones.
LEMMA RequestSteps ==
  ASSUME IInv, NEW r \in Requests,
         \/ Local(r) \/ Upstream(r) \/ StreamEnds(r)
         \/ TimerFires(r) \/ StreamStalls(r) \/ ClientAborts(r)
         \/ Disconnect(r) \/ DeadlinePasses(r)
  PROVE  Good(r)
  <1>1. CASE Local(r)
    BY <1>1, ResolveGood, CheckTargetGood, AcquireProviderGood, PreflightErrorGood, ClaimRouteGood,
       TopOfLoopGood, BackoffCutGood, BackoffOverGood, SendGood DEF Local
  <1>2. CASE Upstream(r)
    BY <1>2, RetryableGood, NonRetryableGood, ConversionFailsGood, BufferedSuccessGood, ReplyCopiedGood,
       CommitGood, ProgressGood DEF Upstream, UpstreamFails
  <1>3. CASE StreamEnds(r) \/ StreamStalls(r)
    BY <1>3, StreamEndsGood DEF StreamEnds, StreamStalls
  <1>4. CASE TimerFires(r)
    <2>1. "timeout" \in Failure
      BY DEF Failure, Counted
    <2> QED
      BY <1>4, <2>1, RetryableGood DEF TimerFires
  <1> QED
    BY <1>1, <1>2, <1>3, <1>4, ClientAbortsGood, DisconnectGood, DeadlinePassesGood

\* The clocks and the operator.
LEMMA OthersKeep ==
  ASSUME IInv, UNCHANGED <<ctl, gone, answer, faults>>,
         target' \in [Modes -> Nat], targetOpen' \in [Requests -> BOOLEAN],
         \A r \in Requests : /\ provLease'[r] = provLease[r]
                             /\ routeLease'[r] \in {routeLease[r], NoLease},
         ProvSound', RouteSound'
  PROVE  IInv'
  <1>1. CtlInv' /\ FaultInv'
    BY DEF IInv, CtlInv, FaultInv, pc
  <1>2. SharedInv' /\ ProbeInv' /\ BlameInv'
    BY SameLeases DEF IInv, SharedInv, ProvSound, RouteSound, ProbeInv, BlameInv
  <1>3. LeaseInv' /\ ReplyInv'
    BY DEF IInv, LeaseInv, ReplyInv, pc
  <1> QED
    BY <1>1, <1>2, <1>3 DEF IInv

LEMMA CoolProviderKeeps ==
  ASSUME IInv, NEW p \in Providers, CoolProvider(p)
  PROVE  IInv'
  <1>1. /\ prov' = [prov EXCEPT ![p] = Prov!Aged(@)]
        /\ UNCHANGED <<route, target, provLease, routeLease, targetOpen, ctl, gone, answer, faults>>
    BY DEF CoolProvider, guards, hist
  <1>2. ProvSound /\ RouteSound /\ IsFiniteSet(faults) /\ \A f \in faults : f.request \in Requests
    BY ProvFromIInv, RouteFromIInv DEF IInv, FaultInv
  <1>3. ProvCools(p) /\ RouteIdle
    BY <1>1 DEF ProvCools, RouteIdle, CandKept
  <1>4. ProvSound' /\ RouteSound'
    BY <1>1, <1>2, <1>3, ProvCoolsKeeps, RouteIdleKeeps
  <1> QED
    BY <1>1, <1>4, OthersKeep DEF IInv, SharedInv

LEMMA CoolRouteKeeps ==
  ASSUME IInv, NEW m \in Modes, CoolRoute(m)
  PROVE  IInv'
  <1>1. /\ route' = [route EXCEPT ![m] = Route!Aged(@)]
        /\ UNCHANGED <<prov, target, provLease, routeLease, targetOpen, ctl, gone, answer, faults>>
    BY DEF CoolRoute, guards, hist
  <1>2. ProvSound /\ RouteSound /\ IsFiniteSet(faults) /\ \A f \in faults : f.request \in Requests
    BY ProvFromIInv, RouteFromIInv DEF IInv, FaultInv
  <1>3. RouteCools(m) /\ ProvIdle
    BY <1>1 DEF RouteCools, ProvIdle, CandKept
  <1>4. ProvSound' /\ RouteSound'
    BY <1>1, <1>2, <1>3, RouteCoolsKeeps, ProvIdleKeeps
  <1> QED
    BY <1>1, <1>4, OthersKeep DEF IInv, SharedInv

LEMMA TargetForgetsKeeps ==
  ASSUME IInv, NEW m \in Modes, TargetForgets(m)
  PROVE  IInv'
  <1>1. /\ target[m] > 0 /\ target' = [target EXCEPT ![m] = @ - 1]
        /\ UNCHANGED <<prov, route, provLease, routeLease, targetOpen, ctl, gone, answer, faults>>
    BY DEF TargetForgets, guards, hist
  <1>2. ProvSound /\ RouteSound /\ IsFiniteSet(faults) /\ \A f \in faults : f.request \in Requests
    BY ProvFromIInv, RouteFromIInv DEF IInv, FaultInv
  <1>3. ProvIdle /\ RouteIdle
    BY <1>1 DEF ProvIdle, RouteIdle, CandKept
  <1>4. ProvSound' /\ RouteSound'
    BY <1>1, <1>2, <1>3, ProvIdleKeeps, RouteIdleKeeps
  <1>5. target' \in [Modes -> Nat]
    BY <1>1 DEF IInv, SharedInv
  <1> QED
    BY <1>1, <1>4, <1>5, OthersKeep DEF IInv, SharedInv

LEMMA NewBreakers ==
  /\ Prov!NewBreaker \in Prov!Breaker /\ Route!NewBreaker = Prov!NewBreaker
  /\ Prov!NewBreaker.state = "closed" /\ ~Prov!NewBreaker.pendingProbe
  /\ Prov!NewBreaker.consecutiveFailures = 0
  BY Constants DEF Prov!NewBreaker, Route!NewBreaker, Prov!Breaker, Prov!State

\* Nobody holds a lease of these breakers.
LEMMA Unclaimed ==
  ASSUME NEW b \in Prov!Breaker, ~b.pendingProbe, b.state # "halfOpen", NEW L
  PROVE  Sound(b, {}, L)
  BY DEF Sound

LEMMA ResetKeeps ==
  ASSUME IInv, ResetRuntimeBreakers
  PROVE  IInv'
  <1>1. /\ route' = [m \in Modes |-> Route!NewBreaker] /\ target' = [m \in Modes |-> 0]
        /\ routeLease' = [r \in Requests |-> NoLease] /\ targetOpen' = [r \in Requests |-> FALSE]
        /\ UNCHANGED <<prov, provLease, ctl, gone, answer, faults>>
    BY DEF ResetRuntimeBreakers, hist
  <1>2. ProvSound /\ IsFiniteSet(faults) /\ \A f \in faults : f.request \in Requests
    BY ProvFromIInv DEF IInv, FaultInv
  <1>3. ProvSound'
    <2>1. ProvIdle
      BY <1>1 DEF ProvIdle, CandKept
    <2> QED
      BY <1>1, <1>2, <2>1, ProvIdleKeeps
  <1>4. RouteSound'
    <2>1. \A m \in Modes : RouteHolders(m)' = {}
      BY <1>1 DEF RouteHolders
    <2>2. \A m \in Modes : Cardinality(RouteSettled(m)') \in Nat
      <3>1. \A m \in Modes : RouteSettled(m)' \subseteq faults
        BY <1>1 DEF RouteSettled, Seen
      <3> QED
        BY <1>2, <3>1, FS_Subset, FS_CardinalityType
    <2>3. \A m \in Modes : route'[m] = Prov!NewBreaker
      BY <1>1, NewBreakers
    <2>4. \A m \in Modes : Sound(route'[m], RouteHolders(m)', routeLease')
      BY <2>1, <2>3, NewBreakers, Unclaimed
    <2>5. /\ route' \in [Modes -> Prov!Breaker] /\ routeLease' \in [Requests -> Prov!Lease]
          /\ \A m \in Modes : 0 <= Cardinality(RouteSettled(m)')
      BY <1>1, <2>2, NewBreakers, NoLeaseType
    <2> QED
      BY <2>3, <2>4, <2>5, NewBreakers DEF RouteSound
  <1>5. \A r \in Requests : routeLease'[r] = NoLease /\ provLease'[r] = provLease[r]
    BY <1>1
  <1>6. target' \in [Modes -> Nat] /\ targetOpen' \in [Requests -> BOOLEAN]
    BY <1>1
  <1> QED
    BY <1>1, <1>3, <1>4, <1>5, <1>6, OthersKeep

LEMMA InitIInv == Init => IInv
  <1> SUFFICES ASSUME Init PROVE IInv
    OBVIOUS
  <1>1. CtlInv
    <2>1. ASSUME NEW r \in Requests
          PROVE  ctl[r] \in LocalVars /\ Placed(ctl[r]) /\ UnderCap(ctl[r])
      <3>1. Chain[r] \in Seq(Candidate)
        BY FailoverAssumption
      <3>2. ctl[r] = Start(Chain[r])
        BY DEF Init
      <3>3. "resolve" \in Labels /\ "none" \in Failure \cup {"none"} /\ 1 \in Nat \ {0} /\ 0 \in Nat
        BY DEF Labels
      <3>4. /\ ctl[r] \in LocalVars /\ ctl[r].pc = "resolve" /\ ctl[r].pos = 1 /\ ctl[r].attempt = 0
            /\ ctl[r].calls = 0 /\ ctl[r].total = 0
        BY <3>1, <3>2, <3>3 DEF Start, LocalVars
      <3> QED
        BY <3>4, Constants DEF Placed, UnderCap
    <2>2. ctl = [r \in Requests |-> ctl[r]]
      BY DEF Init
    <2> QED
      BY <2>1, <2>2 DEF CtlInv
  <1>2. PICK S \in SUBSET MayBeOpen :
          /\ prov = [p \in Providers |->
                       IF p \in S THEN Opened(Prov!NewBreaker, ProviderThreshold, 0)
                       ELSE Prov!NewBreaker]
          /\ route = [m \in Modes |->
                        IF m \in S THEN Opened(Route!NewBreaker, RouteThreshold, RecoveryTimeout)
                        ELSE Route!NewBreaker]
    BY DEF Init
  <1>3. ASSUME NEW n \in Nat, NEW age \in 0 .. RecoveryTimeout
        PROVE  /\ Opened(Prov!NewBreaker, n, age) \in Prov!Breaker
               /\ Opened(Prov!NewBreaker, n, age).state = "open"
               /\ ~Opened(Prov!NewBreaker, n, age).pendingProbe
    <2>1. 2 \in Nat \ {0} /\ "open" \in Prov!State
      BY DEF Prov!State
    <2> QED
      BY <2>1, NewBreakers DEF Opened, Prov!Breaker
  <1>4. /\ ProviderThreshold \in Nat /\ RouteThreshold \in Nat
        /\ 0 \in 0 .. RecoveryTimeout /\ RecoveryTimeout \in 0 .. RecoveryTimeout
    BY Constants
  <1>5. /\ prov \in [Providers -> Prov!Breaker]
        /\ \A p \in Providers : /\ ~prov[p].pendingProbe /\ prov[p].state # "halfOpen"
                                /\ prov[p].state = "closed" => prov[p].consecutiveFailures = 0
    <2>1. ASSUME NEW p \in Providers
          PROVE  /\ prov[p] \in Prov!Breaker /\ ~prov[p].pendingProbe /\ prov[p].state # "halfOpen"
                 /\ prov[p].state = "closed" => prov[p].consecutiveFailures = 0
      <3>1. CASE p \in S
        <4>1. prov[p] = Opened(Prov!NewBreaker, ProviderThreshold, 0)
          BY <1>2, <3>1
        <4> QED
          BY <1>3, <1>4, <4>1
      <3>2. CASE p \notin S
        BY <1>2, <3>2, NewBreakers
      <3> QED
        BY <3>1, <3>2
    <2>2. prov = [p \in Providers |-> prov[p]]
      BY <1>2
    <2> QED
      BY <2>1, <2>2
  <1>6. /\ route \in [Modes -> Prov!Breaker]
        /\ \A m \in Modes : /\ ~route[m].pendingProbe /\ route[m].state # "halfOpen"
                            /\ route[m].state = "closed" => route[m].consecutiveFailures = 0
    <2>1. ASSUME NEW m \in Modes
          PROVE  /\ route[m] \in Prov!Breaker /\ ~route[m].pendingProbe /\ route[m].state # "halfOpen"
                 /\ route[m].state = "closed" => route[m].consecutiveFailures = 0
      <3>1. CASE m \in S
        <4>1. route[m] = Opened(Prov!NewBreaker, RouteThreshold, RecoveryTimeout)
          BY <1>2, <3>1, NewBreakers
        <4> QED
          BY <1>3, <1>4, <4>1
      <3>2. CASE m \notin S
        BY <1>2, <3>2, NewBreakers
      <3> QED
        BY <3>1, <3>2
    <2>2. route = [m \in Modes |-> route[m]]
      BY <1>2
    <2> QED
      BY <2>1, <2>2
  <1>7. /\ provLease = [r \in Requests |-> NoLease] /\ routeLease = [r \in Requests |-> NoLease]
        /\ target = [m \in Modes |-> 0] /\ targetOpen = [r \in Requests |-> FALSE]
        /\ gone = [r \in Requests |-> FALSE] /\ answer = [r \in Requests |-> "none"]
        /\ faults = {}
    BY DEF Init
  <1>8. SharedInv
    BY <1>5, <1>6, <1>7, NoLeaseType, SameLeases DEF SharedInv, Outcomes
  <1>9. LeaseInv /\ ReplyInv /\ FaultInv
    BY <1>7, FS_EmptySet DEF LeaseInv, ReplyInv, FaultInv
  <1>10. ProbeInv
    <2>1. /\ \A p \in Providers : ProviderHolders(p) = {}
          /\ \A m \in Modes : RouteHolders(m) = {}
      BY <1>7 DEF ProviderHolders, RouteHolders
    <2> QED
      BY <1>5, <1>6, <2>1, Unclaimed DEF ProbeInv
  <1>11. BlameInv
    <2>1. /\ \A p \in Providers : ProviderSettled(p) = {}
          /\ \A m \in Modes : RouteSettled(m) = {}
      BY <1>7 DEF ProviderSettled, RouteSettled, Seen
    <2>2. Cardinality({}) = 0
      BY FS_EmptySet
    <2>3. \A p \in Providers : prov[p].state = "closed" =>
            prov[p].consecutiveFailures <= Cardinality(ProviderSettled(p))
      BY <1>5, <2>1, <2>2
    <2>4. \A m \in Modes : route[m].state = "closed" =>
            route[m].consecutiveFailures <= Cardinality(RouteSettled(m))
      BY <1>6, <2>1, <2>2
    <2> QED
      BY <2>3, <2>4 DEF BlameInv
  <1> QED
    BY <1>1, <1>8, <1>9, <1>10, <1>11 DEF IInv

LEMMA NextIInv == IInv /\ [Next]_vars => IInv'
  <1> SUFFICES ASSUME IInv, [Next]_vars PROVE IInv'
    OBVIOUS
  <1>1. ASSUME NEW r \in Requests,
               \/ Local(r) \/ Upstream(r) \/ StreamEnds(r)
               \/ TimerFires(r) \/ StreamStalls(r) \/ ClientAborts(r)
               \/ Disconnect(r) \/ DeadlinePasses(r)
        PROVE  IInv'
    BY <1>1, RequestSteps, StepKeeps
  <1>2. CASE UNCHANGED vars
    <2>1. UNCHANGED <<prov, route, target, provLease, routeLease, targetOpen, ctl, gone, answer, faults>>
      BY <1>2 DEF vars, breakers, guards, hist
    <2>2. ProvSound /\ RouteSound /\ IsFiniteSet(faults) /\ \A f \in faults : f.request \in Requests
      BY ProvFromIInv, RouteFromIInv DEF IInv, FaultInv
    <2>3. ProvIdle /\ RouteIdle
      BY <2>1 DEF ProvIdle, RouteIdle, CandKept
    <2>4. ProvSound' /\ RouteSound'
      BY <2>1, <2>2, <2>3, ProvIdleKeeps, RouteIdleKeeps
    <2> QED
      BY <2>1, <2>4, OthersKeep DEF IInv, SharedInv
  <1> QED
    BY <1>1, <1>2, CoolProviderKeeps, CoolRouteKeeps, TargetForgetsKeeps, ResetKeeps DEF Next, Finished

LEMMA Inductive == Spec => []IInv
  BY InitIInv, NextIInv, PTL DEF Spec

---------------------------------------------------------------------------
(* What follows from the invariant.                                        *)

\* The variables of the loops stay in their types: a request at work is at a
\* candidate of its chain and within that candidate's retries.
THEOREM FailoverTyping == Spec => []TypeOK
  <1>1. IInv => TypeOK
    <2> SUFFICES ASSUME IInv PROVE TypeOK
      OBVIOUS
    <2>1. ASSUME NEW r \in Requests
          PROVE  /\ pc(r) \in Labels /\ ctl[r].cands \in Seq(Candidate)
                 /\ InFlight(r) => /\ ctl[r].pos \in DOMAIN ctl[r].cands
                                   /\ ctl[r].attempt \in 0 .. Cand(r).maxRetries
                 /\ ctl[r].total \in Nat /\ ctl[r].calls \in Nat
                 /\ ctl[r].fail \in Failure \cup {"none"}
                 /\ ctl[r].armed \in BOOLEAN /\ ctl[r].spent \in BOOLEAN
      BY DEF IInv, CtlInv, LocalVars, Placed, InFlight, Cand, pc
    <2> QED
      BY <2>1, SameLeases DEF IInv, SharedInv, TypeOK, Labels, Outcomes
  <1> QED
    BY <1>1, Inductive, PTL

\* The holder of a half-open breaker's probe is one request, still at work on
\* that provider (route mode): of any set of leases the breaker has handed
\* out, exactly one belongs to its current generation.
LEMMA OneHolder ==
  ASSUME NEW b \in Prov!Breaker, NEW H \in SUBSET Requests, NEW L \in [Requests -> Prov!Lease],
         Sound(b, H, L), b.pendingProbe
  PROVE  ExactlyOne({r \in H : Can(b, L[r]) /\ L[r].halfOpen})
  <1>1. b.state = "halfOpen" /\ b.generation # 0
    BY DEF Sound, Prov!Breaker
  <1>2. PICK r \in H : /\ L[r].generation = b.generation
                       /\ \A q \in H : L[q].generation = b.generation => q = r
    BY <1>1 DEF Sound
  <1>3. L[r].halfOpen
    BY <1>1, <1>2 DEF Sound, Prov!Lease
  <1>4. {q \in H : Can(b, L[q]) /\ L[q].halfOpen} = {r}
    BY <1>1, <1>2, <1>3 DEF Can
  <1> QED
    BY <1>4 DEF ExactlyOne

\* No exit of the two loops forgets a probe, and none holds two: whoever may
\* still settle a half-open breaker is exactly one request at work on it.
THEOREM ProbesNotLeaked == Spec => []NoLeakedProbe
  <1>1. IInv => NoLeakedProbe
    <2> SUFFICES ASSUME IInv PROVE NoLeakedProbe
      OBVIOUS
    <2>1. ASSUME NEW p \in Providers, prov[p].pendingProbe
          PROVE  ExactlyOne({r \in Requests : HoldsProvider(r, p) /\ provLease[r].halfOpen})
      <3> DEFINE H == ProviderHolders(p)
      <3>1. ExactlyOne({r \in H : Can(prov[p], provLease[r]) /\ provLease[r].halfOpen})
        <4>1. H \in SUBSET Requests
          BY DEF ProviderHolders
        <4>2. /\ prov[p] \in Prov!Breaker /\ provLease \in [Requests -> Prov!Lease]
              /\ Sound(prov[p], H, provLease)
          BY DEF IInv, SharedInv, ProbeInv
        <4> HIDE DEF H
        <4> QED
          BY <2>1, <4>1, <4>2, OneHolder
      <3>2. \A r \in Requests : HoldsProvider(r, p) <=> r \in H /\ Can(prov[p], provLease[r])
        BY NoLeaseType DEF HoldsProvider, ProviderHolders, Can, Prov!CanContinue, IInv, LeaseInv,
           Holding, Claimed, InCall, InFlight
      <3>3. H \subseteq Requests
        BY DEF ProviderHolders
      <3>4. {r \in Requests : HoldsProvider(r, p) /\ provLease[r].halfOpen} =
              {r \in H : Can(prov[p], provLease[r]) /\ provLease[r].halfOpen}
        BY <3>2, <3>3
      <3> QED
        BY <3>1, <3>4
    <2>2. ASSUME NEW m \in Modes, route[m].pendingProbe
          PROVE  ExactlyOne({r \in Requests : HoldsRoute(r, m) /\ routeLease[r].halfOpen})
      <3> DEFINE H == RouteHolders(m)
      <3>1. ExactlyOne({r \in H : Can(route[m], routeLease[r]) /\ routeLease[r].halfOpen})
        <4>1. H \in SUBSET Requests
          BY DEF RouteHolders
        <4>2. /\ route[m] \in Prov!Breaker /\ routeLease \in [Requests -> Prov!Lease]
              /\ Sound(route[m], H, routeLease)
          BY SameLeases DEF IInv, SharedInv, ProbeInv
        <4> HIDE DEF H
        <4> QED
          BY <2>2, <4>1, <4>2, OneHolder
      <3>2. \A r \in Requests : HoldsRoute(r, m) <=> r \in H /\ Can(route[m], routeLease[r])
        BY NoLeaseType DEF HoldsRoute, RouteHolders, Can, Route!CanContinue, IInv, LeaseInv,
           Claimed, InCall, InFlight
      <3>3. H \subseteq Requests
        BY DEF RouteHolders
      <3>4. {r \in Requests : HoldsRoute(r, m) /\ routeLease[r].halfOpen} =
              {r \in H : Can(route[m], routeLease[r]) /\ routeLease[r].halfOpen}
        BY <3>2, <3>3
      <3> QED
        BY <3>1, <3>4
    <2> QED
      BY <2>1, <2>2 DEF NoLeakedProbe
  <1> QED
    BY <1>1, Inductive, PTL

\* A request never makes more upstream calls than the cap, whatever its chain
\* and the retries of its candidates.
THEOREM CapKept == Spec => []CallsCapped
  <1>1. IInv => CallsCapped
    BY Constants DEF IInv, CtlInv, UnderCap, LocalVars, CallsCapped
  <1> QED
    BY <1>1, Inductive, PTL

\* A closed breaker has counted no more than the candidates on which a failure
\* of its own kind was seen.
THEOREM BlameKept == Spec => []BlameWhereDue
  <1>1. IInv => BlameWhereDue
    <2> SUFFICES ASSUME IInv PROVE BlameWhereDue
      OBVIOUS
    <2>1. ASSUME NEW S, NEW T, S \subseteq T, T \subseteq faults
          PROVE  Cardinality(S) \in Nat /\ Cardinality(T) \in Nat /\ Cardinality(S) <= Cardinality(T)
      <3>1. IsFiniteSet(T)
        BY <2>1, FS_Subset DEF IInv, FaultInv
      <3> QED
        BY <2>1, <3>1, FS_Subset, FS_CardinalityType
    <2>2. ASSUME NEW p \in Providers, prov[p].state = "closed"
          PROVE  prov[p].consecutiveFailures <= Cardinality(Seen(p, "upstream"))
      <3>1. ProviderSettled(p) \subseteq Seen(p, "upstream") /\ Seen(p, "upstream") \subseteq faults
        BY DEF ProviderSettled, Seen
      <3>2. /\ prov[p].consecutiveFailures \in Nat
            /\ prov[p].consecutiveFailures <= Cardinality(ProviderSettled(p))
        BY <2>2 DEF IInv, SharedInv, BlameInv, Prov!Breaker
      <3> QED
        BY <2>1, <3>1, <3>2
    <2>3. ASSUME NEW m \in Modes, route[m].state = "closed"
          PROVE  route[m].consecutiveFailures <= Cardinality(Seen(m, "conversion"))
      <3>1. RouteSettled(m) \subseteq Seen(m, "conversion") /\ Seen(m, "conversion") \subseteq faults
        BY DEF RouteSettled, Seen
      <3>2. /\ route[m].consecutiveFailures \in Nat
            /\ route[m].consecutiveFailures <= Cardinality(RouteSettled(m))
        BY <2>3, SameLeases DEF IInv, SharedInv, BlameInv, Prov!Breaker
      <3> QED
        BY <2>1, <3>1, <3>2
    <2> QED
      BY <2>2, <2>3 DEF BlameWhereDue
  <1> QED
    BY <1>1, Inductive, PTL

\* Once the client was sent anything of a reply, its request makes no further
\* upstream call and puts no error page behind it.
THEOREM ReplyFinal == Spec => ReplyIsFinal
  <1>1. ASSUME IInv, [Next]_vars
        PROVE  [\A r \in Requests :
                  answer[r] = "reply" => ctl'[r].calls <= ctl[r].calls /\ answer'[r] # "error"]_vars
    <2>1. SUFFICES ASSUME NEW r \in Requests, answer[r] = "reply"
                   PROVE  ctl'[r].calls <= ctl[r].calls /\ answer'[r] # "error"
      OBVIOUS
    <2>2. ctl[r].calls \in Nat
      BY <1>1, CtlIs DEF IInv
    <2>3. CASE UNCHANGED <<ctl, answer>>
      BY <2>1, <2>2, <2>3
    <2>4. ASSUME NEW q \in Requests,
                 \/ Local(q) \/ Upstream(q) \/ StreamEnds(q)
                 \/ TimerFires(q) \/ StreamStalls(q) \/ ClientAborts(q)
                 \/ Disconnect(q) \/ DeadlinePasses(q)
          PROVE  ctl'[r].calls <= ctl[r].calls /\ answer'[r] # "error"
      <3>1. Good(q)
        BY <1>1, <2>4, RequestSteps
      <3>2. CASE q = r
        BY <2>1, <3>1, <3>2 DEF Good, ReplyStep
      <3>3. CASE q # r
        BY <2>1, <2>2, <3>1, <3>3 DEF Good, ReplyStep, Moves
      <3> QED
        BY <3>2, <3>3
    <2>5. CASE UNCHANGED vars
      BY <2>3, <2>5 DEF vars, hist
    <2>6. CASE \/ \E p \in Providers : CoolProvider(p)
               \/ \E m \in Modes : CoolRoute(m) \/ TargetForgets(m)
               \/ ResetRuntimeBreakers
      BY <2>3, <2>6 DEF CoolProvider, CoolRoute, TargetForgets, ResetRuntimeBreakers, hist
    <2> QED
      BY <1>1, <2>4, <2>5, <2>6 DEF Next, Finished
  <1> QED
    BY <1>1, Inductive, PTL DEF Spec, ReplyIsFinal

---------------------------------------------------------------------------
(* Every breaker is a gate.                                                *)

\* A step of the gate, on its mode m and permits P.
GateStep(m, P, n, Q) ==
  \/ n = m /\ Q = P
  \/ \E r \in Requests :
       \/ m = "closed" /\ P[r] = "none" /\ n = m /\ Q = [P EXCEPT ![r] = "normal"]
       \/ m = "open" /\ P[r] = "none" /\ n = "probing" /\ Q = [P EXCEPT ![r] = "probe"]
       \/ P[r] \in {"normal", "stale"} /\ n = m /\ Q = [P EXCEPT ![r] = "none"]
       \/ /\ m = "closed" /\ P[r] = "normal" /\ n = "open"
          /\ Q = [q \in Requests |-> IF q = r THEN "none"
                                     ELSE IF P[q] = "normal" THEN "stale" ELSE P[q]]
       \/ m = "probing" /\ P[r] = "probe" /\ n \in {"closed", "open"} /\ Q = [P EXCEPT ![r] = "none"]

\* The permits that leases L amount to, once handed out to H by breaker b.
View(b, H, L, r) == IF r \in H THEN Permit(L[r], Can(b, L[r])) ELSE "none"
Views(b, H, L) == [r \in Requests |-> View(b, H, L, r)]

\* A breaker b whose leases L are with H, before and after a step: a guard is
\* closed, a lease granted, or only the clock has moved.
BreakerStep(b, H, L, a, K, M) ==
  \/ \E r \in Requests, v \in Verdicts :
       /\ r \in H \/ L[r].generation = 0
       /\ Settles(b, L[r], v, a) /\ K = H \ {r} /\ \A q \in K : M[q] = L[q]
  \/ \E r \in Requests :
       r \notin H /\ Granting(b, a, M[r]) /\ K = H \cup {r} /\ \A q \in H : M[q] = L[q]
  \/ Still(b, a) /\ K = H /\ \A q \in H : M[q] = L[q]

LEMMA OneView ==
  ASSUME NEW b, NEW H, NEW L, NEW a, NEW K, NEW M, NEW r \in Requests,
         \A q \in Requests \ {r} : View(a, K, M, q) = View(b, H, L, q)
  PROVE  Views(a, K, M) = [Views(b, H, L) EXCEPT ![r] = View(a, K, M, r)]
  BY DEF Views

LEMMA ClosedIsGateStep ==
  ASSUME NEW b \in Prov!Breaker, NEW H \in SUBSET Requests, NEW L \in [Requests -> Prov!Lease],
         Sound(b, H, L), NEW r \in Requests, r \in H \/ L[r].generation = 0,
         NEW v, NEW a, Settles(b, L[r], v, a), NEW M, \A q \in H \ {r} : M[q] = L[q]
  PROVE  GateStep(GateMode(b), Views(b, H, L), GateMode(a), Views(a, H \ {r}, M))
  <1> DEFINE P == Views(b, H, L)
             K == H \ {r}
  <1>1. /\ b.generation \in Nat \ {0} /\ b.state \in {"closed", "open", "halfOpen"}
        /\ \A q \in Requests : L[q].generation \in Nat /\ L[q].halfOpen \in BOOLEAN
    BY DEF Prov!Breaker, Prov!Lease, Prov!State
  <1>2. View(a, K, M, r) = "none" /\ P[r] = View(b, H, L, r)
    BY DEF View, Views
  <1>3. CASE ~Can(b, L[r])
    <2>1. a = b
      BY <1>3 DEF Settles
    <2>2. \A q \in Requests \ {r} : View(a, K, M, q) = View(b, H, L, q)
      BY <2>1 DEF View
    <2>3. Views(a, K, M) = [P EXCEPT ![r] = "none"]
      <3> HIDE DEF K
      <3>1. Views(a, K, M) = [P EXCEPT ![r] = View(a, K, M, r)]
        BY <2>2, OneView
      <3> QED
        BY <1>2, <3>1
    <2>4. CASE r \in H
      <3>1. P[r] = "stale"
        BY <1>2, <1>3, <2>4 DEF View, Permit
      <3> QED
        BY <2>1, <2>3, <3>1 DEF GateStep
    <2>5. CASE r \notin H
      <3>1. K = H /\ \A q \in Requests : View(a, K, M, q) = View(b, H, L, q)
        BY <2>2, <2>5 DEF View
      <3>2. Views(a, K, M) = P
        BY <3>1 DEF Views
      <3> QED
        BY <2>1, <3>2 DEF GateStep
    <2> QED
      BY <2>4, <2>5
  <1>4. CASE Can(b, L[r])
    <2>1. r \in H /\ L[r].generation = b.generation
      BY <1>4 DEF Can
    <2>2. CASE L[r].halfOpen
      <3>1. P[r] = "probe" /\ b.state = "halfOpen" /\ GateMode(b) = "probing"
        BY <1>2, <1>4, <2>1, <2>2 DEF View, Permit, Can, GateMode
      <3>2. PICK s \in {"closed", "open"} : Fresh(b, a, s)
        BY <1>4, <2>2 DEF Settles
      <3>3. GateMode(a) \in {"closed", "open"}
        BY <3>2 DEF Fresh, GateMode
      <3>4. \A q \in K : ~Can(b, L[q]) /\ ~Can(a, M[q])
        BY <1>1, <2>1, <3>1, <3>2 DEF Sound, Can, Fresh
      <3>5. \A q \in Requests \ {r} : View(a, K, M, q) = View(b, H, L, q)
        BY <3>4 DEF View, Permit
      <3>6. Views(a, K, M) = [P EXCEPT ![r] = View(a, K, M, r)]
        <4> HIDE DEF K
        <4> QED
          BY <3>5, OneView
      <3> QED
        BY <1>2, <3>1, <3>3, <3>6 DEF GateStep
    <2>3. CASE ~L[r].halfOpen /\ Still(b, a)
      <3>1. P[r] = "normal"
        BY <1>2, <1>4, <2>1, <2>3 DEF View, Permit
      <3>2. GateMode(a) = GateMode(b)
        BY <2>3 DEF Still, GateMode
      <3>3. \A q \in Requests \ {r} : View(a, K, M, q) = View(b, H, L, q)
        BY <2>3 DEF View, Can, Still
      <3>4. Views(a, K, M) = [P EXCEPT ![r] = "none"]
        <4> HIDE DEF K
        <4>1. Views(a, K, M) = [P EXCEPT ![r] = View(a, K, M, r)]
          BY <3>3, OneView
        <4> QED
          BY <1>2, <4>1
      <3> QED
        BY <3>1, <3>2, <3>4 DEF GateStep
    <2>4. CASE ~L[r].halfOpen /\ Fresh(b, a, "open")
      <3>1. P[r] = "normal" /\ GateMode(b) = "closed" /\ b.state = "closed"
        BY <1>2, <1>4, <2>1, <2>4 DEF View, Permit, Can, GateMode
      <3>2. GateMode(a) = "open"
        BY <2>4 DEF Fresh, GateMode
      <3>3. \A q \in K : ~Can(a, M[q]) /\ (Can(b, L[q]) => ~L[q].halfOpen)
        BY <1>1, <2>4, <3>1 DEF Sound, Can, Fresh
      <3>4. \A q \in Requests \ {r} :
              View(a, K, M, q) = IF View(b, H, L, q) = "normal" THEN "stale" ELSE View(b, H, L, q)
        BY <3>3 DEF View, Permit
      <3>5. Views(a, K, M) = [q \in Requests |-> IF q = r THEN "none"
                                 ELSE IF P[q] = "normal" THEN "stale" ELSE P[q]]
        BY <1>2, <3>4 DEF Views
      <3> QED
        BY <3>1, <3>2, <3>5 DEF GateStep
    <2> QED
      BY <1>4, <2>2, <2>3, <2>4 DEF Settles
  <1> QED
    BY <1>3, <1>4

LEMMA GrantedIsGateStep ==
  ASSUME NEW b \in Prov!Breaker, NEW H \in SUBSET Requests, NEW L \in [Requests -> Prov!Lease],
         Sound(b, H, L), NEW r \in Requests, r \notin H,
         NEW a, NEW M, Granting(b, a, M[r]), \A q \in H : M[q] = L[q]
  PROVE  GateStep(GateMode(b), Views(b, H, L), GateMode(a), Views(a, H \cup {r}, M))
  <1> DEFINE P == Views(b, H, L)
             K == H \cup {r}
  <1>1. /\ b.generation \in Nat \ {0} /\ b.state \in {"closed", "open", "halfOpen"}
        /\ \A q \in Requests : L[q].generation \in Nat /\ L[q].halfOpen \in BOOLEAN
    BY DEF Prov!Breaker, Prov!Lease, Prov!State
  <1>2. P[r] = "none" /\ View(a, K, M, r) = Permit(M[r], Can(a, M[r]))
    BY DEF View, Views
  <1>3. CASE b.state = "closed" /\ a = b /\ M[r].halfOpen = FALSE
    <2>1. View(a, K, M, r) = "normal" /\ GateMode(b) = "closed"
      BY <1>1, <1>2, <1>3 DEF Granting, Can, Permit, GateMode
    <2>2. \A q \in Requests \ {r} : View(a, K, M, q) = View(b, H, L, q)
      BY <1>3 DEF View
    <2>3. Views(a, K, M) = [P EXCEPT ![r] = "normal"]
      <3> HIDE DEF K
      <3>1. Views(a, K, M) = [P EXCEPT ![r] = View(a, K, M, r)]
        BY <2>2, OneView
      <3> QED
        BY <2>1, <3>1
    <2> QED
      BY <1>2, <1>3, <2>1, <2>3 DEF GateStep
  <1>4. CASE b.state # "closed" /\ Fresh(b, a, "halfOpen") /\ M[r].halfOpen = TRUE
    <2>1. b.state = "open" /\ GateMode(b) = "open" /\ GateMode(a) = "probing"
      BY <1>1, <1>4 DEF Granting, Sound, Fresh, GateMode
    <2>2. View(a, K, M, r) = "probe"
      <3>1. a.generation # 0 /\ a.state = "halfOpen" /\ a.pendingProbe = TRUE
        BY <1>4 DEF Fresh, Granting, Prov!Breaker
      <3>2. Can(a, M[r])
        BY <1>4, <3>1 DEF Granting, Can
      <3> QED
        BY <1>2, <1>4, <3>2 DEF Permit
    <2>3. \A q \in H : ~Can(b, L[q]) /\ ~Can(a, M[q])
      BY <1>1, <1>4, <2>1 DEF Sound, Can, Fresh
    <2>4. \A q \in Requests \ {r} : View(a, K, M, q) = View(b, H, L, q)
      BY <2>3 DEF View, Permit
    <2>5. Views(a, K, M) = [P EXCEPT ![r] = "probe"]
      <3> HIDE DEF K
      <3>1. Views(a, K, M) = [P EXCEPT ![r] = View(a, K, M, r)]
        BY <2>4, OneView
      <3> QED
        BY <2>2, <3>1
    <2> QED
      BY <1>2, <2>1, <2>5 DEF GateStep
  <1> QED
    BY <1>3, <1>4 DEF Granting

LEMMA BreakerIsGateStep ==
  ASSUME NEW b \in Prov!Breaker, NEW H \in SUBSET Requests, NEW L \in [Requests -> Prov!Lease],
         Sound(b, H, L), NEW a, NEW K, NEW M, BreakerStep(b, H, L, a, K, M)
  PROVE  GateStep(GateMode(b), Views(b, H, L), GateMode(a), Views(a, K, M))
  <1>1. ASSUME NEW r \in Requests, NEW v \in Verdicts, r \in H \/ L[r].generation = 0,
               Settles(b, L[r], v, a), K = H \ {r}, \A q \in K : M[q] = L[q]
        PROVE  GateStep(GateMode(b), Views(b, H, L), GateMode(a), Views(a, K, M))
    BY <1>1, ClosedIsGateStep
  <1>2. ASSUME NEW r \in Requests, r \notin H, Granting(b, a, M[r]), K = H \cup {r},
               \A q \in H : M[q] = L[q]
        PROVE  GateStep(GateMode(b), Views(b, H, L), GateMode(a), Views(a, K, M))
    BY <1>2, GrantedIsGateStep
  <1>3. CASE Still(b, a) /\ K = H /\ \A q \in H : M[q] = L[q]
    <2>1. GateMode(a) = GateMode(b) /\ \A q \in Requests : View(a, K, M, q) = View(b, H, L, q)
      BY <1>3 DEF Still, GateMode, View, Can
    <2>2. Views(a, K, M) = Views(b, H, L)
      BY <2>1 DEF Views
    <2> QED
      BY <2>1, <2>2 DEF GateStep
  <1> QED
    BY <1>1, <1>2, <1>3 DEF BreakerStep

LEMMA ProviderBreakerStep ==
  ASSUME IInv, NEW p \in Providers,
         \/ \E r \in Requests : Good(r)
         \/ \E x \in Providers : ProvCools(x)
         \/ ProvIdle
  PROVE  BreakerStep(prov[p], ProviderHolders(p), provLease, prov'[p], ProviderHolders(p)', provLease')
  <1> DEFINE H == ProviderHolders(p)
  <1>1. /\ prov \in [Providers -> Prov!Breaker] /\ provLease \in [Requests -> Prov!Lease]
        /\ H \in SUBSET Requests
    BY DEF IInv, SharedInv, ProviderHolders
  <1>2. CASE ProvIdle
    <2>1. H' = H
      BY <1>2 DEF ProvIdle, ProviderHolders, Cand, CandKept
    <2> QED
      BY <1>2, <2>1 DEF ProvIdle, BreakerStep, Still
  <1>3. ASSUME NEW x \in Providers, ProvCools(x)
        PROVE  BreakerStep(prov[p], H, provLease, prov'[p], H', provLease')
    <2>1. H' = H
      BY <1>3 DEF ProvCools, ProviderHolders, Cand, CandKept
    <2>2. Still(prov[p], prov'[p]) /\ provLease' = provLease
      BY <1>1, <1>3, ProvAged DEF ProvCools, Still
    <2> QED
      BY <2>1, <2>2 DEF BreakerStep
  <1>4. ASSUME NEW r \in Requests, NEW v \in Verdicts, ProvClosed(r, v)
        PROVE  BreakerStep(prov[p], H, provLease, prov'[p], H', provLease')
    <2>1. Cand(r).provider \in Providers
      BY <1>4, CandType DEF IInv, ProvClosed
    <2>2. /\ prov' = [prov EXCEPT ![Cand(r).provider] =
                        ProviderAfter(prov[Cand(r).provider], provLease[r], v)]
          /\ provLease' = [provLease EXCEPT ![r] = NoLease]
      BY <1>4 DEF ProvClosed, SettleProvider
    <2>3. H' = H \ {r} /\ \A q \in H \ {r} : provLease'[q] = provLease[q]
      BY <1>1, <1>4, <2>2 DEF ProvClosed, ProviderHolders, Cand, CandKept
    <2>4. CASE p = Cand(r).provider
      <3>1. Settles(prov[p], provLease[r], v, prov'[p])
        BY <1>1, <2>2, <2>4, ProvSettles
      <3>2. r \in H \/ provLease[r].generation = 0
        BY <2>4, NoLeaseType DEF ProviderHolders
      <3> HIDE DEF H
      <3> QED
        BY <2>3, <3>1, <3>2 DEF BreakerStep
    <2>5. CASE p # Cand(r).provider
      <3>1. prov'[p] = prov[p] /\ r \notin H
        BY <1>1, <2>2, <2>5 DEF ProviderHolders
      <3>2. H \ {r} = H
        BY <3>1
      <3> HIDE DEF H
      <3> QED
        BY <2>3, <3>1, <3>2 DEF BreakerStep, Still
    <2> QED
      BY <2>4, <2>5
  <1>5. ASSUME NEW r \in Requests, ProvGranted(r)
        PROVE  BreakerStep(prov[p], H, provLease, prov'[p], H', provLease')
    <2> DEFINE own == Cand(r).provider
    <2>1. own \in Providers /\ provLease[r] = NoLease
      BY <1>5, CandType DEF IInv, LeaseInv, ProvGranted, Holding, Claimed, InCall
    <2>2. /\ prov' = [prov EXCEPT ![own] = Prov!AfterAcquire(prov[own])]
          /\ provLease' = [provLease EXCEPT ![r] = Prov!LeaseGranted(prov[own])]
          /\ \A q \in Requests : CandKept(q)
      BY <1>5 DEF ProvGranted
    <2>3. Granting(prov[own], prov'[own], provLease'[r])
      BY <1>1, <1>5, <2>1, <2>2, ProvGrant DEF ProvGranted
    <2>4. provLease'[r] # NoLease
      BY <2>3, NoLeaseType DEF Granting, Prov!Breaker
    <2>5. r \notin H /\ \A q \in H : provLease'[q] = provLease[q]
      BY <1>1, <2>1, <2>2 DEF ProviderHolders
    <2>6. \A q \in Requests \ {r} : q \in H' <=> q \in H
      BY <1>1, <2>2 DEF ProviderHolders, Cand, CandKept
    <2>7. r \in H' <=> p = own
      BY <2>2, <2>4 DEF ProviderHolders, Cand, CandKept
    <2>8. H' \subseteq Requests
      BY DEF ProviderHolders
    <2>9. CASE p = own
      <3>1. H' = H \cup {r}
        <4> HIDE DEF H, own
        <4> QED
          BY <1>1, <2>6, <2>7, <2>8, <2>9
      <3> HIDE DEF H, own
      <3> QED
        BY <2>3, <2>5, <2>9, <3>1 DEF BreakerStep
    <2>10. CASE p # own
      <3>1. H' = H
        <4> HIDE DEF H, own
        <4> QED
          BY <1>1, <2>5, <2>6, <2>7, <2>8, <2>10
      <3>2. prov'[p] = prov[p]
        BY <1>1, <2>1, <2>2, <2>10
      <3> HIDE DEF H, own
      <3> QED
        BY <2>5, <3>1, <3>2 DEF BreakerStep, Still
    <2> QED
      BY <2>9, <2>10
  <1>6. ASSUME NEW r \in Requests, Good(r)
        PROVE  BreakerStep(prov[p], H, provLease, prov'[p], H', provLease')
    <2>1. ProvIdle \/ (\E v \in Verdicts : ProvClosed(r, v)) \/ ProvGranted(r)
      BY <1>6 DEF Good, ProvSide
    <2> QED
      BY <1>2, <1>4, <1>5, <2>1
  <1> QED
    BY <1>2, <1>3, <1>6

LEMMA RouteBreakerStep ==
  ASSUME IInv, NEW m \in Modes,
         \/ \E r \in Requests : Good(r)
         \/ \E x \in Modes : RouteCools(x)
         \/ RouteIdle
  PROVE  BreakerStep(route[m], RouteHolders(m), routeLease, route'[m], RouteHolders(m)', routeLease')
  <1> DEFINE H == RouteHolders(m)
  <1>1. /\ route \in [Modes -> Prov!Breaker] /\ routeLease \in [Requests -> Prov!Lease]
        /\ H \in SUBSET Requests
    BY SameLeases DEF IInv, SharedInv, RouteHolders
  <1>2. CASE RouteIdle
    <2>1. H' = H
      BY <1>2 DEF RouteIdle, RouteHolders, Cand, CandKept
    <2> QED
      BY <1>2, <2>1 DEF RouteIdle, BreakerStep, Still
  <1>3. ASSUME NEW x \in Modes, RouteCools(x)
        PROVE  BreakerStep(route[m], H, routeLease, route'[m], H', routeLease')
    <2>1. H' = H
      BY <1>3 DEF RouteCools, RouteHolders, Cand, CandKept
    <2>2. Still(route[m], route'[m]) /\ routeLease' = routeLease
      BY <1>1, <1>3, RouteAged DEF RouteCools, Still
    <2> QED
      BY <2>1, <2>2 DEF BreakerStep
  <1>4. ASSUME NEW r \in Requests, NEW v \in Verdicts, RouteClosed(r, v)
        PROVE  BreakerStep(route[m], H, routeLease, route'[m], H', routeLease')
    <2>1. Cand(r).mode \in Modes
      BY <1>4, CandType DEF IInv, RouteClosed
    <2>2. /\ route' = [route EXCEPT ![Cand(r).mode] =
                        RouteAfter(route[Cand(r).mode], routeLease[r], v)]
          /\ routeLease' = [routeLease EXCEPT ![r] = NoLease]
      BY <1>4 DEF RouteClosed, SettleRoute
    <2>3. H' = H \ {r} /\ \A q \in H \ {r} : routeLease'[q] = routeLease[q]
      BY <1>1, <1>4, <2>2 DEF RouteClosed, RouteHolders, Cand, CandKept
    <2>4. CASE m = Cand(r).mode
      <3>1. Settles(route[m], routeLease[r], v, route'[m])
        BY <1>1, <2>2, <2>4, RouteSettles
      <3>2. r \in H \/ routeLease[r].generation = 0
        BY <2>4, NoLeaseType DEF RouteHolders
      <3> HIDE DEF H
      <3> QED
        BY <2>3, <3>1, <3>2 DEF BreakerStep
    <2>5. CASE m # Cand(r).mode
      <3>1. route'[m] = route[m] /\ r \notin H
        BY <1>1, <2>2, <2>5 DEF RouteHolders
      <3>2. H \ {r} = H
        BY <3>1
      <3> HIDE DEF H
      <3> QED
        BY <2>3, <3>1, <3>2 DEF BreakerStep, Still
    <2> QED
      BY <2>4, <2>5
  <1>5. ASSUME NEW r \in Requests, RouteGranted(r)
        PROVE  BreakerStep(route[m], H, routeLease, route'[m], H', routeLease')
    <2> DEFINE own == Cand(r).mode
    <2>1. own \in Modes /\ routeLease[r] = NoLease
      BY <1>5, CandType DEF IInv, LeaseInv, RouteGranted, Claimed, InCall
    <2>2. /\ route' = [route EXCEPT ![own] = Route!AfterAcquire(route[own])]
          /\ routeLease' = [routeLease EXCEPT ![r] = Route!LeaseGranted(route[own])]
          /\ \A q \in Requests : CandKept(q)
      BY <1>5 DEF RouteGranted
    <2>3. Granting(route[own], route'[own], routeLease'[r])
      BY <1>1, <1>5, <2>1, <2>2, RouteGrant DEF RouteGranted
    <2>4. routeLease'[r] # NoLease
      BY <2>3, NoLeaseType DEF Granting, Prov!Breaker
    <2>5. r \notin H /\ \A q \in H : routeLease'[q] = routeLease[q]
      BY <1>1, <2>1, <2>2 DEF RouteHolders
    <2>6. \A q \in Requests \ {r} : q \in H' <=> q \in H
      BY <1>1, <2>2 DEF RouteHolders, Cand, CandKept
    <2>7. r \in H' <=> m = own
      BY <2>2, <2>4 DEF RouteHolders, Cand, CandKept
    <2>8. H' \subseteq Requests
      BY DEF RouteHolders
    <2>9. CASE m = own
      <3>1. H' = H \cup {r}
        <4> HIDE DEF H, own
        <4> QED
          BY <1>1, <2>6, <2>7, <2>8, <2>9
      <3> HIDE DEF H, own
      <3> QED
        BY <2>3, <2>5, <2>9, <3>1 DEF BreakerStep
    <2>10. CASE m # own
      <3>1. H' = H
        <4> HIDE DEF H, own
        <4> QED
          BY <1>1, <2>5, <2>6, <2>7, <2>8, <2>10
      <3>2. route'[m] = route[m]
        BY <1>1, <2>1, <2>2, <2>10
      <3> HIDE DEF H, own
      <3> QED
        BY <2>5, <3>1, <3>2 DEF BreakerStep, Still
    <2> QED
      BY <2>9, <2>10
  <1>6. ASSUME NEW r \in Requests, Good(r)
        PROVE  BreakerStep(route[m], H, routeLease, route'[m], H', routeLease')
    <2>1. RouteIdle \/ (\E v \in Verdicts : RouteClosed(r, v)) \/ RouteGranted(r)
      BY <1>6 DEF Good, RouteSide
    <2> QED
      BY <1>2, <1>4, <1>5, <2>1
  <1> QED
    BY <1>2, <1>3, <1>6

LEMMA ProviderView ==
  ASSUME IInv, NEW p \in Providers
  PROVE  ProviderPermit(p) = Views(prov[p], ProviderHolders(p), provLease)
  <1>1. ASSUME NEW r \in Requests
        PROVE  ProviderPermit(p)[r] = View(prov[p], ProviderHolders(p), provLease, r)
    <2>1. HoldsProvider(r, p) <=> r \in ProviderHolders(p) /\ Can(prov[p], provLease[r])
      BY NoLeaseType DEF HoldsProvider, ProviderHolders, Can, Prov!CanContinue, IInv, LeaseInv,
         Holding, Claimed, InCall, InFlight
    <2> QED
      BY <2>1 DEF ProviderPermit, View, Permit, ProviderHolders
  <1> QED
    BY <1>1 DEF ProviderPermit, Views

LEMMA RouteView ==
  ASSUME IInv, NEW m \in Modes
  PROVE  RoutePermit(m) = Views(route[m], RouteHolders(m), routeLease)
  <1>1. ASSUME NEW r \in Requests
        PROVE  RoutePermit(m)[r] = View(route[m], RouteHolders(m), routeLease, r)
    <2>1. HoldsRoute(r, m) <=> r \in RouteHolders(m) /\ Can(route[m], routeLease[r])
      BY NoLeaseType DEF HoldsRoute, RouteHolders, Can, Route!CanContinue, IInv, LeaseInv,
         Claimed, InCall, InFlight
    <2> QED
      BY <2>1 DEF RoutePermit, View, Permit, RouteHolders
  <1> QED
    BY <1>1 DEF RoutePermit, Views

Viewed ==
  /\ \A p \in Providers : ProviderPermit(p) = Views(prov[p], ProviderHolders(p), provLease)
  /\ \A m \in Modes : RoutePermit(m) = Views(route[m], RouteHolders(m), routeLease)

LEMMA NextView ==
  IInv' =>
    /\ \A p \in Providers : ProviderPermit(p)' = Views(prov'[p], ProviderHolders(p)', provLease')
    /\ \A m \in Modes : RoutePermit(m)' = Views(route'[m], RouteHolders(m)', routeLease')
  <1>1. IInv => Viewed
    BY ProviderView, RouteView DEF Viewed
  <1>2. IInv' => Viewed'
    BY <1>1, PTL
  <1> QED
    BY <1>2 DEF Viewed, Views, View, Can

LEMMA ProviderGateNext ==
  ASSUME NEW p \in Providers,
         GateStep(GateMode(prov[p]), ProviderPermit(p), GateMode(prov'[p]), ProviderPermit(p)')
  PROVE  [ProviderGate(p)!Next]_(ProviderGate(p)!vars)
  BY DEF GateStep, ProviderGate!Next, ProviderGate!Admit, ProviderGate!AdmitProbe, ProviderGate!Return,
         ProviderGate!Trip, ProviderGate!EndProbe, ProviderGate!Give, ProviderGate!Revoke, ProviderGate!vars

LEMMA RouteGateNext ==
  ASSUME NEW m \in Modes,
         GateStep(GateMode(route[m]), RoutePermit(m), GateMode(route'[m]), RoutePermit(m)')
  PROVE  [RouteGate(m)!Next]_(RouteGate(m)!vars)
  BY DEF GateStep, RouteGate!Next, RouteGate!Admit, RouteGate!AdmitProbe, RouteGate!Return,
         RouteGate!Trip, RouteGate!EndProbe, RouteGate!Give, RouteGate!Revoke, RouteGate!vars

LEMMA GatesInit ==
  ASSUME Init
  PROVE  /\ \A p \in Providers : ProviderGate(p)!Init
         /\ \A m \in Modes : RouteGate(m)!Init
  <1>1. ASSUME NEW p \in Providers PROVE ProviderGate(p)!Init
    <2>1. ProviderPermit(p) = [r \in Requests |-> "none"]
      BY DEF Init, ProviderPermit
    <2>2. GateMode(prov[p]) \in {"closed", "open"}
      BY NewBreakers DEF Init, GateMode, Opened
    <2> QED
      BY <2>1, <2>2 DEF ProviderGate!Init
  <1>2. ASSUME NEW m \in Modes PROVE RouteGate(m)!Init
    <2>1. RoutePermit(m) = [r \in Requests |-> "none"]
      BY DEF Init, RoutePermit
    <2>2. GateMode(route[m]) \in {"closed", "open"}
      BY NewBreakers DEF Init, GateMode, Opened
    <2> QED
      BY <2>1, <2>2 DEF RouteGate!Init
  <1> QED
    BY <1>1, <1>2

\* What the steps of Next are to the breakers.
LEMMA BreakerSteps ==
  ASSUME IInv, [Next]_vars
  PROVE  /\ (\E r \in Requests : Good(r)) \/ (\E p \in Providers : ProvCools(p)) \/ ProvIdle
         /\ \/ (\E r \in Requests : Good(r)) \/ (\E m \in Modes : RouteCools(m)) \/ RouteIdle
            \/ ResetRuntimeBreakers
  <1>1. ASSUME NEW r \in Requests,
               \/ Local(r) \/ Upstream(r) \/ StreamEnds(r)
               \/ TimerFires(r) \/ StreamStalls(r) \/ ClientAborts(r)
               \/ Disconnect(r) \/ DeadlinePasses(r)
        PROVE  Good(r)
    BY <1>1, RequestSteps
  <1>2. ASSUME NEW p \in Providers, CoolProvider(p) PROVE ProvCools(p) /\ RouteIdle
    BY <1>2 DEF CoolProvider, ProvCools, RouteIdle, CandKept, guards
  <1>3. ASSUME NEW m \in Modes, CoolRoute(m) PROVE RouteCools(m) /\ ProvIdle
    BY <1>3 DEF CoolRoute, RouteCools, ProvIdle, CandKept, guards
  <1>4. ASSUME NEW m \in Modes, TargetForgets(m) PROVE ProvIdle /\ RouteIdle
    BY <1>4 DEF TargetForgets, ProvIdle, RouteIdle, CandKept, guards
  <1>5. CASE ResetRuntimeBreakers
    BY <1>5 DEF ResetRuntimeBreakers, ProvIdle, CandKept
  <1>6. CASE UNCHANGED vars
    BY <1>6 DEF vars, breakers, guards, ProvIdle, RouteIdle, CandKept
  <1> QED
    BY <1>1, <1>2, <1>3, <1>4, <1>5, <1>6 DEF Next, Finished

LEMMA GatesStep ==
  ASSUME IInv, IInv', [Next]_vars
  PROVE  /\ \A p \in Providers : [ProviderGate(p)!Next]_(ProviderGate(p)!vars)
         /\ \A m \in Modes : ResetRuntimeBreakers \/ [RouteGate(m)!Next]_(RouteGate(m)!vars)
  <1>1. ASSUME NEW p \in Providers PROVE [ProviderGate(p)!Next]_(ProviderGate(p)!vars)
    <2> DEFINE H == ProviderHolders(p)
    <2>1. BreakerStep(prov[p], H, provLease, prov'[p], H', provLease')
      BY BreakerSteps, ProviderBreakerStep
    <2>2. /\ prov[p] \in Prov!Breaker /\ provLease \in [Requests -> Prov!Lease]
          /\ H \in SUBSET Requests /\ Sound(prov[p], H, provLease)
      BY DEF IInv, SharedInv, ProbeInv, ProviderHolders
    <2>3. GateStep(GateMode(prov[p]), Views(prov[p], H, provLease),
                   GateMode(prov'[p]), Views(prov'[p], H', provLease'))
      BY <2>1, <2>2, BreakerIsGateStep
    <2>4. /\ ProviderPermit(p) = Views(prov[p], H, provLease)
          /\ ProviderPermit(p)' = Views(prov'[p], H', provLease')
      BY ProviderView, NextView
    <2> QED
      BY <2>3, <2>4, ProviderGateNext
  <1>2. ASSUME NEW m \in Modes, ~ResetRuntimeBreakers
        PROVE  [RouteGate(m)!Next]_(RouteGate(m)!vars)
    <2> DEFINE H == RouteHolders(m)
    <2>1. BreakerStep(route[m], H, routeLease, route'[m], H', routeLease')
      BY <1>2, BreakerSteps, RouteBreakerStep
    <2>2. /\ route[m] \in Prov!Breaker /\ routeLease \in [Requests -> Prov!Lease]
          /\ H \in SUBSET Requests /\ Sound(route[m], H, routeLease)
      BY SameLeases DEF IInv, SharedInv, ProbeInv, RouteHolders
    <2>3. GateStep(GateMode(route[m]), Views(route[m], H, routeLease),
                   GateMode(route'[m]), Views(route'[m], H', routeLease'))
      BY <2>1, <2>2, BreakerIsGateStep
    <2>4. /\ RoutePermit(m) = Views(route[m], H, routeLease)
          /\ RoutePermit(m)' = Views(route'[m], H', routeLease')
      BY RouteView, NextView
    <2> QED
      BY <2>3, <2>4, RouteGateNext
  <1> QED
    BY <1>1, <1>2

\* The forwarding loops use every provider's breaker, and between two resets
\* every route mode's, as an abstract gate: whatever path a request takes
\* through its candidates and whenever it reports, it claims and gives back one
\* permit at a time, and a report of an earlier period moves nothing.
THEOREM BreakersGate == Spec => BreakersAreGates
  BY GatesInit, GatesStep, Inductive, PTL DEF Spec, BreakersAreGates

\* Each provider's breaker by itself, resets or not, implements ProbeGate.
THEOREM ProvidersGate == ASSUME NEW p \in Providers PROVE Spec => ProviderGate(p)!Spec
  <1>1. Init => ProviderGate(p)!Init
    BY GatesInit
  <1>2. IInv /\ IInv' /\ [Next]_vars => [ProviderGate(p)!Next]_(ProviderGate(p)!vars)
    BY GatesStep
  <1> QED
    BY <1>1, <1>2, Inductive, PTL DEF Spec, ProviderGate!Spec

\* So does each route mode's, if nobody resets the breakers.
THEOREM RoutesGate == ASSUME NEW m \in Modes, ~Resets PROVE Spec => RouteGate(m)!Spec
  <1>1. Init => RouteGate(m)!Init
    BY GatesInit
  <1>2. IInv /\ IInv' /\ [Next]_vars => [RouteGate(m)!Next]_(RouteGate(m)!vars)
    BY GatesStep DEF ResetRuntimeBreakers
  <1> QED
    BY <1>1, <1>2, Inductive, PTL DEF Spec, RouteGate!Spec

=============================================================================
