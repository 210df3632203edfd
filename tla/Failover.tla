------------------------------ MODULE Failover ------------------------------
(***************************************************************************)
(* The forwarding loops of internal/proxy/proxy.go: forwardWithFailover    *)
(* (buffered replies) and forwardStream with streamAttempt (SSE streams).  *)
(* Concurrent requests walk their candidates, retry each one under a       *)
(* global attempt cap and a first-byte budget, and on every way out settle *)
(* what they claimed of three shared breakers: the provider's, the route   *)
(* mode's (converted candidates only) and the target's rolling window.     *)
(*                                                                         *)
(* One action is the code between two points where a request can wait or   *)
(* where the breakers it reads may have changed.  An upstream outcome and  *)
(* the settlements it causes are one action: they touch three different    *)
(* breakers, each once.  Outcomes are abstracted to their class:           *)
(*                                                                         *)
(*   error, status   a transport error, a retryable status >= 400          *)
(*   timeout         a timer of the wait for the reply fired               *)
(*   soft            a retryable failure no breaker counts                 *)
(*                                                                         *)
(* What a request waits for after a call, and the timer that ends the wait:*)
(*                                                                         *)
(*   sending         the request is being written         none             *)
(*   waiting         the first byte of the header         first-byte timer *)
(*   answered        the rest of the header; the body of                   *)
(*                   a buffered reply or of an error      none             *)
(*   opening         a stream's first output              read deadline    *)
(*   streaming       a stream's next chunk                stall timeout, if*)
(*                                                        one is set       *)
(*   writing         the client takes a chunk             none             *)
(*   copying         the client takes a buffered reply    none             *)
(***************************************************************************)
EXTENDS Integers, Sequences, FiniteSets

CONSTANTS
  Requests,           \* each is forwarded once
  Streams,            \* those that ask for a stream
  Providers, Modes,   \* the keys of the provider and the route-mode breakers
  Chain,              \* Chain[r]: the candidates the matched rule gives r
  MaxTotalAttempts,   \* upstream attempts per request (8 in the code)
  ProviderThreshold, RouteThreshold, TargetThreshold,
  RecoveryTimeout,
  StallTimeout,       \* BOOLEAN: the administrator has set one
  MayBeOpen,          \* the breakers earlier traffic may have opened
  Resets              \* BOOLEAN: the runtime breakers may be reset meanwhile

Candidate ==
  [provider : Providers, mode : Modes,
   native : BOOLEAN,        \* convertTo = "": no route breaker
   maxRetries : Nat,
   ownTimeout : BOOLEAN]    \* a target timeout below the rule's budget

ASSUME FailoverAssumption ==
  /\ Streams \subseteq Requests
  /\ DOMAIN Chain = Requests /\ \A r \in Requests : Chain[r] \in Seq(Candidate)
  /\ MaxTotalAttempts \in Nat /\ TargetThreshold \in Nat \ {0}
  /\ {ProviderThreshold, RouteThreshold, RecoveryTimeout} \subseteq Nat \ {0}
  /\ MayBeOpen \subseteq Providers \cup Modes /\ Resets \in BOOLEAN
  /\ StallTimeout \in BOOLEAN

Prov == INSTANCE BreakerOps WITH FailureThreshold <- ProviderThreshold
Route == INSTANCE BreakerOps WITH FailureThreshold <- RouteThreshold

VARIABLES
  prov,       \* prov[p]: p's circuit breaker
  route,      \* route[m]: m's route-mode circuit breaker
  target,     \* target[m]: failures in m's rolling window
  ctl,        \* ctl[r]: the local variables of r's handler
  provLease,  \* the lease in the providerProbe guard, NoLease once closed
  routeLease, \* the lease in the routeProbe guard
  targetOpen, \* ~targetSettled, for the window now in the map
  gone,       \* the client has disconnected
  answer,     \* history: what the client was sent
  faults      \* history: the failures seen, by what caused them

breakers == <<prov, route, target>>
guards == <<provLease, routeLease, targetOpen>>
hist == <<answer, faults>>
vars == <<breakers, guards, ctl, gone, hist>>

NoLease == Prov!NoLease

Counted == {"error", "timeout"}   \* isCircuitBreakerFailure, targetFailure
Failure == Counted \cup {"soft"}

\* The local variables, before and after the loops.
Start(chain) ==
  [pc |-> "resolve",
   cands |-> chain,      \* what resolveCandidates leaves of the chain
   pos |-> 1,            \* index of the current candidate
   attempt |-> 0,        \* retry counter of the current candidate
   fail |-> "none",      \* class of the current candidate's last failure
   total |-> 0,          \* totalAttempts
   calls |-> 0,          \* history: upstream calls really made
   armed |-> FALSE,      \* the current call has a first-byte timer
   spent |-> FALSE]      \* the first-byte deadline has passed

Stopped == [Start(<<>>) EXCEPT !.pc = "done"]

pc(r) == ctl[r].pc
Cand(r) == ctl[r].cands[ctl[r].pos]
LastCandidate(r) == ctl[r].pos = Len(ctl[r].cands)
Retries(r) == ctl[r].attempt > 0
Streaming(r) == r \in Streams
InFlight(r) == pc(r) \notin {"resolve", "done"}

Opened(cb, threshold, age) ==
  [cb EXCEPT !.state = "open", !.generation = 2,
             !.consecutiveFailures = threshold, !.age = age]

\* Earlier traffic may have opened a provider just now, a route mode a
\* cooldown ago.
Init ==
  /\ \E S \in SUBSET MayBeOpen :
       /\ prov = [p \in Providers |->
                    IF p \in S THEN Opened(Prov!NewBreaker, ProviderThreshold, 0)
                    ELSE Prov!NewBreaker]
       /\ route = [m \in Modes |->
                     IF m \in S THEN Opened(Route!NewBreaker, RouteThreshold, RecoveryTimeout)
                     ELSE Route!NewBreaker]
  /\ target = [m \in Modes |-> 0]
  /\ ctl = [r \in Requests |-> Start(Chain[r])]
  /\ provLease = [r \in Requests |-> NoLease]
  /\ routeLease = [r \in Requests |-> NoLease]
  /\ targetOpen = [r \in Requests |-> FALSE]
  /\ gone = [r \in Requests |-> FALSE]
  /\ answer = [r \in Requests |-> "none"]
  /\ faults = {}

---------------------------------------------------------------------------
(* Settling the guards of the current candidate.                           *)

ProviderAfter(cb, lease, verdict) ==
  CASE verdict = "success" -> Prov!SettleSuccess(cb, lease)
    [] verdict = "failure" -> Prov!SettleFailure(cb, lease)
    [] verdict = "cancel"  -> Prov!SettleCancel(cb, lease)

RouteAfter(cb, lease, verdict) ==
  CASE verdict = "success" -> Route!SettleSuccess(cb, lease)
    [] verdict = "failure" -> Route!SettleFailure(cb, lease)
    [] verdict = "cancel"  -> Route!SettleCancel(cb, lease)

SettleProvider(r, verdict) ==
  /\ prov' = [prov EXCEPT ![Cand(r).provider] = ProviderAfter(@, provLease[r], verdict)]
  /\ provLease' = [provLease EXCEPT ![r] = NoLease]

\* A native candidate has no route guard: its lease is NoLease, which settles
\* nothing.
SettleRoute(r, verdict) ==
  /\ route' = [route EXCEPT ![Cand(r).mode] = RouteAfter(@, routeLease[r], verdict)]
  /\ routeLease' = [routeLease EXCEPT ![r] = NoLease]

SettleTarget(r, failed) ==
  /\ target' = [target EXCEPT ![Cand(r).mode] =
                  IF failed /\ targetOpen[r] THEN @ + 1 ELSE @]
  /\ targetOpen' = [targetOpen EXCEPT ![r] = FALSE]

Settle(r, providerVerdict, routeVerdict, targetFailed) ==
  /\ SettleProvider(r, providerVerdict)
  /\ SettleRoute(r, routeVerdict)
  /\ SettleTarget(r, targetFailed)

(* Where the loops go next.                                                *)

Update(r, c) == ctl' = [ctl EXCEPT ![r] = c]

Goto(r, label) == Update(r, [ctl[r] EXCEPT !.pc = label])

Answer(r, reply) == answer' = [answer EXCEPT ![r] = reply]

\* return, with what the client was sent last
Stop(r) == Update(r, Stopped)

Return(r, reply) == Stop(r) /\ Answer(r, reply)

\* continue outer, with the local variables c; past the last candidate, the
\* chain is exhausted.
NextCandidate(r, c) ==
  IF LastCandidate(r)
  THEN Return(r, "error")
  ELSE /\ Update(r, [c EXCEPT !.pc = "target", !.pos = @ + 1, !.attempt = 0,
                              !.fail = "none", !.armed = FALSE])
       /\ UNCHANGED answer

Fault(r, key, cause) ==
  [request |-> r, pos |-> ctl[r].pos, key |-> key, cause |-> cause]

Blame(r, key, cause) == faults' = faults \cup {Fault(r, key, cause)}

---------------------------------------------------------------------------
(* Up to the retry loop.                                                   *)

Available(c) ==
  /\ Prov!WouldAllow(prov[c.provider])
  /\ c.native \/ Route!WouldAllow(route[c.mode])

\* The enumeration of a set of indices in their order.
InOrder(S) ==
  {e \in [1 .. Cardinality(S) -> S] : \A i, j \in DOMAIN e : i < j => e[i] < e[j]}

\* resolveCandidates, from the chain the matcher selected: the available ones,
\* in the order of the chain.
Resolve(r) ==
  /\ pc(r) = "resolve"
  /\ LET chain == ctl[r].cands
         left == {i \in DOMAIN chain : Available(chain[i])}
     IN IF left = {}
        THEN Return(r, "error")
        ELSE /\ \E e \in InOrder(left) :
                  Update(r, [ctl[r] EXCEPT !.pc = "target",
                                           !.cands = [i \in DOMAIN e |-> chain[e[i]]]])
             /\ UNCHANGED answer
  /\ UNCHANGED <<breakers, guards, gone, faults>>

CheckTarget(r) ==
  /\ pc(r) = "target"
  /\ IF target[Cand(r).mode] < TargetThreshold
     THEN /\ targetOpen' = [targetOpen EXCEPT ![r] = TRUE]
          /\ Goto(r, "acquire")
          /\ UNCHANGED answer
     ELSE NextCandidate(r, ctl[r]) /\ UNCHANGED targetOpen
  /\ UNCHANGED <<breakers, provLease, routeLease, gone, faults>>

AcquireProvider(r) ==
  LET cb == prov[Cand(r).provider]
  IN /\ pc(r) = "acquire"
     /\ IF Prov!Grants(cb)
        THEN /\ prov' = [prov EXCEPT ![Cand(r).provider] = Prov!AfterAcquire(cb)]
             /\ provLease' = [provLease EXCEPT ![r] = Prov!LeaseGranted(cb)]
             /\ Goto(r, "prepare")
             /\ UNCHANGED <<targetOpen, answer>>
        ELSE /\ NextCandidate(r, ctl[r])
             /\ targetOpen' = [targetOpen EXCEPT ![r] = FALSE]
             /\ UNCHANGED <<prov, provLease>>
     /\ UNCHANGED <<route, target, routeLease, gone, faults>>

\* The key does not resolve, the body does not convert, the URL is invalid.
PreflightError(r) ==
  /\ pc(r) = "prepare"
  /\ Settle(r, "cancel", "cancel", FALSE)
  /\ NextCandidate(r, ctl[r])
  /\ UNCHANGED <<gone, faults>>

Mutant_RouteDenied(r) ==
  /\ SettleTarget(r, FALSE)
  /\ provLease' = [provLease EXCEPT ![r] = NoLease]
  /\ UNCHANGED <<prov, route, routeLease>>
  /\ NextCandidate(r, ctl[r])

\* The provider may have granted its one probe just before: give it back.
RouteDenied(r) ==
  /\ Settle(r, "cancel", "cancel", FALSE)
  /\ NextCandidate(r, ctl[r])

ClaimRoute(r) ==
  LET cb == route[Cand(r).mode]
  IN /\ pc(r) = "prepare"
     /\ IF Cand(r).native
        THEN Goto(r, "loop") /\ UNCHANGED <<breakers, guards, answer>>
        ELSE IF Route!Grants(cb)
        THEN /\ route' = [route EXCEPT ![Cand(r).mode] = Route!AfterAcquire(cb)]
             /\ routeLease' = [routeLease EXCEPT ![r] = Route!LeaseGranted(cb)]
             /\ Goto(r, "loop")
             /\ UNCHANGED <<prov, target, provLease, targetOpen, answer>>
        ELSE RouteDenied(r)
     /\ UNCHANGED <<gone, faults>>

---------------------------------------------------------------------------
(* The retry loop.                                                         *)

Mutant_Capped(r) == ctl[r].total > MaxTotalAttempts

Capped(r) == ctl[r].total >= MaxTotalAttempts

\* attemptsCapped: the cap or the budget ends the whole chain.  Failures of
\* the candidate's earlier attempts count against the target only.
AbortChain(r) ==
  /\ Settle(r, "cancel", "cancel", Retries(r))
  /\ Return(r, "error")

TopOfLoop(r) ==
  /\ pc(r) = "loop"
  /\ IF Capped(r) \/ ctl[r].spent
     THEN AbortChain(r)
     ELSE /\ Goto(r, IF Retries(r) THEN "backoff" ELSE "send")
          /\ UNCHANGED <<breakers, guards, answer>>
  /\ UNCHANGED <<gone, faults>>

\* budgetCtx.Done() wins the select.
BackoffCut(r) ==
  /\ pc(r) = "backoff"
  /\ gone[r] \/ ctl[r].spent
  /\ IF gone[r]
     THEN Settle(r, "cancel", "cancel", FALSE) /\ Return(r, "aborted")
     ELSE AbortChain(r)
  /\ UNCHANGED <<gone, faults>>

\* time.After(delay) wins it, possibly with budgetCtx done as well: the delay
\* is capped to the remaining budget, so both may be ready together.
BackoffOver(r) ==
  /\ pc(r) = "backoff"
  /\ Goto(r, "send")
  /\ UNCHANGED <<breakers, guards, gone, hist>>

StillAdmitted(r) ==
  Retries(r) => Prov!CanContinue(prov[Cand(r).provider], provLease[r])

\* canContinue fails: the breaker moved while this request was backing off.
\* The provider guard closes without effect, the target is still charged.
CircuitOpened(r, c) ==
  /\ ~StillAdmitted(r)
  /\ Settle(r, "cancel", "cancel", c.fail \in Counted)
  /\ NextCandidate(r, c)

Call(r, c, withTimer) ==
  /\ StillAdmitted(r)
  /\ Update(r, [c EXCEPT !.pc = "sending", !.calls = @ + 1, !.armed = withTimer])
  /\ UNCHANGED <<breakers, guards, answer>>

\* totalAttempts++ comes first.  withFirstByteTimer runs no timer when
\* nothing of the budget remains.
SendBuffered(r) ==
  LET c == [ctl[r] EXCEPT !.total = @ + 1]
  IN /\ pc(r) = "send" /\ ~Streaming(r)
     /\ CircuitOpened(r, c) \/ Call(r, c, ~c.spent)
     /\ UNCHANGED <<gone, faults>>

Mutant_SendStream(r) ==
  LET c == [ctl[r] EXCEPT !.total = @ + 1]
  IN /\ pc(r) = "send" /\ Streaming(r)
     /\ CircuitOpened(r, ctl[r]) \/ Call(r, c, ~c.spent)
     /\ UNCHANGED <<gone, faults>>

\* streamAttempt looks at the deadline once more (BudgetExceeded) and counts
\* the attempt only when it starts.
SendStream(r) ==
  /\ pc(r) = "send" /\ Streaming(r)
  /\ \/ CircuitOpened(r, ctl[r])
     \/ StillAdmitted(r) /\ ctl[r].spent /\ AbortChain(r)
     \/ ~ctl[r].spent /\ Call(r, [ctl[r] EXCEPT !.total = @ + 1], TRUE)
  /\ UNCHANGED <<gone, faults>>

---------------------------------------------------------------------------
(* An upstream call, before the client has seen anything.                  *)

AtUpstream(r) == pc(r) \in {"sending", "waiting", "answered", "opening"}

Proceed(r, from, to) ==
  /\ pc(r) = from
  /\ Goto(r, to)
  /\ UNCHANGED <<breakers, guards, gone, hist>>

\* WroteRequest starts the first-byte timer, GotFirstResponseByte stops it.
RequestWritten(r) == Proceed(r, "sending", "waiting")

HeaderBegins(r) == Proceed(r, "waiting", "answered")

\* A stream's header is complete, its status no error.
StreamAccepted(r) == Streaming(r) /\ Proceed(r, "answered", "opening")

Mutant_RetriesLeft(r) == ctl[r].attempt <= Cand(r).maxRetries

RetriesLeft(r) == ctl[r].attempt < Cand(r).maxRetries

\* CategoryRetryable: loop, or past maxRetries settle and move on.
Retryable(r, class) ==
  /\ AtUpstream(r)
  /\ IF class \in Counted THEN Blame(r, Cand(r).provider, "upstream") ELSE UNCHANGED faults
  /\ IF RetriesLeft(r)
     THEN /\ Update(r, [ctl[r] EXCEPT !.pc = "loop", !.attempt = @ + 1,
                                      !.fail = class, !.armed = FALSE])
          /\ UNCHANGED <<breakers, guards, answer>>
     ELSE /\ Settle(r, IF class \in Counted THEN "failure" ELSE "cancel",
                    "cancel", class \in Counted)
          /\ NextCandidate(r, ctl[r])
  /\ UNCHANGED gone

\* A timer runs up to the first byte of the header, and for a stream again
\* from the body's first read to its first output; nothing bounds what lies
\* between, the body of an error reply least of all.
TimerFires(r) ==
  /\ (pc(r) = "waiting" /\ ctl[r].armed) \/ pc(r) = "opening"
  /\ ctl[r].spent \/ (Streaming(r) /\ Cand(r).ownTimeout)
  /\ Retryable(r, "timeout")

\* Among the soft ones: the client's disconnect, while an error body is read
\* or a stream has sent no output yet.
UpstreamFails(r) == \E class \in Failure \ {"timeout"} : Retryable(r, class)

\* A status no other provider can fix is passed to the client.  A stream
\* charges the provider for 501 only, a buffered request for any of them.
\* Writing the error page comes first: it is part of the wait.
NonRetryable(r) ==
  /\ pc(r) = "answered"
  /\ \E serverError \in BOOLEAN :
       LET charged == serverError \/ ~Streaming(r)
       IN /\ Settle(r, IF charged THEN "failure" ELSE "cancel", "cancel", TRUE)
          /\ Blame(r, Cand(r).provider, "upstream")
  /\ Return(r, "error")
  /\ UNCHANGED gone

Replied(r) == pc(r) = IF Streaming(r) THEN "opening" ELSE "answered"

Mutant_ConversionFails(r) ==
  /\ Replied(r) /\ ~Cand(r).native
  /\ Settle(r, "failure", "cancel", FALSE)
  /\ Blame(r, Cand(r).mode, "conversion")
  /\ NextCandidate(r, ctl[r])
  /\ UNCHANGED gone

\* The reply does not convert: the route mode is charged, not the provider,
\* and this candidate is not retried.
ConversionFails(r) ==
  /\ Replied(r) /\ ~Cand(r).native
  /\ Settle(r, "cancel", "failure", FALSE)
  /\ Blame(r, Cand(r).mode, "conversion")
  /\ NextCandidate(r, ctl[r])
  /\ UNCHANGED gone

ClientAborts(r) ==
  /\ AtUpstream(r) \/ pc(r) \in {"streaming", "writing"}
  /\ gone[r]
  /\ Settle(r, "cancel", "cancel", FALSE)
  /\ Return(r, "aborted")
  /\ UNCHANGED <<gone, faults>>

(* A buffered success settles target and route, copies the reply to the    *)
(* client, and only then settles the provider.                             *)

BufferedSuccess(r) ==
  /\ pc(r) = "answered" /\ ~Streaming(r)
  /\ SettleTarget(r, FALSE)
  /\ SettleRoute(r, "success")
  /\ Goto(r, "copying")
  /\ Answer(r, "reply")
  /\ UNCHANGED <<prov, provLease, gone, faults>>

ReplyCopied(r) ==
  /\ pc(r) = "copying"
  /\ SettleProvider(r, "success")
  /\ Stop(r)
  /\ UNCHANGED <<route, target, routeLease, targetOpen, gone, hist>>

---------------------------------------------------------------------------
(* A stream commits at its first meaningful event; nothing is settled yet. *)
(* Then it alternates between a read from upstream and a write to the      *)
(* client.                                                                 *)

Commit(r) ==
  /\ pc(r) = "opening"
  /\ Goto(r, "writing")
  /\ Answer(r, "reply")
  /\ UNCHANGED <<breakers, guards, gone, faults>>

ChunkWritten(r) == Proceed(r, "writing", "streaming")

ChunkRead(r) == Proceed(r, "streaming", "writing")

StreamSucceeds(r) ==
  /\ pc(r) = "streaming"
  /\ Settle(r, "success", "success", FALSE)
  /\ Stop(r)
  /\ UNCHANGED <<gone, hist>>

Mutant_StreamTruncated(r) ==
  /\ pc(r) \in {"streaming", "writing"}
  /\ Settle(r, "failure", "cancel", TRUE)
  /\ Blame(r, Cand(r).provider, "upstream")
  /\ NextCandidate(r, ctl[r])
  /\ UNCHANGED gone

\* The upstream broke off, ended without output, or sent an error: that one
\* counts even when its own write to the client fails.
StreamTruncated(r) ==
  /\ pc(r) \in {"streaming", "writing"}
  /\ Settle(r, "failure", "cancel", TRUE)
  /\ Blame(r, Cand(r).provider, "upstream")
  /\ Stop(r)
  /\ UNCHANGED <<gone, answer>>

\* Each read after the commit has the stall timeout, if one is set.
StreamStalls(r) == StallTimeout /\ pc(r) = "streaming" /\ StreamTruncated(r)

StreamConversionFails(r) ==
  /\ pc(r) = "streaming" /\ ~Cand(r).native
  /\ Settle(r, "cancel", "failure", FALSE)
  /\ Blame(r, Cand(r).mode, "conversion")
  /\ Stop(r)
  /\ UNCHANGED <<gone, answer>>

\* A write fails for a reason other than a disconnect.
DownstreamError(r) ==
  /\ pc(r) = "writing"
  /\ Settle(r, "cancel", "cancel", FALSE)
  /\ Stop(r)
  /\ UNCHANGED <<gone, hist>>

---------------------------------------------------------------------------
(* The clients, the clocks, the operator.                                  *)

\* A disconnect is noticed, and a deadline looked at, only here; one that
\* came earlier is as good as one that comes now.
Disconnect(r) ==
  /\ AtUpstream(r) \/ pc(r) \in {"backoff", "streaming", "writing", "copying"}
  /\ ~gone[r]
  /\ gone' = [gone EXCEPT ![r] = TRUE]
  /\ UNCHANGED <<breakers, guards, ctl, hist>>

DeadlinePasses(r) ==
  /\ pc(r) \in {"loop", "backoff", "send", "waiting", "opening"} /\ ~ctl[r].spent
  /\ Update(r, [ctl[r] EXCEPT !.spent = TRUE])
  /\ UNCHANGED <<breakers, guards, gone, hist>>

CoolProvider(p) ==
  /\ prov[p].state = "open"
  /\ prov' = [prov EXCEPT ![p] = Prov!Aged(@)]
  /\ UNCHANGED <<route, target, guards, ctl, gone, hist>>

CoolRoute(m) ==
  /\ route[m].state = "open"
  /\ route' = [route EXCEPT ![m] = Route!Aged(@)]
  /\ UNCHANGED <<prov, target, guards, ctl, gone, hist>>

\* The oldest failure leaves the window.
TargetForgets(m) ==
  /\ target[m] > 0
  /\ target' = [target EXCEPT ![m] = @ - 1]
  /\ UNCHANGED <<prov, route, guards, ctl, gone, hist>>

\* Restart empties both maps.  Requests in flight keep pointers to breakers
\* nobody else can reach: settling those has no effect any more.
ResetRuntimeBreakers ==
  /\ Resets
  /\ route' = [m \in Modes |-> Route!NewBreaker]
  /\ target' = [m \in Modes |-> 0]
  /\ routeLease' = [r \in Requests |-> NoLease]
  /\ targetOpen' = [r \in Requests |-> FALSE]
  /\ UNCHANGED <<prov, provLease, ctl, gone, hist>>

Finished == (\A r \in Requests : pc(r) = "done") /\ UNCHANGED vars

\* What the handler of r does without waiting for anybody.
Local(r) ==
  \/ Resolve(r) \/ CheckTarget(r) \/ AcquireProvider(r)
  \/ PreflightError(r) \/ ClaimRoute(r) \/ TopOfLoop(r)
  \/ BackoffCut(r) \/ BackoffOver(r) \/ SendBuffered(r) \/ SendStream(r)

\* What is up to the upstream or to the client.
Upstream(r) ==
  \/ RequestWritten(r) \/ HeaderBegins(r) \/ StreamAccepted(r)
  \/ UpstreamFails(r) \/ NonRetryable(r) \/ ConversionFails(r)
  \/ BufferedSuccess(r) \/ ReplyCopied(r)
  \/ Commit(r) \/ ChunkWritten(r) \/ ChunkRead(r)

StreamEnds(r) ==
  StreamSucceeds(r) \/ StreamTruncated(r) \/ StreamConversionFails(r) \/ DownstreamError(r)

Next ==
  \/ \E r \in Requests :
       \/ Local(r) \/ Upstream(r) \/ StreamEnds(r)
       \/ TimerFires(r) \/ StreamStalls(r) \/ ClientAborts(r)
       \/ Disconnect(r) \/ DeadlinePasses(r)
  \/ \E p \in Providers : CoolProvider(p)
  \/ \E m \in Modes : CoolRoute(m) \/ TargetForgets(m)
  \/ ResetRuntimeBreakers
  \/ Finished

Spec == Init /\ [][Next]_vars

\* A disconnect cancels a call and fails a write.
HangsUp(r) == ClientAborts(r) \/ (gone[r] /\ ReplyCopied(r))

\* The handlers run, deadlines pass, timers fire, a disconnect is noticed.
\* Neither the upstream nor the client owes anything: it may never read what
\* it is sent, never answer, break off its answer or send for ever.
Fairness ==
  \A r \in Requests :
    /\ WF_vars(Local(r)) /\ WF_vars(DeadlinePasses(r))
    /\ WF_vars(TimerFires(r)) /\ WF_vars(StreamStalls(r))
    /\ WF_vars(HangsUp(r))

FairSpec == Spec /\ Fairness

---------------------------------------------------------------------------
TypeOK ==
  /\ prov \in [Providers -> Prov!Breaker]
  /\ route \in [Modes -> Route!Breaker]
  /\ target \in [Modes -> Nat]
  /\ provLease \in [Requests -> Prov!Lease]
  /\ routeLease \in [Requests -> Route!Lease]
  /\ targetOpen \in [Requests -> BOOLEAN]
  /\ \A r \in Requests :
       /\ pc(r) \in {"resolve", "target", "acquire", "prepare", "loop", "backoff",
                     "send", "sending", "waiting", "answered", "opening",
                     "streaming", "writing", "copying", "done"}
       /\ ctl[r].cands \in Seq(Candidate)
       /\ InFlight(r) => /\ ctl[r].pos \in DOMAIN ctl[r].cands
                         /\ ctl[r].attempt \in 0 .. Cand(r).maxRetries
       /\ ctl[r].total \in Nat /\ ctl[r].calls \in Nat
       /\ ctl[r].fail \in Failure \cup {"none"}
       /\ ctl[r].armed \in BOOLEAN /\ ctl[r].spent \in BOOLEAN
       /\ gone[r] \in BOOLEAN
       /\ answer[r] \in {"none", "reply", "error", "aborted"}

HoldsProvider(r, p) ==
  InFlight(r) /\ Cand(r).provider = p /\ Prov!CanContinue(prov[p], provLease[r])

HoldsRoute(r, m) ==
  InFlight(r) /\ Cand(r).mode = m /\ Route!CanContinue(route[m], routeLease[r])

ExactlyOne(S) == \E x \in S : S = {x}

\* A half-open breaker is always in the hands of one request still at work on
\* that provider (that route mode): no exit of the two loops forgets a probe
\* it claimed, none claims a second one, and a reset in between is harmless.
\* A forgotten probe would shut the provider out until the program restarts.
NoLeakedProbe ==
  /\ \A p \in Providers : prov[p].pendingProbe =>
       ExactlyOne({r \in Requests : HoldsProvider(r, p) /\ provLease[r].halfOpen})
  /\ \A m \in Modes : route[m].pendingProbe =>
       ExactlyOne({r \in Requests : HoldsRoute(r, m) /\ routeLease[r].halfOpen})

\* A request never costs more upstream calls than the cap, whatever the
\* length of the chain and the retries of its candidates.
CallsCapped == \A r \in Requests : ctl[r].calls <= MaxTotalAttempts

\* The candidates on which breaker k has seen a failure of its kind.
Seen(k, cause) == {f \in faults : f.key = k /\ f.cause = cause}

\* A breaker counts one signal per candidate, and only of its own kind: a
\* closed provider breaker has counted no more than the candidates on which
\* the upstream failed (retries included once; conversion errors, client
\* aborts and preflight errors never), a closed route-mode breaker no more
\* than those whose reply did not convert.
BlameWhereDue ==
  /\ \A p \in Providers : prov[p].state = "closed" =>
       prov[p].consecutiveFailures <= Cardinality(Seen(p, "upstream"))
  /\ \A m \in Modes : route[m].state = "closed" =>
       route[m].consecutiveFailures <= Cardinality(Seen(m, "conversion"))

\* What the client has been sent of a reply is final: no further upstream
\* call, and no error page after it.
ReplyIsFinal ==
  [][\A r \in Requests :
       answer[r] = "reply" => ctl'[r].calls <= ctl[r].calls /\ answer'[r] # "error"]_vars

HoldsProbe(r, p) == HoldsProvider(r, p) /\ provLease[r].halfOpen

\* Waits that no timer ends, as long as the client stays.  A buffered call
\* without a first-byte timer is one (see WaitsWithinBudget).
OpenEnded(r) ==
  /\ ~gone[r]
  /\ \/ pc(r) \in {"sending", "answered", "writing", "copying"}
     \/ pc(r) = "waiting" /\ ~Streaming(r) /\ ~ctl[r].armed
     \/ pc(r) = "streaming" /\ ~StallTimeout

\* A provider is not left half-open, with one request's probe shutting all
\* others out, except by a peer of that request: an upstream that does not
\* take the request, does not finish its header or the body of an error, or
\* sends for ever, or a client that stays and does not read.  No wait for a
\* header's first byte or for a stream's first output holds a probe for ever,
\* no retry, and with a stall timeout no silence in the middle of a stream.
ProbesSettle ==
  \A p \in Providers :
    \/ []<>~prov[p].pendingProbe
    \/ \E r \in Requests : []<>(HoldsProbe(r, p) /\ OpenEnded(r))

---------------------------------------------------------------------------
(* Each breaker as the abstract gate: the permit of r is its lease, seen    *)
(* from the breaker its current candidate claimed.                         *)

GateMode(cb) == IF cb.state = "halfOpen" THEN "probing" ELSE cb.state

Permit(lease, holds) ==
  IF ~holds THEN "stale" ELSE IF lease.halfOpen THEN "probe" ELSE "normal"

ProviderPermit(p) ==
  [r \in Requests |->
     IF provLease[r] = NoLease \/ Cand(r).provider # p THEN "none"
     ELSE Permit(provLease[r], HoldsProvider(r, p))]

RoutePermit(m) ==
  [r \in Requests |->
     IF routeLease[r] = NoLease \/ Cand(r).mode # m THEN "none"
     ELSE Permit(routeLease[r], HoldsRoute(r, m))]

ProviderGate(p) ==
  INSTANCE ProbeGate WITH mode <- GateMode(prov[p]), permit <- ProviderPermit(p)

RouteGate(m) ==
  INSTANCE ProbeGate WITH mode <- GateMode(route[m]), permit <- RoutePermit(m)

\* The loops use every breaker as the gate it promises to be: whatever way a
\* request takes through its candidates, its claims and settlements are those
\* of one permit at a time per breaker, and nothing it reports late has an
\* effect.  Only the operator can replace the route modes' gates.
BreakersAreGates ==
  /\ \A p \in Providers : ProviderGate(p)!Init
  /\ \A m \in Modes : RouteGate(m)!Init
  /\ [][/\ \A p \in Providers : [ProviderGate(p)!Next]_(ProviderGate(p)!vars)
        /\ \A m \in Modes :
             ResetRuntimeBreakers \/ [RouteGate(m)!Next]_(RouteGate(m)!vars)]_vars

---------------------------------------------------------------------------
(* Statements of the documentation that the loops do not keep.             *)

\* "firstByteBudget is the rule-level maximum time the proxy is willing to
\* wait for the first response byte from ANY upstream candidate"
\* (proxy.go:1135).
WaitsWithinBudget ==
  \A r \in Requests : pc(r) = "waiting" ~> pc(r) # "waiting"

\* r lets go of a provider lease that could still be charged.
LetsGo(r, p) ==
  HoldsProvider(r, p) /\ provLease'[r] = NoLease

Charged(p) == prov'[p].consecutiveFailures > prov[p].consecutiveFailures

\* "Network errors, timeouts and upstream 5xx enter the provider breaker"
\* (README.md:102): a request whose calls to a provider all failed that way
\* does not let the provider go uncharged, unless the client left.
TimeoutsCharged ==
  [][\A r \in Requests, p \in Providers :
       (LetsGo(r, p) /\ pc(r) = "loop" /\ ctl[r].fail = "timeout" /\ ~gone[r])
         => Charged(p)]_vars
=============================================================================
