--------------------------- MODULE RuntimeMetrics ---------------------------
(***************************************************************************)
(* The runtime metrics of the targets: the bounded registry the attempts   *)
(* report to (internal/metrics/registry.go, internal/proxy/metrics.go), the *)
(* checkpoint goroutine that writes its counters to the database           *)
(* (internal/metrics/checkpoint.go, internal/store/metrics.go), and the    *)
(* life of the process around them: start, crash, App.Shutdown.            *)
(*                                                                         *)
(* Time is the model's; an event carries the time of its observation and   *)
(* is submitted at any time after it. Keys are numbers, in the order of    *)
(* targetKeyLess; Preflight is the key of requests that reached no target,  *)
(* which is counted but never written.                                     *)
(***************************************************************************)
EXTENDS Integers, SequencesExt, FiniteSets, Functions

CONSTANTS
  Observations,   \* what may happen: [key, kind, outcome, status]
  Capacity,       \* of the registry, in keys and in routes
  Ttl,            \* of a key
  Horizon,        \* routeHorizon
  MaxSamples,     \* defaultSamples, of a route
  MaxClock,       \* bound
  MaxWork         \* bound: events, starts, failed transactions and a shutdown together

ASSUME RuntimeMetricsAssumption ==
  /\ \A o \in Observations : o.key \in Nat /\ o.kind \in {"attempt", "request"}
  /\ {Capacity, MaxSamples} \subseteq Nat \ {0}
  /\ {Ttl, Horizon, MaxClock, MaxWork} \subseteq Nat

VARIABLES
  clock, phase,   \* "up", "stopping", "draining" or "down"
  starts, booted, \* the number of starts, the time of the last
  entries,        \* the registry: key -> counters
  routes,         \* route -> its recent samples; a target has one route
  rows,           \* target_runtime_summary: key -> counters
  flusher,        \* who holds flushMu: "", "run" or "stop"
  summary,        \* the snapshot in its hands
  running,        \* the checkpoint goroutine is in its loop
  lostFlushes,    \* transactions that failed
  heard,          \* history: all events, in the order they were submitted
  since,          \* history: how many of them an earlier process heard
  owed            \* history: the counters at the moment Shutdown began

metricVars == <<clock, phase, starts, booted, entries, routes, rows, flusher, summary,
                running, lostFlushes, heard, since, owed>>
boot == <<starts, booted>>
registry == <<entries, routes>>
history == <<heard, since, owed>>

Affordable ==
  Len(heard) + starts + lostFlushes + (IF phase = "stopping" THEN 1 ELSE 0) < MaxWork

Preflight == 0
Nothing == [k \in {} |-> 0]
Zero == [requests |-> 0, attempts |-> 0, successes |-> 0, failures |-> 0, used |-> 0]
Count(a) == a.requests + a.attempts

MetricInit ==
  /\ clock = 0 /\ phase = "up" /\ starts = 1 /\ booted = 0
  /\ entries = Nothing /\ routes = Nothing /\ rows = Nothing
  /\ flusher = "" /\ summary = Nothing /\ running = TRUE /\ lostFlushes = 0
  /\ heard = <<>> /\ since = 0 /\ owed = Nothing

---------------------------------------------------------------------------
(* The registry.                                                           *)

Without(f, dead) == Restrict(f, DOMAIN f \ dead)
With(f, k, v) == [j \in DOMAIN f \cup {k} |-> IF j = k THEN v ELSE f[j]]

\* The class of an attempt's failure: an abort is nobody's, a cut body is the
\* upstream's whatever its status, and a 429 is not a failure.
FailureClass(o) ==
  CASE o.outcome \in {"client_abort", "truncated"} -> o.outcome
    [] o.outcome \notin {"client_abort", "truncated"} /\ o.status = 429 -> "429"
    [] o.outcome \notin {"client_abort", "truncated"} /\ o.status \in 500 .. 599 -> "5xx"
    [] o.outcome = "retryable" /\ o.status \notin {429} \cup 500 .. 599 -> "transport"
    [] o.outcome = "conversion_error" /\ o.status \notin {429} \cup 500 .. 599 -> "conversion_local"
    [] OTHER -> "none"

Succeeded(o) == o.outcome \in {"success", "partial"}
Failed(o) ==
  IF o.kind = "request" THEN o.outcome = "failure"
  ELSE o.outcome # "success"
         /\ FailureClass(o) \in {"5xx", "transport", "truncated", "conversion_local"}

AsOne(holds) == IF holds THEN 1 ELSE 0
Later(s, t) == IF s < t THEN t ELSE s

\* An event may be older than what the target was last seen for.
Counted(a, o, at) ==
  [requests  |-> a.requests + AsOne(o.kind = "request"),
   attempts  |-> a.attempts + AsOne(o.kind = "attempt"),
   successes |-> a.successes + AsOne(Succeeded(o)),
   failures  |-> a.failures + AsOne(Failed(o)),
   used      |-> Later(a.used, at)]

PruneLocked(es) == Without(es, {k \in DOMAIN es : clock - es[k].used > Ttl})

\* Ties go to the smaller key.
EvictOldest(es) ==
  CHOOSE k \in DOMAIN es : \A j \in DOMAIN es \ {k} :
    es[k].used < es[j].used \/ (es[k].used = es[j].used /\ k < j)

RoomFor(es, k) ==
  IF k \in DOMAIN es \/ Cardinality(DOMAIN es) < Capacity THEN es
  ELSE Without(es, {EvictOldest(es)})

Record(es, o, at) ==
  LET room == RoomFor(PruneLocked(es), o.key)
      a == IF o.key \in DOMAIN room THEN room[o.key] ELSE Zero
  IN With(room, o.key, Counted(a, o, at))

\* A route's samples carry the time of their submission; those at its head
\* that have left the horizon are cut off.
Stale(samples) ==
  {i \in DOMAIN samples : \A j \in 1 .. i : samples[j] < clock - Horizon}
Recent(samples) == SubSeq(samples, Cardinality(Stale(samples)) + 1, Len(samples))
PruneRoutes(rs, which) ==
  LET kept == [k \in DOMAIN rs |-> IF k \in which THEN Recent(rs[k]) ELSE rs[k]]
  IN Without(kept, {k \in DOMAIN kept : kept[k] = <<>>})

EvictOldestRoute(rs) ==
  CHOOSE k \in DOMAIN rs : \A j \in DOMAIN rs \ {k} :
    Last(rs[k]) < Last(rs[j]) \/ (Last(rs[k]) = Last(rs[j]) /\ k < j)

RoomForRoute(rs, k) ==
  LET live == PruneRoutes(rs, DOMAIN rs) IN
  IF k \in DOMAIN rs \/ Cardinality(DOMAIN rs) < Capacity THEN rs
  ELSE IF Cardinality(DOMAIN live) < Capacity THEN live
  ELSE Without(live, {EvictOldestRoute(live)})

\* The oldest of MaxSamples samples makes room for the new one.
Latest(samples) ==
  IF Len(samples) < MaxSamples THEN samples ELSE Tail(samples)

AppendRoute(rs, k) ==
  LET room == RoomForRoute(PruneRoutes(rs, {k}), k)
      samples == IF k \in DOMAIN room THEN room[k] ELSE <<>>
  IN With(room, k, Append(Latest(samples), clock))

\* RouteSnapshot: how many attempts a diagnosis or a score sees.
RouteAttempts(k) == IF k \in DOMAIN routes THEN Len(Recent(routes[k])) ELSE 0

\* What the registry forgets before the last flush is not owed any more.
StillOwed(es) ==
  IF phase # "stopping" THEN owed
  ELSE Restrict(owed, {k \in DOMAIN owed \cap DOMAIN es : Count(es[k]) >= Count(owed[k])})

---------------------------------------------------------------------------
(* The handlers.                                                           *)

\* An attempt without a target is refused; a request is always counted.
Valid(o) == o.kind = "attempt" => o.key # Preflight

\* emitAttempt, emitRequest: the time is taken before the registry's lock is,
\* so a handler may be overtaken by others, and by the clock.
Emit(o, at) ==
  /\ phase # "down" /\ Affordable /\ Valid(o)
  /\ entries' = Record(entries, o, at)
  /\ routes' = IF o.kind = "attempt" THEN AppendRoute(routes, o.key) ELSE routes
  /\ heard' = Append(heard, [key |-> o.key, kind |-> o.kind, at |-> at, in |-> clock])
  /\ owed' = StillOwed(entries')
  /\ UNCHANGED <<clock, phase, boot, rows, flusher, summary, running, lostFlushes, since>>

\* What is left once the target's counters, and its routes, have been read.
CurrentSnapshot == PruneLocked(entries)
CurrentRouteSnapshots(k) == PruneRoutes(routes, {k})

\* A diagnosis of one target reads both.
Diagnose(k) ==
  /\ phase # "down"
  /\ entries' = CurrentSnapshot
  /\ routes' = CurrentRouteSnapshots(k)
  /\ owed' = StillOwed(entries')
  /\ UNCHANGED <<clock, phase, boot, rows, flusher, summary, running,
                 lostFlushes, heard, since>>

TimePasses ==
  /\ clock < MaxClock /\ clock' = clock + 1
  /\ UNCHANGED <<phase, boot, registry, rows, flusher, summary, running,
                 lostFlushes, history>>

---------------------------------------------------------------------------
(* The checkpoint.                                                         *)

\* summaries: of every target, never of the preflight key.
Summaries(es) == Without(es, {Preflight})

\* Flush: one at a time; the snapshot is taken under flushMu.
Snapshot(who) ==
  /\ flusher = ""
  /\ entries' = PruneLocked(entries)
  /\ summary' = Summaries(PruneLocked(entries))
  /\ owed' = StillOwed(entries')
  /\ flusher' = who
  /\ UNCHANGED <<clock, phase, boot, routes, rows, running, lostFlushes, heard, since>>

Mutant_Upsert(old, new) ==
  [k \in DOMAIN old \cup DOMAIN new |->
     CASE k \in DOMAIN old \cap DOMAIN new -> [new[k] EXCEPT !.attempts = @ + old[k].attempts]
       [] k \in DOMAIN new \ DOMAIN old -> new[k]
       [] OTHER -> old[k]]

\* A row is replaced by the summary, not added to.
Upsert(old, new) ==
  [k \in DOMAIN old \cup DOMAIN new |-> IF k \in DOMAIN new THEN new[k] ELSE old[k]]

\* The one transaction of all summaries, through the store's write queue.
Write ==
  \/ /\ rows' = Upsert(rows, summary)
     /\ UNCHANGED <<lostFlushes, owed>>
  \/ /\ summary # Nothing /\ Affordable
     /\ lostFlushes' = lostFlushes + 1
     /\ owed' = IF flusher = "stop" THEN Nothing ELSE owed
     /\ UNCHANGED rows

Flushed(who, next) ==
  /\ flusher = who
  /\ Write
  /\ phase' = next /\ flusher' = "" /\ summary' = Nothing
  /\ UNCHANGED <<clock, boot, registry, running, heard, since>>

\* The ticker, at any moment, also once more when the stop channel is closed.
TickerFlush == running /\ phase # "down" /\ Snapshot("run")
TickerFlushed == Flushed("run", phase)

\* App.Shutdown: Checkpoint.Stop closes the channel, waits for the goroutine,
\* and flushes what the registry holds then ...
ShutdownBegins ==
  /\ phase = "up" /\ phase' = "stopping"
  /\ owed' = Summaries(entries)
  /\ UNCHANGED <<clock, boot, registry, rows, flusher, summary, running,
                 lostFlushes, heard, since>>

RunReturns ==
  /\ phase = "stopping" /\ running /\ flusher # "run"
  /\ running' = FALSE
  /\ UNCHANGED <<clock, phase, boot, registry, rows, flusher, summary,
                 lostFlushes, history>>

AwaitsRun == ~running

LastSnapshot == phase = "stopping" /\ AwaitsRun /\ Snapshot("stop")
LastFlushed == Flushed("stop", "draining")

\* ... then Proxy.Shutdown waits for the handlers, which may go on reporting,
\* and Store.Close ends the writes.
Gone ==
  /\ entries' = Nothing /\ routes' = Nothing
  /\ flusher' = "" /\ summary' = Nothing /\ running' = FALSE

ShutdownEnds ==
  /\ phase = "draining" /\ phase' = "down" /\ Gone
  /\ UNCHANGED <<clock, boot, rows, lostFlushes, history>>

\* The process may die at any moment.
Crash ==
  /\ phase \in {"up", "stopping"} /\ phase' = "down" /\ Gone
  /\ owed' = Nothing
  /\ UNCHANGED <<clock, boot, rows, lostFlushes, heard, since>>

\* LoadActiveTargetRuntimeSummaries, and what the cleanup before it deletes:
\* the rows by their last use.
ActiveRows == {k \in DOMAIN rows : rows[k].used >= clock - Ttl}

\* Restore: as many of them as the registry holds, in an order nobody fixed;
\* none when they could not be read.
Restored(keys) ==
  {K \in SUBSET keys : K \in {keys, {}} \/ Cardinality(K) = Capacity}

\* NewApp.  A failed cleanup is only logged.
Startup ==
  /\ phase = "down" /\ Affordable
  /\ starts' = starts + 1 /\ booted' = clock /\ phase' = "up" /\ running' = TRUE
  /\ rows' \in {rows, Restrict(rows, ActiveRows)}
  /\ \E kept \in Restored(ActiveRows) :
       Cardinality(kept) <= Capacity /\ entries' = Restrict(rows, kept)
  /\ since' = Len(heard) /\ owed' = Nothing
  /\ UNCHANGED <<clock, routes, flusher, summary, lostFlushes, heard>>

MetricNext ==
  \/ \E o \in Observations, at \in booted .. clock : Emit(o, at)
  \/ \E o \in Observations : Diagnose(o.key)
  \/ TimePasses
  \/ TickerFlush \/ TickerFlushed
  \/ ShutdownBegins \/ RunReturns \/ LastSnapshot \/ LastFlushed \/ ShutdownEnds
  \/ Crash \/ Startup

MetricSpec == MetricInit /\ [][MetricNext]_metricVars

---------------------------------------------------------------------------
Keys == {o.key : o \in Observations}

MetricTypeOK ==
  /\ clock \in 0 .. MaxClock /\ phase \in {"up", "stopping", "draining", "down"}
  /\ \A es \in {entries, rows} : DOMAIN es \subseteq Keys
                                  /\ \A k \in DOMAIN es : es[k].used \in 0 .. clock
  /\ Cardinality(DOMAIN entries) <= Capacity /\ Cardinality(DOMAIN routes) <= Capacity
  /\ \A k \in DOMAIN routes : Len(routes[k]) \in 1 .. MaxSamples
  /\ flusher \in {"", "run", "stop"} /\ running \in BOOLEAN

\* Whom this process has heard of: the places of its events in the history,
\* the last of them, the latest time of them, and the places of all events
\* that came after the one or that are no older than the other.
EventsOf(k) == {j \in since + 1 .. Len(heard) : heard[j].key = k}
LastOf(k) == CHOOSE j \in EventsOf(k) : \A i \in EventsOf(k) : i <= j
SeenOf(k) ==
  CHOOSE t \in {heard[j].at : j \in EventsOf(k)} : \A j \in EventsOf(k) : heard[j].at <= t
Passed(k) == {j \in DOMAIN heard : heard[j].at >= SeenOf(k) \/ j > LastOf(k)}
Rivals(k, places) == {o \in Keys \ {k} : \E j \in places : heard[j].key = o}

\* A target the registry does not know any more was either last reported for a
\* time more than Ttl ago, or Capacity others were seen or reported later.
ForgottenRightly(k) ==
  \/ clock - heard[LastOf(k)].at > Ttl
  \/ Cardinality(Rivals(k, Passed(k))) >= Capacity

\* A diagnosis sees the latest attempts of the horizon, MaxSamples at most; one
\* it misses was lost with the route, to Capacity others in use since.
AttemptsOf(k) == {j \in EventsOf(k) : heard[j].kind = "attempt"}
RecentAttempts(k) == {j \in AttemptsOf(k) : heard[j].in >= clock - Horizon}
InUseSince(j) == {i \in since + 1 .. Len(heard) : heard[i].kind = "attempt" /\ heard[i].in >= heard[j].in}
SeesRecent(k) ==
  LET all == RecentAttempts(k)
      missing == Cardinality(all) - RouteAttempts(k)
      Rank(j) == Cardinality({i \in all : i <= j})
  IN \/ missing = 0
     \/ missing > 0 /\ RouteAttempts(k) = MaxSamples
     \/ \E lost \in all :
          Rank(lost) = missing /\ Cardinality(Rivals(k, InUseSince(lost))) >= Capacity

\* The counters survive what they should survive: a target is forgotten and an
\* attempt unseen for a reason only; no event is counted twice, in memory or in
\* the database, however often the process restores what it wrote; after an
\* orderly shutdown whose last transaction committed the database holds
\* everything counted before it began; and no flush is left for a closed store.
Remembered ==
  phase # "down" => \A k \in Keys :
    /\ EventsOf(k) # {} => k \in DOMAIN entries \/ ForgottenRightly(k)
    /\ SeesRecent(k)
CountedOnce ==
  \A es \in {entries, rows} : \A k \in DOMAIN es :
    Count(es[k]) <= Cardinality({j \in DOMAIN heard : heard[j].key = k})
Settled ==
  phase \in {"draining", "down"} => \A k \in DOMAIN owed :
    k \in DOMAIN rows /\ Count(rows[k]) >= Count(owed[k])
CountsKept ==
  /\ Remembered /\ CountedOnce /\ Settled
  /\ phase = "draining" => flusher = "" /\ ~running
=============================================================================
