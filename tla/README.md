# Autoapi in TLA+

Autoapi is a desktop application (Go, Wails, Vue) around a local gateway for
LLM APIs. A client sends an OpenAI- or Anthropic-style request; the gateway
matches it to a model rule, tries the rule's targets one after the other,
converts between protocols where a target speaks another one, keeps failing
targets out with circuit breakers, and logs every request in SQLite. The
interesting behaviour is in `src/internal/proxy`: many handlers run at once
over shared breakers, queues and metrics.

This directory holds TLA+ models of that code, TLC configurations that check
them on small instances, and TLAPS proofs. Line numbers refer to the
repository; `PROJECT.json` maps every definition to the lines it models.

    tlc -workers 2 -config CircuitBreaker.cfg MCCircuitBreaker.tla
    tlc -workers 2 -config Gateway.cfg MCGateway.tla
    tlapm CircuitBreakerProofs.tla      (and the other modules named *Proofs)

## The system

| component (source, under `src/internal`) | state | operations | what makes it correct |
|---|---|---|---|
| circuit breaker (`proxy/circuitbreaker.go`) | state, generation, failures, openedAt, pendingProbe; one per provider, one per converted route mode | Acquire, canContinue, settle, settleCancel, WouldAllow | one probe at a time, never lost; late reports inert; trips at the threshold; cooldown kept |
| failover loops (`proxy/proxy.go`: forwardWithFailover, forwardStream, streamAttempt; `firstbyte.go`, `errorcat.go`) | per request: candidate, attempt, budget, guards; shared: the breakers | resolve, claim, call, retry, back off, fail over, commit, settle | every exit settles its guards; calls capped; the right breaker is charged; nothing after the reply is committed; each wait the code bounds ends |
| target breaker (`proxy/targetbreaker.go`) | rolling window of failure times | allow, recordFailure, recordSuccess, reset | open exactly while the window holds the threshold |
| request-log writer (`proxy/logwriter.go`, `store/logs.go`) | two channels, two batches, stop flag; table rows | Enqueue, EnqueueUpdate, Stop, the loop | nothing lost or repeated; inserts before updates; Stop drains and ends |
| proxy lifecycle (`proxy/proxy.go` 255-520) | listener, server, active settings, transport | Start, Stop, Restart, same-port rebind, restore, Shutdown | one listener; a failed restart leaves the old one serving |
| matcher (`proxy/matcher.go`, `capability_snapshot.go`, `adapter.go`) | none (rules, capability rows are inputs) | selectCandidates, chooseProtocolPath | order kept; only capable candidates; native before converted |
| handlers and inspection (`proxy/handlers.go`, `inspect.go`) | none shared | authenticate, parse, detect features | each inbound request is logged once |
| protocol conversion (`proxy/convert*.go`, `stream_convert*.go`) | per-stream converter state | convert requests, replies, SSE events | well-formed event order |
| usage accounting (`proxy/usage.go`, `streamusage.go`) | accumulator | feed, verdicts Successful, ProducedOutput, Errored | a stream is a success only with output and terminal event |
| runtime metrics (`metrics/`, `proxy/metrics.go`, `store/metrics.go`) | bounded maps of aggregates, checkpoint goroutine | Submit, Restore, Snapshots, Flush, Trigger, Start, Stop | bounds and TTL; the final flush is the latest |
| routing plan, scoring (`routing/`, `scoring/`, `model/routing.go`) | none | build plan, score | pure; shadow only (`proxy.go:828`) |
| store (`store/`) | SQLite; bounded write queue | CRUD, migrations, Submit, Close | transactions; no send on a closed queue |
| tool configuration (`toolconfig/`) | files of other tools, backups, staged edits | stage, commit, roll back | all files or none; foreign edits kept |
| service, API, shell (`service/`, `api/`, `src/main.go`) | settings, tests of providers and models under way, bindings | calls into the parts above | start and stop order |
| frontend (`src/frontend`) | user interface | | |

How they interact. A handler authenticates, enqueues a pending log row
(`insertPendingLog`), resolves its candidates (matcher, breakers' WouldAllow)
and runs one of the two forwarding loops, which claims and settles the provider,
route-mode and target breakers, calls the upstream, submits attempt events to
the metrics registry, and on return enqueues the row's update. Restart empties
the route and target breakers under requests in flight. Shutdown stops the
checkpoint, then waits three seconds for the handlers, then stops the log
writer, then closes the store.

What is hard here. Every lock is short (a breaker method, a map lookup, a
flag) and everything is decided across several of them: availability is read
long before it is claimed, a report may come periods after its admission, a
guard has to be settled on some forty ways out of nested loops, two channels
have no order between them. The `hazards` of `PROJECT.json` list these places
by line, with the properties that cover each.

## The modules

| module | models |
|---|---|
| `BreakerOps` | the breaker record and its methods as pure functions: one application is one critical section |
| `ProbeGate` | abstract specification: what a breaker promises its callers (closed, open, or probing with exactly one probe out; stale permits have no effect) |
| `CircuitBreaker` | one breaker shared by concurrent requests through `probeGuard`s; implements `ProbeGate` |
| `CircuitBreakerProofs` | the theorems about `CircuitBreaker` |
| `Failover` | the two forwarding loops over provider and route breakers (`BreakerOps` instantiated twice) and target windows; every breaker implements `ProbeGate` under them |
| `LogWriter` | handlers, writer goroutine, Stop, and the rows in the table |
| `ToolCommit` | commits of several configuration files, with everything that may interfere |
| `FailoverProofs`, `LogWriterProofs`, `ToolCommitProofs` | the theorems about the modules of these names |
| `StreamRelayProofs`, `StreamDeliveryProofs` | the theorems about `StreamRelay`: what an attempt comes to, and what its client has been told |
| `OperatorProofs` | the theorems about what the operator works with: `Lifecycle`, `RuntimeMetrics`, `RuleBook` and `ShadowPlan` |
| `ProcessProofs` | the theorems about `RequestPath`, `Conversions` and `Process` |
| `Inspection` | what the four inspectors make of a request: refused, native only, features |
| `Conversions` | the converters of request and buffered reply bodies, and their compositions |
| `Matching` | the capability snapshot, the conversion edges, `selectCandidates` |
| `RequestPath` | a request from the handler over the four reads of the store and its candidates to the buffered reply |
| `StreamOps` | the converters of streams event by event, and the usage accumulator |
| `StreamRelay` | one stream: upstream, `streamAttempt` with its commit gate, client |
| `Gateway` | `RequestPath` that hands a stream over to `StreamRelay` |
| `Lifecycle` | listener, settings, restart and rollback, by several callers |
| `RuntimeMetrics` | registry, checkpoint goroutine, the rows, the life of the process |
| `RuleBook` | the rules and their targets in the database, edited from stale listings |
| `ShadowPlan` | the order another strategy would give a rule's targets, as the window shows it |
| `Ordering` | what `ORDER BY` and a sort make of a set, for the two modules above |
| `Process` | `Gateway`, `Lifecycle`, `RuntimeMetrics`, `RuleBook` and `ShadowPlan` side by side |
| `MC*` | the constants of the TLC instances |

Operators named `Mutant_X` are deliberately wrong variants of `X`, next to it:
each property is checked to fail when its variant takes the place of `X`, so
that no property holds merely by the shape of a model. No specification uses
them.

### BreakerOps, CircuitBreaker, ProbeGate

State and code correspond one to one, with two differences. `openedAt` is kept
as an age saturated at `RecoveryTimeout`, since the code only compares
`now - openedAt` with the timeout. A guard is its lease while open and `NoLease`
when closed: the methods of a closed guard and those of the breaker on the zero
lease do nothing. `Acquire`, `Success`, `Failure`, `Cancel` are the methods under
`cb.mutex`; `Tick` is the clock. `MaxGeneration` bounds the model: no probe is
granted beyond it. The methods `Allow`, `Record` and `CancelProbe` take no lease
and are called by tests only.

### Failover

`ctl[r]` holds the local variables of request r's handler and its program
counter; `provLease`, `routeLease`, `targetOpen` are its guards. An action is
the code between two points where the handler waits or where the shared
breakers may have changed:

    resolve -> target -> acquire -> prepare -> loop -> (backoff) -> send
      -> sending -> waiting -> answered -> copying -> done           (buffered)
                               answered -> opening -> writing <-> streaming -> done

The waits of a call are labels of their own, since each has another bound, or
none. A request being written (`sending`) has none. The first-byte timer starts at
`WroteRequest` and stops at the first byte of the header (`waiting`, `firstbyte.go`);
the rest of the header, the body of an error (`proxy.go:2639`) and a buffered reply
(`answered`) are read without any. A stream's body is read under a deadline until its
first output (`opening`), then under `StallTimeout`, if one is set (`streaming`). A
write to the client (`writing`, `copying`) has none. Left out: an upstream that answers
before it has read the whole request, whose timer would start late.

An upstream outcome and the settlements it causes are one action, since they
touch three different breakers once each and depend on none of the others.
Outcomes are reduced to the class that decides what happens next
(`CategorizeError`, `isCircuitBreakerFailure`); the client's own disconnect may be
taken for one of them where a read is cancelled. Deadlines and disconnects are
actions of the environment, enabled only where the code looks at them. The
retry delay is capped to the remaining budget, so at the deadline both cases of
the select are ready: `BackoffOver` and `BackoffCut` are both enabled.
`ResetRuntimeBreakers` is Restart: requests in flight keep pointers to breakers
nobody else can reach, so their leases become ineffective. The target breaker's
window is a counter from which `TargetForgets` takes the oldest failure.
`ProviderGate(p)` and `RouteGate(m)` read each breaker and the leases its users hold
as a `ProbeGate`: `BreakersAreGates` says that the loops, with their forty ways out,
take every step of every breaker as that abstract gate does (a reset replaces the
route modes' gates; the providers' have none).
Left out: rewriting, headers, prices, usage, log texts, the store's health and
hit counters.

### LogWriter

`Enqueue` and `EnqueueUpdate` are two actions each: `stopped` is read under the
mutex, the send happens after the unlock. `ch` and `updateCh` are the channels,
`insertBatch` and `updateBatch` the loop's slices, `row` the table. A flush is two
transactions, `FlushInserts` then `FlushUpdates`, either of which may fail (at
most `MaxFaults` entries' worth) and forgets its batch both ways; an UPDATE
without a row is a silent no-op. The timer may fire at any moment; with empty
batches its tick does nothing and is left out. `Reject` stands for every
handler exit before `insertPendingLog`.

### ToolCommit

A commit goes through `plan -> states -> validate -> backup`, then for each file
`write -> rename -> check`, then `verify -> prune -> save`; on an error
`rollback`. `Read` is the adapter's snapshot, `ReadStates` and `Save` are
`commitToolChangeSet` around `Commit`. Every hash read is a step of its own, and
so are the revalidation and the rename behind it: the service takes no lock, so
another commit, or the program that owns the file, may come between any two.
`attempted[c]` is a count, since `attempted` in the code is always the first
files. A fault is an I/O error of the step (`RenameFails` before or after the
rename); `Crash` ends all commits under way and leaves disk and store. Contents
are names, and what a commit renders differs from every other content. Left out:
modes and permissions, the read-only `Checks` of the OMO Slim planner (validated
once, before the first write), temporary files, checks of paths and resources.
`undone` is `commitFailure`'s "rollback completed".

### Inspection, Conversions, Matching

Pure operators over abstract bodies. A body is a set of options, each standing
for one JSON fragment a client may write (`"stop"` a stop sequence, `"tool_field"`
a tool with a field the inspector does not know), and a conversation of texts,
calls and results with their speakers. A definition that is a set names the
fragments the function of that name refuses, marks or keeps. A conversion yields
the set of bodies it may yield, the empty set when it fails; Chat and Messages
convert to each other over Responses, with the losses of both. What is kept:
which fragments survive, how items are grouped, ordered and attributed, which
stop reason becomes which. `Matching` holds the snapshot lookups (model row,
provider row, default), the native-before-converted choice and the error of a
selection that finds nobody.

### RequestPath

    draft -> rules -> providerRows -> providers -> modelRows -> match
      -> prepare -> sent -> reply -> answered      (or -> relay)

The client composes its request fragment by fragment (`AddFragment`, `AddPart`);
each handler inspects it and asks. The four reads of `resolveCandidates` are
four steps, an `Edit` of the store may come between any two, and the breakers
are looked at last. `moments` remembers what the store has held meanwhile, so
that a choice can be judged against a store that existed. `AttemptFails` stands
for whatever makes `Failover` go on to the next candidate. What the request no
longer needs is reset (`Forget`). `Match` is the rest of `resolveCandidates`:
`Capabilities` its snapshot, `Found` its selection, `Routed` what the shut converted
routes leave of it, `Try` the stream check and the first candidate. A configuration
has one rule of the name asked for (`IsConfiguration`), since a unique index keeps
names apart (`migrations.go:565`), and its capability rows of providers name no model.

### StreamOps, StreamRelay, Gateway

An event is [type, index, kind, token, usage]. `Converters(up, client)` is the
pipeline of the attempt (none, one or two converters), `WriteAll` runs events
through it, `Feed` is the accumulator. The upstream is legal up to where it
stops: it may break off after any event or inside one, send an error, or content
with no counterpart. A `Read` takes all that is on the wire, converts it, holds
it back (`Held`) until there is output, commits, and writes, which may fail.
`begun` tells the read of the first byte from those behind it: until then a client
that leaves is a `client_abort` (`ReadFails`, "gone"), later and before the commit the
same is `retryable`, and an empty body is too. `Verdict` is the order in which
`streamAttempt` looks at its errors. An event's usage is the output tokens; `UsageTold`
says when the event that ends a reply tells them to the reader. `HandOver`
joins the two: the dialects of the stream are those the matcher chose.

### Lifecycle

`lock` is `lifecycleMu`; a restart is two steps under it, the read of the settings
and the move of the listener (`Rebind`), since binding and closing are guarded by
the lock while the settings are not. `RestartEnds` lists the ends of a restart
with the failures each needs. `ReadPrevious`, `Persist`, the restart, `RollBack`
and the second restart are `persistSettingsWithRollback`, which holds no lock.

### RuntimeMetrics

`Emit` submits an event with a time between the last start and now; `entries` and
`routes` are the registry's two maps with expiry and eviction. `Snapshot` and
`Flushed` are the two halves of `Flush`, for the ticker and for `Stop`; `Write`
may fail as a whole. `ShutdownBegins` to `ShutdownEnds` follow `App.Shutdown`
(checkpoint, proxy, store), `Crash` may come before, `Startup` cleans up and
restores. `owed` is what the registry held when the shutdown began.

### RuleBook

Each method of `store/modelrules.go` that changes a rule, its targets or their
counters is one action, since each is one transaction; a refused one (a name in
use, a set of ids that is no longer the rule's, a rule that is gone) changes
nothing and is the guard. `view[w]` is what the window has read: it edits or
reorders from it, with the ids and tiers as they were then, while other calls and
the proxy's reports come between. `arranged`, `asked` and `reported` are
histories: what the operator last asked for, and what was reported. Left out of
a target: provider, model, timeout, retries and the enabled flag, which the
methods write through; of a rule: all but its name and place.

### ShadowPlan

The comparison `GetModelRuleShadowComparisons` computes, from the order, tiers,
prices and scores of the targets. The scoring formula is not modelled: a score is
given, and zero when the target is unavailable, as the scorer returns it. The
targets are added in the order `RuleBook` lists them.

## The runs

| run | instance | shows |
|---|---|---|
| `circuit_breaker` | 4 requests, threshold 3, timeout 2 ticks, 10 generations (14888 states) | `ExclusiveProbe`, `ClosedBelowThreshold`, `CooldownServed`, `RevokedForGood`, `ReclosedByProbe`, `CancelKeepsCooldown`; refinement `ImplementsGate`; `ProbeResolves` under fairness |
| `failover` | a buffered and a streaming request, two candidates (converted with one retry, native), cap 2, thresholds 2, breakers possibly open at the start (674779 states) | `NoLeakedProbe`, `CallsCapped`, `BlameWhereDue`, `ReplyIsFinal` |
| `failover_streams` | a buffered and a streaming request, one converted candidate, resets, a stall timeout (164882 states) | refinement `BreakersAreGates` under resets; `ProbesSettle` under fairness |
| `log_writer` | 2 requests, queues of 1, batches of 2, one fault (17205 states) | `OnePlace`, `StopDrains`, `UpdateFindsRow`, `EntriesLand`, `StopEnds` |
| `tool_commit` | 2 commits of 2 files, 2 backups kept, one edit, fault and crash (4.4 million states) | `FailureLeavesNothing`, `AllTogether`, `OriginalsKept`, `DriftRefused` |
| `request_path` | all of `Process`: five client dialects, three providers behind one rule with four stores one edit apart, three fragments or parts; streams of two items, two tokens; two callers, three settings, two failures; two registry slots for four keys, four pieces of work; two rules, three targets, four transactions and a report; three targets compared (1184932 states) | `SentWhereSupported`, `StatusHonest`, `RequestKept`, `ReplyKept`, `ClientStreamLegal`, `DeliveredAsSent`, `VerdictJust`, `CommitMeansOutput`, `ListenerHonest`, `CountsKept`, `RulesHonest` |

The bounds. A breaker's interesting cases need a holder of the probe, a stale
holder, a trip caused by others and one request more; ten generations allow
three full open-probe-close cycles. In `Failover` two requests are enough for
each claim to be contested, a retry on the first candidate and a second
candidate for each exit to continue or end the chain, and a cap of two to be hit
between, in and after the retries. In `LogWriter` an entry is disturbed by at
most one other that fills the queue or completes the batch. In `ToolCommit` two
files separate the first, the last and the next file of a commit, and two commits
with an outside edit give each step of one every kind of interference; the initial
states cover missing and present, recorded and unrecorded files.

`request_path` explores five systems in one run, one per behaviour (`part`): they
share no state a property reads across. What they do share, the store, is in
each of them with the part of it that matters there; the breakers of a restart
are in `failover`. Its bounds:

- `MaxSize` 3, `MaxExtras` 1: every fragment of every dialect alone, with and
  without `stream` and `tools`, and conversations of three parts, the shortest
  in which grouping a text, a call and a result can go wrong. Two rare fragments
  never meet; the inspectors look at each alone.
- `MaxEdits` 1: one edit between any two of the four reads. Two would already
  allow a store made of rows that never existed together, which the code does
  nothing against; with one, each choice must fit the store before or after.
- `MaxReplyParts`, `MaxItems`, `MaxTokens` 2: the mixes and repetitions of texts
  and calls; `MaxUnread` 3: reads of one event and of several.
- `MaxMishaps` 2: a restart that fails and whose restoration fails, or a restart
  and the rollback after it. The third claim of `ListenerHonest` is about one.
- `Capacity` 2 for the preflight key and three targets, `Ttl`, `Horizon` 1 in
  two ticks: eviction, expiry, and ties. `MaxWork` 4 is one budget for events,
  starts, failed transactions and the shutdown: enough to lose a flush, restart,
  and count again.
- Two rules and names, two listings, `MaxRows` 3, `MaxWrites` 4, one report: two
  targets created together and one added later; a listing overtaken by an edit,
  a deletion or a reorder made from the other. The clock stands still (`Times`),
  so that nothing is ordered by it.
- `MaxTargets` 3 of eight kinds in two tiers, all strategies.

`CHECK_DEADLOCK FALSE` there because a request ends, a plan is full and the
budgets run out. No fairness is assumed: the properties are about safety.

Fairness. `CircuitBreaker`: a request that holds a lease settles it, which is
what the loops are shown to do by `NoLeakedProbe` and `ProbesSettle`. `Failover`
(`FairSpec`): a handler that waits for nobody runs on (`Local`), deadlines pass, timers
that are armed fire (`TimerFires`, `StreamStalls` if a stall timeout is set), and the
calls and writes of a client that has left end (`HangsUp`, through the cancelled
context or the closed connection). Neither the upstream nor a client that stays owes
anything: `ProbesSettle` says that a provider's probe comes back unless, again and again, its
holder is in a wait that the code leaves to one of them (`OpenEnded`):
the request being written, the rest of a header, the body of an error or a buffered
reply, a write to a client that does not read, a buffered call whose timer was not
started, and, without a stall timeout, the middle of a stream. A stream that
goes on for ever alternates between reads and writes, and is in that list as one that
keeps writing.
`LogWriter`: the goroutine runs; with finitely many requests no choice of its
select can be made for ever, and Go's select picks at random anyway.

### Where the code and its documentation differ

Each of these runs checks one statement of a comment or document and finds a
behaviour of the code against it:

| run | statement | behaviour |
|---|---|---|
| `failover_budget` | the first-byte budget is the maximum wait for a first byte (`proxy.go:1135`) | when the budget runs out just before a buffered attempt, `withFirstByteTimer` gets a non-positive rest and starts no timer: the call waits without limit |
| `failover_timeout_charge` | timeouts enter the provider breaker (`README.md:102`) | a chain ended by the budget or the cap cancels the provider's guard |
| `log_writer_overtaken` | the pending row is updated when the handler returns (`handlers.go:474`) | the update is taken first and flushed before the insert: the row stays pending |
| `log_writer_late_entry` | Stop flushes any buffered logs; Enqueue is false after it (`logwriter.go:71,104`) | an entry sent after the drain is accepted and never written |
| `stream_tool_calls` | conversions are fail-closed instead of silently dropping (`CHANGELOG.md:10`) | a Chat stream of a text and a call, or of two calls, reaches a Messages client without the call or with the two merged, and is a success |
| `tool_commit_conflict` | lost-update failures are side-effect free (`engine.go:25`) | the second file fails its revalidation, and the rollback of the first overwrites an edit made to it since its check |

Smaller ones, met while modelling and visible in the definitions, without a run
of their own: the buffered loop counts a retry refused by `canContinue` as an
upstream attempt, against `proxy.go:1162` (`SendBuffered`); a stream's
non-retryable 4xx is not charged to the provider, against `errorcat.go:69`
(`NonRetryable`); a stream's success is settled when the stream ends, not at the
first output as `proxy.go:1887` says (`StreamSucceeds`); the body of an error is read
outside the "cumulative pre-commit budget" of `proxy.go:1881`, for as long as the
upstream holds it back, with the provider's probe (`OpenEnded`); a first target that
uses up the shared budget keeps the second from being tried, against
`README.md:89` (`AbortChain`); a rejected request enqueues an update without a
row, against `logwriter.go:86` (`Reject`); a commit that plans over another one's
files before that one rolls back may put the rolled-back content on disk again
(the exception in `FailureLeavesNothing`), and one may be renamed over between
revalidation and rename.

On the request path. `KnownLosses` (`RequestPath`) lists what a converted request
loses or alters without an error, against the same line of the changelog, and
`RequestKept` says that it loses exactly these:

- from Messages: a `thinking` type other than `enabled`; keys of messages, of text
  blocks (citations, cache marks) and of calls; a message without content;
  `is_error`, and a result given as blocks, which becomes a string of JSON; of
  tools the strictness, cache marks and any key the inspector does not know; integers
  beyond 53 bits in the input of a call and, to Chat, in the schema of a tool.
- from Chat: a `response_format` of an unknown type; keys of messages (`name`,
  `function_call`, `refusal`, `reasoning_content`), of text blocks and of calls; a
  message without content; large integers in a tool's schema; to Messages
  also `parallel_tool_calls: false` and the strictness of tools.
- from Responses: the verbosity; a format given as a string or without a type; keys
  of items (`id`, `status`) and of text blocks; to Chat large integers in a tool's
  schema; to Messages also `parallel_tool_calls: false`, strictness, the user, an item
  without a role (it becomes the user's), a message without content, a result given
  as blocks, and a tool whose type is "".

Outside the fragments, and so only here: the texts of one message may be joined, and
a `max_tokens` that is not positive is left out. Read off the definitions:

- A failing read of the rules is answered as `no_matching_rule` (`ReadRules`);
  a failing read of anything else and a shut converted route are the same 503.
- A request with the feature `reasoning` is never converted, though the
  converters carry the effort over (`PreservesTextTools`).
- An open breaker may hide the only target that serves a request: the others
  then make it a 422 (`SelectCandidates`); `StatusHonest` judges by the breakers
  that were seen.
- Responses to Chat takes only messages, then calls, then results
  (`ResponsesInputToChat`): a second round of calls fails to convert.
- A buffered Responses reply with calls that says "completed" ends a Messages
  reply with `end_turn`; "content_filter" becomes `max_tokens`; a refusal of
  Messages becomes "completed", as does any stop reason the converters do not know
  (`Stops` has the known ones; on others, such as `model_context_window_exceeded`,
  a cut reply called complete, `ReplyKept` is silent); `max_tokens` cannot be converted to Chat; usage
  details OpenAI really sends, or `logprobs`, make a buffered Chat conversion fail.
- Streams: a Responses stream cut short (`response.incomplete`) ends a Chat client's
  without its usage (`stream_convert_chat.go:788`), so the log has none; `VerdictJust`
  makes the exception by `UsageTold`. Chat to Responses sends `response.created` twice when text and calls
  mix, and a "completed" without it for an empty reply; the second content part
  of a Responses message is dropped; text followed by a call, from Messages to
  Chat, ends in a conversion error after the commit, which `streamAttempt` records
  as such (`proxy.go:3025`) where `stream_convert.go` speaks of truncation.

On the lifecycle. `proxy.go:377` says the old server stays live until the new
address has been acquired, which a restart on the same port cannot do
(`RestartSamePort`); while a stream is open for longer than the three seconds, every
such restart fails and restores. A restart to another port whose old server does
not drain reports an error with the new listener installed. A failed save on a
stopped proxy may start it with the previous settings. Two saves at once: the
rollback of one may undo the successful other (`RollBack`); `ListenerHonest` still
holds, because the listener then follows. A failed read of the enforcement falls
back to "observe" and the restart succeeds (`Rebind`).

On the metrics. `Checkpoint.Trigger` is never called. `successes` counts requests
and attempts together, against the comment at `model/routing.go:130` (`Succeeded`).
An event that was overtaken may recreate an evicted target with an older time,
and its row is then overwritten with smaller counters (`Upsert`). The preflight
key takes room in the registry and is never written. What handlers report after
the last flush is lost.

On the rules. A target added after others were removed gets its position as tier
(`Inserted`) while the rest keep the tiers they had, so that it may be tried
before targets it was appended to. After a reorder of targets the window keeps the old tiers
(`ReorderModelRuleTargets`), and its next edit from there sends them back and undoes
the reorder; `BookKept` takes an edit as the operator's last word on the order, and so
does not count this as a fault. Of two edits from
stale listings the later one removes the targets the earlier added. The comment
of `ReorderModelRules` still calls it a no-op (`modelrules.go:251`).

On the plan. Each target is scored alone, so the reference price of its cost
score is its own.

## What is proved

`CircuitBreakerProofs`, for every set of requests, threshold, timeout and
`MaxGeneration`, from the assumptions `BreakerOpsAssumption` (threshold and
timeout positive) and `CircuitBreakerAssumption`:

| theorem | property |
|---|---|
| `Typing` | `TypeOK` |
| `LeasesInStep` | `LeaseInv` |
| `ProbeExclusive` | `ExclusiveProbe` |
| `TripsAtThreshold` | `ClosedBelowThreshold` |
| `CooldownKept` | `CooldownServed` |
| `NoABA` | `RevokedForGood` |
| `OnlyProbeCloses` | `ReclosedByProbe` |
| `CancelledProbeRetries` | `CancelKeepsCooldown` |
| `Implementation` | `ImplementsGate`: the breaker implements `ProbeGate` |

The argument. `ExclusiveProbe` is not inductive: that no second request can move
the half-open breaker depends on stale leases having older generations. The
inductive invariant is `IInv == TypeOK /\ LeaseInv /\ ExclusiveProbe /\
Calibrated(breaker)`: no lease is ahead of the breaker, a lease of the current
generation is of the kind the state calls for, and the breaker's count and age
fit its state. Every settlement is one of three shapes (`SettleShape`):
untouched, counted, or moved to a new generation. A move makes all other leases
stale, which gives `LeaseInv` and exclusivity at once; a granted probe is the
first lease of its generation. The action properties and the refinement follow
from the invariant by the same cases: each step of the breaker is `Admit`,
`AdmitProbe`, `Return`, `Trip` or `EndProbe` of the gate, or a stutter.

`ToolCommitProofs`, for any commits, files and bounds, from
`ToolCommitAssumption` (finitely many commits, none of them named like a content):

| theorem | property |
|---|---|
| `CleanFailure` | `FailureLeavesNothing` |
| `Together` | `AllTogether` |
| `DriftGuard` | `DriftRefused`: what the last look at a file before its rename has found; an edit behind that look is written over |
| `BackedUp` | what a commit replaced lies in a backup, unless `KeepBackups` others have begun |
| `NoneMissing` | `OriginalsKept`, for no more commits than backups are kept |
| `ToolTyping` | `TypeOK` |
| `Progressing` | the invariant the others rest on |

The argument. `IInv` ties the label of a commit to the number of files it has
written and to its outcome. Each theorem adds what its property lacks to be
inductive: `DriftInv` that what was read of the files validated so far matches the recorded
hashes, which the last look finds unchanged;
`TogetherInv` that the files verified so far are still there or were changed by
others; `FailureInv` that a commit's content lies only in files it has renamed,
that another plan can have read it only from there, and that in a rollback it
lies below the cursor, or another failing commit has put it back. A step of one
commit leaves the label, plan and result of the others alone (`OthersStay`), and
changes the disk in one of two ways (`DiskStep`). For the backups, `BackupInv`
orders those beside a file by the commits that made them: pruning keeps the
youngest `KeepBackups`, so a lost one has that many others above it, each of a
commit that has begun. `KeepBackups` is 20 in the code; without the hypothesis
the statement is false, as TLC shows with one backup kept and two commits.

`FailoverProofs`, for any requests, candidate chains, caps, thresholds, timeout,
breakers that start open, and resets, from `FailoverAssumption`:

| theorem | property |
|---|---|
| `ProbesNotLeaked` | `NoLeakedProbe` |
| `CapKept` | `CallsCapped` |
| `BlameKept` | `BlameWhereDue` |
| `ReplyFinal` | `ReplyIsFinal` |
| `BreakersGate` | `BreakersAreGates` |
| `ProvidersGate` | each provider's breaker implements `ProbeGate` |
| `RoutesGate` | each route mode's breaker implements `ProbeGate`, if nobody resets it |
| `FailoverTyping` | `TypeOK` |

The argument. `NoLeakedProbe` speaks of half-open breakers only, and cannot tell
why a stale lease does no harm. `IInv` says it of every breaker (`Sound`): no lease
handed out is ahead of it, one of its generation is of the kind its state calls
for, and a half-open one has exactly one; `LeaseInv` says at which labels a request
holds leases, so that an exit that forgot one would break it. The whole of it is
stated for a breaker and the set of its holders, once, and used for the provider
and the route breakers. `BlameInv` counts the candidates whose own failure has been
*settled*, which excludes the one whose lease is still open; `FaultInv` keeps it
from being counted again after the request has moved on. A step of a request is
summed up in what it does to its own variables, to either breaker, to the blame
and to the answer (`Good`); every exit is shown to be of that shape, and the
shape to keep the invariant. The refinement rests on the same: to a breaker, such a
step closes one guard, grants one lease or does nothing (`BreakerStep`), and under
`Sound` each of these is a step of the gate (`BreakerIsGateStep`): a guard closed with
a lease in force is `Return`, `Trip` or `EndProbe`, one closed with a stale lease
`Return`, a grant `Admit` or `AdmitProbe`.

`LogWriterProofs`, for any requests, queue and batch sizes and failed
transactions, from `LogWriterAssumption`:

| theorem | property |
|---|---|
| `NoEntryLost` | `OnePlace` |
| `DrainedOnStop` | `StopDrains` |
| `InsertsFirst` | `UpdateFindsRow` |
| `LogTyping` | `TypeOK` |

The argument. `StopDrains` is about the last state and says nothing of the way
there. `Stopping` does: once the goroutine drains and has left its select, what
was accepted before Stop is no longer in a channel; `Labels`, that the batches are
empty where the loop says so; `Answered`, that an entry is accepted once; `RowsThere`,
that a row once written is there. An entry moves from its channel to its batch and
from there to `written` or `failed`, which with `OnePlace` accounts for it.

`StreamRelayProofs`, for every pair of dialects and any number of items, deltas
and events on the wire, from `StreamRelayAssumption`:

| theorem | property |
|---|---|
| `VerdictsJust` | `VerdictJust` |
| `CommitsWithOutput` | `CommitMeansOutput` |
| `EndsOnce` | one terminal at most reaches the client, and nothing after it (of `ClientStreamLegal`) |
| `Invariant` | the invariant they rest on |

The argument. A success must mean that the reply was whole and its output tokens counted,
two or three conversions away from where either is known. `RelayInv` follows both:
every sequence of events (on the wire, held back, received) is one its dialect
may speak (`Spoken`: usage only in the events that report it, a terminal only of
the dialect or a failure) and is `Tidy` (nothing behind a terminal); a converter
that has ended read an event behind which the reply is whole (`ConvInv`); whatever
usage the upstream sent is on the wire, in a converter (`Keeps`), held back, or in
the accumulator (`EndInv`); and once the accumulator or the gate has a terminal the
pipeline is closed, so that nothing is counted after it. For each converter and each
event, `Stepped` says what a step does to these; chunks and pipelines inherit it
(`Chunked`, `Piped`), the accumulator has `FedAll`. `WriteStep`, `WriteAll` and `Feed`
are recursive functions: `FedIs`, `WrittenIs` and `PassedIs` show that they exist and
unfold, and what holds of every prefix is shown from the least counterexample
(`Induction`), since the library's induction cannot be instantiated. The stream of
`Gateway` starts in `RelayBetween`, one of the initial states here, with whichever
dialects were matched.

`StreamDeliveryProofs`, from the same assumption and on top of that invariant:

| theorem | property |
|---|---|
| `RepliesDelivered` | `DeliveredAsSent` |
| `ClientsStreamLegal` | `ClientStreamLegal` |
| `ToldInvariant` | the invariant they rest on |

The argument. Both properties compare whole streams, two conversions apart. A *reader*
of a stream is what it has been told so far (`Told`, event by event): whether all of
it was legal, what has been announced and what of that is open, the text, the calls
and their arguments. Three readers are compared: one of all the upstream has sent, one
of what the relay has read, one in the client's place. The first agrees with `src`
(`InStep`), action by action of the upstream. The second and the third are tied by the
converters: `Follows` says for each of the four what its state and its reader's have to
do with the reader behind it (which item a block or a call index stands for, what is open
on either side, what has been held back for later), `Flows` joins two of them, and a
step, a chunk and a pipeline keep it. It cannot hold of a converter that stopped at an
error, nor after a write that failed; what is kept then is that a reader only ever
learns (`Extends`): what the client had been told stays a part (`Part`) of what the
upstream has sent. At a success nothing is unread or held back, and part becomes
`Equal`. A Messages client is promised the calls of a Chat reply only if it holds a lone call,
which is what `DeliveredAsSent` claims (`Apart` is the rest): other calls are lost or
merged, as `stream_tool_calls` shows.
`ClientStreamLegal` counts blocks and looks for announcements before each place; a
reader that has found everything legal remembers enough to say so (`Recalls`).

`OperatorProofs` on the listener, for any callers, settings and number of failures, from
`LifecycleAssumption` (finitely many callers, settings with natural ports):

| theorem | property |
|---|---|
| `OperatorNotMisled` | `ListenerHonest` |
| `LifecycleTyping` | `LifeTypeOK` |

The argument. A call reports success after it let go of the lock, and between its
save and its restart another call may have saved and restarted. `Current` says that
whoever holds the lock restarts with the stored settings, unless a call that
overtook it has a restart of its own to come; `ClaimHolds`, that a good report is
about the settings stored now or a restart is under way that will make it so. The
socket claims (`SocketsTidy`) are kept by `Rebind` case by case over the ends of a restart;
`Survives` that one failure never takes a started proxy down.

`OperatorProofs` on the metrics, for any keys, capacity, lifetimes, crashes and failed
transactions, from `RuntimeMetricsAssumption`:

| theorem | property |
|---|---|
| `CountersKept` | `CountsKept` |
| `MetricTyping` | `MetricTypeOK` |

The argument. `CountsKept` compares the registry with the history of events.
`Sources` says where each counter came from, in memory, in the rows and in a summary
under way: it is at most the number of events of its key, so that no restart counts
one twice. What justifies an eviction is gone once it has happened; `EntriesInv`
keeps it in terms of the history: a target that is forgotten, or whose time is older
than it was last seen, has `Capacity - 1` others seen after it, or is past its
lifetime. `RoutesInv` places the samples of a route in the history by an increasing
function (`Traced`), and says why those before it were dropped. `Orderly` follows what
the registry held at the shutdown to a summary and to the rows.

`OperatorProofs` on rules and plans, for any rules, names, clock readings, windows,
targets to compare and bounds, from `RuleBookAssumption` (finitely many rules; ids and times are numbers)
and `ShadowPlanAssumption` (tiers, prices and scores are):

| theorem | property |
|---|---|
| `RulesKept` | `BookKept` and `BookTypeOK`, of `RuleBook` |
| `PlanTold` | `PlanHonest` and `PlanTypeOK`, of `ShadowPlan` |
| `RulesAreHonest` | `RulesHonest`: both, of `Process` (in `ProcessProofs`) |

The argument. A listing is a sequence that holds a set once and ascends in a total
order; there is exactly one (`SomeOrder` by ranks, `OneOrder` by the first place where
two would differ), so it is enough to know that what the operator asked for ascends
too. The order of `ListModelRulesForDisplay` falls back on times and ids, and the
clock need not advance: `ArrangedInv` says that the places alone decide, which
`CreateModelRule` keeps by moving everyone down, `DeleteModelRule` by leaving a gap.
`AskedInv` says the same of tiers after a reorder, and that they are those of the
targets the rule has now, from however old a listing (`ViewInv` knows of a listing
only its form). Counters need that a rowid not yet given out has no report
(`TargetsInv`), and that a new target has an input it comes from (`InsertedRow`). For
the plan, `PlanOrderTotal` shows each strategy to be a total order of the candidates,
`UsableOrNot` that the handler's gates and the planner's agree, `ChangedIs` and
`MovedMeans` that "changed" and "moved" mean what they say. A step of another part
leaves both alone.

`ProcessProofs` on the request path and the whole, for any configurations of the
store, dialects, requests, replies and bounds, from `RequestPathAssumption` and the
assumptions of the other parts:

| theorem | property |
|---|---|
| `SentWhereServed` | `SentWhereSupported`, if `OneEdit` |
| `StatusTold` | `StatusHonest`, if `OneEdit` |
| `RequestsKept` | `RequestKept` |
| `RepliesKept` | `ReplyKept` |
| `ProcessTyping` | `ProcessTypeOK` |
| `PartsHold` | `ListenerHonest`, `CountsKept`, `VerdictJust`, `CommitMeansOutput`, `ClientStreamLegal`, `DeliveredAsSent`, of `Process` |

`OneEdit` says that one edit at most falls between the four reads, and that it
changes one of the four tables read. The code reads without a transaction, and with
two edits a selection mixes a rule of one moment with a capability row of another,
so neither property holds without it. The instance of `request_path` satisfies it.

The argument. `SentWhereSupported` speaks of the moment of the call, when what the
matcher saw is forgotten. `PathInv` keeps what was read tied to `moments`
(`ReadInv`), and the candidates to what could be read (`CandsInv`); from `OneEdit`
the four reads agree with the store of one moment (`OneMoment`), and what the
snapshot says of a provider whose rows were read is what that store says
(`SnapshotSpeaks`, `SnapshotGrants`). `Selected` says of `selectCandidates` which
candidates it gives and which error it gives when there are none, `MatcherAgrees` that
this is `Serves`; `ServedInv` carries it from the match to the call, past the
candidates that failed. `StatusHonest` needs the converse: that a target that would
have served is among the candidates. `ConvertedBack` is `ReplyKept` for each pair of
dialects; the parts of a reply are followed by an induction on its length
(`SeqInduction`, made with the least number of a set) and by what `OfKind` makes of a
sequence longer by one, joined, or set apart by kind (`KindLast`, `KindJoined`,
`KindsApart`).

`RequestKept` compares what the client said with what the provider hears, one
conversion or two later, and has two halves. For the conversation, `KeptIn` is a map
from the things said to the things heard, one to one, since only things of different
kinds may change places, that keeps their order but for what one message holds. Only
the converters to Responses regroup a message (texts in one item, calls and results each
in its own): they are a map of messages (`Mapped`), such maps join (`KeptJoined`), and
one message is `BlocksKept` with `TextsAside`. What converts from Responses changes
nothing that is heard: to Messages it only lets the user hand in the results of tools
(`ToMessagesKept`); to Chat it gathers the calls of the whole conversation in one
message, and keeps the order only because it refuses what does not come as messages,
calls, results (`PhasesHeard`), and the developer message it adds is set aside again
(`SetsAside`). For the options, `Convertible` is what each inspector leaves of a request
that may be converted, and `OptionsConverted` that the converters carry it over or lose
it as `KnownLosses` says.
That they meet at the call rests on `FitInv`, carried from the match to it: whoever is a
candidate in another dialect was matched for a request the inspector had not kept native
and that needs no more than tools and streaming, although the store was edited
between the reads.

The invariants of the parts are those of their own proofs: `ProcessInv`
is their conjunction with `NotStarted`, that a stream is untouched until the request
has been handed over to it.

Every safety invariant and action property of the passing runs is stated by a theorem.
Only model-checked is liveness (`ProbeResolves`, `ProbesSettle`, `EntriesLand`,
`StopEnds`), which is outside what the prover supports.

Neither proved nor checked are `SentWhereSupported` and `StatusHonest` beyond
`OneEdit`: with two edits between the reads they are false, and an edit that changes
two of the four tables together amounts to two.

## What is not modelled, and the plan

Not modelled, by component:

- **Failover**: prices, timeouts by name, log texts, the store's health and hit
  counters; the window of the target breaker is a counter (its times are read
  before the lock, but within the same call).
- **Handlers**: JSON and multipart text, the model list and the statistics
  endpoints, which only read.
- **Conversion**: Gemini is passed on and never converted, so its replies and
  streams are not modelled; SSE framing, names and arguments of calls, token
  numbers.
- **Usage**: input and cached tokens. An event's usage stands for the output tokens,
  which every dialect reports at the end. Input tokens a Messages client is told only
  from `response.created` (`stream_convert.go:358`), where an upstream seldom
  reports any, so that its converted streams are logged with none; the converters
  drop cached tokens. No property speaks of either.
- **Store**: SQL, the migrations, and CRUD in single transactions, other than that
  of the rules. The write queue is a Go channel with one goroutine;
  `RuntimeMetrics` models what it does to a caller.
- **Scoring**: floating-point weights.
- **Service**: the tests of providers and models and the monitor's probes, single
  calls upstream outside the proxy, and the encryption of keys.
- **Tool configuration formats**, **desktop bindings**, **frontend**: text formats,
  pass-through and user interface.

What would come next: the model tests a user may cancel by their id (`service.go`,
where a second test under an id in use takes its place in the map), and the counters
by failure class of the metrics registry.
