----------------------------- MODULE LogWriter -----------------------------
(***************************************************************************)
(* The request log of internal/proxy: the handlers (insertPendingLog,      *)
(* logRequestEntry), the batching writer goroutine (logwriter.go), Stop,   *)
(* and the rows the batches leave in the request_logs table.               *)
(*                                                                         *)
(* An entry is named by its request.  The two channels and the two batches *)
(* are sequences of requests.  Enqueue and EnqueueUpdate read `stopped'    *)
(* under the mutex and send after releasing it: two actions each.          *)
(***************************************************************************)
EXTENDS Naturals, Sequences, FiniteSets, SequencesExt

CONSTANTS
  Requests,
  QueueSize,   \* logWriterQueueSize, of each channel
  BatchSize,   \* logWriterBatchSize
  MaxFaults    \* bound: database transactions that fail

ASSUME LogWriterAssumption ==
  /\ IsFiniteSet(Requests)
  /\ QueueSize \in Nat /\ BatchSize \in Nat \ {0} /\ MaxFaults \in Nat

VARIABLES
  handler,      \* handler[r]: where r's handler is
  ch, updateCh,
  stopped,      \* the flag and stopCh, set together under the mutex
  stopper,      \* Shutdown: "idle", "waiting" in wg.Wait, "returned"
  loop,         \* where the writer goroutine is
  draining,     \* it has seen stopCh
  insertBatch, updateBatch,
  row,          \* row[r]: "none", "pending" (status 0) or "final"
  accepted,     \* history: <<kind, r>> that Enqueue* answered true to
  owed,         \* history: those accepted when Stop was called
  failed,       \* history: those in a batch whose transaction failed
  written       \* history: those in a batch that was committed

queues == <<ch, updateCh>>
batches == <<insertBatch, updateBatch>>
writer == <<loop, draining, batches, row, failed, written>>
vars == <<handler, queues, stopped, stopper, accepted, owed, writer>>

Insert(r) == <<"insert", r>>
UpdateOf(r) == <<"update", r>>
Entries(kind, seq) == {<<kind, r>> : r \in ToSet(seq)}

Init ==
  /\ handler = [r \in Requests |-> "start"]
  /\ ch = <<>> /\ updateCh = <<>>
  /\ stopped = FALSE /\ stopper = "idle"
  /\ loop = "select" /\ draining = FALSE
  /\ insertBatch = <<>> /\ updateBatch = <<>>
  /\ row = [r \in Requests |-> "none"]
  /\ accepted = {} /\ owed = {} /\ failed = {} /\ written = {}

---------------------------------------------------------------------------
(* The handlers.                                                           *)

Goto(r, label) == handler' = [handler EXCEPT ![r] = label]

\* Authentication fails or the body does not parse: insertPendingLog is not
\* reached, the deferred logRequestEntry is.
Reject(r) ==
  /\ handler[r] = "start"
  /\ Goto(r, "serving")
  /\ UNCHANGED <<queues, stopped, stopper, accepted, owed, writer>>

\* Enqueue: the read of `stopped' ...
BeginInsert(r) ==
  /\ handler[r] = "start"
  /\ Goto(r, IF stopped THEN "serving" ELSE "insert")
  /\ UNCHANGED <<queues, stopped, stopper, accepted, owed, writer>>

Mutant_Enqueue(r) ==
  /\ handler[r] = "insert"
  /\ ch' = Append(ch, r) /\ accepted' = accepted \cup {Insert(r)}
  /\ Goto(r, "serving")
  /\ UNCHANGED <<updateCh, stopped, stopper, owed, writer>>

\* ... and the send that never blocks.
Enqueue(r) ==
  /\ handler[r] = "insert"
  /\ IF Len(ch) < QueueSize
     THEN ch' = Append(ch, r) /\ accepted' = accepted \cup {Insert(r)}
     ELSE UNCHANGED <<ch, accepted>>
  /\ Goto(r, "serving")
  /\ UNCHANGED <<updateCh, stopped, stopper, owed, writer>>

BeginUpdate(r) ==
  /\ handler[r] = "serving"
  /\ Goto(r, IF stopped THEN "done" ELSE "update")
  /\ UNCHANGED <<queues, stopped, stopper, accepted, owed, writer>>

EnqueueUpdate(r) ==
  /\ handler[r] = "update"
  /\ IF Len(updateCh) < QueueSize
     THEN updateCh' = Append(updateCh, r) /\ accepted' = accepted \cup {UpdateOf(r)}
     ELSE UNCHANGED <<updateCh, accepted>>
  /\ Goto(r, "done")
  /\ UNCHANGED <<ch, stopped, stopper, owed, writer>>

---------------------------------------------------------------------------
(* Stop.  Shutdown waits three seconds for the handlers, then stops the    *)
(* writer whether they are done or not.                                    *)

Stop ==
  /\ stopper = "idle"
  /\ stopped' = TRUE /\ stopper' = "waiting"
  /\ owed' = accepted
  /\ UNCHANGED <<handler, queues, accepted, writer>>

StopReturns ==
  /\ stopper = "waiting" /\ loop = "done"
  /\ stopper' = "returned"
  /\ UNCHANGED <<handler, queues, stopped, accepted, owed, writer>>

---------------------------------------------------------------------------
(* The writer goroutine.                                                   *)

\* The batch that reaches BatchSize is flushed at once, but not when draining.
Flushes(batch) == ~draining /\ Len(batch) >= BatchSize

TakeInsert ==
  /\ loop = "select" /\ ch # <<>>
  /\ ch' = Tail(ch)
  /\ insertBatch' = Append(insertBatch, Head(ch))
  /\ loop' = IF Flushes(insertBatch') THEN "inserts" ELSE "select"
  /\ UNCHANGED <<handler, updateCh, stopped, stopper, draining, updateBatch,
                 row, accepted, owed, failed, written>>

Mutant_TakeUpdate ==
  /\ loop = "select" /\ updateCh # <<>>
  /\ updateCh' = Tail(updateCh)
  /\ updateBatch' = Append(updateBatch, Head(updateCh))
  /\ loop' = IF Flushes(updateBatch') THEN "updates" ELSE "select"
  /\ UNCHANGED <<handler, ch, stopped, stopper, draining, insertBatch,
                 row, accepted, owed, failed, written>>

TakeUpdate ==
  /\ loop = "select" /\ updateCh # <<>>
  /\ updateCh' = Tail(updateCh)
  /\ updateBatch' = Append(updateBatch, Head(updateCh))
  /\ loop' = IF Flushes(updateBatch') THEN "inserts" ELSE "select"
  /\ UNCHANGED <<handler, ch, stopped, stopper, draining, insertBatch,
                 row, accepted, owed, failed, written>>

Mutant_Batched == insertBatch # <<>>

Batched == insertBatch # <<>> \/ updateBatch # <<>>

\* The timer, at any moment.  With nothing batched a tick does nothing.
Tick ==
  /\ loop = "select" /\ ~draining
  /\ Batched
  /\ loop' = "inserts"
  /\ UNCHANGED <<handler, queues, stopped, stopper, draining, batches,
                 row, accepted, owed, failed, written>>

ObserveStop ==
  /\ loop = "select" /\ ~draining /\ stopped
  /\ draining' = TRUE
  /\ UNCHANGED <<handler, queues, stopped, stopper, loop, batches,
                 row, accepted, owed, failed, written>>

Mutant_Drained == ch = <<>> \/ updateCh = <<>>

Drained == ch = <<>> /\ updateCh = <<>>

\* The default case of the drain loop.
LastFlush ==
  /\ loop = "select" /\ draining /\ Drained
  /\ loop' = "inserts"
  /\ UNCHANGED <<handler, queues, stopped, stopper, draining, batches,
                 row, accepted, owed, failed, written>>

\* A batch is one transaction, and is forgotten whether it commits or not.
Transact(entries, commit) ==
  IF entries = {}
  THEN UNCHANGED <<row, failed, written>>
  ELSE \/ /\ row' = commit
          /\ written' = written \cup entries
          /\ UNCHANGED failed
       \/ /\ Cardinality(failed) < MaxFaults
          /\ failed' = failed \cup entries
          /\ UNCHANGED <<row, written>>

Mutant_FlushInserts ==
  /\ loop = "inserts"
  /\ Transact(Entries("insert", insertBatch),
              [r \in Requests |-> IF r \in ToSet(insertBatch) THEN "pending" ELSE row[r]])
  /\ insertBatch' = IF draining THEN <<>> ELSE insertBatch
  /\ loop' = "updates"
  /\ UNCHANGED <<handler, queues, stopped, stopper, draining, updateBatch, accepted, owed>>

FlushInserts ==
  /\ loop = "inserts"
  /\ Transact(Entries("insert", insertBatch),
              [r \in Requests |-> IF r \in ToSet(insertBatch) THEN "pending" ELSE row[r]])
  /\ insertBatch' = <<>>
  /\ loop' = "updates"
  /\ UNCHANGED <<handler, queues, stopped, stopper, draining, updateBatch, accepted, owed>>

Mutant_AfterFlush == "select"

AfterFlush == IF draining THEN "done" ELSE "select"

\* UPDATE ... WHERE id = ?: without a row nothing happens, and no error.
FlushUpdates ==
  /\ loop = "updates"
  /\ Transact(Entries("update", updateBatch),
              [r \in Requests |-> IF r \in ToSet(updateBatch) /\ row[r] # "none"
                                  THEN "final" ELSE row[r]])
  /\ updateBatch' = <<>>
  /\ loop' = AfterFlush
  /\ UNCHANGED <<handler, queues, stopped, stopper, draining, insertBatch, accepted, owed>>

Handle(r) ==
  Reject(r) \/ BeginInsert(r) \/ Enqueue(r) \/ BeginUpdate(r) \/ EnqueueUpdate(r)

Loop ==
  \/ TakeInsert \/ TakeUpdate \/ Tick \/ ObserveStop \/ LastFlush
  \/ FlushInserts \/ FlushUpdates

\* The application runs until somebody stops it.
Next == (\E r \in Requests : Handle(r)) \/ Loop \/ Stop \/ StopReturns

Spec == Init /\ [][Next]_vars

\* The goroutine runs; its select picks at random among what is ready, and
\* no choice can be made for ever by finitely many requests.
FairSpec == Spec /\ WF_vars(Loop) /\ WF_vars(StopReturns)

---------------------------------------------------------------------------
TypeOK ==
  /\ handler \in [Requests -> {"start", "insert", "serving", "update", "done"}]
  /\ ch \in Seq(Requests) /\ Len(ch) <= QueueSize
  /\ updateCh \in Seq(Requests) /\ Len(updateCh) <= QueueSize
  /\ stopped \in BOOLEAN /\ draining \in BOOLEAN
  /\ stopper \in {"idle", "waiting", "returned"}
  /\ loop \in {"select", "inserts", "updates", "done"}
  /\ insertBatch \in Seq(Requests) /\ updateBatch \in Seq(Requests)
  /\ row \in [Requests -> {"none", "pending", "final"}]
  /\ \A H \in {accepted, owed, failed, written} : H \subseteq {"insert", "update"} \X Requests

Queued == Entries("insert", ch) \cup Entries("update", updateCh)
Unwritten == Entries("insert", insertBatch) \cup Entries("update", updateBatch)

\* An accepted entry is in exactly one place: a channel, a batch, the
\* database, or a transaction that failed.  The loop neither loses an entry
\* between two of them nor handles one twice.
OnePlace ==
  /\ accepted = Queued \cup Unwritten \cup written \cup failed
  /\ Queued \cap Unwritten = {}
  /\ (Queued \cup Unwritten) \cap (written \cup failed) = {}
  /\ written \cap failed = {}
  /\ \A s \in {ch, updateCh, insertBatch, updateBatch} : IsInjective(s)

\* A flush writes the inserts before the updates: an update that is written
\* finds its row unless the insert was refused, failed, or is still in the
\* channel (an overtaken insert).
UpdateFindsRow ==
  [][\A r \in Requests :
       (UpdateOf(r) \in written' \ written /\ Insert(r) \in accepted)
         => \/ row'[r] = "final"
            \/ Insert(r) \in failed
            \/ r \in ToSet(ch)]_vars

\* Once the writer has exited, everything accepted before Stop was called
\* has been given to the database.
StopDrains ==
  loop = "done" => owed \subseteq written \cup failed

\* Without a Stop, what Enqueue* accepted leaves for the database: no batch
\* waits for another entry to come.
EntriesLand ==
  \A r \in Requests :
    /\ r \in ToSet(insertBatch) ~> r \notin ToSet(insertBatch)
    /\ (r \in ToSet(updateCh) /\ ~stopped)
         ~> (UpdateOf(r) \in written \cup failed)

\* Stop comes back, even while handlers go on enqueueing.
StopEnds == (stopper = "waiting") ~> (stopper = "returned")

---------------------------------------------------------------------------
(* Statements of the documentation that the code does not keep.            *)

\* "The same row is updated with final status/tokens/cost/chain by the
\* deferred logRequestEntry when the handler returns" (handlers.go:474): no
\* row is pending once its update has been written.
SameRowUpdated ==
  \A r \in Requests : UpdateOf(r) \in written => row[r] # "pending"

\* "Stop gracefully shuts down the writer, flushing any buffered logs before
\* returning" (logwriter.go:104): nothing is left in the channels.
StopFlushesAll == stopper = "returned" => ch = <<>> /\ updateCh = <<>>
=============================================================================
