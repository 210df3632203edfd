--------------------------- MODULE LogWriterProofs ---------------------------
(***************************************************************************)
(* Theorems about LogWriter, for any requests, queue and batch sizes and   *)
(* failed transactions.                                                    *)
(***************************************************************************)
EXTENDS LogWriter, SequenceTheorems, TLAPS

---------------------------------------------------------------------------
(* Sequences as the channels and batches use them.                         *)

LEMMA AppendAdds ==
  ASSUME NEW S, NEW s \in Seq(S), NEW x \in S
  PROVE  /\ Append(s, x) \in Seq(S) /\ Len(Append(s, x)) = Len(s) + 1
         /\ ToSet(Append(s, x)) = ToSet(s) \cup {x}
         /\ IsInjective(s) /\ x \notin ToSet(s) => IsInjective(Append(s, x))
  <1>1. /\ Append(s, x) \in Seq(S) /\ Len(Append(s, x)) = Len(s) + 1
        /\ DOMAIN s = 1 .. Len(s) /\ DOMAIN Append(s, x) = 1 .. Len(s) + 1
        /\ \A i \in 1 .. Len(s) : Append(s, x)[i] = s[i]
        /\ Append(s, x)[Len(s) + 1] = x /\ Len(s) \in Nat
    BY AppendProperties, LenProperties
  <1>2. ToSet(Append(s, x)) = ToSet(s) \cup {x}
    BY <1>1 DEF ToSet
  <1>3. ASSUME IsInjective(s), x \notin ToSet(s)
        PROVE  IsInjective(Append(s, x))
    BY <1>1, <1>3 DEF IsInjective, ToSet
  <1> QED
    BY <1>1, <1>2, <1>3

LEMMA TailRemoves ==
  ASSUME NEW S, NEW s \in Seq(S), s # <<>>
  PROVE  /\ Tail(s) \in Seq(S) /\ Len(Tail(s)) <= Len(s) /\ Head(s) \in S
         /\ ToSet(s) = ToSet(Tail(s)) \cup {Head(s)}
         /\ IsInjective(s) => IsInjective(Tail(s)) /\ Head(s) \notin ToSet(Tail(s))
  <1>1. /\ Tail(s) \in Seq(S) /\ Len(Tail(s)) = Len(s) - 1 /\ Len(s) \in Nat \ {0}
        /\ DOMAIN s = 1 .. Len(s) /\ DOMAIN Tail(s) = 1 .. Len(s) - 1
        /\ \A i \in 1 .. Len(s) - 1 : Tail(s)[i] = s[i + 1]
        /\ Head(s) = s[1] /\ Head(s) \in S
    BY HeadTailProperties, LenProperties, EmptySeq
  <1>2. ToSet(s) = ToSet(Tail(s)) \cup {Head(s)}
    <2>1. ASSUME NEW i \in DOMAIN s
          PROVE  s[i] \in ToSet(Tail(s)) \cup {Head(s)}
      <3>1. CASE i = 1
        BY <1>1, <3>1
      <3>2. CASE i # 1
        BY <1>1, <3>2, i - 1 \in 1 .. Len(s) - 1, Tail(s)[i - 1] = s[i] DEF ToSet
      <3> QED
        BY <3>1, <3>2
    <2>2. ASSUME NEW i \in DOMAIN Tail(s)
          PROVE  Tail(s)[i] \in ToSet(s)
      BY <1>1, i + 1 \in DOMAIN s DEF ToSet
    <2> QED
      BY <1>1, <2>1, <2>2 DEF ToSet
  <1>3. ASSUME IsInjective(s)
        PROVE  IsInjective(Tail(s)) /\ Head(s) \notin ToSet(Tail(s))
    BY <1>1, <1>3 DEF IsInjective, ToSet
  <1> QED
    BY <1>1, <1>2, <1>3

LEMMA EmptyHolds ==
  \A S : <<>> \in Seq(S) /\ ToSet(<<>>) = {} /\ IsInjective(<<>>) /\ Len(<<>>) = 0
  BY DEF ToSet, IsInjective

(* The same of the entries they stand for.                                 *)

LEMMA EntriesOf ==
  ASSUME NEW kind, NEW s
  PROVE  \A k, r : <<k, r>> \in Entries(kind, s) <=> k = kind /\ r \in ToSet(s)
  BY DEF Entries

LEMMA EntriesApart ==
  \A s, t : Entries("insert", s) \cap Entries("update", t) = {}
  BY DEF Entries

LEMMA AppendEntries ==
  ASSUME NEW S, NEW s \in Seq(S), NEW x \in S, NEW kind
  PROVE  Entries(kind, Append(s, x)) = Entries(kind, s) \cup {<<kind, x>>}
  BY AppendAdds DEF Entries

LEMMA TailEntries ==
  ASSUME NEW S, NEW s \in Seq(S), s # <<>>, IsInjective(s), NEW kind
  PROVE  /\ Entries(kind, s) = Entries(kind, Tail(s)) \cup {<<kind, Head(s)>>}
         /\ <<kind, Head(s)>> \notin Entries(kind, Tail(s))
  BY TailRemoves DEF Entries

LEMMA EmptyEntries == \A kind : Entries(kind, <<>>) = {}
  BY EmptyHolds DEF Entries

---------------------------------------------------------------------------
(* What is true of every state.                                            *)

\* A handler has asked before it is answered, once for each kind.
Answered ==
  \A r \in Requests :
    /\ Insert(r) \in accepted => handler[r] \in {"serving", "update", "done"}
    /\ UpdateOf(r) \in accepted => handler[r] = "done"

\* What the labels of the goroutine mean.
Labels ==
  /\ loop = "updates" => insertBatch = <<>>
  /\ loop = "done" => draining /\ insertBatch = <<>> /\ updateBatch = <<>>

\* The last flush begins with nothing owed in the channels.
Stopping ==
  /\ stopped <=> stopper # "idle"
  /\ draining => stopped
  /\ owed \subseteq accepted
  /\ draining /\ loop # "select" => owed \cap Queued = {}

\* A row that was written is there.
RowsThere == \A r \in Requests : Insert(r) \in written => row[r] # "none"

IInv == TypeOK /\ OnePlace /\ Answered /\ Labels /\ Stopping /\ RowsThere

LEMMA InitIInv == Init => IInv
  <1> SUFFICES ASSUME Init PROVE IInv
    OBVIOUS
  <1> USE DEF Init
  <1>1. TypeOK
    <2>1. /\ ch \in Seq(Requests) /\ Len(ch) = 0
          /\ updateCh \in Seq(Requests) /\ Len(updateCh) = 0
          /\ insertBatch \in Seq(Requests) /\ updateBatch \in Seq(Requests)
      BY EmptyHolds
    <2>2. 0 <= QueueSize
      BY LogWriterAssumption
    <2> QED
      BY <2>1, <2>2 DEF TypeOK
  <1>2. Queued = {} /\ Unwritten = {}
    BY EmptyEntries DEF Queued, Unwritten
  <1>3. OnePlace
    BY <1>2, EmptyHolds DEF OnePlace
  <1>4. Answered /\ Labels /\ Stopping /\ RowsThere
    BY DEF Answered, Labels, Stopping, RowsThere
  <1> QED
    BY <1>1, <1>3, <1>4 DEF IInv

\* The handlers' steps that send nothing.
Asks(r) == Reject(r) \/ BeginInsert(r) \/ BeginUpdate(r)

LEMMA AsksIInv == ASSUME IInv, NEW r \in Requests, Asks(r) PROVE IInv'
  <1> USE DEF IInv
  <1>1. UNCHANGED <<queues, stopped, stopper, accepted, owed, writer>>
    BY DEF Asks, Reject, BeginInsert, BeginUpdate
  <1>2. \/ handler[r] = "start" /\ handler' = [handler EXCEPT ![r] = "serving"]
        \/ handler[r] = "start" /\ handler' = [handler EXCEPT ![r] = "insert"]
        \/ handler[r] = "serving" /\ handler' = [handler EXCEPT ![r] = "update"]
        \/ handler[r] = "serving" /\ handler' = [handler EXCEPT ![r] = "done"]
    BY DEF Asks, Reject, BeginInsert, BeginUpdate, Goto
  <1>3. UNCHANGED <<Queued, Unwritten>>
    BY <1>1 DEF Queued, Unwritten, queues, writer, batches
  <1>4. OnePlace' /\ Labels' /\ Stopping' /\ RowsThere'
    BY <1>1, <1>3 DEF OnePlace, Labels, Stopping, RowsThere, Insert, queues, writer, batches
  <1>5. TypeOK'
    BY <1>1, <1>2 DEF TypeOK, queues, writer, batches
  <1>6. Answered'
    BY <1>1, <1>2 DEF TypeOK, Answered, Insert, UpdateOf
  <1> QED
    BY <1>4, <1>5, <1>6

LEMMA EnqueueIInv == ASSUME IInv, NEW r \in Requests, Enqueue(r) PROVE IInv'
  <1> USE DEF IInv
  <1>1. handler[r] = "insert" /\ handler' = [handler EXCEPT ![r] = "serving"]
        /\ UNCHANGED <<updateCh, stopped, stopper, owed, writer>>
    BY DEF Enqueue, Goto
  <1>2. Insert(r) \notin accepted
    BY <1>1 DEF Answered
  <1>3. CASE Len(ch) < QueueSize
    <2>1. ch' = Append(ch, r) /\ accepted' = accepted \cup {Insert(r)}
      BY <1>3 DEF Enqueue
    <2>2. ch' \in Seq(Requests) /\ Len(ch') = Len(ch) + 1 /\ ToSet(ch') = ToSet(ch) \cup {r}
      BY <2>1, AppendAdds DEF TypeOK
    <2>3. Entries("insert", ch') = Entries("insert", ch) \cup {Insert(r)}
      BY <2>1, AppendEntries DEF TypeOK, Insert
    <2>4. Queued' = Queued \cup {Insert(r)} /\ Unwritten' = Unwritten
      BY <1>1, <2>3 DEF Queued, Unwritten, writer, batches
    <2>5. TypeOK'
      BY <1>1, <1>3, <2>1, <2>2, LogWriterAssumption DEF TypeOK, Insert, writer, batches
    <2>6. r \notin ToSet(ch)
      BY <1>2, EntriesOf DEF OnePlace, Queued, Insert
    <2>7. OnePlace'
      <3>1. IsInjective(ch')
        BY <2>1, <2>6, AppendAdds DEF OnePlace, TypeOK
      <3> QED
        BY <1>1, <1>2, <2>1, <2>4, <3>1 DEF OnePlace, writer, batches
    <2>8. Answered' /\ Labels' /\ RowsThere'
      BY <1>1, <2>1 DEF Answered, Labels, RowsThere, TypeOK, Insert, UpdateOf, writer, batches
    <2>9. Stopping'
      BY <1>1, <1>2, <2>1, <2>4 DEF Stopping, writer, batches
    <2> QED
      BY <2>5, <2>7, <2>8, <2>9
  <1>4. CASE ~(Len(ch) < QueueSize)
    <2>1. UNCHANGED <<ch, accepted>>
      BY <1>4 DEF Enqueue
    <2> QED
      BY <1>1, <2>1 DEF TypeOK, OnePlace, Answered, Labels, Stopping, RowsThere, Queued, Unwritten,
                        Insert, UpdateOf, writer, batches
  <1> QED
    BY <1>3, <1>4

LEMMA EnqueueUpdateIInv == ASSUME IInv, NEW r \in Requests, EnqueueUpdate(r) PROVE IInv'
  <1> USE DEF IInv
  <1>1. handler[r] = "update" /\ handler' = [handler EXCEPT ![r] = "done"]
        /\ UNCHANGED <<ch, stopped, stopper, owed, writer>>
    BY DEF EnqueueUpdate, Goto
  <1>2. UpdateOf(r) \notin accepted
    BY <1>1 DEF Answered
  <1>3. CASE Len(updateCh) < QueueSize
    <2>1. updateCh' = Append(updateCh, r) /\ accepted' = accepted \cup {UpdateOf(r)}
      BY <1>3 DEF EnqueueUpdate
    <2>2. /\ updateCh' \in Seq(Requests) /\ Len(updateCh') = Len(updateCh) + 1
          /\ ToSet(updateCh') = ToSet(updateCh) \cup {r}
      BY <2>1, AppendAdds DEF TypeOK
    <2>3. Entries("update", updateCh') = Entries("update", updateCh) \cup {UpdateOf(r)}
      BY <2>1, AppendEntries DEF TypeOK, UpdateOf
    <2>4. Queued' = Queued \cup {UpdateOf(r)} /\ Unwritten' = Unwritten
      BY <1>1, <2>3 DEF Queued, Unwritten, writer, batches
    <2>5. TypeOK'
      BY <1>1, <1>3, <2>1, <2>2, LogWriterAssumption DEF TypeOK, UpdateOf, writer, batches
    <2>6. r \notin ToSet(updateCh)
      BY <1>2, EntriesOf DEF OnePlace, Queued, UpdateOf
    <2>7. OnePlace'
      <3>1. IsInjective(updateCh')
        BY <2>1, <2>6, AppendAdds DEF OnePlace, TypeOK
      <3> QED
        BY <1>1, <1>2, <2>1, <2>4, <3>1 DEF OnePlace, writer, batches
    <2>8. Answered' /\ Labels' /\ RowsThere'
      BY <1>1, <2>1 DEF Answered, Labels, RowsThere, TypeOK, Insert, UpdateOf, writer, batches
    <2>9. Stopping'
      BY <1>1, <1>2, <2>1, <2>4 DEF Stopping, writer, batches
    <2> QED
      BY <2>5, <2>7, <2>8, <2>9
  <1>4. CASE ~(Len(updateCh) < QueueSize)
    <2>1. UNCHANGED <<updateCh, accepted>>
      BY <1>4 DEF EnqueueUpdate
    <2> QED
      BY <1>1, <2>1 DEF TypeOK, OnePlace, Answered, Labels, Stopping, RowsThere, Queued, Unwritten,
                        Insert, UpdateOf, writer, batches
  <1> QED
    BY <1>3, <1>4

\* The steps that move no entry.
Decides == Stop \/ StopReturns \/ Tick \/ ObserveStop \/ LastFlush

LEMMA DecidesIInv == ASSUME IInv, Decides PROVE IInv'
  <1> USE DEF IInv
  <1>1. UNCHANGED <<handler, queues, batches, row, accepted, failed, written>>
    BY DEF Decides, Stop, StopReturns, Tick, ObserveStop, LastFlush, writer
  <1>2. UNCHANGED <<Queued, Unwritten>>
    BY <1>1 DEF Queued, Unwritten, queues, batches
  <1>3. OnePlace' /\ Answered' /\ RowsThere'
    BY <1>1, <1>2 DEF OnePlace, Answered, RowsThere, Insert, UpdateOf, queues, batches
  <1>4. TypeOK' /\ Labels'
    <2>1. /\ stopped' \in BOOLEAN /\ draining' \in BOOLEAN
          /\ stopper' \in {"idle", "waiting", "returned"}
      BY DEF TypeOK, Decides, Stop, StopReturns, Tick, ObserveStop, LastFlush, writer
    <2>2. owed' = owed \/ owed' = accepted
      BY DEF Decides, Stop, StopReturns, Tick, ObserveStop, LastFlush
    <2>3. \/ loop' = loop /\ draining' = draining
          \/ loop = "select" /\ loop' \in {"select", "inserts"}
      BY DEF Decides, Stop, StopReturns, Tick, ObserveStop, LastFlush, writer
    <2>4. TypeOK'
      BY <1>1, <2>1, <2>2, <2>3 DEF TypeOK, queues, batches
    <2>5. Labels'
      BY <1>1, <2>3 DEF Labels, batches
    <2> QED
      BY <2>4, <2>5
  <1>5. CASE LastFlush
    <2>1. Queued = {}
      BY <1>5, EmptyEntries DEF LastFlush, Drained, Queued
    <2> QED
      BY <1>2, <1>3, <1>4, <1>5, <2>1 DEF Stopping, LastFlush
  <1>6. CASE ~LastFlush
    BY <1>1, <1>2, <1>3, <1>4, <1>6
       DEF TypeOK, Stopping, Labels, Decides, Stop, StopReturns, Tick, ObserveStop, writer
  <1> QED
    BY <1>5, <1>6

(* The goroutine takes an entry from a channel into a batch.               *)

LEMMA TakeInsertIInv == ASSUME IInv, TakeInsert PROVE IInv'
  <1> USE DEF IInv
  <1>1. /\ ch \in Seq(Requests) /\ ch # <<>> /\ IsInjective(ch)
        /\ insertBatch \in Seq(Requests) /\ IsInjective(insertBatch)
    BY DEF TakeInsert, TypeOK, OnePlace
  <1>2. /\ loop = "select" /\ ch' = Tail(ch) /\ insertBatch' = Append(insertBatch, Head(ch))
        /\ loop' \in {"select", "inserts"} /\ (draining => loop' = "select")
        /\ UNCHANGED <<handler, updateCh, stopped, stopper, draining, updateBatch,
                       row, accepted, owed, failed, written>>
    BY DEF TakeInsert, Flushes
  <1>3. /\ ch' \in Seq(Requests) /\ Len(ch') <= Len(ch) /\ Head(ch) \in Requests /\ IsInjective(ch')
        /\ Entries("insert", ch) = Entries("insert", ch') \cup {Insert(Head(ch))}
        /\ Insert(Head(ch)) \notin Entries("insert", ch')
    BY <1>1, <1>2, TailRemoves, TailEntries DEF Insert
  <1>4. Insert(Head(ch)) \notin Entries("update", updateCh)
    BY EntriesOf DEF Insert
  <1>5. /\ Queued = Queued' \cup {Insert(Head(ch))} /\ Insert(Head(ch)) \notin Queued'
        /\ Insert(Head(ch)) \in Queued
    BY <1>2, <1>3, <1>4 DEF Queued
  <1>6. Head(ch) \notin ToSet(insertBatch)
    BY <1>5, EntriesOf DEF OnePlace, Unwritten, Insert
  <1>7. /\ insertBatch' \in Seq(Requests) /\ IsInjective(insertBatch')
        /\ Unwritten' = Unwritten \cup {Insert(Head(ch))}
    BY <1>1, <1>2, <1>3, <1>6, AppendAdds, AppendEntries DEF Unwritten, Insert
  <1>8. OnePlace'
    BY <1>2, <1>3, <1>5, <1>7 DEF OnePlace
  <1>9. TypeOK'
    BY <1>2, <1>3, <1>7, LogWriterAssumption DEF TypeOK
  <1>10. Answered' /\ Labels' /\ RowsThere'
    BY <1>2 DEF Answered, Labels, RowsThere, Insert, UpdateOf
  <1>11. Stopping'
    BY <1>2, <1>5 DEF Stopping
  <1> QED
    BY <1>8, <1>9, <1>10, <1>11

LEMMA TakeUpdateIInv == ASSUME IInv, TakeUpdate PROVE IInv'
  <1> USE DEF IInv
  <1>1. /\ updateCh \in Seq(Requests) /\ updateCh # <<>> /\ IsInjective(updateCh)
        /\ updateBatch \in Seq(Requests) /\ IsInjective(updateBatch)
    BY DEF TakeUpdate, TypeOK, OnePlace
  <1>2. /\ loop = "select" /\ updateCh' = Tail(updateCh)
        /\ updateBatch' = Append(updateBatch, Head(updateCh))
        /\ loop' \in {"select", "inserts"} /\ (draining => loop' = "select")
        /\ UNCHANGED <<handler, ch, stopped, stopper, draining, insertBatch,
                       row, accepted, owed, failed, written>>
    BY DEF TakeUpdate, Flushes
  <1>3. /\ updateCh' \in Seq(Requests) /\ Len(updateCh') <= Len(updateCh)
        /\ Head(updateCh) \in Requests /\ IsInjective(updateCh')
        /\ Entries("update", updateCh) = Entries("update", updateCh') \cup {UpdateOf(Head(updateCh))}
        /\ UpdateOf(Head(updateCh)) \notin Entries("update", updateCh')
    BY <1>1, <1>2, TailRemoves, TailEntries DEF UpdateOf
  <1>4. UpdateOf(Head(updateCh)) \notin Entries("insert", ch)
    BY EntriesOf DEF UpdateOf
  <1>5. /\ Queued = Queued' \cup {UpdateOf(Head(updateCh))} /\ UpdateOf(Head(updateCh)) \notin Queued'
        /\ UpdateOf(Head(updateCh)) \in Queued
    BY <1>2, <1>3, <1>4 DEF Queued
  <1>6. Head(updateCh) \notin ToSet(updateBatch)
    BY <1>5, EntriesOf DEF OnePlace, Unwritten, UpdateOf
  <1>7. /\ updateBatch' \in Seq(Requests) /\ IsInjective(updateBatch')
        /\ Unwritten' = Unwritten \cup {UpdateOf(Head(updateCh))}
    BY <1>1, <1>2, <1>3, <1>6, AppendAdds, AppendEntries DEF Unwritten, UpdateOf
  <1>8. OnePlace'
    BY <1>2, <1>3, <1>5, <1>7 DEF OnePlace
  <1>9. TypeOK'
    BY <1>2, <1>3, <1>7, LogWriterAssumption DEF TypeOK
  <1>10. Answered' /\ Labels' /\ RowsThere'
    BY <1>2 DEF Answered, Labels, RowsThere, Insert, UpdateOf
  <1>11. Stopping'
    BY <1>2, <1>5 DEF Stopping
  <1> QED
    BY <1>8, <1>9, <1>10, <1>11

(* The two transactions of a flush.                                        *)

LEMMA Transacted ==
  ASSUME NEW entries, NEW commit, Transact(entries, commit)
  PROVE  /\ written' \cup failed' = written \cup failed \cup entries
         /\ written \subseteq written' /\ failed \subseteq failed'
         /\ \/ UNCHANGED <<row, written>>
            \/ row' = commit /\ failed' = failed
         /\ entries \cap (written \cup failed) = {} /\ written \cap failed = {}
              => written' \cap failed' = {}
  BY DEF Transact

LEMMA FlushInsertsIInv == ASSUME IInv, FlushInserts PROVE IInv'
  <1> USE DEF IInv
  <1> DEFINE flushed == Entries("insert", insertBatch)
             commit == [r \in Requests |-> IF r \in ToSet(insertBatch) THEN "pending" ELSE row[r]]
  <1>1. /\ loop = "inserts" /\ Transact(flushed, commit) /\ insertBatch' = <<>> /\ loop' = "updates"
        /\ UNCHANGED <<handler, queues, stopped, stopper, draining, updateBatch, accepted, owed>>
    BY DEF FlushInserts
  <1> HIDE DEF flushed
  <1>2. Unwritten = Unwritten' \cup flushed /\ flushed \cap Unwritten' = {} /\ UNCHANGED Queued
    BY <1>1, EmptyEntries, EntriesApart DEF Unwritten, Queued, queues, flushed
  <1>3. flushed \cap (written \cup failed) = {} /\ flushed \subseteq accepted
    BY <1>2 DEF OnePlace
  <1>4. OnePlace'
    <2>1. /\ written' \cup failed' = written \cup failed \cup flushed
          /\ written' \cap failed' = {}
      BY <1>1, <1>3, Transacted DEF OnePlace
    <2>2. \A s \in {ch', updateCh', insertBatch', updateBatch'} : IsInjective(s)
      BY <1>1, EmptyHolds DEF OnePlace, queues
    <2>3. accepted' = Queued' \cup Unwritten' \cup written' \cup failed'
      BY <1>1, <1>2, <2>1 DEF OnePlace
    <2>4. Queued' \cap Unwritten' = {}
      BY <1>2 DEF OnePlace
    <2>5. (Queued' \cup Unwritten') \cap (written' \cup failed') = {}
      BY <1>2, <2>1 DEF OnePlace
    <2> QED
      BY <2>1, <2>2, <2>3, <2>4, <2>5 DEF OnePlace
  <1>5. TypeOK'
    <2>1. commit \in [Requests -> {"none", "pending", "final"}]
      BY DEF TypeOK
    <2>2. row' \in [Requests -> {"none", "pending", "final"}]
      BY <1>1, <2>1, Transacted DEF TypeOK
    <2>3. insertBatch' \in Seq(Requests)
      BY <1>1, EmptyHolds
    <2>4. written' \subseteq accepted' /\ failed' \subseteq accepted'
      BY <1>4 DEF OnePlace
    <2> QED
      BY <1>1, <2>2, <2>3, <2>4 DEF TypeOK, queues
  <1>6. Answered' /\ Labels'
    BY <1>1 DEF Answered, Labels, Insert, UpdateOf
  <1>7. Stopping'
    BY <1>1, <1>2 DEF Stopping
  <1>8. RowsThere'
    <2>1. ASSUME NEW r \in Requests, Insert(r) \in written' PROVE row'[r] # "none"
      <3>1. CASE UNCHANGED <<row, written>>
        BY <2>1, <3>1 DEF RowsThere
      <3>2. CASE row' = commit /\ failed' = failed
        <4>1. Insert(r) \in written \/ r \in ToSet(insertBatch)
          BY <1>1, <2>1, Transacted, EntriesOf, <3>2, <1>4 DEF OnePlace, Insert, flushed
        <4> QED
          BY <3>2, <4>1 DEF RowsThere
      <3> QED
        BY <1>1, <3>1, <3>2, Transacted
    <2> QED
      BY <2>1 DEF RowsThere
  <1> QED
    BY <1>4, <1>5, <1>6, <1>7, <1>8

LEMMA FlushUpdatesIInv == ASSUME IInv, FlushUpdates PROVE IInv'
  <1> USE DEF IInv
  <1> DEFINE flushed == Entries("update", updateBatch)
             commit == [r \in Requests |-> IF r \in ToSet(updateBatch) /\ row[r] # "none"
                                           THEN "final" ELSE row[r]]
  <1>1. /\ loop = "updates" /\ Transact(flushed, commit) /\ updateBatch' = <<>>
        /\ loop' = (IF draining THEN "done" ELSE "select")
        /\ UNCHANGED <<handler, queues, stopped, stopper, draining, insertBatch, accepted, owed>>
    BY DEF FlushUpdates, AfterFlush
  <1> HIDE DEF flushed
  <1>2. Unwritten = Unwritten' \cup flushed /\ flushed \cap Unwritten' = {} /\ UNCHANGED Queued
    BY <1>1, EmptyEntries, EntriesApart DEF Unwritten, Queued, queues, flushed
  <1>3. flushed \cap (written \cup failed) = {} /\ flushed \subseteq accepted
    BY <1>2 DEF OnePlace
  <1>4. OnePlace'
    <2>1. /\ written' \cup failed' = written \cup failed \cup flushed
          /\ written' \cap failed' = {}
      BY <1>1, <1>3, Transacted DEF OnePlace
    <2>2. \A s \in {ch', updateCh', insertBatch', updateBatch'} : IsInjective(s)
      BY <1>1, EmptyHolds DEF OnePlace, queues
    <2>3. accepted' = Queued' \cup Unwritten' \cup written' \cup failed'
      BY <1>1, <1>2, <2>1 DEF OnePlace
    <2>4. Queued' \cap Unwritten' = {}
      BY <1>2 DEF OnePlace
    <2>5. (Queued' \cup Unwritten') \cap (written' \cup failed') = {}
      BY <1>2, <2>1 DEF OnePlace
    <2> QED
      BY <2>1, <2>2, <2>3, <2>4, <2>5 DEF OnePlace
  <1>5. TypeOK'
    <2>1. commit \in [Requests -> {"none", "pending", "final"}]
      BY DEF TypeOK
    <2>2. row' \in [Requests -> {"none", "pending", "final"}]
      BY <1>1, <2>1, Transacted DEF TypeOK
    <2>3. updateBatch' \in Seq(Requests)
      BY <1>1, EmptyHolds
    <2>4. written' \subseteq accepted' /\ failed' \subseteq accepted'
      BY <1>4 DEF OnePlace
    <2> QED
      BY <1>1, <2>2, <2>3, <2>4 DEF TypeOK, queues
  <1>6. Answered' /\ Labels'
    BY <1>1 DEF Answered, Labels, Insert, UpdateOf
  <1>7. Stopping'
    BY <1>1, <1>2 DEF Stopping
  <1>8. RowsThere'
    <2>1. ASSUME NEW r \in Requests, Insert(r) \in written' PROVE row'[r] # "none"
      <3>1. Insert(r) \in written
        BY <1>1, <1>4, <2>1, Transacted, EntriesOf DEF OnePlace, Insert, flushed
      <3>2. row[r] # "none"
        BY <3>1 DEF RowsThere
      <3>3. row' = row \/ row' = commit
        BY <1>1, Transacted
      <3> QED
        BY <3>2, <3>3
    <2> QED
      BY <2>1 DEF RowsThere
  <1> QED
    BY <1>4, <1>5, <1>6, <1>7, <1>8

LEMMA NextIInv == IInv /\ [Next]_vars => IInv'
  <1> SUFFICES ASSUME IInv, [Next]_vars PROVE IInv'
    OBVIOUS
  <1>1. ASSUME NEW r \in Requests, Handle(r) PROVE IInv'
    BY <1>1, AsksIInv, EnqueueIInv, EnqueueUpdateIInv DEF Handle, Asks
  <1>2. CASE Loop
    BY <1>2, DecidesIInv, TakeInsertIInv, TakeUpdateIInv, FlushInsertsIInv, FlushUpdatesIInv
       DEF Loop, Decides
  <1>3. CASE Stop \/ StopReturns
    BY <1>3, DecidesIInv DEF Decides
  <1>4. CASE UNCHANGED vars
    BY <1>4 DEF vars, queues, batches, writer, IInv, TypeOK, OnePlace, Answered, Labels, Stopping,
                RowsThere, Queued, Unwritten, Insert, UpdateOf
  <1> QED
    BY <1>1, <1>2, <1>3, <1>4 DEF Next

LEMMA InductiveInvariant == Spec => []IInv
  BY InitIInv, NextIInv, PTL DEF Spec

---------------------------------------------------------------------------
(* The theorems.                                                           *)

\* The types, of every state the log writer reaches (TypeOK).
THEOREM LogTyping == Spec => []TypeOK
  <1>1. IInv => TypeOK
    BY DEF IInv
  <1> QED
    BY <1>1, InductiveInvariant, PTL

\* An entry Enqueue accepted is in exactly one place (OnePlace), for any sizes
\* of queues and batches and however many transactions fail.
THEOREM NoEntryLost == Spec => []OnePlace
  <1>1. IInv => OnePlace
    BY DEF IInv
  <1> QED
    BY <1>1, InductiveInvariant, PTL

\* When the goroutine has exited, everything accepted before Stop was called has
\* been given to the database (StopDrains).
THEOREM DrainedOnStop == Spec => []StopDrains
  <1>1. IInv => StopDrains
    <2> SUFFICES ASSUME IInv, loop = "done" PROVE owed \subseteq written \cup failed
      BY DEF StopDrains
    <2>1. Unwritten = {}
      BY EmptyEntries DEF IInv, Labels, Unwritten
    <2> QED
      BY <2>1 DEF IInv, Labels, Stopping, OnePlace
  <1> QED
    BY <1>1, InductiveInvariant, PTL

\* An update that is written finds its row, unless the insert was refused, failed
\* or is still in the channel (UpdateFindsRow).
THEOREM InsertsFirst == Spec => UpdateFindsRow
  <1>1. IInv /\ [Next]_vars =>
          [\A r \in Requests :
             (UpdateOf(r) \in written' \ written /\ Insert(r) \in accepted)
               => \/ row'[r] = "final"
                  \/ Insert(r) \in failed
                  \/ r \in ToSet(ch)]_vars
    <2> SUFFICES ASSUME IInv, [Next]_vars, NEW r \in Requests,
                        UpdateOf(r) \in written', UpdateOf(r) \notin written,
                        Insert(r) \in accepted, Insert(r) \notin failed, r \notin ToSet(ch)
                 PROVE  row'[r] = "final"
      OBVIOUS
    <2>1. CASE FlushUpdates
      <3>1. Insert(r) \in written
        BY <2>1, EmptyEntries, EntriesOf
           DEF IInv, Labels, OnePlace, Queued, Unwritten, Insert, FlushUpdates
      <3>2. row[r] # "none"
        BY <3>1 DEF IInv, RowsThere
      <3>3. r \in ToSet(updateBatch) /\ row' = [q \in Requests |->
                IF q \in ToSet(updateBatch) /\ row[q] # "none" THEN "final" ELSE row[q]]
        BY <2>1, EntriesOf DEF FlushUpdates, Transact, UpdateOf
      <3> QED
        BY <3>2, <3>3
    <2>2. CASE FlushInserts
      BY <2>2, EntriesOf DEF FlushInserts, Transact, UpdateOf
    <2>3. CASE ~FlushUpdates /\ ~FlushInserts
      <3>1. written' = written
        BY <2>3 DEF Next, Handle, Loop, Reject, BeginInsert, Enqueue, BeginUpdate, EnqueueUpdate,
                    TakeInsert, TakeUpdate, Tick, ObserveStop, LastFlush, Stop, StopReturns,
                    vars, writer
      <3> QED
        BY <3>1
    <2> QED
      BY <2>1, <2>2, <2>3
  <1> QED
    BY <1>1, InductiveInvariant, PTL DEF Spec, UpdateFindsRow
==============================================================================
