----------------------------- MODULE ToolCommit -----------------------------
(***************************************************************************)
(* The multi-file commit of internal/toolconfig (engine.go, atomic.go,     *)
(* backup.go) under service.commitToolChangeSet: configuration files of    *)
(* other programs are replaced together, with snapshots, hash checks,      *)
(* backups and rollback.  No lock is held: two commits, and the programs   *)
(* that own the files, may write at any time, and the process may die.     *)
(*                                                                         *)
(* Contents are compared by hash, so a content is a name: what commit c    *)
(* writes is c itself.  A hash read is a step of its own, and so are the   *)
(* revalidation and the rename that follows it.                            *)
(***************************************************************************)
EXTENDS Naturals, Sequences, FiniteSets, SequencesExt

CONSTANTS
  Commits,
  NumFiles,     \* changes of one ChangeSet, in its order
  KeepBackups,
  NoFile,       \* a missing file; its hash is ""
  Unrecorded,   \* no tool_file_state row
  Original, Older, Edited,   \* other contents
  MaxEdits, MaxFaults, MaxCrashes  \* bounds

ASSUME ToolCommitAssumption ==
  /\ NumFiles \in Nat \ {0} /\ KeepBackups \in Nat \ {0} /\ IsFiniteSet(Commits)
  /\ {MaxEdits, MaxFaults, MaxCrashes} \subseteq Nat
  /\ Commits \cap {NoFile, Unrecorded, Original, Older, Edited} = {}

VARIABLES
  disk,         \* disk[f]: content of file f
  backups,      \* backups[f]: its backups, oldest first
  recorded,     \* recorded[f]: AppliedFileHash in the store
  pc, at,       \* where commit c is, and at which file
  before,       \* before[c][f]: FileChange.Before, of the plan
  expected,     \* CommitOpts.ExpectedHashes
  allowDrift,
  attempted,    \* files c has renamed: 1 .. attempted[c]
  outcome,      \* what Commit returns: "ok", "conflict" (drift or a lost update
                \* seen before a rename), "mismatch" (seen after it), "failed"
  undone,       \* no rollback step has failed
  edits, faults, crashes,   \* bounded counts
  theirs,       \* history: what the file's owner last left there
  touched       \* history: files others changed since c's last rename

Files == 1..NumFiles
Content == Commits \cup {NoFile, Original, Edited}
Backup == [by : Commits \cup {Older}, content : Content \cup {Older}]

store == <<disk, backups, recorded>>
plan == <<before, expected, allowDrift>>
result == <<attempted, outcome, undone>>
counts == <<edits, faults, crashes>>
history == <<theirs, touched>>
vars == <<store, pc, at, plan, result, counts, history>>

Init ==
  /\ disk \in [Files -> {NoFile, Original}]
  /\ recorded \in [Files -> {Unrecorded, Original}]
  /\ backups = [f \in Files |-> <<[by |-> Older, content |-> Older]>>]
  /\ pc = [c \in Commits |-> "plan"] /\ at = [c \in Commits |-> 1]
  /\ before = [c \in Commits |-> [f \in Files |-> NoFile]]
  /\ expected = [c \in Commits |-> [f \in Files |-> Unrecorded]]
  /\ allowDrift \in [Commits -> BOOLEAN]
  /\ attempted = [c \in Commits |-> 0]
  /\ outcome = [c \in Commits |-> "none"]
  /\ undone = [c \in Commits |-> TRUE]
  /\ edits = 0 /\ faults = 0 /\ crashes = 0
  /\ theirs = disk
  /\ touched = [c \in Commits |-> {}]

---------------------------------------------------------------------------
Goto(c, label, k) ==
  /\ pc' = [pc EXCEPT ![c] = label]
  /\ at' = [at EXCEPT ![c] = k]

Mutant_NextFile(c, label) ==
  IF at[c] <= NumFiles THEN Goto(c, pc[c], at[c] + 1) ELSE Goto(c, label, 1)

\* Go on with the next file, or with `label' after the last.
NextFile(c, label) ==
  IF at[c] < NumFiles THEN Goto(c, pc[c], at[c] + 1) ELSE Goto(c, label, 1)

Fault == faults < MaxFaults /\ faults' = faults + 1 /\ UNCHANGED <<edits, crashes>>

\* Return before anything was written.
Refuse(c, why) ==
  /\ outcome' = [outcome EXCEPT ![c] = why]
  /\ Goto(c, "done", 1)
  /\ UNCHANGED <<attempted, undone>>

\* Roll back the first n files, then return `why'.
Fail(c, why, n) ==
  /\ outcome' = [outcome EXCEPT ![c] = why]
  /\ IF n = 0 THEN Goto(c, "done", 1) ELSE Goto(c, "rollback", n)
  /\ UNCHANGED undone

\* Commit c puts x in the place of file f.
Put(c, f, x) ==
  /\ disk' = [disk EXCEPT ![f] = x]
  /\ UNCHANGED <<backups, recorded, theirs>>

\* touched, when c has changed file f.
SeenByOthers(c, f) ==
  [d \in Commits |-> IF d = c THEN touched[d] ELSE touched[d] \cup {f}]

---------------------------------------------------------------------------
(* The plan, and the service before Commit.                                *)

\* The adapter reads one file after the other and renders their contents.
Read(c) ==
  /\ pc[c] = "plan"
  /\ before' = [before EXCEPT ![c][at[c]] = disk[at[c]]]
  /\ NextFile(c, "states")
  /\ UNCHANGED <<store, expected, allowDrift, result, counts, history>>

\* commitToolChangeSet reads what was recorded at the last applies.
ReadStates(c) ==
  /\ pc[c] = "states"
  /\ expected' = [expected EXCEPT ![c] = recorded]
  /\ Goto(c, "validate", 1)
  /\ UNCHANGED <<store, before, allowDrift, result, counts, history>>

---------------------------------------------------------------------------
(* Commit.                                                                 *)

Mutant_DriftedIfLost(c, f) ==
  ~allowDrift[c] /\ expected[c][f] # Unrecorded /\ disk[f] # before[c][f]

Drifted(c, f) ==
  ~allowDrift[c] /\ expected[c][f] # Unrecorded /\ disk[f] # expected[c][f]

Validate(c) ==
  /\ pc[c] = "validate"
  /\ \/ /\ ~Drifted(c, at[c]) /\ disk[at[c]] = before[c][at[c]]
        /\ NextFile(c, "backup")
        /\ UNCHANGED <<result, counts>>
     \/ /\ Drifted(c, at[c]) \/ disk[at[c]] # before[c][at[c]]
        /\ Refuse(c, "conflict") /\ UNCHANGED counts
     \/ Refuse(c, "failed") /\ Fault
  /\ UNCHANGED <<store, plan, history>>

\* removeBackups: the one c has made of a file.
RemoveBackups(bs, c) ==
  LET made == {i \in DOMAIN bs : bs[i].by = c}
  IN  IF made = {} THEN bs ELSE RemoveAt(bs, CHOOSE i \in made : TRUE)

\* A backup holds the snapshot of the plan; a failure removes this commit's.
BackupFile(c) ==
  LET f == at[c] IN
  /\ pc[c] = "backup"
  /\ \/ /\ backups' = IF before[c][f] = NoFile THEN backups
             ELSE [backups EXCEPT ![f] = Append(@, [by |-> c, content |-> before[c][f]])]
        /\ NextFile(c, "write")
        /\ UNCHANGED <<result, counts>>
     \/ /\ before[c][f] # NoFile
        /\ backups' = [g \in Files |-> RemoveBackups(backups[g], c)]
        /\ Refuse(c, "failed") /\ Fault
  /\ UNCHANGED <<disk, recorded, plan, history>>

\* The temporary file is written and synced; then the target is hashed
\* once more.
Revalidate(c) ==
  /\ pc[c] = "write"
  /\ \/ /\ disk[at[c]] = before[c][at[c]]
        /\ Goto(c, "rename", at[c])
        /\ UNCHANGED <<outcome, undone, counts>>
     \/ /\ disk[at[c]] # before[c][at[c]]
        /\ Fail(c, "conflict", attempted[c]) /\ UNCHANGED counts
     \/ Fail(c, "failed", attempted[c]) /\ Fault
  /\ UNCHANGED <<store, plan, attempted, history>>

Mutant_RenameFails(c) ==
  \/ /\ Fail(c, "failed", attempted[c])
     /\ UNCHANGED <<store, attempted, history>>
  \/ /\ Put(c, at[c], c)
     /\ touched' = [SeenByOthers(c, at[c]) EXCEPT ![c] = {}]
     /\ Fail(c, "failed", attempted[c])
     /\ UNCHANGED attempted

\* The rename, and what may fail before it or after it (permissions,
\* syncing the directory): a file that was renamed is rolled back too.
RenameFails(c) ==
  \/ /\ Fail(c, "failed", attempted[c])
     /\ UNCHANGED <<store, attempted, history>>
  \/ /\ Put(c, at[c], c)
     /\ touched' = [SeenByOthers(c, at[c]) EXCEPT ![c] = {}]
     /\ attempted' = [attempted EXCEPT ![c] = at[c]]
     /\ Fail(c, "failed", at[c])

Rename(c) ==
  /\ pc[c] = "rename"
  /\ \/ /\ Put(c, at[c], c)
        /\ touched' = [SeenByOthers(c, at[c]) EXCEPT ![c] = {}]
        /\ attempted' = [attempted EXCEPT ![c] = at[c]]
        /\ Goto(c, "check", at[c])
        /\ UNCHANGED <<outcome, undone, counts>>
     \/ RenameFails(c) /\ Fault
  /\ UNCHANGED plan

\* What the commit wrote is still there, or it rolls back.
Verified(c, go) ==
  /\ \/ disk[at[c]] = c /\ go /\ UNCHANGED <<outcome, undone, counts>>
     \/ disk[at[c]] # c /\ Fail(c, "mismatch", attempted[c]) /\ UNCHANGED counts
     \/ Fail(c, "failed", attempted[c]) /\ Fault
  /\ UNCHANGED <<store, plan, attempted, history>>

\* After each rename ...
Check(c) ==
  /\ pc[c] = "check"
  /\ Verified(c, IF at[c] < NumFiles THEN Goto(c, "write", at[c] + 1)
                                     ELSE Goto(c, "verify", 1))

Mutant_VerifyLast(c) ==
  /\ pc[c] = "verify"
  /\ Goto(c, "prune", 1)
  /\ UNCHANGED <<store, plan, result, counts, history>>

\* ... and all of them after the last.
Verify(c) == pc[c] = "verify" /\ Verified(c, NextFile(c, "prune"))

Mutant_PrunedNewest(bs) ==
  IF Len(bs) <= KeepBackups THEN bs ELSE SubSeq(bs, 1, KeepBackups)

Pruned(bs) == IF Len(bs) <= KeepBackups THEN bs
              ELSE SubSeq(bs, Len(bs) - KeepBackups + 1, Len(bs))

\* Pruning is best effort and Commit returns its result.
Prune(c) ==
  /\ pc[c] = "prune"
  /\ \/ backups' = [f \in Files |-> Pruned(backups[f])] /\ UNCHANGED counts
     \/ UNCHANGED backups /\ Fault
  /\ outcome' = [outcome EXCEPT ![c] = "ok"]
  /\ Goto(c, "save", 1)
  /\ UNCHANGED <<disk, recorded, plan, attempted, undone, history>>

\* SaveToolApplyState, one transaction; if it fails the files stay.
Save(c) ==
  /\ pc[c] = "save"
  /\ \/ recorded' = [f \in Files |-> c] /\ UNCHANGED counts
     \/ UNCHANGED recorded /\ Fault
  /\ Goto(c, "done", 1)
  /\ UNCHANGED <<disk, backups, plan, result, history>>

\* The last renamed file first.  Nobody looks at what is there now; an error
\* is remembered and the next file tried.
Restore(c) ==
  LET f == at[c]
      Back == Put(c, f, before[c][f]) /\ touched' = SeenByOthers(c, f)
  IN
  /\ pc[c] = "rollback"
  /\ \/ Back /\ UNCHANGED <<undone, counts>>
     \/ /\ Back \/ UNCHANGED <<store, history>>
        /\ undone' = [undone EXCEPT ![c] = FALSE] /\ Fault
  /\ IF f = 1 THEN Goto(c, "done", 1) ELSE Goto(c, "rollback", f - 1)
  /\ UNCHANGED <<plan, attempted, outcome>>

---------------------------------------------------------------------------
(* The environment.                                                        *)

\* The program that owns a file, or its user, rewrites or deletes it.
Edit(f) ==
  /\ edits < MaxEdits /\ edits' = edits + 1
  /\ \E x \in {NoFile, Edited} \ {disk[f]} :
       disk' = [disk EXCEPT ![f] = x] /\ theirs' = [theirs EXCEPT ![f] = x]
  /\ touched' = [c \in Commits |-> touched[c] \cup {f}]
  /\ UNCHANGED <<backups, recorded, pc, at, plan, result, faults, crashes>>

Begun(c) == <<pc[c], at[c]>> # <<"plan", 1>>

\* The process dies: no journal is kept and nothing looks for one at start.
Crash ==
  /\ crashes < MaxCrashes /\ crashes' = crashes + 1
  /\ \E c \in Commits : Begun(c) /\ pc[c] \notin {"done", "crashed"}
  /\ pc' = [c \in Commits |-> IF Begun(c) /\ pc[c] # "done" THEN "crashed" ELSE pc[c]]
  /\ UNCHANGED <<store, at, plan, result, edits, faults, history>>

Ended == \A c \in Commits : pc[c] \in {"done", "crashed"}
Finished == Ended /\ UNCHANGED vars

Commit(c) ==
  \/ Read(c) \/ ReadStates(c) \/ Validate(c) \/ BackupFile(c)
  \/ Revalidate(c) \/ Rename(c) \/ Check(c) \/ Verify(c)
  \/ Prune(c) \/ Save(c) \/ Restore(c)

Next ==
  \/ \E c \in Commits : Commit(c)
  \/ \E f \in Files : Edit(f)
  \/ Crash \/ Finished

Spec == Init /\ [][Next]_vars

---------------------------------------------------------------------------
(* Properties.                                                             *)

\* Types of the variables.
TypeOK ==
  /\ disk \in [Files -> Content] /\ theirs \in [Files -> Content]
  /\ backups \in [Files -> Seq(Backup)]
  /\ recorded \in [Files -> Commits \cup {Unrecorded, Original}]
  /\ pc \in [Commits -> {"plan", "states", "validate", "backup", "write", "rename",
                         "check", "verify", "prune", "save", "rollback", "done", "crashed"}]
  /\ at \in [Commits -> Files]
  /\ before \in [Commits -> [Files -> Content]]
  /\ expected \in [Commits -> [Files -> Commits \cup {Unrecorded, Original}]]
  /\ allowDrift \in [Commits -> BOOLEAN]
  /\ attempted \in [Commits -> 0..NumFiles]
  /\ outcome \in [Commits -> {"none", "ok", "conflict", "mismatch", "failed"}]
  /\ undone \in [Commits -> BOOLEAN]
  /\ {edits, faults, crashes} \subseteq Nat
  /\ touched \in [Commits -> SUBSET Files]

Failing(c) == outcome[c] \in {"conflict", "mismatch", "failed"}

\* "commit failed: ... (rollback completed)" (engine.go:289): none of the
\* files holds what the commit wrote, whatever failed and whoever else wrote,
\* except where another commit planned on top of this one's uncommitted
\* content and put it back in its own rollback.
FailureLeavesNothing ==
  \A c \in Commits : pc[c] = "done" /\ Failing(c) /\ undone[c] =>
    \A f \in Files :
      disk[f] = c => \E d \in Commits \ {c} : before[d][f] = c /\ Failing(d)

\* A commit that returns a result had all its files in place together, at
\* its last rename: each of them is still there unless somebody has changed
\* it since.
AllTogether ==
  \A c \in Commits : outcome[c] = "ok" =>
    \A f \in Files : disk[f] = c \/ f \in touched[c]

\* What a commit replaced can be recovered from a backup beside the file,
\* at every moment, also when the process dies between two files or the
\* rollback fails.
OriginalsKept ==
  \A c \in Commits : \A f \in 1..attempted[c] :
    before[c][f] # NoFile => \E b \in ToSet(backups[f]) : b.content = before[c][f]

\* Without AllowDrift the last look at a file before it is renamed over finds
\* what Autoapi had recorded of it: plan, recorded hashes and files are read
\* at different times, and an edit before any of these looks, of the owner or
\* of a commit running beside this one, ends the commit instead.  An edit
\* between that last look and the rename is written over unseen.
DriftRefused ==
  [][\A c \in Commits :
       pc[c] = "write" /\ pc'[c] = "rename" /\ ~allowDrift[c] =>
         LET f == at[c]
         IN  expected[c][f] # Unrecorded => disk[f] = expected[c][f]]_vars

---------------------------------------------------------------------------
(* A statement of the documentation that the code does not keep.           *)

\* "Validation and all snapshots happen before the first backup or write,
\* which keeps drift and lost-update failures side-effect free"
\* (engine.go:25): after such a failure each file is as its owner left it.
\* For a single commit.
ConflictSideEffectFree ==
  \A c \in Commits : pc[c] = "done" /\ outcome[c] = "conflict" /\ undone[c] =>
    disk = theirs
=============================================================================
