-------------------------- MODULE ToolCommitProofs --------------------------
(***************************************************************************)
(* Theorems about ToolCommit, for any number of commits, files, edits,     *)
(* failures and crashes.  OriginalsKept has a hypothesis: a backup may be  *)
(* pruned when as many commits have begun as backups are kept (BackedUp).  *)
(***************************************************************************)
EXTENDS ToolCommit, FiniteSetTheorems, SequenceTheorems, TLAPS

Recordable == Commits \cup {Unrecorded, Original}
Early == {"plan", "states", "validate", "backup"}
Late == {"write", "rename", "check", "verify", "prune", "save", "rollback", "done", "crashed"}
Labels == Early \cup Late

\* The part of TypeOK the proofs need.
Typed ==
  /\ disk \in [Files -> Content]
  /\ recorded \in [Files -> Recordable]
  /\ pc \in [Commits -> Labels]
  /\ at \in [Commits -> Files]
  /\ before \in [Commits -> [Files -> Content]]
  /\ expected \in [Commits -> [Files -> Recordable]]
  /\ allowDrift \in [Commits -> BOOLEAN]
  /\ attempted \in [Commits -> 0..NumFiles]
  /\ outcome \in [Commits -> {"none", "ok", "conflict", "mismatch", "failed"}]
  /\ undone \in [Commits -> BOOLEAN]
  /\ touched \in [Commits -> SUBSET Files]

\* How far commit c has come, by its label.
Progress(c) ==
  /\ pc[c] \in Early => attempted[c] = 0
  /\ pc[c] \in {"write", "rename"} => attempted[c] = at[c] - 1
  /\ pc[c] = "check" => attempted[c] = at[c]
  /\ pc[c] = "rollback" => at[c] <= attempted[c] /\ Failing(c)
  /\ outcome[c] = "none" \/ pc[c] \in {"save", "rollback", "done", "crashed"}
  /\ pc[c] = "save" => outcome[c] = "ok"

IInv == Typed /\ \A c \in Commits : Progress(c)

---------------------------------------------------------------------------
LEMMA NumFilesNat == NumFiles \in Nat /\ NumFiles # 0
  BY ToolCommitAssumption

LEMMA FilesAreNat == Files \subseteq Nat /\ 1 \in Files /\ NumFiles \in Files
  BY ToolCommitAssumption DEF Files

LEMMA FileSteps ==
  /\ \A k \in Files : k \in 0..NumFiles /\ (k < NumFiles => k + 1 \in Files)
  /\ \A k \in Files : k # 1 => k - 1 \in Files
  /\ \A n \in 0..NumFiles : n # 0 => n \in Files
  BY ToolCommitAssumption DEF Files

LEMMA InitIInv == Init => IInv
  BY FilesAreNat, ToolCommitAssumption DEF Init, IInv, Typed, Progress, Files, Content,
     Recordable, Labels, Early, Failing

(* Where the control operators take commit c. *)
ControlType == pc \in [Commits -> Labels] /\ at \in [Commits -> Files]

LEMMA GotoMoves ==
  ASSUME ControlType, NEW c \in Commits, NEW label \in Labels, NEW k \in Files,
         Goto(c, label, k)
  PROVE  ControlType' /\ pc'[c] = label /\ at'[c] = k
  BY DEF ControlType, Goto

LEMMA NextFileMoves ==
  ASSUME ControlType, NEW c \in Commits, NEW label \in Labels, NextFile(c, label)
  PROVE  /\ ControlType'
         /\ \/ pc'[c] = pc[c] /\ at[c] < NumFiles /\ at'[c] = at[c] + 1
            \/ pc'[c] = label /\ at[c] = NumFiles /\ at'[c] = 1
  <1>1. at[c] \in Files /\ pc[c] \in Labels
    BY DEF ControlType
  <1>2. CASE at[c] < NumFiles
    BY <1>1, <1>2, FileSteps, GotoMoves DEF NextFile
  <1>3. CASE ~(at[c] < NumFiles)
    BY <1>1, <1>3, FilesAreNat, GotoMoves, ToolCommitAssumption DEF NextFile, Files
  <1> QED
    BY <1>2, <1>3

Outcomes == {"none", "ok", "conflict", "mismatch", "failed"}

LEMMA RefuseMoves ==
  ASSUME ControlType, NEW c \in Commits, outcome \in [Commits -> Outcomes],
         NEW why \in Outcomes, Refuse(c, why)
  PROVE  /\ ControlType' /\ outcome' \in [Commits -> Outcomes]
         /\ pc'[c] = "done" /\ outcome'[c] = why
         /\ attempted' = attempted /\ undone' = undone
  BY FilesAreNat, GotoMoves DEF Refuse, Outcomes, Labels, Late

\* Commit c fails with n files to restore.
Rolls(c, n) ==
  /\ ControlType' /\ outcome' \in [Commits -> Outcomes]
  /\ outcome'[c] \in {"conflict", "mismatch", "failed"} /\ undone' = undone
  /\ \/ n = 0 /\ pc'[c] = "done"
     \/ n # 0 /\ pc'[c] = "rollback" /\ at'[c] = n

LEMMA FailMoves ==
  ASSUME ControlType, NEW c \in Commits, outcome \in [Commits -> Outcomes],
         NEW why \in {"conflict", "mismatch", "failed"}, NEW n \in 0..NumFiles,
         Fail(c, why, n)
  PROVE  Rolls(c, n)
  BY FilesAreNat, FileSteps, GotoMoves DEF Fail, Rolls, Outcomes, Labels, Late

LEMMA PutType ==
  ASSUME disk \in [Files -> Content], touched \in [Commits -> SUBSET Files],
         NEW c \in Commits, NEW f \in Files, NEW x \in Content, Put(c, f, x)
  PROVE  /\ disk' \in [Files -> Content] /\ recorded' = recorded
         /\ SeenByOthers(c, f) \in [Commits -> SUBSET Files]
         /\ [SeenByOthers(c, f) EXCEPT ![c] = {}] \in [Commits -> SUBSET Files]
  BY DEF Put, SeenByOthers

LEMMA RollsProgress ==
  ASSUME NEW c \in Commits, NEW n \in 0..NumFiles, Rolls(c, n), attempted'[c] = n
  PROVE  Progress(c)'
  BY ToolCommitAssumption DEF Rolls, Progress, Failing, Early

(* One step per action: types, the commit that moves, the others.          *)
LEMMA StepIInv == IInv /\ [Next]_vars => IInv'
  <1> SUFFICES ASSUME IInv, [Next]_vars PROVE IInv'
    OBVIOUS
  <1> USE DEF IInv, store, plan, result, counts, history
  <1>0. ControlType /\ outcome \in [Commits -> Outcomes]
    BY DEF Typed, ControlType, Outcomes
  <1>1. ASSUME NEW c \in Commits, Read(c) PROVE IInv'
    <2>1. Typed'
      BY <1>0, <1>1, FilesAreNat, FileSteps, GotoMoves, NextFileMoves, RefuseMoves, FailMoves DEF Read, Typed, ControlType, Outcomes, Labels, Early, Late, Content, Recordable
    <2>2. Progress(c)'
      BY <1>0, <1>1, FileSteps, ToolCommitAssumption, GotoMoves, NextFileMoves, RefuseMoves, FailMoves DEF Read, Typed, Progress, Failing, Early, Late, Labels, Files, Outcomes
    <2>3. \A d \in Commits \ {c} : Progress(d)'
      BY <1>1 DEF Read, NextFile, Goto, Typed, Progress, Failing
    <2> QED
      BY <2>1, <2>2, <2>3
  <1>2. ASSUME NEW c \in Commits, ReadStates(c) PROVE IInv'
    <2>1. Typed'
      BY <1>0, <1>2, FilesAreNat, FileSteps, GotoMoves, NextFileMoves, RefuseMoves, FailMoves DEF ReadStates, Typed, ControlType, Outcomes, Labels, Early, Late, Content, Recordable
    <2>2. Progress(c)'
      <3>1. attempted[c] = 0 /\ outcome[c] = "none" /\ UNCHANGED result
        BY <1>2 DEF ReadStates, Progress, Early
      <3>2. pc'[c] = "validate"
        BY <1>0, <1>2 DEF ReadStates, Goto, ControlType
      <3> QED
        BY <3>1, <3>2 DEF Progress, Failing
    <2>3. \A d \in Commits \ {c} : Progress(d)'
      BY <1>2 DEF ReadStates, Goto, Typed, Progress, Failing
    <2> QED
      BY <2>1, <2>2, <2>3
  <1>3. ASSUME NEW c \in Commits, Validate(c) PROVE IInv'
    <2>1. Typed'
      BY <1>0, <1>3, FilesAreNat, FileSteps, GotoMoves, NextFileMoves, RefuseMoves, FailMoves DEF Validate, Fault, Typed, ControlType, Outcomes, Labels, Early, Late, Content, Recordable
    <2>2. Progress(c)'
      <3>1. attempted[c] = 0 /\ outcome[c] = "none"
        BY <1>3 DEF Validate, Progress, Early
      <3>2. CASE NextFile(c, "backup") /\ UNCHANGED result
        <4>1. pc'[c] \in {"validate", "backup"}
          BY <1>0, <1>3, <3>2, NextFileMoves DEF Validate, Labels, Early
        <4> QED
          BY <3>1, <3>2, <4>1 DEF Progress, Failing
      <3>3. ASSUME NEW why \in {"conflict", "failed"}, Refuse(c, why) PROVE Progress(c)'
        BY <1>0, <3>1, <3>3, RefuseMoves DEF Progress, Failing, Early, Outcomes
      <3> QED
        BY <1>3, <3>2, <3>3 DEF Validate
    <2>3. \A d \in Commits \ {c} : Progress(d)'
      BY <1>3 DEF Validate, NextFile, Refuse, Fault, Goto, Typed, Progress, Failing
    <2> QED
      BY <2>1, <2>2, <2>3
  <1>4. ASSUME NEW c \in Commits, BackupFile(c) PROVE IInv'
    <2>0. at[c] \in Files /\ attempted[c] \in 0..NumFiles /\ pc[c] \in Labels /\ at[c] \in 0..NumFiles
      BY FileSteps DEF Typed
    <2>1. \/ /\ ControlType' /\ UNCHANGED result
             /\ \/ pc'[c] = pc[c]
                \/ pc'[c] = "write" /\ at'[c] = 1
          \/ /\ ControlType' /\ pc'[c] = "done" /\ outcome' \in [Commits -> Outcomes]
             /\ outcome'[c] = "failed" /\ attempted' = attempted /\ undone' = undone
      BY <1>0, <1>4, <2>0, NextFileMoves, RefuseMoves DEF BackupFile, Labels, Late, Outcomes
    <2>t. Typed'
      BY <1>0, <1>4, <2>1 DEF BackupFile, Typed, Outcomes, ControlType
    <2>p. Progress(c)'
      BY <1>4, <2>0, <2>1 DEF BackupFile, Typed, Progress, Failing, Early, Late, Labels, Outcomes
    <2>d. \A d \in Commits \ {c} : Progress(d)'
      BY <1>4 DEF BackupFile, NextFile, Refuse, Fault, Goto, Typed, Progress, Failing
    <2> QED
      BY <2>t, <2>p, <2>d
  <1>5. ASSUME NEW c \in Commits, Revalidate(c) PROVE IInv'
    <2>0. at[c] \in Files /\ attempted[c] \in 0..NumFiles /\ pc[c] \in Labels /\ at[c] \in 0..NumFiles
      BY FileSteps DEF Typed
    <2>1. \/ ControlType' /\ pc'[c] = "rename" /\ at'[c] = at[c] /\ UNCHANGED <<outcome, undone>>
          \/ Rolls(c, attempted[c])
      BY <1>0, <1>5, <2>0, GotoMoves, FailMoves DEF Revalidate, Labels, Late
    <2>t. Typed'
      BY <1>0, <1>5, <2>1 DEF Revalidate, Rolls, Typed, Outcomes, ControlType
    <2>p. Progress(c)'
      <3>1. attempted'[c] = attempted[c] /\ attempted[c] = at[c] - 1 /\ outcome[c] = "none"
        BY <1>5 DEF Revalidate, Progress
      <3>2. CASE pc'[c] = "rename" /\ at'[c] = at[c] /\ UNCHANGED outcome
        BY <3>1, <3>2 DEF Progress, Failing, Early
      <3> QED
        BY <2>0, <2>1, <3>1, <3>2, RollsProgress
    <2>d. \A d \in Commits \ {c} : Progress(d)'
      BY <1>5 DEF Revalidate, Fail, Fault, Goto, Typed, Progress, Failing
    <2> QED
      BY <2>t, <2>p, <2>d
  <1>6. ASSUME NEW c \in Commits, Rename(c) PROVE IInv'
    <2>0. at[c] \in Files /\ attempted[c] \in 0..NumFiles /\ pc[c] \in Labels /\ at[c] \in 0..NumFiles
      BY FileSteps DEF Typed
    <2>1. \/ /\ ControlType' /\ pc'[c] = "check" /\ at'[c] = at[c] /\ UNCHANGED <<outcome, undone>>
             /\ attempted' = [attempted EXCEPT ![c] = at[c]]
          \/ Rolls(c, attempted[c]) /\ UNCHANGED attempted
          \/ Rolls(c, at[c]) /\ attempted' = [attempted EXCEPT ![c] = at[c]]
      BY <1>0, <1>6, <2>0, GotoMoves, FailMoves DEF Rename, RenameFails, Labels, Late
    <2>2. /\ disk' \in [Files -> Content] /\ touched' \in [Commits -> SUBSET Files]
          /\ recorded' = recorded
      <3>1. \/ UNCHANGED <<store, history>>
            \/ /\ Put(c, at[c], c)
               /\ touched' = [SeenByOthers(c, at[c]) EXCEPT ![c] = {}]
        BY <1>6 DEF Rename, RenameFails
      <3>2. /\ c \in Content /\ disk \in [Files -> Content]
            /\ touched \in [Commits -> SUBSET Files]
        BY DEF Content, Typed
      <3> QED
        BY <2>0, <3>1, <3>2, PutType
    <2>3. attempted' \in [Commits -> 0..NumFiles]
      BY <2>0, <2>1 DEF Typed
    <2>t. Typed'
      BY <1>0, <1>6, <2>1, <2>2, <2>3 DEF Rename, Rolls, Typed, Outcomes, ControlType
    <2>p. Progress(c)'
      <3>1. pc[c] = "rename" /\ outcome[c] = "none"
        BY <1>6 DEF Rename, Progress
      <3>2. CASE /\ pc'[c] = "check" /\ at'[c] = at[c] /\ UNCHANGED outcome
                 /\ attempted' = [attempted EXCEPT ![c] = at[c]]
        <4>1. attempted'[c] = at'[c]
          BY <3>2 DEF Typed
        <4> QED
          BY <3>1, <3>2, <4>1 DEF Progress, Failing, Early
      <3>3. CASE Rolls(c, attempted[c]) /\ UNCHANGED attempted
        BY <2>0, <3>3, RollsProgress
      <3>4. CASE Rolls(c, at[c]) /\ attempted' = [attempted EXCEPT ![c] = at[c]]
        <4>1. attempted'[c] = at[c]
          BY <3>4 DEF Typed
        <4> QED
          BY <2>0, <3>4, <4>1, RollsProgress
      <3> QED
        BY <2>1, <3>2, <3>3, <3>4
    <2>d. \A d \in Commits \ {c} : Progress(d)'
      BY <1>6 DEF Rename, RenameFails, Put, SeenByOthers, Fail, Fault, Goto, Typed, Progress, Failing
    <2> QED
      BY <2>t, <2>p, <2>d
  <1>7. ASSUME NEW c \in Commits, Check(c) PROVE IInv'
    <2>0. at[c] \in Files /\ attempted[c] \in 0..NumFiles /\ pc[c] \in Labels /\ at[c] \in 0..NumFiles
      BY FileSteps DEF Typed
    <2>1. \/ /\ UNCHANGED <<outcome, undone>> /\ ControlType'
             /\ \/ at[c] < NumFiles /\ pc'[c] = "write" /\ at'[c] = at[c] + 1
                \/ at[c] = NumFiles /\ pc'[c] = "verify" /\ at'[c] = 1
          \/ Rolls(c, attempted[c])
      <3>1. CASE at[c] < NumFiles
        <4>1. at[c] + 1 \in Files /\ {"write", "verify"} \subseteq Labels
          BY <2>0, <3>1, FileSteps DEF Labels, Late
        <4>2. \/ Goto(c, "write", at[c] + 1) /\ UNCHANGED <<outcome, undone>>
              \/ Fail(c, "mismatch", attempted[c])
              \/ Fail(c, "failed", attempted[c])
          BY <1>7, <3>1 DEF Check, Verified
        <4> QED
          BY <1>0, <2>0, <3>1, <4>1, <4>2, GotoMoves, FailMoves
      <3>2. CASE at[c] = NumFiles
        BY <1>0, <1>7, <2>0, <3>2, FilesAreNat, GotoMoves, FailMoves, NumFilesNat DEF Check, Verified, Labels, Late
      <3> QED
        BY <2>0, <3>1, <3>2, ToolCommitAssumption DEF Files
    <2>t. Typed'
      BY <1>0, <1>7, <2>1 DEF Check, Verified, Rolls, Typed, Outcomes, ControlType
    <2>p. Progress(c)'
      <3>1. attempted'[c] = attempted[c]
        BY <1>7 DEF Check, Verified
      <3>2. pc[c] = "check" /\ attempted[c] = at[c] /\ outcome[c] = "none"
        BY <1>7 DEF Check, Progress
      <3>3. CASE at[c] < NumFiles /\ pc'[c] = "write" /\ at'[c] = at[c] + 1 /\ UNCHANGED outcome
        BY <2>0, <3>1, <3>2, <3>3, ToolCommitAssumption DEF Progress, Failing, Early, Files
      <3>4. CASE at[c] = NumFiles /\ pc'[c] = "verify" /\ UNCHANGED outcome
        BY <3>1, <3>2, <3>4 DEF Progress, Failing, Early
      <3> QED
        BY <2>0, <2>1, <3>1, <3>3, <3>4, RollsProgress
    <2>d. \A d \in Commits \ {c} : Progress(d)'
      BY <1>7 DEF Check, Verified, Fail, Fault, Goto, Typed, Progress, Failing
    <2> QED
      BY <2>t, <2>p, <2>d
  <1>8. ASSUME NEW c \in Commits, Verify(c) PROVE IInv'
    <2>0. at[c] \in Files /\ attempted[c] \in 0..NumFiles /\ pc[c] \in Labels /\ at[c] \in 0..NumFiles
      BY FileSteps DEF Typed
    <2>1. \/ /\ UNCHANGED <<outcome, undone>> /\ ControlType'
             /\ pc'[c] \in {"verify", "prune"}
          \/ Rolls(c, attempted[c])
      BY <1>0, <1>8, <2>0, NextFileMoves, FailMoves DEF Verify, Verified, Labels, Late
    <2>t. Typed'
      BY <1>0, <1>8, <2>1 DEF Verify, Verified, Rolls, Typed, Outcomes, ControlType
    <2>p. Progress(c)'
      <3>1. attempted'[c] = attempted[c] /\ attempted[c] \in 0..NumFiles
        BY <1>8, <2>0 DEF Verify, Verified
      <3>2. CASE pc'[c] \in {"verify", "prune"} /\ UNCHANGED outcome
        BY <1>8, <3>1, <3>2 DEF Verify, Progress, Failing, Early
      <3> QED
        BY <2>1, <3>1, <3>2, RollsProgress
    <2>d. \A d \in Commits \ {c} : Progress(d)'
      BY <1>8 DEF Verify, Verified, NextFile, Fail, Fault, Goto, Typed, Progress, Failing
    <2> QED
      BY <2>t, <2>p, <2>d
  <1>9. ASSUME NEW c \in Commits, Prune(c) PROVE IInv'
    <2>1. Typed'
      BY <1>0, <1>9, FilesAreNat, FileSteps, GotoMoves, NextFileMoves, RefuseMoves, FailMoves DEF Prune, Fault, Typed, ControlType, Outcomes, Labels, Early, Late, Content, Recordable
    <2>2. Progress(c)'
      BY <1>0, <1>9, FileSteps, ToolCommitAssumption, GotoMoves, NextFileMoves, RefuseMoves, FailMoves DEF Prune, Fault, Typed, Progress, Failing, Early, Late, Labels, Files, Outcomes
    <2>3. \A d \in Commits \ {c} : Progress(d)'
      BY <1>9 DEF Prune, Fault, Goto, Typed, Progress, Failing
    <2> QED
      BY <2>1, <2>2, <2>3
  <1>10. ASSUME NEW c \in Commits, Save(c) PROVE IInv'
    <2>1. Typed'
      BY <1>0, <1>10, FilesAreNat, FileSteps, GotoMoves, NextFileMoves, RefuseMoves, FailMoves DEF Save, Fault, Typed, ControlType, Outcomes, Labels, Early, Late, Content, Recordable
    <2>2. Progress(c)'
      BY <1>0, <1>10, FileSteps, ToolCommitAssumption, GotoMoves, NextFileMoves, RefuseMoves, FailMoves DEF Save, Fault, Typed, Progress, Failing, Early, Late, Labels, Files, Outcomes
    <2>3. \A d \in Commits \ {c} : Progress(d)'
      BY <1>10 DEF Save, Fault, Goto, Typed, Progress, Failing
    <2> QED
      BY <2>1, <2>2, <2>3
  <1>11. ASSUME NEW c \in Commits, Restore(c) PROVE IInv'
    <2>0. at[c] \in Files /\ attempted[c] \in 0..NumFiles /\ pc[c] \in Labels /\ at[c] \in 0..NumFiles
      BY FileSteps DEF Typed
    <2>1. /\ ControlType'
          /\ \/ at[c] = 1 /\ pc'[c] = "done"
             \/ at[c] # 1 /\ pc'[c] = "rollback" /\ at'[c] = at[c] - 1
      BY <1>0, <1>11, <2>0, FilesAreNat, FileSteps, GotoMoves DEF Restore, Labels, Late
    <2>2. before[c][at[c]] \in Content
      BY <2>0 DEF Typed
    <2>3. /\ disk' \in [Files -> Content] /\ touched' \in [Commits -> SUBSET Files]
          /\ recorded' = recorded
      BY <1>11, <2>0, <2>2, PutType DEF Restore, Typed
    <2>4. undone' \in [Commits -> BOOLEAN]
      BY <1>11 DEF Restore, Typed
    <2>t. Typed'
      BY <1>0, <1>11, <2>1, <2>3, <2>4 DEF Restore, Typed, Outcomes, ControlType
    <2>p. Progress(c)'
      BY <1>11, <2>0, <2>1, ToolCommitAssumption DEF Restore, Files, Typed, Progress, Failing, Early, Late, Labels, Outcomes
    <2>d. \A d \in Commits \ {c} : Progress(d)'
      BY <1>11 DEF Restore, Put, SeenByOthers, Fault, Goto, Typed, Progress, Failing
    <2> QED
      BY <2>t, <2>p, <2>d
  <1>12. ASSUME NEW f \in Files, Edit(f) PROVE IInv'
    <2>1. Typed'
      BY <1>12 DEF Edit, Typed, Content
    <2>2. \A d \in Commits : Progress(d)'
      BY <1>12 DEF Edit, Progress, Failing
    <2> QED
      BY <2>1, <2>2
  <1>13. CASE Crash
    BY <1>13 DEF Crash, Typed, Progress, Failing, Labels, Early, Late
  <1>14. CASE UNCHANGED vars
    BY <1>14 DEF vars, Typed, Progress, Failing
  <1> QED
    BY <1>1, <1>2, <1>3, <1>4, <1>5, <1>6, <1>7, <1>8, <1>9, <1>10, <1>11, <1>12, <1>13, <1>14
       DEF Next, Commit, Finished

(* The labels of a commit tell how many files it has written and what it   *)
(* is going to return.                                                     *)
THEOREM Progressing == Spec => []IInv
  BY InitIInv, StepIInv, PTL DEF Spec
---------------------------------------------------------------------------
(* DriftRefused.  What has passed validation matches what was recorded.    *)

Match(c, f) ==
  ~allowDrift[c] /\ expected[c][f] # Unrecorded => before[c][f] = expected[c][f]

Past(c) == pc[c] \in {"backup", "write", "rename"} \/ attempted[c] > 0

DriftInv == \A c \in Commits :
  /\ pc[c] = "validate" => \A f \in Files : f < at[c] => Match(c, f)
  /\ Past(c) => \A f \in Files : Match(c, f)

LEMMA InitDrift == Init => DriftInv
  BY DEF Init, DriftInv, Past

LEMMA StepDrift == IInv /\ DriftInv /\ [Next]_vars => DriftInv'
  <1> SUFFICES ASSUME IInv, DriftInv, [Next]_vars PROVE DriftInv'
    OBVIOUS
  <1> USE DEF store, plan, result, counts, history
  <1>a. ASSUME UNCHANGED plan,
               \A d \in Commits : /\ Past(d)' => Past(d)
                                  /\ pc'[d] = "validate" => pc[d] = "validate" /\ at'[d] = at[d]
        PROVE  DriftInv'
    BY <1>a DEF DriftInv, Match
  <1>1. ASSUME NEW c \in Commits, Read(c) PROVE DriftInv'
    <2>1. attempted[c] = 0 /\ pc'[c] \in {"plan", "states"}
      BY <1>1 DEF Read, NextFile, Goto, IInv, Typed, Progress, Early
    <2>2. \A d \in Commits \ {c} : pc'[d] = pc[d] /\ at'[d] = at[d] /\ before'[d] = before[d]
      BY <1>1 DEF Read, NextFile, Goto, IInv, Typed
    <2> QED
      BY <1>1, <2>1, <2>2 DEF Read, DriftInv, Match, Past
  <1>2. ASSUME NEW c \in Commits, ReadStates(c) PROVE DriftInv'
    <2>1. attempted[c] = 0 /\ pc'[c] = "validate" /\ at'[c] = 1
      BY <1>2 DEF ReadStates, Goto, IInv, Typed, Progress, Early
    <2>2. \A d \in Commits \ {c} : pc'[d] = pc[d] /\ at'[d] = at[d] /\ expected'[d] = expected[d]
      BY <1>2 DEF ReadStates, Goto, IInv, Typed
    <2>3. \A f \in Files : ~(f < 1)
      BY DEF Files
    <2> QED
      BY <1>2, <2>1, <2>2, <2>3 DEF ReadStates, DriftInv, Match, Past
  <1>3. ASSUME NEW c \in Commits, Validate(c) PROVE DriftInv'
    <2>1. /\ attempted'[c] = 0 /\ pc[c] = "validate" /\ at[c] \in Files
          /\ UNCHANGED plan
      BY <1>3 DEF Validate, Refuse, IInv, Typed, Progress, Early
    <2>2. \A d \in Commits \ {c} : pc'[d] = pc[d] /\ at'[d] = at[d] /\ attempted'[d] = attempted[d]
      BY <1>3 DEF Validate, Refuse, NextFile, Goto, IInv, Typed
    <2>3. CASE ~Drifted(c, at[c]) /\ disk[at[c]] = before[c][at[c]] /\ NextFile(c, "backup")
      <3>1. Match(c, at[c])
        BY <2>3 DEF Drifted, Match
      <3>2. \A f \in Files : f <= at[c] => Match(c, f)
        BY <2>1, <3>1 DEF DriftInv, Files
      <3>3. \/ pc'[c] = "validate" /\ at'[c] = at[c] + 1
            \/ pc'[c] = "backup" /\ at[c] = NumFiles
        BY <2>1, <2>3, NextFileMoves DEF IInv, Typed, ControlType, Labels, Early
      <3>4. \A f \in Files : f <= NumFiles /\ (f < at[c] + 1 => f <= at[c])
        BY <2>1, ToolCommitAssumption DEF Files
      <3> QED
        BY <2>1, <2>2, <3>2, <3>3, <3>4 DEF DriftInv, Match, Past
    <2>4. ASSUME NEW why \in {"conflict", "failed"}, Refuse(c, why) PROVE DriftInv'
      <3>1. pc'[c] = "done"
        BY <2>4 DEF Refuse, Goto, IInv, Typed
      <3> QED
        BY <2>1, <2>2, <3>1 DEF DriftInv, Match, Past
    <2> QED
      BY <1>3, <2>3, <2>4 DEF Validate
  <1>4. ASSUME NEW c \in Commits, BackupFile(c) PROVE DriftInv'
    <2>1. UNCHANGED plan /\ UNCHANGED attempted /\ Past(c)
      BY <1>4 DEF BackupFile, Refuse, Past
    <2>2. pc'[c] # "validate"
      BY <1>4 DEF BackupFile, NextFile, Refuse, Goto, IInv, Typed
    <2>3. \A d \in Commits \ {c} : pc'[d] = pc[d] /\ at'[d] = at[d]
      BY <1>4 DEF BackupFile, NextFile, Refuse, Goto, IInv, Typed
    <2> QED
      BY <1>a, <2>1, <2>2, <2>3 DEF Past
  <1>5. ASSUME NEW c \in Commits, Revalidate(c) PROVE DriftInv'
    BY <1>a, <1>5, ToolCommitAssumption DEF Revalidate, Fail, Fault, Goto, IInv, Typed, Progress, Past, Files
  <1>6. ASSUME NEW c \in Commits, Rename(c) PROVE DriftInv'
    <2>1. UNCHANGED plan /\ Past(c)
      BY <1>6 DEF Rename, Past
    <2>2. pc'[c] # "validate"
      BY <1>6 DEF Rename, RenameFails, Fail, Goto, IInv, Typed
    <2>3. \A d \in Commits \ {c} : pc'[d] = pc[d] /\ at'[d] = at[d] /\ attempted'[d] = attempted[d]
      BY <1>6 DEF Rename, RenameFails, Fail, Goto, IInv, Typed
    <2> QED
      BY <1>a, <2>1, <2>2, <2>3 DEF Past
  <1>7. ASSUME NEW c \in Commits, Check(c) PROVE DriftInv'
    BY <1>a, <1>7, ToolCommitAssumption DEF Check, Verified, Fail, Fault, Goto, IInv, Typed, Progress, Past, Files
  <1>8. ASSUME NEW c \in Commits, Verify(c) PROVE DriftInv'
    BY <1>a, <1>8, ToolCommitAssumption DEF Verify, Verified, NextFile, Fail, Fault, Goto, IInv, Typed, Progress, Past, Files
  <1>9. ASSUME NEW c \in Commits, Prune(c) PROVE DriftInv'
    BY <1>a, <1>9, ToolCommitAssumption DEF Prune, Fault, Goto, IInv, Typed, Progress, Past, Files
  <1>10. ASSUME NEW c \in Commits, Save(c) PROVE DriftInv'
    BY <1>a, <1>10, ToolCommitAssumption DEF Save, Fault, Goto, IInv, Typed, Progress, Past, Files
  <1>11. ASSUME NEW c \in Commits, Restore(c) PROVE DriftInv'
    BY <1>a, <1>11, ToolCommitAssumption DEF Restore, Put, SeenByOthers, Fault, Goto, IInv, Typed, Progress, Past, Files
  <1>12. ASSUME NEW f \in Files, Edit(f) PROVE DriftInv'
    BY <1>a, <1>12 DEF Edit, Past
  <1>13. CASE Crash
    BY <1>a, <1>13 DEF Crash, Past, IInv, Typed
  <1>14. CASE UNCHANGED vars
    BY <1>a, <1>14 DEF vars, Past
  <1> QED
    BY <1>1, <1>2, <1>3, <1>4, <1>5, <1>6, <1>7, <1>8, <1>9, <1>10, <1>11, <1>12, <1>13, <1>14
       DEF Next, Commit, Finished

\* A step of a commit moves its own label alone.
LEMMA OnlyOwnLabel ==
  ASSUME IInv, NEW c \in Commits, Commit(c), NEW d \in Commits \ {c}
  PROVE  pc'[d] = pc[d]
  <1> SUFFICES pc' = pc \/ \E label : pc' = [pc EXCEPT ![c] = label]
    BY DEF IInv, Typed
  <1> USE DEF Goto, NextFile, Fail, Refuse, plan, result
  <1>1. CASE Read(c) \/ ReadStates(c) \/ Validate(c) \/ BackupFile(c)
    BY <1>1 DEF Read, ReadStates, Validate, BackupFile
  <1>2. CASE Revalidate(c) \/ Rename(c) \/ Check(c) \/ Verify(c)
    BY <1>2 DEF Revalidate, Rename, RenameFails, Check, Verify, Verified
  <1>3. CASE Prune(c) \/ Save(c) \/ Restore(c)
    BY <1>3 DEF Prune, Save, Restore
  <1> QED
    BY <1>1, <1>2, <1>3 DEF Commit

\* Only the last look leads to a rename.
LEMMA OnlyRevalidateGoesOn ==
  ASSUME IInv, [Next]_vars, NEW c \in Commits, pc[c] = "write", pc'[c] = "rename"
  PROVE  Revalidate(c)
  <1> USE DEF IInv, Typed, Goto, plan, result
  <1>2. CASE Commit(c)
    BY <1>2 DEF Commit, Read, ReadStates, Validate, BackupFile, Rename, RenameFails, Check, Verify,
       Verified, Prune, Save, Restore
  <1>3. CASE \E d \in Commits \ {c} : Commit(d)
    BY <1>3, OnlyOwnLabel
  <1>4. CASE \E f \in Files : Edit(f)
    BY <1>4 DEF Edit
  <1>5. CASE Crash
    BY <1>5 DEF Crash
  <1>6. CASE UNCHANGED vars
    BY <1>6 DEF vars
  <1> QED
    BY <1>2, <1>3, <1>4, <1>5, <1>6 DEF Next, Finished

(* At its last look before a rename, a commit without AllowDrift finds in  *)
(* each recorded file what was recorded.                                   *)
THEOREM DriftGuard == Spec => DriftRefused
  <1>1. ASSUME IInv, DriftInv, [Next]_vars
        PROVE  [\A c \in Commits :
                  pc[c] = "write" /\ pc'[c] = "rename" /\ ~allowDrift[c] =>
                    LET f == at[c]
                    IN  expected[c][f] # Unrecorded => disk[f] = expected[c][f]]_vars
    <2>1. SUFFICES ASSUME NEW c \in Commits, pc[c] = "write", pc'[c] = "rename",
                          ~allowDrift[c], expected[c][at[c]] # Unrecorded
                   PROVE  disk[at[c]] = expected[c][at[c]]
      OBVIOUS
    <2>2. at[c] \in Files /\ before[c][at[c]] = expected[c][at[c]]
      BY <1>1, <2>1 DEF DriftInv, Past, Match, IInv, Typed
    <2>3. Revalidate(c)
      BY <1>1, <2>1, OnlyRevalidateGoesOn
    <2>4. disk[at[c]] = before[c][at[c]]
      <3>1. pc \in [Commits -> Labels]
        BY <1>1 DEF IInv, Typed
      <3>2. ASSUME NEW why, NEW n, Fail(c, why, n) PROVE pc'[c] # "rename"
        BY <3>1, <3>2 DEF Fail, Goto
      <3> QED
        BY <2>1, <2>3, <3>2 DEF Revalidate
    <2> QED
      BY <2>2, <2>4
  <1> QED
    BY InitIInv, StepIInv, InitDrift, StepDrift, <1>1, PTL DEF Spec, DriftRefused
---------------------------------------------------------------------------
(* AllTogether.  What was verified is still there, or others changed it.   *)

Held(c, f) == disk[f] = c \/ f \in touched[c]

TogetherInv == \A c \in Commits :
  /\ pc[c] = "verify" => \A f \in Files : f < at[c] => Held(c, f)
  /\ pc[c] = "prune" \/ outcome[c] = "ok" => \A f \in Files : Held(c, f)

\* Nobody but c can take a file from c unnoticed.
LEMMA HeldByOthers ==
  ASSUME IInv, NEW c \in Commits, NEW d \in Commits \ {c}, NEW f \in Files, Held(d, f),
         Commit(c)
  PROVE  Held(d, f)'
  <1> USE DEF IInv, Typed, Held, store, plan, result, counts, history
  <1>1. CASE Read(c)
    BY <1>1 DEF Read
  <1>2. CASE ReadStates(c)
    BY <1>2 DEF ReadStates
  <1>3. CASE Validate(c)
    BY <1>3 DEF Validate
  <1>4. CASE BackupFile(c)
    BY <1>4 DEF BackupFile
  <1>5. CASE Revalidate(c)
    BY <1>5 DEF Revalidate
  <1>6. CASE Rename(c)
    <2>1. \/ UNCHANGED <<store, history>>
          \/ /\ Put(c, at[c], c)
             /\ touched' = [SeenByOthers(c, at[c]) EXCEPT ![c] = {}]
      BY <1>6 DEF Rename, RenameFails
    <2>2. CASE touched' = [SeenByOthers(c, at[c]) EXCEPT ![c] = {}]
      <3>1. touched'[d] = touched[d] \cup {at[c]}
        BY <2>2 DEF SeenByOthers
      <3> QED
        BY <2>1, <3>1 DEF Put
    <2> QED
      BY <2>1, <2>2
  <1>7. CASE Check(c)
    BY <1>7 DEF Check, Verified
  <1>8. CASE Verify(c)
    BY <1>8 DEF Verify, Verified
  <1>9. CASE Prune(c)
    BY <1>9 DEF Prune
  <1>10. CASE Save(c)
    BY <1>10 DEF Save
  <1>11. CASE Restore(c)
    BY <1>11 DEF Restore, Put, SeenByOthers, Fault
  <1> QED
    BY <1>1, <1>2, <1>3, <1>4, <1>5, <1>6, <1>7, <1>8, <1>9, <1>10, <1>11 DEF Commit

\* A step of c changes the place and outcome of c alone.
LEMMA OthersStay ==
  ASSUME IInv, NEW c \in Commits, Commit(c), NEW d \in Commits \ {c}
  PROVE  /\ pc'[d] = pc[d] /\ at'[d] = at[d] /\ outcome'[d] = outcome[d]
         /\ attempted'[d] = attempted[d] /\ undone'[d] = undone[d] /\ before'[d] = before[d]
  <1> USE DEF IInv, Typed, Goto, store, plan, result, counts, history
  <1>1. CASE Read(c)
    BY <1>1 DEF Read, NextFile
  <1>2. CASE ReadStates(c)
    BY <1>2 DEF ReadStates
  <1>3. CASE Validate(c)
    BY <1>3 DEF Validate, NextFile, Refuse, Fault
  <1>4. CASE BackupFile(c)
    BY <1>4 DEF BackupFile, NextFile, Refuse, Fault
  <1>5. CASE Revalidate(c)
    BY <1>5 DEF Revalidate, Fail, Fault
  <1>6. CASE Rename(c)
    BY <1>6 DEF Rename, RenameFails, Fail, Fault
  <1>7. CASE Check(c)
    BY <1>7 DEF Check, Verified, Fail, Fault
  <1>8. CASE Verify(c)
    BY <1>8 DEF Verify, Verified, NextFile, Fail, Fault
  <1>9. CASE Prune(c)
    BY <1>9 DEF Prune, Fault
  <1>10. CASE Save(c)
    BY <1>10 DEF Save, Fault
  <1>11. CASE Restore(c)
    BY <1>11 DEF Restore, Fault
  <1> QED
    BY <1>1, <1>2, <1>3, <1>4, <1>5, <1>6, <1>7, <1>8, <1>9, <1>10, <1>11 DEF Commit

LEMMA InitTogether == Init => TogetherInv
  BY DEF Init, TogetherInv

LEMMA StepTogether == IInv /\ TogetherInv /\ [Next]_vars => TogetherInv'
  <1> SUFFICES ASSUME IInv, TogetherInv, [Next]_vars PROVE TogetherInv'
    OBVIOUS
  <1> DEFINE Own(c) ==
        /\ pc[c] = "verify" => \A f \in Files : f < at[c] => Held(c, f)
        /\ pc[c] = "prune" \/ outcome[c] = "ok" => \A f \in Files : Held(c, f)
  <1>1. ASSUME NEW c \in Commits, Commit(c) PROVE TogetherInv'
    <2>1. \A d \in Commits \ {c} : Own(d)'
      BY <1>1, HeldByOthers, OthersStay DEF TogetherInv
    <2> USE DEF IInv, Typed, store, plan, result, counts, history
    <2>2. Own(c)'
      <3>0. outcome[c] = "none" \/ pc[c] \in {"save", "rollback", "done", "crashed"}
        BY DEF Progress
      <3>1. CASE Read(c)
        BY <3>0, <3>1 DEF Read, NextFile, Goto
      <3>2. CASE ReadStates(c)
        BY <3>0, <3>2 DEF ReadStates, Goto
      <3>3. CASE Validate(c)
        BY <3>0, <3>3 DEF Validate, NextFile, Refuse, Goto
      <3>4. CASE BackupFile(c)
        BY <3>0, <3>4 DEF BackupFile, NextFile, Refuse, Goto
      <3>5. CASE Revalidate(c)
        BY <3>0, <3>5 DEF Revalidate, Fail, Goto
      <3>6. CASE Rename(c)
        BY <3>0, <3>6 DEF Rename, RenameFails, Fail, Goto
      <3>7. CASE Check(c)
        <4>1. \A f \in Files : ~(f < 1)
          BY DEF Files
        <4> QED
          BY <3>0, <3>7, <4>1 DEF Check, Verified, Fail, Goto
      <3>8. CASE Verify(c)
        <4>1. \A f \in Files : Held(c, f)' <=> Held(c, f)
          BY <3>8 DEF Verify, Verified, Held
        <4>2. CASE disk[at[c]] = c /\ NextFile(c, "prune") /\ UNCHANGED outcome
          <5>1. \A f \in Files : f <= at[c] => Held(c, f)
            BY <3>8, <4>2 DEF Verify, TogetherInv, Held, Files
          <5>2. \/ pc'[c] = "verify" /\ at'[c] = at[c] + 1
                \/ pc'[c] = "prune" /\ at[c] = NumFiles
            BY <3>8, <4>2, NextFileMoves DEF Verify, ControlType, Labels, Late
          <5>3. \A f \in Files : f <= NumFiles /\ (f < at[c] + 1 => f <= at[c])
            BY ToolCommitAssumption DEF Files
          <5>4. outcome[c] = "none"
            BY <3>0, <3>8 DEF Verify
          <5> QED
            BY <4>1, <4>2, <5>1, <5>2, <5>3, <5>4
        <4>3. ASSUME NEW why \in {"mismatch", "failed"}, Fail(c, why, attempted[c])
              PROVE  Own(c)'
          BY <4>3 DEF Fail, Goto
        <4> QED
          BY <3>8, <4>2, <4>3 DEF Verify, Verified
      <3>9. CASE Prune(c)
        BY <3>9 DEF Prune, Goto, TogetherInv, Held
      <3>10. CASE Save(c)
        BY <3>10 DEF Save, Goto, TogetherInv, Held
      <3>11. CASE Restore(c)
        BY <3>11 DEF Restore, Goto, Progress, Failing
      <3> QED
        BY <1>1, <3>1, <3>2, <3>3, <3>4, <3>5, <3>6, <3>7, <3>8, <3>9, <3>10, <3>11 DEF Commit
    <2> QED
      BY <2>1, <2>2 DEF TogetherInv
  <1>2. ASSUME NEW f \in Files, Edit(f) PROVE TogetherInv'
    BY <1>2 DEF Edit, result, TogetherInv, Held, IInv, Typed
  <1>3. CASE Crash
    BY <1>3 DEF Crash, store, result, history, TogetherInv, Held, IInv, Typed
  <1>4. CASE UNCHANGED vars
    BY <1>4 DEF vars, store, result, history, TogetherInv, Held
  <1> QED
    BY <1>1, <1>2, <1>3, <1>4 DEF Next, Finished

(* A commit that succeeds had all its files in place together.             *)
THEOREM Together == Spec => []AllTogether
  <1>1. TogetherInv => AllTogether
    BY DEF TogetherInv, AllTogether, Held
  <1> QED
    BY InitIInv, StepIInv, InitTogether, StepTogether, <1>1, PTL DEF Spec
---------------------------------------------------------------------------
(* FailureLeavesNothing.  What a commit wrote lies in the files it has     *)
(* still to restore, or another commit has put it back.                    *)

PutBack(c, f) == \E d \in Commits \ {c} : before[d][f] = c /\ Failing(d)

FailureInv == \A c \in Commits : \A f \in Files :
  /\ disk[f] = c => f <= attempted[c]
  /\ \A d \in Commits : before[d][f] = c => d # c /\ f <= attempted[c]
  /\ pc[c] \in {"rollback", "done"} /\ Failing(c) /\ undone[c] /\ disk[f] = c =>
       (pc[c] = "rollback" /\ f <= at[c]) \/ PutBack(c, f)

LEMMA DiskStep ==
  ASSUME IInv, NEW c \in Commits, Commit(c), NEW f \in Files
  PROVE  \/ disk'[f] = disk[f]
         \/ pc[c] = "rename" /\ f = at[c] /\ disk'[f] = c /\ attempted'[c] = f
         \/ Restore(c) /\ f = at[c] /\ disk'[f] = before[c][f]
  <1> USE DEF IInv, Typed, store, plan, result, counts, history
  <1>1. CASE Read(c)
    BY <1>1 DEF Read
  <1>2. CASE ReadStates(c)
    BY <1>2 DEF ReadStates
  <1>3. CASE Validate(c)
    BY <1>3 DEF Validate
  <1>4. CASE BackupFile(c)
    BY <1>4 DEF BackupFile
  <1>5. CASE Revalidate(c)
    BY <1>5 DEF Revalidate
  <1>6. CASE Rename(c)
    BY <1>6 DEF Rename, RenameFails, Put
  <1>7. CASE Check(c)
    BY <1>7 DEF Check, Verified
  <1>8. CASE Verify(c)
    BY <1>8 DEF Verify, Verified
  <1>9. CASE Prune(c)
    BY <1>9 DEF Prune
  <1>10. CASE Save(c)
    BY <1>10 DEF Save
  <1>11. CASE Restore(c)
    BY <1>11 DEF Restore, Put
  <1> QED
    BY <1>1, <1>2, <1>3, <1>4, <1>5, <1>6, <1>7, <1>8, <1>9, <1>10, <1>11 DEF Commit

LEMMA PlanStep ==
  ASSUME IInv, NEW c \in Commits, Commit(c), NEW f \in Files
  PROVE  before'[c][f] = before[c][f] \/ (pc[c] = "plan" /\ before'[c][f] = disk[f])
  <1> USE DEF IInv, Typed, store, plan, result, counts, history
  <1>1. CASE Read(c)
    BY <1>1 DEF Read
  <1>2. CASE ReadStates(c)
    BY <1>2 DEF ReadStates
  <1>3. CASE Validate(c)
    BY <1>3 DEF Validate
  <1>4. CASE BackupFile(c)
    BY <1>4 DEF BackupFile
  <1>5. CASE Revalidate(c)
    BY <1>5 DEF Revalidate
  <1>6. CASE Rename(c)
    BY <1>6 DEF Rename
  <1>7. CASE Check(c)
    BY <1>7 DEF Check, Verified
  <1>8. CASE Verify(c)
    BY <1>8 DEF Verify, Verified
  <1>9. CASE Prune(c)
    BY <1>9 DEF Prune
  <1>10. CASE Save(c)
    BY <1>10 DEF Save
  <1>11. CASE Restore(c)
    BY <1>11 DEF Restore
  <1> QED
    BY <1>1, <1>2, <1>3, <1>4, <1>5, <1>6, <1>7, <1>8, <1>9, <1>10, <1>11 DEF Commit

LEMMA OwnStep ==
  ASSUME IInv, NEW c \in Commits, Commit(c)
  PROVE  /\ attempted[c] <= attempted'[c]
         /\ Failing(c) => Failing(c)'
  <1>0. attempted[c] \in Nat
    BY DEF IInv, Typed
  <1> USE ToolCommitAssumption DEF IInv, Typed, Progress, Failing, Early, Files, store, plan, result, counts, history
  <1>1. CASE Read(c)
    BY <1>1 DEF Read
  <1>2. CASE ReadStates(c)
    BY <1>2 DEF ReadStates
  <1>3. CASE Validate(c)
    BY <1>3 DEF Validate, Refuse
  <1>4. CASE BackupFile(c)
    <2>1. UNCHANGED attempted /\ outcome[c] = "none"
      BY <1>4 DEF BackupFile, Refuse
    <2> QED
      BY <1>0, <2>1
  <1>5. CASE Revalidate(c)
    BY <1>5 DEF Revalidate, Fail
  <1>6. CASE Rename(c)
    BY <1>6 DEF Rename, RenameFails, Fail
  <1>7. CASE Check(c)
    BY <1>7 DEF Check, Verified, Fail
  <1>8. CASE Verify(c)
    BY <1>8 DEF Verify, Verified, Fail
  <1>9. CASE Prune(c)
    <2>1. UNCHANGED attempted /\ outcome[c] = "none"
      BY <1>9 DEF Prune
    <2> QED
      BY <1>0, <2>1
  <1>10. CASE Save(c)
    BY <1>10 DEF Save
  <1>11. CASE Restore(c)
    BY <1>11 DEF Restore
  <1> QED
    BY <1>1, <1>2, <1>3, <1>4, <1>5, <1>6, <1>7, <1>8, <1>9, <1>10, <1>11 DEF Commit

\* How a commit comes to fail, or goes on failing.
LEMMA FailStep ==
  ASSUME IInv, NEW c \in Commits, Commit(c), pc'[c] \in {"rollback", "done"}, Failing(c)'
  PROVE  \/ attempted'[c] = 0
         \/ pc'[c] = "rollback" /\ at'[c] = attempted'[c]
         \/ Restore(c)
  <1> USE DEF IInv, Typed, Progress, Failing, Early, Goto, store, plan, result, counts, history
  <1>1. CASE Read(c)
    BY <1>1 DEF Read, NextFile
  <1>2. CASE ReadStates(c)
    BY <1>2 DEF ReadStates
  <1>3. CASE Validate(c)
    BY <1>3 DEF Validate, NextFile, Refuse
  <1>4. CASE BackupFile(c)
    BY <1>4 DEF BackupFile, NextFile, Refuse
  <1>5. CASE Revalidate(c)
    BY <1>5 DEF Revalidate, Fail
  <1>6. CASE Rename(c)
    BY <1>6 DEF Rename, RenameFails, Fail
  <1>7. CASE Check(c)
    BY <1>7 DEF Check, Verified, Fail
  <1>8. CASE Verify(c)
    BY <1>8 DEF Verify, Verified, NextFile, Fail
  <1>9. CASE Prune(c)
    BY <1>9 DEF Prune
  <1>10. CASE Save(c)
    BY <1>10 DEF Save
  <1>11. CASE Restore(c)
    BY <1>11 DEF Restore
  <1> QED
    BY <1>1, <1>2, <1>3, <1>4, <1>5, <1>6, <1>7, <1>8, <1>9, <1>10, <1>11 DEF Commit

LEMMA InitFailure == Init => FailureInv
  BY ToolCommitAssumption DEF Init, FailureInv, Failing

LEMMA CommitFailure ==
  ASSUME IInv, FailureInv, NEW c \in Commits, Commit(c)
  PROVE  FailureInv'
  <1>0. \A d \in Commits : attempted[d] \in Nat /\ attempted'[d] \in Nat /\ Progress(d)
    BY StepIInv DEF IInv, Typed, Next
  <1>f. \A f \in Files : f \in Nat /\ f > 0
    BY DEF Files
  <1>1. \A d \in Commits : attempted[d] <= attempted'[d] /\ (Failing(d) => Failing(d)')
    BY <1>0, OwnStep, OthersStay DEF Failing
  <1>2. ASSUME NEW e \in Commits, NEW f \in Files, disk'[f] = e
        PROVE  f <= attempted'[e]
    <2>1. CASE disk[f] = e
      BY <1>0, <1>f, <1>1, <2>1 DEF FailureInv
    <2>2. CASE disk'[f] = c /\ attempted'[c] = f
      BY <1>2, <1>f, <2>2
    <2>3. CASE before[c][f] = e
      BY <1>0, <1>f, <1>1, <2>3 DEF FailureInv
    <2> QED
      BY <1>2, <2>1, <2>2, <2>3, DiskStep
  <1>3. ASSUME NEW e \in Commits, NEW f \in Files, NEW d \in Commits, before'[d][f] = e
        PROVE  d # e /\ f <= attempted'[e]
    <2>1. CASE before[d][f] = e
      BY <1>0, <1>f, <1>1, <2>1 DEF FailureInv
    <2>2. CASE d = c /\ pc[c] = "plan" /\ disk[f] = e
      <3>1. attempted[c] = 0 /\ f <= attempted[e]
        BY <1>0, <2>2 DEF Progress, Early, FailureInv
      <3> QED
        BY <1>0, <1>f, <1>1, <2>2, <3>1
    <2> QED
      BY <1>3, <2>1, <2>2, PlanStep, OthersStay
  <1>4. ASSUME NEW e \in Commits, NEW f \in Files, PutBack(e, f) PROVE PutBack(e, f)'
    <2>1. PICK d \in Commits \ {e} : before[d][f] = e /\ Failing(d)
      BY <1>4 DEF PutBack
    <2>2. pc[d] # "plan"
      BY <1>0, <2>1 DEF Progress, Failing
    <2>3. before'[d][f] = e
      BY <2>1, <2>2, PlanStep, OthersStay
    <2> QED
      BY <1>1, <2>1, <2>3 DEF PutBack
  <1>5. ASSUME NEW e \in Commits, NEW f \in Files,
               pc'[e] \in {"rollback", "done"}, Failing(e)', undone'[e], disk'[f] = e
        PROVE  (pc'[e] = "rollback" /\ f <= at'[e]) \/ PutBack(e, f)'
    <2>1. CASE e # c
      <3>1. CASE disk[f] = e
        BY <1>4, <1>5, <2>1, <3>1, OthersStay DEF FailureInv, Failing
      <3>2. CASE Restore(c) /\ before[c][f] = e
        <4>1. PutBack(e, f)
          BY <1>0, <2>1, <3>2 DEF Restore, Progress, PutBack
        <4> QED
          BY <1>4, <4>1
      <3> QED
        BY <1>5, <2>1, <3>1, <3>2, DiskStep
    <2>2. CASE e = c
      <3>1. CASE attempted'[c] = 0
        BY <1>2, <1>5, <1>f, <2>2, <3>1
      <3>2. CASE pc'[c] = "rollback" /\ at'[c] = attempted'[c]
        BY <1>2, <1>5, <2>2, <3>2
      <3>3. CASE Restore(c)
        <4>1. before[c][at[c]] # c /\ at[c] \in Files /\ at[c] \in Nat
          BY <1>f DEF FailureInv, IInv, Typed
        <4>2. f # at[c] /\ disk[f] = c /\ undone[c]
          BY <1>5, <2>2, <3>3, <4>1 DEF Restore, Put, store, IInv, Typed
        <4>3. \/ at[c] = 1 /\ pc'[c] = "done"
              \/ at[c] # 1 /\ pc'[c] = "rollback" /\ at'[c] = at[c] - 1
          BY <3>3 DEF Restore, Goto, IInv, Typed
        <4>4. f <= at[c] \/ PutBack(c, f)
          BY <1>0, <3>3, <4>2 DEF FailureInv, Restore, Progress
        <4> QED
          BY <1>4, <1>f, <2>2, <4>1, <4>2, <4>3, <4>4
      <3> QED
        BY <1>5, <2>2, <3>1, <3>2, <3>3, FailStep
    <2> QED
      BY <2>1, <2>2
  <1> QED
    BY <1>2, <1>3, <1>5 DEF FailureInv

LEMMA StepFailure == IInv /\ FailureInv /\ [Next]_vars => FailureInv'
  <1> SUFFICES ASSUME IInv, FailureInv, [Next]_vars PROVE FailureInv'
    OBVIOUS
  <1> USE DEF FailureInv, PutBack, Failing, store, plan, result
  <1>1. ASSUME NEW f \in Files, Edit(f) PROVE FailureInv'
    <2>1. \A g \in Files : disk'[g] = disk[g] \/ disk'[g] \notin Commits
      BY <1>1, ToolCommitAssumption DEF Edit, IInv, Typed
    <2> QED
      BY <1>1, <2>1 DEF Edit
  <1>2. CASE Crash
    BY <1>2 DEF Crash, IInv, Typed
  <1>3. CASE UNCHANGED vars
    BY <1>3 DEF vars
  <1> QED
    BY <1>1, <1>2, <1>3, CommitFailure DEF Next, Finished

(* After "rollback completed" nothing of the failed commit is left, except *)
(* what another failing commit had planned over and put back.              *)
THEOREM CleanFailure == Spec => []FailureLeavesNothing
  <1>1. IInv /\ FailureInv => FailureLeavesNothing
    BY DEF FailureInv, FailureLeavesNothing, PutBack
  <1> QED
    BY InitIInv, StepIInv, InitFailure, StepFailure, <1>1, PTL DEF Spec
---------------------------------------------------------------------------
(* OriginalsKept.  Whose backups lie beside a file, and in which order.    *)

\* c has backed up file f; c may not lose it; c has it; others have begun to
\* plan, each of which may leave one backup.
Made(c, f) == pc[c] \notin {"plan", "states", "validate"} /\ (pc[c] = "backup" => f < at[c])
Needs(c, f) ==
  \/ pc[c] \in {"write", "rename", "check", "verify", "prune", "save", "rollback"}
  \/ pc[c] = "backup" /\ f < at[c]
  \/ attempted[c] > 0
Holds(c, f) == \E i \in 1 .. Len(backups[f]) : backups[f][i].by = c
Rivals(c) == {d \in Commits \ {c} : Begun(d)}

\* A commit makes one backup of a file, of what it planned on; older ones come first.
Sound(bs, f) ==
  /\ bs \in Seq(Backup)
  /\ \A i, j \in 1 .. Len(bs) : bs[i].by = bs[j].by => i = j
  /\ \A i \in 1 .. Len(bs) :
       /\ bs[i].by = Older => i = 1
       /\ bs[i].by # Older => Made(bs[i].by, f) /\ bs[i].content = before[bs[i].by][f]

BackupInv ==
  /\ backups \in [Files -> Seq(Backup)] /\ \A f \in Files : Sound(backups[f], f)
  /\ \A c \in Commits, f \in Files : Needs(c, f) /\ before[c][f] # NoFile =>
       Holds(c, f) \/ Cardinality(Rivals(c)) >= KeepBackups

\* What is left of bs when some are taken out.
Thinned(r, bs) ==
  \E g \in [1 .. Len(r) -> 1 .. Len(bs)] :
    /\ \A i, j \in 1 .. Len(r) : i < j => g[i] < g[j]
    /\ \A i \in 1 .. Len(r) : r[i] = bs[g[i]]

LEMMA TakenOut ==
  ASSUME NEW S, NEW bs \in Seq(S), NEW k \in 1 .. Len(bs)
  PROVE  /\ RemoveAt(bs, k) \in Seq(S) /\ Len(RemoveAt(bs, k)) = Len(bs) - 1
         /\ \A i \in 1 .. Len(bs) - 1 : RemoveAt(bs, k)[i] = IF i < k THEN bs[i] ELSE bs[i + 1]
  <1>1. Len(bs) \in Nat /\ k \in Nat /\ k >= 1 /\ k <= Len(bs) /\ \A i \in 1 .. Len(bs) : bs[i] \in S
    OBVIOUS
  <1>2. PICK u, v : u = SubSeq(bs, 1, k - 1) /\ v = SubSeq(bs, k + 1, Len(bs))
    OBVIOUS
  <1>3. /\ u \in Seq(S) /\ Len(u) = k - 1 /\ \A i \in 1 .. k - 1 : u[i] = bs[i]
    <2>1. 1 \in Int /\ k - 1 \in Int /\ \A i \in 1 .. k - 1 : bs[i] \in S
      BY <1>1
    <2>2. /\ SubSeq(bs, 1, k - 1) \in Seq(S)
          /\ Len(SubSeq(bs, 1, k - 1)) = IF 1 <= k - 1 THEN k - 1 - 1 + 1 ELSE 0
          /\ \A i \in 1 .. k - 1 - 1 + 1 : SubSeq(bs, 1, k - 1)[i] = bs[1 + i - 1]
      BY <2>1, SubSeqProperties
    <2>3. k - 1 - 1 + 1 = k - 1 /\ \A i \in 1 .. k - 1 : 1 + i - 1 = i
      BY <1>1
    <2>4. (IF 1 <= k - 1 THEN k - 1 ELSE 0) = k - 1
      BY <1>1
    <2> QED
      BY <1>2, <2>2, <2>3, <2>4
  <1>4. /\ v \in Seq(S) /\ Len(v) = Len(bs) - k
        /\ \A i \in 1 .. Len(bs) - k : v[i] = bs[k + i]
    <2>1. k + 1 \in Int /\ Len(bs) \in Int /\ \A i \in k + 1 .. Len(bs) : bs[i] \in S
      BY <1>1
    <2>2. /\ SubSeq(bs, k + 1, Len(bs)) \in Seq(S)
          /\ Len(SubSeq(bs, k + 1, Len(bs)))
               = IF k + 1 <= Len(bs) THEN Len(bs) - (k + 1) + 1 ELSE 0
          /\ \A i \in 1 .. Len(bs) - (k + 1) + 1 : SubSeq(bs, k + 1, Len(bs))[i] = bs[k + 1 + i - 1]
      BY <2>1, SubSeqProperties
    <2>3. Len(bs) - (k + 1) + 1 = Len(bs) - k /\ \A i \in 1 .. Len(bs) - k : k + 1 + i - 1 = k + i
      BY <1>1
    <2>4. (IF k + 1 <= Len(bs) THEN Len(bs) - k ELSE 0) = Len(bs) - k
      BY <1>1
    <2> QED
      BY <1>2, <2>2, <2>3, <2>4
  <1>5. RemoveAt(bs, k) = u \o v
    BY <1>2 DEF RemoveAt
  <1>6. /\ u \o v \in Seq(S) /\ Len(u \o v) = Len(u) + Len(v)
        /\ \A i \in 1 .. Len(u) + Len(v) : (u \o v)[i] = IF i <= Len(u) THEN u[i] ELSE v[i - Len(u)]
    BY <1>3, <1>4, ConcatProperties
  <1>7. Len(u) + Len(v) = Len(bs) - 1
    BY <1>1, <1>3, <1>4
  <1>8. ASSUME NEW i \in 1 .. Len(bs) - 1
        PROVE  (u \o v)[i] = IF i < k THEN bs[i] ELSE bs[i + 1]
    <2>1. CASE i < k
      BY <1>1, <1>3, <1>6, <1>7, <2>1
    <2>2. CASE ~(i < k)
      <3>1. ~(i <= Len(u)) /\ i - Len(u) = i - (k - 1) /\ i - (k - 1) \in 1 .. Len(bs) - k
        BY <1>1, <1>3, <2>2
      <3>2. k + (i - (k - 1)) = i + 1
        BY <1>1
      <3> QED
        BY <1>4, <1>6, <1>7, <2>2, <3>1, <3>2
    <2> QED
      BY <2>1, <2>2
  <1> QED
    BY <1>5, <1>6, <1>7, <1>8

\* Removing c's backup leaves those of the others.
LEMMA Removed ==
  ASSUME NEW bs \in Seq(Backup), NEW c
  PROVE  LET r == RemoveBackups(bs, c) IN
         /\ r \in Seq(Backup) /\ Thinned(r, bs)
         /\ \A i \in 1 .. Len(bs) : bs[i].by # c => \E j \in 1 .. Len(r) : r[j] = bs[i]
  <1> DEFINE made == {i \in DOMAIN bs : bs[i].by = c}
             r == RemoveBackups(bs, c)
  <1>1. Len(bs) \in Nat /\ DOMAIN bs = 1 .. Len(bs)
    OBVIOUS
  <1>2. CASE made = {}
    <2>1. r = bs
      BY <1>2 DEF RemoveBackups
    <2>2. PICK g : g = [i \in 1 .. Len(bs) |-> i]
      OBVIOUS
    <2>3. Thinned(bs, bs)
      BY <2>2 DEF Thinned
    <2> QED
      BY <2>1, <2>3
  <1>3. CASE made # {}
    <2>1. PICK k : k \in made /\ r = RemoveAt(bs, k)
      BY <1>3 DEF RemoveBackups
    <2>2. k \in 1 .. Len(bs) /\ bs[k].by = c
      BY <1>1, <2>1
    <2>3. /\ r \in Seq(Backup) /\ Len(r) = Len(bs) - 1
          /\ \A i \in 1 .. Len(bs) - 1 : r[i] = IF i < k THEN bs[i] ELSE bs[i + 1]
      BY <2>1, <2>2, TakenOut
    <2> HIDE DEF r, made
    <2>4. PICK g : g = [i \in 1 .. Len(r) |-> IF i < k THEN i ELSE i + 1]
      OBVIOUS
    <2>5. g \in [1 .. Len(r) -> 1 .. Len(bs)]
      BY <1>1, <2>2, <2>3, <2>4
    <2>6. /\ \A i, j \in 1 .. Len(r) : i < j => g[i] < g[j]
          /\ \A i \in 1 .. Len(r) : r[i] = bs[g[i]]
      BY <1>1, <2>2, <2>3, <2>4
    <2>7. Thinned(r, bs)
      BY <2>5, <2>6 DEF Thinned
    <2>8. ASSUME NEW i \in 1 .. Len(bs), bs[i].by # c
          PROVE  \E j \in 1 .. Len(r) : r[j] = bs[i]
      <3>1. CASE i < k
        <4>1. i \in 1 .. Len(bs) - 1
          BY <1>1, <2>2, <3>1
        <4> QED
          BY <2>3, <3>1, <4>1
      <3>2. CASE i > k
        <4>1. i - 1 \in 1 .. Len(bs) - 1 /\ ~(i - 1 < k) /\ (i - 1) + 1 = i
          BY <1>1, <2>2, <3>2
        <4> QED
          BY <2>3, <4>1
      <3> QED
        BY <2>2, <2>8, <3>1, <3>2
    <2> QED
      BY <2>3, <2>7, <2>8 DEF r
  <1> QED
    BY <1>2, <1>3

\* Pruning keeps the newest.
LEMMA Newest ==
  ASSUME NEW bs \in Seq(Backup)
  PROVE  /\ Pruned(bs) \in Seq(Backup) /\ Thinned(Pruned(bs), bs)
         /\ \A i \in 1 .. Len(bs) :
              \/ \E j \in 1 .. Len(Pruned(bs)) : Pruned(bs)[j] = bs[i]
              \/ KeepBackups <= Len(bs) - i
  <1>1. Len(bs) \in Nat /\ KeepBackups \in Nat /\ KeepBackups >= 1
        /\ \A i \in 1 .. Len(bs) : bs[i] \in Backup
    BY ToolCommitAssumption
  <1>2. CASE Len(bs) <= KeepBackups
    <2>1. Pruned(bs) = bs
      BY <1>2 DEF Pruned
    <2>2. PICK g : g = [i \in 1 .. Len(bs) |-> i]
      OBVIOUS
    <2>3. Thinned(bs, bs)
      BY <2>2 DEF Thinned
    <2> QED
      BY <2>1, <2>3
  <1>3. CASE ~(Len(bs) <= KeepBackups)
    <2>1. PICK r, n : r = Pruned(bs) /\ n = Len(bs) - KeepBackups
      OBVIOUS
    <2>2. n \in Nat /\ n + 1 \in Int /\ Len(bs) \in Int /\ \A i \in n + 1 .. Len(bs) : bs[i] \in Backup
      BY <1>1, <1>3, <2>1
    <2>3. r = SubSeq(bs, n + 1, Len(bs))
      BY <1>3, <2>1 DEF Pruned
    <2>4. /\ r \in Seq(Backup)
          /\ Len(r) = IF n + 1 <= Len(bs) THEN Len(bs) - (n + 1) + 1 ELSE 0
          /\ \A i \in 1 .. Len(bs) - (n + 1) + 1 : r[i] = bs[n + 1 + i - 1]
      BY <2>2, <2>3, SubSeqProperties
    <2>5. n + 1 <= Len(bs) /\ Len(bs) - (n + 1) + 1 = KeepBackups
      BY <1>1, <1>3, <2>1
    <2>6. Len(r) = KeepBackups
      BY <2>4, <2>5
    <2>7. \A i \in 1 .. KeepBackups : r[i] = bs[n + i]
      <3>1. \A i \in 1 .. KeepBackups : n + 1 + i - 1 = n + i
        BY <2>2
      <3> QED
        BY <2>4, <2>5, <3>1
    <2>8. PICK g : g = [i \in 1 .. Len(r) |-> n + i]
      OBVIOUS
    <2>9. /\ g \in [1 .. Len(r) -> 1 .. Len(bs)]
          /\ \A i, j \in 1 .. Len(r) : i < j => g[i] < g[j]
      BY <1>1, <2>1, <2>2, <2>6, <2>8
    <2>10. \A i \in 1 .. Len(r) : r[i] = bs[g[i]]
      BY <2>6, <2>7, <2>8
    <2>11. Thinned(r, bs)
      BY <2>9, <2>10 DEF Thinned
    <2>12. ASSUME NEW i \in 1 .. Len(bs), ~(KeepBackups <= Len(bs) - i)
           PROVE  \E j \in 1 .. Len(r) : r[j] = bs[i]
      <3>1. i - n \in 1 .. KeepBackups /\ n + (i - n) = i
        BY <1>1, <2>1, <2>2, <2>12
      <3> QED
        BY <2>6, <2>7, <3>1
    <2> QED
      BY <2>1, <2>4, <2>11, <2>12
  <1> QED
    BY <1>2, <1>3

LEMMA SoundThinned ==
  ASSUME NEW f, NEW bs, NEW r \in Seq(Backup), Sound(bs, f), Thinned(r, bs)
  PROVE  Sound(r, f)
  <1>1. PICK g \in [1 .. Len(r) -> 1 .. Len(bs)] :
          /\ \A i, j \in 1 .. Len(r) : i < j => g[i] < g[j]
          /\ \A i \in 1 .. Len(r) : r[i] = bs[g[i]]
    BY DEF Thinned
  <1>2. Len(r) \in Nat /\ Len(bs) \in Nat /\ \A i \in 1 .. Len(r) : g[i] \in 1 .. Len(bs)
    BY <1>1 DEF Sound
  <1>3. ASSUME NEW i \in 1 .. Len(r), NEW j \in 1 .. Len(r), r[i].by = r[j].by
        PROVE  i = j
    <2>1. g[i] = g[j]
      <3>1. \A x, y \in 1 .. Len(bs) : bs[x].by = bs[y].by => x = y
        BY DEF Sound
      <3>2. bs[g[i]].by = bs[g[j]].by
        BY <1>1, <1>3
      <3> QED
        BY <1>2, <3>1, <3>2
    <2>2. ~(g[i] < g[j]) /\ ~(g[j] < g[i])
      BY <1>2, <2>1
    <2> QED
      BY <1>1, <1>2, <2>2
  <1>4. ASSUME NEW i \in 1 .. Len(r), r[i].by = Older
        PROVE  i = 1
    <2>1. g[i] = 1
      BY <1>1, <1>2, <1>4 DEF Sound
    <2>2. CASE i # 1
      <3>1. 1 \in 1 .. Len(r) /\ 1 < i
        BY <1>2, <2>2
      <3>2. g[1] < g[i] /\ g[1] \in 1 .. Len(bs)
        BY <1>1, <1>2, <3>1
      <3> QED
        BY <1>2, <2>1, <3>2
    <2> QED
      BY <2>2
  <1> QED
    BY <1>1, <1>2, <1>3, <1>4 DEF Sound

\* What was begun stays begun, what was backed up stays so, and nothing of a plan
\* changes after that.
LEMMA PlanStays ==
  ASSUME IInv, [Next]_vars, NEW d \in Commits, NEW f \in Files
  PROVE  /\ Begun(d) => Begun(d)'
         /\ Made(d, f) => Made(d, f)' /\ before'[d][f] = before[d][f]
         /\ Needs(d, f)' => Needs(d, f) \/ (BackupFile(d) /\ f = at[d] /\ Made(d, f)')
         /\ Needs(d, f) => Made(d, f)
         /\ Made(d, f) => Begun(d)
  <1> USE DEF IInv, Typed, store, plan, result, counts, history
  <1>0. pc[d] \in Labels /\ at[d] \in Files /\ f \in Nat /\ at[d] \in Nat /\ attempted[d] \in Nat
    <2>1. pc[d] \in Labels /\ at[d] \in Files /\ attempted[d] \in 0 .. NumFiles
      OBVIOUS
    <2>2. f \in Nat /\ at[d] \in Nat /\ attempted[d] \in Nat
      BY <2>1, NumFilesNat DEF Files
    <2> QED
      BY <2>1, <2>2
  <1>a. Needs(d, f) => Made(d, f)
    BY DEF Needs, Made, Progress, Early
  <1>b. Made(d, f) => Begun(d)
    BY DEF Made, Begun
  <1>1. ASSUME NEW c \in Commits, Commit(c)
        PROVE  /\ Begun(d) => Begun(d)'
               /\ Made(d, f) => Made(d, f)' /\ before'[d][f] = before[d][f]
               /\ Needs(d, f)' => Needs(d, f) \/ (BackupFile(d) /\ f = at[d] /\ Made(d, f)')
    <2>1. CASE d # c
      BY <1>1, <2>1, OthersStay DEF Begun, Made, Needs
    <2>2. CASE d = c
      <3>0. at[d] + 1 # 1 /\ \A k \in Files : k < at[d] + 1 => k < at[d] \/ k = at[d]
        <4>1. at[d] \in Nat /\ at[d] # 0 /\ \A k \in Files : k \in Nat
          BY <1>0 DEF Files
        <4>2. \A n \in Nat : (n # 0 => n + 1 # 1) /\ \A k \in Nat : k < n + 1 => k < n \/ k = n
          OBVIOUS
        <4> QED
          BY <4>1, <4>2
      <3>f. f <= NumFiles
        BY DEF Files
      <3> USE DEF ControlType
      <3>1. CASE Read(d)
        <4>1. attempted'[d] = 0 /\ ~Made(d, f)
          BY <3>1 DEF Read, Made, Progress, Early
        <4>2. \/ pc'[d] = pc[d] /\ at'[d] = at[d] + 1
              \/ pc'[d] = "states"
          BY <3>1, NextFileMoves DEF Read, Labels, Early
        <4> QED
          BY <3>0, <3>1, <4>1, <4>2 DEF Read, Begun, Needs
      <3>2. CASE ReadStates(d)
        BY <3>2 DEF ReadStates, Goto, Begun, Made, Needs, Progress, Early
      <3>3. CASE Validate(d)
        <4>1. /\ pc[d] = "validate" /\ attempted'[d] = 0 /\ before' = before
              /\ ~Made(d, f) /\ Begun(d)
          BY <3>3 DEF Validate, Refuse, Made, Begun, Progress, Early
        <4>2. \/ pc'[d] = "validate"
              \/ pc'[d] = "backup" /\ at'[d] = 1
              \/ pc'[d] = "done"
          BY <3>3, NextFileMoves DEF Validate, Refuse, Goto, Labels, Early
        <4>3. ~(f < 1)
          BY <1>0 DEF Files
        <4> QED
          BY <4>1, <4>2, <4>3 DEF Begun, Needs
      <3>4. CASE BackupFile(d)
        <4>1. pc[d] = "backup" /\ attempted'[d] = 0 /\ before' = before
          BY <3>4 DEF BackupFile, Refuse, Progress, Early
        <4>2. \/ pc'[d] = "backup" /\ at'[d] = at[d] + 1
              \/ pc'[d] = "write" /\ at[d] = NumFiles
              \/ pc'[d] = "done"
          BY <3>4, NextFileMoves DEF BackupFile, Refuse, Goto, Labels, Late
        <4>3. f < at[d] => f < at[d] + 1
          BY <1>0
        <4>4. f < at[d] + 1 => f < at[d] \/ f = at[d]
          BY <3>0
        <4>5. NumFiles \in Nat /\ (at[d] = NumFiles => f < at[d] \/ f = at[d])
          BY <1>0, <3>f, ToolCommitAssumption
        <4>6. Made(d, f) => Made(d, f)'
          BY <4>1, <4>2, <4>3 DEF Made
        <4>7. f = at[d] /\ Needs(d, f)' => Made(d, f)'
          BY <4>1, <4>2 DEF Made, Needs
        <4>8. Needs(d, f)' => Needs(d, f) \/ f = at[d]
          BY <4>1, <4>2, <4>4, <4>5 DEF Needs
        <4> QED
          BY <3>4, <4>1, <4>2, <4>6, <4>7, <4>8 DEF Begun
      <3>5. CASE Revalidate(d)
        BY <3>5 DEF Revalidate, Fail, Goto, Begun, Made, Needs
      <3>6. CASE Rename(d)
        BY <3>6 DEF Rename, RenameFails, Fail, Goto, Begun, Made, Needs
      <3>7. CASE Check(d)
        BY <3>7 DEF Check, Verified, Fail, Goto, Begun, Made, Needs
      <3>8. CASE Verify(d)
        BY <3>8 DEF Verify, Verified, NextFile, Fail, Goto, Begun, Made, Needs
      <3>9. CASE Prune(d)
        BY <3>9 DEF Prune, Goto, Begun, Made, Needs
      <3>10. CASE Save(d)
        BY <3>10 DEF Save, Goto, Begun, Made, Needs
      <3>11. CASE Restore(d)
        BY <3>11 DEF Restore, Goto, Begun, Made, Needs
      <3> QED
        BY <1>1, <2>2, <3>1, <3>2, <3>3, <3>4, <3>5, <3>6, <3>7, <3>8, <3>9, <3>10, <3>11 DEF Commit
    <2> QED
      BY <2>1, <2>2
  <1>2. ASSUME NEW g \in Files, Edit(g)
        PROVE  UNCHANGED <<pc, at, before, attempted>>
    BY <1>2 DEF Edit
  <1>5. ASSUME UNCHANGED <<pc, at, before, attempted>>
        PROVE  /\ Begun(d) => Begun(d)'
               /\ Made(d, f) => Made(d, f)' /\ before'[d][f] = before[d][f]
               /\ Needs(d, f)' => Needs(d, f)
    BY <1>5 DEF Begun, Made, Needs
  <1>3. ASSUME Crash
        PROVE  /\ Begun(d) => Begun(d)'
               /\ Made(d, f) => Made(d, f)' /\ before'[d][f] = before[d][f]
               /\ Needs(d, f)' => Needs(d, f)
    <2>1. /\ pc'[d] = pc[d] \/ pc'[d] = "crashed"
          /\ at' = at /\ before' = before /\ attempted' = attempted
      BY <1>3 DEF Crash
    <2>2. Begun(d) => Begun(d)'
      BY <2>1 DEF Begun
    <2>3. Made(d, f) => Made(d, f)'
      BY <2>1 DEF Made
    <2>4. Needs(d, f)' => Needs(d, f)
      BY <2>1 DEF Needs
    <2> QED
      BY <2>1, <2>2, <2>3, <2>4
  <1>4. CASE UNCHANGED vars
    <2>1. UNCHANGED <<pc, at, before, attempted>>
      BY <1>4 DEF vars
    <2> QED
      BY <1>a, <1>b, <1>5, <2>1
  <1> QED
    BY <1>a, <1>b, <1>1, <1>2, <1>3, <1>4, <1>5 DEF Next, Finished

\* What a step does to the backups of a file.
LEMMA BackupsStep ==
  ASSUME IInv, BackupInv, [Next]_vars, NEW f \in Files
  PROVE  \/ backups'[f] = backups[f] /\ \A c \in Commits : Needs(c, f)' => Needs(c, f)
         \/ backups'[f] = backups[f] /\ \E c \in Commits :
              /\ before[c][f] = NoFile /\ before'[c][f] = NoFile
              /\ \A d \in Commits \ {c} : Needs(d, f)' => Needs(d, f)
         \/ \E c \in Commits :
              /\ ~Made(c, f) /\ Made(c, f)' /\ before'[c][f] = before[c][f]
              /\ backups'[f] = Append(backups[f], [by |-> c, content |-> before[c][f]])
              /\ \A d \in Commits \ {c} : Needs(d, f)' => Needs(d, f)
         \/ \E c \in Commits :
              /\ backups'[f] = RemoveBackups(backups[f], c) /\ ~Needs(c, f)'
              /\ \A d \in Commits \ {c} : Needs(d, f)' => Needs(d, f)
         \/ /\ backups'[f] = Pruned(backups[f])
            /\ \A c \in Commits : Needs(c, f)' => Needs(c, f)
  <1>1. \A c \in Commits : Needs(c, f)' => Needs(c, f) \/ (BackupFile(c) /\ f = at[c] /\ Made(c, f)')
    BY PlanStays
  <1>2. backups \in [Files -> Seq(Backup)]
    BY DEF BackupInv
  <1>3. CASE \A c \in Commits : ~BackupFile(c)
    <2>1. \A c \in Commits : Needs(c, f)' => Needs(c, f)
      BY <1>1, <1>3
    <2>2. backups' = backups \/ backups' = [g \in Files |-> Pruned(backups[g])]
      <3> USE DEF store
      <3>1. ASSUME NEW c \in Commits, Commit(c)
            PROVE  backups' = backups \/ backups' = [g \in Files |-> Pruned(backups[g])]
        BY <1>3, <3>1 DEF Commit, Read, ReadStates, Validate, Revalidate, Rename, RenameFails,
           Put, Check, Verify, Verified, Prune, Save, Restore
      <3>2. ASSUME NEW g \in Files, Edit(g) PROVE backups' = backups
        BY <3>2 DEF Edit
      <3>3. CASE Crash
        BY <3>3 DEF Crash
      <3>4. CASE UNCHANGED vars
        BY <3>4 DEF vars
      <3> QED
        BY <3>1, <3>2, <3>3, <3>4 DEF Next, Finished
    <2> QED
      BY <2>1, <2>2
  <1>4. ASSUME NEW c \in Commits, BackupFile(c)
        PROVE  \/ backups'[f] = backups[f] /\ \A d \in Commits : Needs(d, f)' => Needs(d, f)
               \/ /\ backups'[f] = backups[f] /\ before[c][f] = NoFile /\ before'[c][f] = NoFile
                  /\ \A d \in Commits \ {c} : Needs(d, f)' => Needs(d, f)
               \/ /\ ~Made(c, f) /\ Made(c, f)' /\ before'[c][f] = before[c][f]
                  /\ backups'[f] = Append(backups[f], [by |-> c, content |-> before[c][f]])
                  /\ \A d \in Commits \ {c} : Needs(d, f)' => Needs(d, f)
               \/ /\ backups'[f] = RemoveBackups(backups[f], c) /\ ~Needs(c, f)'
                  /\ \A d \in Commits \ {c} : Needs(d, f)' => Needs(d, f)
    <2>1. \A d \in Commits \ {c} : Needs(d, f)' => Needs(d, f)
      <3>1. Commit(c)
        BY <1>4 DEF Commit
      <3> QED
        BY <3>1, OthersStay DEF Needs
    <2>2. pc[c] = "backup" /\ before' = before /\ attempted[c] = 0 /\ ControlType
      BY <1>4 DEF BackupFile, plan, IInv, Typed, ControlType, Progress, Early
    <2> DEFINE Done == /\ backups' = IF before[c][at[c]] = NoFile THEN backups ELSE
                            [backups EXCEPT ![at[c]] =
                               Append(@, [by |-> c, content |-> before[c][at[c]]])]
                       /\ NextFile(c, "write")
    <2>3. \/ Done
          \/ backups' = [g \in Files |-> RemoveBackups(backups[g], c)] /\ Refuse(c, "failed")
      BY <1>4 DEF BackupFile
    <2>4. CASE f # at[c] /\ Done
      <3>1. backups'[f] = backups[f]
        BY <1>2, <2>4
      <3> QED
        BY <1>1, <2>1, <2>4, <3>1
    <2>5. CASE f = at[c] /\ before[c][f] = NoFile /\ Done
      <3>1. backups' = backups
        BY <2>5
      <3> QED
        BY <2>1, <2>2, <2>5, <3>1
    <2>6. CASE f = at[c] /\ before[c][f] # NoFile /\ Done
      <3>1. backups'[f] = Append(backups[f], [by |-> c, content |-> before[c][f]])
        BY <1>2, <2>6
      <3>2. ~Made(c, f)
        BY <2>2, <2>6 DEF Made, Files
      <3>3. Made(c, f)'
        <4>1. \/ pc'[c] = "backup" /\ at'[c] = at[c] + 1
              \/ pc'[c] = "write"
          BY <2>2, <2>6, NextFileMoves DEF Labels, Late
        <4>2. f < at[c] + 1
          BY <2>6 DEF Files
        <4> QED
          BY <4>1, <4>2 DEF Made
      <3> QED
        BY <2>1, <2>2, <3>1, <3>2, <3>3
    <2>7. CASE /\ backups' = [g \in Files |-> RemoveBackups(backups[g], c)]
               /\ Refuse(c, "failed")
      <3>1. pc'[c] = "done" /\ attempted'[c] = 0
        BY <2>2, <2>7 DEF Refuse, Goto, ControlType
      <3> QED
        BY <2>1, <2>7, <3>1 DEF Needs
    <2> QED
      BY <2>3, <2>4, <2>5, <2>6, <2>7
  <1> QED
    BY <1>3, <1>4

LEMMA SoundStays ==
  ASSUME IInv, [Next]_vars, NEW f \in Files, NEW bs, Sound(bs, f)
  PROVE  Sound(bs, f)'
  <1>1. \A d \in Commits : Made(d, f) => Made(d, f)' /\ before'[d][f] = before[d][f]
    BY PlanStays
  <1>2. bs \in Seq(Backup) /\ \A i, j \in 1 .. Len(bs) : bs[i].by = bs[j].by => i = j
    BY DEF Sound
  <1>3. ASSUME NEW i \in 1 .. Len(bs)
        PROVE  /\ bs[i].by = Older => i = 1
               /\ bs[i].by # Older =>
                    Made(bs[i].by, f)' /\ bs[i].content = before'[bs[i].by][f]
    <2>1. bs[i] \in Backup
      BY <1>2
    <2>2. bs[i].by \in Commits \/ bs[i].by = Older
      BY <2>1 DEF Backup
    <2> QED
      BY <1>1, <2>2 DEF Sound
  <1> QED
    BY <1>2, <1>3 DEF Sound

LEMMA SoundAppended ==
  ASSUME NEW f \in Files, NEW bs, Sound(bs, f)', NEW c \in Commits, NEW x \in Content,
         Made(c, f)', before'[c][f] = x, \A i \in 1 .. Len(bs) : bs[i].by # c
  PROVE  Sound(Append(bs, [by |-> c, content |-> x]), f)'
  <1>1. PICK b : b = [by |-> c, content |-> x]
    OBVIOUS
  <1>2. b \in Backup /\ b.by = c /\ b.content = x /\ c # Older
    BY <1>1, ToolCommitAssumption DEF Backup
  <1>3. bs \in Seq(Backup) /\ Len(bs) \in Nat
    BY DEF Sound
  <1>4. PICK r : r = Append(bs, b)
    OBVIOUS
  <1>5. /\ r \in Seq(Backup) /\ Len(r) = Len(bs) + 1
        /\ \A i \in 1 .. Len(bs) : r[i] = bs[i]
        /\ r[Len(bs) + 1] = b
    BY <1>2, <1>3, <1>4, AppendProperties
  <1>6. \A i \in 1 .. Len(r) : i \in 1 .. Len(bs) \/ i = Len(bs) + 1
    BY <1>3, <1>5
  <1>7. ASSUME NEW i \in 1 .. Len(r), NEW j \in 1 .. Len(r), r[i].by = r[j].by
        PROVE  i = j
    <2>1. \A k, l \in 1 .. Len(bs) : bs[k].by = bs[l].by => k = l
      BY DEF Sound
    <2> QED
      BY <1>2, <1>5, <1>6, <1>7, <2>1
  <1>8. ASSUME NEW i \in 1 .. Len(r)
        PROVE  /\ r[i].by = Older => i = 1
               /\ r[i].by # Older => Made(r[i].by, f)' /\ r[i].content = before'[r[i].by][f]
    <2>1. CASE i \in 1 .. Len(bs)
      BY <1>5, <2>1 DEF Sound
    <2>2. CASE i = Len(bs) + 1
      BY <1>2, <1>5, <2>2
    <2> QED
      BY <1>6, <2>1, <2>2
  <1>9. Sound(r, f)'
    BY <1>5, <1>7, <1>8 DEF Sound
  <1> QED
    BY <1>1, <1>4, <1>9

\* Each backup that is younger than c's is a rival's.
LEMMA Crowded ==
  ASSUME NEW f \in Files, NEW bs, Sound(bs, f), NEW c \in Commits, NEW i \in 1 .. Len(bs),
         bs[i].by = c, KeepBackups <= Len(bs) - i
  PROVE  Cardinality(Rivals(c)) >= KeepBackups
  <1> DEFINE younger == (i + 1) .. Len(bs)
  <1>1. bs \in Seq(Backup) /\ Len(bs) \in Nat /\ i \in Nat /\ i >= 1 /\ i <= Len(bs)
    BY DEF Sound
  <1>2. Cardinality(younger) = Len(bs) - i
    <2>1. i + 1 \in Int /\ Len(bs) \in Int
      BY <1>1
    <2>2. Cardinality(younger) = IF i + 1 > Len(bs) THEN 0 ELSE Len(bs) - (i + 1) + 1
      BY <2>1, FS_Interval
    <2> QED
      BY <1>1, <2>2
  <1>3. ASSUME NEW k \in younger
        PROVE  bs[k].by \in Rivals(c)
    <2>1. k \in 1 .. Len(bs) /\ k # 1 /\ k # i
      BY <1>1
    <2>2. bs[k] \in Backup
      BY <1>1, <2>1
    <2>3. bs[k].by # Older /\ bs[k].by # c
      BY <2>1 DEF Sound
    <2>4. bs[k].by \in Commits
      BY <2>2, <2>3 DEF Backup
    <2>5. Made(bs[k].by, f)
      BY <2>1, <2>3 DEF Sound
    <2> QED
      BY <2>3, <2>4, <2>5 DEF Rivals, Made, Begun
  <1>4. PICK g : g = [k \in younger |-> bs[k].by]
    OBVIOUS
  <1>5. g \in Injection(younger, Rivals(c))
    <2>1. g \in [younger -> Rivals(c)]
      BY <1>3, <1>4
    <2>2. \A k, l \in younger : k \in 1 .. Len(bs) /\ l \in 1 .. Len(bs)
      BY <1>1
    <2>3. \A k, l \in younger : g[k] = g[l] => k = l
      BY <1>4, <2>2 DEF Sound
    <2> QED
      BY <2>1, <2>3 DEF Injection, IsInjective
  <1>6. IsFiniteSet(Rivals(c)) /\ Cardinality(Rivals(c)) \in Nat
    <2>1. Rivals(c) \in SUBSET Commits /\ IsFiniteSet(Commits)
      BY ToolCommitAssumption DEF Rivals
    <2>2. IsFiniteSet(Rivals(c))
      BY <2>1, FS_Subset
    <2> QED
      BY <2>2, FS_CardinalityType
  <1>7. Cardinality(younger) <= Cardinality(Rivals(c))
    BY <1>5, <1>6, FS_Injection
  <1>8. KeepBackups \in Nat
    BY ToolCommitAssumption
  <1> QED
    BY <1>1, <1>2, <1>6, <1>7, <1>8

LEMMA RivalsStay ==
  ASSUME IInv, [Next]_vars, NEW c \in Commits
  PROVE  Cardinality(Rivals(c)) >= KeepBackups => Cardinality(Rivals(c))' >= KeepBackups
  <1>1. \A d \in Commits : Begun(d) => Begun(d)'
    BY PlanStays, FilesAreNat
  <1>2. PICK r, s : r = Rivals(c) /\ s = Rivals(c)'
    OBVIOUS
  <1>3. r \in SUBSET s /\ s \in SUBSET Commits
    BY <1>1, <1>2 DEF Rivals
  <1>4. IsFiniteSet(s)
    BY <1>3, FS_Subset, ToolCommitAssumption
  <1>5. Cardinality(r) <= Cardinality(s) /\ IsFiniteSet(r)
    BY <1>3, <1>4, FS_Subset
  <1>6. Cardinality(r) \in Nat /\ Cardinality(s) \in Nat
    BY <1>4, <1>5, FS_CardinalityType
  <1>7. KeepBackups \in Nat
    BY ToolCommitAssumption
  <1>8. Cardinality(r) >= KeepBackups => Cardinality(s) >= KeepBackups
    BY <1>5, <1>6, <1>7
  <1> QED
    BY <1>2, <1>8

LEMMA InitBackups == Init => BackupInv
  <1> SUFFICES ASSUME Init PROVE BackupInv
    OBVIOUS
  <1>1. PICK bs : bs = <<[by |-> Older, content |-> Older]>>
    OBVIOUS
  <1>2. /\ bs \in Seq(Backup) /\ Len(bs) = 1
        /\ \A i \in 1 .. Len(bs) : i = 1 /\ bs[i].by = Older
    BY <1>1 DEF Backup
  <1>3. \A f \in Files : backups[f] = bs
    BY <1>1 DEF Init
  <1>4. \A f \in Files : Sound(bs, f)
    BY <1>2 DEF Sound
  <1>5. \A c \in Commits, f \in Files : ~Needs(c, f)
    BY DEF Init, Needs
  <1>6. backups \in [Files -> Seq(Backup)]
    BY <1>1, <1>2 DEF Init
  <1> QED
    BY <1>3, <1>4, <1>5, <1>6 DEF BackupInv

LEMMA StepBackups == IInv /\ BackupInv /\ [Next]_vars => BackupInv'
  <1> SUFFICES ASSUME IInv, BackupInv, [Next]_vars PROVE BackupInv'
    OBVIOUS
  <1>t. \A c \in Commits, f \in Files : before[c][f] \in Content /\ before'[c][f] \in Content
    BY StepIInv DEF IInv, Typed
  <1>1. ASSUME NEW f \in Files
        PROVE  /\ Sound(backups[f], f)'
               /\ \A c \in Commits : Needs(c, f)' /\ before'[c][f] # NoFile =>
                    Holds(c, f)' \/ Cardinality(Rivals(c))' >= KeepBackups
    <2>1. PICK bs, r : bs = backups[f] /\ r = backups'[f]
      OBVIOUS
    <2>2. Sound(bs, f) /\ Sound(bs, f)'
      BY <2>1, SoundStays DEF BackupInv
    <2>3. bs \in Seq(Backup) /\ Len(bs) \in Nat
      BY <2>2 DEF Sound
    <2> DEFINE Kept(c) == \A i \in 1 .. Len(bs) : bs[i].by = c =>
                            \/ \E j \in 1 .. Len(r) : r[j].by = c
                            \/ KeepBackups <= Len(bs) - i
    <2>4. ASSUME NEW c \in Commits, Needs(c, f), Kept(c), before'[c][f] # NoFile
          PROVE  Holds(c, f)' \/ Cardinality(Rivals(c))' >= KeepBackups
      <3>1. before[c][f] # NoFile
        BY <2>4, PlanStays
      <3>2. CASE Cardinality(Rivals(c)) >= KeepBackups
        BY <3>2, RivalsStay
      <3>3. CASE Holds(c, f)
        <4>1. PICK i \in 1 .. Len(bs) : bs[i].by = c
          BY <2>1, <3>3 DEF Holds
        <4>2. CASE KeepBackups <= Len(bs) - i
          BY <2>2, <4>1, <4>2, Crowded, RivalsStay
        <4>3. CASE \E j \in 1 .. Len(r) : r[j].by = c
          BY <2>1, <4>3 DEF Holds
        <4> QED
          BY <2>4, <4>1, <4>2, <4>3
      <3> QED
        BY <2>4, <3>1, <3>2, <3>3 DEF BackupInv
    <2>5. ASSUME r = bs,
                 \A c \in Commits : Needs(c, f)' /\ before'[c][f] # NoFile => Needs(c, f)
          PROVE  /\ Sound(r, f)'
                 /\ \A c \in Commits : Needs(c, f)' /\ before'[c][f] # NoFile =>
                      Holds(c, f)' \/ Cardinality(Rivals(c))' >= KeepBackups
      <3>1. \A c \in Commits : Kept(c)
        BY <2>5
      <3> QED
        BY <2>2, <2>4, <2>5, <3>1
    <2>6. ASSUME NEW c \in Commits,
                 ~Made(c, f), Made(c, f)', before'[c][f] = before[c][f],
                 r = Append(bs, [by |-> c, content |-> before[c][f]]),
                 \A d \in Commits \ {c} : Needs(d, f)' => Needs(d, f)
          PROVE  /\ Sound(r, f)'
                 /\ \A d \in Commits : Needs(d, f)' /\ before'[d][f] # NoFile =>
                      Holds(d, f)' \/ Cardinality(Rivals(d))' >= KeepBackups
      <3>1. \A i \in 1 .. Len(bs) : bs[i].by # c
        <4>1. c # Older
          BY ToolCommitAssumption
        <4> QED
          BY <2>2, <2>6, <4>1 DEF Sound
      <3>2. PICK x : x = before[c][f] /\ x \in Content
        BY <1>t
      <3>3. Sound(Append(bs, [by |-> c, content |-> x]), f)'
        BY <2>2, <2>6, <3>1, <3>2, SoundAppended
      <3>4. [by |-> c, content |-> x] \in Backup
        BY <3>2 DEF Backup
      <3>5. /\ Len(r) = Len(bs) + 1 /\ \A i \in 1 .. Len(bs) : r[i] = bs[i]
            /\ r[Len(bs) + 1] = [by |-> c, content |-> x]
        BY <2>3, <2>6, <3>2, <3>4, AppendProperties
      <3>6. Holds(c, f)'
        <4>1. Len(bs) + 1 \in 1 .. Len(r) /\ r[Len(bs) + 1].by = c
          BY <2>3, <3>5
        <4> QED
          BY <2>1, <4>1 DEF Holds
      <3>7. \A d \in Commits : Kept(d)
        <4>1. \A i \in 1 .. Len(bs) : i \in 1 .. Len(r)
          BY <2>3, <3>5
        <4> QED
          BY <3>5, <4>1
      <3> QED
        BY <2>4, <2>6, <3>2, <3>3, <3>6, <3>7
    <2>7. ASSUME NEW c \in Commits, r = RemoveBackups(bs, c), ~Needs(c, f)',
                 \A d \in Commits \ {c} : Needs(d, f)' => Needs(d, f)
          PROVE  /\ Sound(r, f)'
                 /\ \A d \in Commits : Needs(d, f)' /\ before'[d][f] # NoFile =>
                      Holds(d, f)' \/ Cardinality(Rivals(d))' >= KeepBackups
      <3>1. /\ r \in Seq(Backup) /\ Thinned(r, bs)
            /\ \A i \in 1 .. Len(bs) : bs[i].by # c => \E j \in 1 .. Len(r) : r[j] = bs[i]
        BY <2>3, <2>7, Removed
      <3>2. Sound(r, f)'
        BY <2>2, <3>1, SoundThinned, SoundStays
      <3>3. \A d \in Commits \ {c} : Kept(d)
        BY <3>1
      <3> QED
        BY <2>4, <2>7, <3>2, <3>3
    <2>8. ASSUME r = Pruned(bs), \A c \in Commits : Needs(c, f)' => Needs(c, f)
          PROVE  /\ Sound(r, f)'
                 /\ \A c \in Commits : Needs(c, f)' /\ before'[c][f] # NoFile =>
                      Holds(c, f)' \/ Cardinality(Rivals(c))' >= KeepBackups
      <3>1. /\ r \in Seq(Backup) /\ Thinned(r, bs)
            /\ \A i \in 1 .. Len(bs) :
                 (\E j \in 1 .. Len(r) : r[j] = bs[i]) \/ KeepBackups <= Len(bs) - i
        BY <2>3, <2>8, Newest
      <3>2. Sound(r, f)'
        BY <2>2, <3>1, SoundThinned, SoundStays
      <3>3. \A c \in Commits : Kept(c)
        BY <3>1
      <3> QED
        BY <2>4, <2>8, <3>2, <3>3
    <2> HIDE DEF Kept
    <2> QED
      BY <2>1, <2>5, <2>6, <2>7, <2>8, BackupsStep
  <1>2. backups' \in [Files -> Seq(Backup)]
    <2>1. backups' = [f \in Files |-> backups'[f]]
      <3> USE DEF store
      <3>0. backups = [f \in Files |-> backups[f]]
        BY DEF BackupInv
      <3>1. ASSUME NEW c \in Commits, Commit(c)
            PROVE  \/ backups' = backups \/ backups' = [f \in Files |-> Pruned(backups[f])]
                   \/ BackupFile(c)
        BY <3>1 DEF Commit, Read, ReadStates, Validate, Revalidate, Rename, RenameFails,
           Put, Check, Verify, Verified, Prune, Save, Restore
      <3>2. ASSUME NEW c \in Commits, BackupFile(c)
            PROVE  backups' = [f \in Files |-> backups'[f]]
        <4>1. \/ backups' = backups
              \/ \E b : backups' = [backups EXCEPT ![at[c]] = b]
              \/ backups' = [f \in Files |-> RemoveBackups(backups[f], c)]
          BY <3>2 DEF BackupFile
        <4> QED
          BY <3>0, <4>1
      <3>3. ASSUME NEW g \in Files, Edit(g) PROVE backups' = backups
        BY <3>3 DEF Edit
      <3>4. CASE Crash
        BY <3>0, <3>4 DEF Crash
      <3>5. CASE UNCHANGED vars
        BY <3>0, <3>5 DEF vars
      <3> QED
        BY <3>0, <3>1, <3>2, <3>3, <3>4, <3>5 DEF Next, Finished
    <2>2. \A f \in Files : backups'[f] \in Seq(Backup)
      BY <1>1 DEF Sound
    <2> QED
      BY <2>1, <2>2
  <1> QED
    BY <1>1, <1>2 DEF BackupInv

(* What a commit replaced lies in a backup beside the file, in every state *)
(* and whatever failed, unless at least KeepBackups other commits have     *)
(* begun: each of them may have left a younger backup.                     *)
THEOREM BackedUp ==
  Spec => [](\A c \in Commits : \A f \in 1 .. attempted[c] : before[c][f] # NoFile =>
               \/ \E b \in ToSet(backups[f]) : b.content = before[c][f]
               \/ Cardinality(Rivals(c)) >= KeepBackups)
  <1> DEFINE Inv == \A c \in Commits : \A f \in 1 .. attempted[c] : before[c][f] # NoFile =>
                      \/ \E b \in ToSet(backups[f]) : b.content = before[c][f]
                      \/ Cardinality(Rivals(c)) >= KeepBackups
  <1>1. IInv /\ BackupInv => Inv
    <2> SUFFICES ASSUME IInv, BackupInv, NEW c \in Commits, NEW f \in 1 .. attempted[c],
                        before[c][f] # NoFile, ~(Cardinality(Rivals(c)) >= KeepBackups)
                 PROVE  \E b \in ToSet(backups[f]) : b.content = before[c][f]
      OBVIOUS
    <2>1. attempted[c] \in Nat /\ attempted[c] <= NumFiles /\ NumFiles \in Nat
      BY NumFilesNat DEF IInv, Typed
    <2>2. f \in Files /\ attempted[c] > 0
      BY <2>1 DEF Files
    <2>3. PICK i \in 1 .. Len(backups[f]) : backups[f][i].by = c
      BY <2>2 DEF BackupInv, Needs, Holds
    <2>4. backups[f] \in Seq(Backup) /\ c # Older
      BY <2>2, ToolCommitAssumption DEF BackupInv
    <2>5. backups[f][i].content = before[c][f]
      BY <2>2, <2>3, <2>4 DEF BackupInv, Sound
    <2>6. backups[f][i] \in ToSet(backups[f])
      BY <2>3, <2>4 DEF ToSet
    <2> QED
      BY <2>5, <2>6
  <1> QED
    BY InitIInv, StepIInv, InitBackups, StepBackups, <1>1, PTL DEF Spec

(* With no more commits than backups are kept, none is ever missing.       *)
THEOREM NoneMissing ==
  ASSUME Cardinality(Commits) <= KeepBackups
  PROVE  Spec => []OriginalsKept
  <1> DEFINE Inv == \A c \in Commits : \A f \in 1 .. attempted[c] : before[c][f] # NoFile =>
                      \/ \E b \in ToSet(backups[f]) : b.content = before[c][f]
                      \/ Cardinality(Rivals(c)) >= KeepBackups
  <1>1. ASSUME NEW c \in Commits
        PROVE  ~(Cardinality(Rivals(c)) >= KeepBackups)
    <2>1. IsFiniteSet(Commits) /\ KeepBackups \in Nat
      BY ToolCommitAssumption
    <2>2. /\ IsFiniteSet(Commits \ {c})
          /\ Cardinality(Commits \ {c}) = Cardinality(Commits) - 1
      BY <2>1, FS_RemoveElement
    <2>3. Rivals(c) \in SUBSET (Commits \ {c})
      BY DEF Rivals
    <2>4. IsFiniteSet(Rivals(c)) /\ Cardinality(Rivals(c)) <= Cardinality(Commits \ {c})
      BY <2>2, <2>3, FS_Subset
    <2>5. Cardinality(Rivals(c)) \in Nat /\ Cardinality(Commits) \in Nat
      BY <2>1, <2>4, FS_CardinalityType
    <2> QED
      BY <2>1, <2>2, <2>4, <2>5
  <1>2. Inv => OriginalsKept
    BY <1>1 DEF OriginalsKept
  <1> QED
    BY BackedUp, <1>2, PTL
---------------------------------------------------------------------------
(* TypeOK.  The backups are sound; the rest of the types.                  *)

RestTyped ==
  /\ theirs \in [Files -> Content]
  /\ edits \in Nat /\ faults \in Nat /\ crashes \in Nat

LEMMA StepRest == RestTyped /\ [Next]_vars => RestTyped'
  <1> SUFFICES ASSUME RestTyped, [Next]_vars PROVE RestTyped'
    OBVIOUS
  <1> USE DEF RestTyped, counts, history, Fault
  <1>1. ASSUME NEW c \in Commits, Commit(c) PROVE RestTyped'
    <2>1. theirs' = theirs
      BY <1>1 DEF Commit, Read, ReadStates, Validate, BackupFile, Revalidate, Rename, RenameFails,
         Put, Check, Verify, Verified, Prune, Save, Restore
    <2>2. UNCHANGED counts \/ Fault
      BY <1>1 DEF Commit, Read, ReadStates, Validate, BackupFile, Revalidate, Rename,
         Check, Verify, Verified, Prune, Save, Restore
    <2> QED
      BY <2>1, <2>2
  <1>2. ASSUME NEW f \in Files, Edit(f) PROVE RestTyped'
    BY <1>2 DEF Edit, Content
  <1>3. CASE Crash
    BY <1>3 DEF Crash
  <1>4. CASE UNCHANGED vars
    BY <1>4 DEF vars
  <1> QED
    BY <1>1, <1>2, <1>3, <1>4 DEF Next, Finished

(* The variables have their types.                                         *)
THEOREM ToolTyping == Spec => []TypeOK
  <1>1. Init => RestTyped
    BY DEF Init, RestTyped, Content
  <1>2. IInv /\ BackupInv /\ RestTyped => TypeOK
    BY DEF IInv, Typed, BackupInv, RestTyped, TypeOK, Labels, Early, Late, Recordable
  <1> QED
    BY InitIInv, StepIInv, InitBackups, StepBackups, StepRest, <1>1, <1>2, PTL DEF Spec
=============================================================================
