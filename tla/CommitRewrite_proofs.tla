-------------------------- MODULE CommitRewrite_proofs --------------------------
(***************************************************************************)
(* Proofs about CommitRewrite, for any repository, any number of requests  *)
(* and processes and any interference: type correctness, the inductive     *)
(* invariant, and the three safety properties that follow from it,         *)
(* NothingDropped, KeepsTips and AllOrNothing.  What a history is, is      *)
(* proved by least counterexample.                                         *)
(***************************************************************************)
EXTENDS CommitRewrite, SequenceTheorems, WellFoundedInduction, TLAPS

\* A planned order of existing commits is a sequence of commits.
LEMMA PlanType ==
  ASSUME NEW S \in SUBSET Commit, NEW p \in Plans(S)
  PROVE  p \in Seq(Commit)
<1>1. PICK n \in 1 .. MaxRewriteCommits : p \in [1 .. n -> S]
  BY DEF Plans
<1>2. n \in Nat /\ p \in [1 .. n -> Commit]
  BY <1>1, LimitIsPositive
<1> QED
  BY <1>2, SeqDef

\* Replacements and the user's commits are commits.
LEMMA MadeType ==
  /\ \A r \in Requests, k \in Nat : Replacement(r, k) \in Commit
  /\ \A k \in Nat : <<User, k>> \in Commit
BY DEF Replacement, Commit, Made

\* The new head of a request is one of its own replacements.
LEMMA NewHeadType ==
  ASSUME TypeOK, NEW r \in Requests
  PROVE  NewHead(r) \in Commit /\ NewHead(r) \in {r} \X Nat
<1>1. Len(stack[r].planned) \in Nat
  BY DEF TypeOK, Stacks
<1> QED
  BY <1>1 DEF NewHead, Replacement, Commit, Made

\* A worktree update leaves one of the two commits, what was there, or a mix.
LEMMA MergeType ==
  ASSUME NEW from, NEW to, NEW i \in TwoWayMerge(from, to)
  PROVE  i \in {to, index, Mixed}
BY DEF TwoWayMerge

\* HEAD names a commit.
LEMMA HeadCommitType == TypeOK => HeadCommit \in Commit
BY DEF TypeOK, HeadCommit

\* The stack of a request before it was reviewed, and after it answered.
LEMMA NoStackType == NoStack \in Stacks
BY EmptySeq DEF NoStack, Stacks

\* The type invariant holds initially.
LEMMA InitTypeOK == Init => TypeOK
<1> SUFFICES ASSUME Init PROVE TypeOK
  OBVIOUS
<1> USE DEF Init
<1>1. /\ refs \in [Branches -> Commit]
      /\ head \in Branches \cup Commit
      /\ index \in Commit \cup {Mixed}
  BY OriginIsClosed DEF Commit
<1>2. /\ DOMAIN parent \subseteq Commit
      /\ parent \in [DOMAIN parent -> Commit \cup {None}]
      /\ merges \subseteq Commit
  BY OriginIsClosed DEF Commit
<1>3. /\ rewriteMu \in [Instances -> Requests \cup {None}]
      /\ pc \in [Requests -> {"idle", "stack", "apply"} \cup Running \cup Ended]
      /\ stack \in [Requests -> Stacks]
      /\ built \in [Requests -> Nat]
  BY NoStackType
<1> QED
  BY <1>1, <1>2, <1>3 DEF TypeOK

\* Going to a label, returning and being disturbed keep the types.
LEMMA ControlTypes ==
  ASSUME TypeOK, NEW r \in Requests, NEW l \in Running \cup Ended
  PROVE  /\ Goto(r, l) => pc' \in [Requests -> {"idle", "stack", "apply"} \cup Running \cup Ended]
         /\ Forget({r}) => /\ stack' \in [Requests -> Stacks]
                           /\ cancelled' \subseteq Requests
                           /\ expired' \subseteq Requests
                           /\ halfway' \subseteq Requests
         /\ Return(r, l) => rewriteMu' \in [Instances -> Requests \cup {None}]
BY NoStackType DEF TypeOK, Goto, Forget, Return

\* What a call records of the worktree is one.
LEMMA WorktreeType == TypeOK => Worktree \in Worktrees
BY DEF TypeOK, Worktree, Worktrees

\* Disturbing keeps or drops what was found.
LEMMA DisturbType ==
  ASSUME TypeOK, NEW S \in SUBSET Requests, Disturb(S)
  PROVE  found' \in [Requests -> Worktrees \cup {None}]
BY DEF TypeOK, Disturb

LEMMA DisturbNoneType ==
  ASSUME TypeOK, DisturbNone
  PROVE  found' \in [Requests -> Worktrees \cup {None}]
BY DisturbType DEF DisturbNone

\* The history grows by commits.
LEMMA AddType ==
  ASSUME TypeOK, NEW c \in Commit, NEW p \in Commit \cup {None}, Add(c, p)
  PROVE  /\ DOMAIN parent' = DOMAIN parent \cup {c}
         /\ DOMAIN parent' \subseteq Commit
         /\ parent' \in [DOMAIN parent' -> Commit \cup {None}]
BY DEF TypeOK, Add

\* Every action keeps every variable in its range; a rolled back branch needs
\* NoDanglingNames.
LEMMA NextTypeOK == (TypeOK /\ NoDanglingNames) /\ [Next]_vars => TypeOK'
<1> SUFFICES ASSUME (TypeOK /\ NoDanglingNames), [Next]_vars PROVE TypeOK'
  OBVIOUS
<1> USE DEF TypeOK, Running, Early, Replaying, Critical, Ended
<1>1. ASSUME NEW r \in Requests, PrepareBranch(r) PROVE TypeOK'
  <2>1. stack' \in [Requests -> Stacks]
    BY <1>1, NoStackType DEF PrepareBranch, Stacks
  <2> QED
    BY <1>1, <2>1 DEF PrepareBranch, Goto, git
<1>2. ASSUME NEW r \in Requests, PrepareStack(r) PROVE TypeOK'
  <2>1. PICK start \in DOMAIN parent, planned \in Plans(DOMAIN parent), confirm \in BOOLEAN :
          stack' = [stack EXCEPT ![r] =
                      [branch |-> stack[r].branch, head |-> HeadCommit,
                       base |-> parent[start], planned |-> planned, confirm |-> confirm]]
    BY <1>2 DEF PrepareStack
  <2>2. planned \in Seq(Commit) /\ parent[start] \in Commit \cup {None}
    BY PlanType
  <2>3. [branch |-> stack[r].branch, head |-> HeadCommit, base |-> parent[start],
         planned |-> planned, confirm |-> confirm] \in Stacks
    BY <2>2, HeadCommitType DEF Stacks
  <2>4. stack' \in [Requests -> Stacks]
    BY <2>1, <2>3
  <2> QED
    BY <1>2, <2>4 DEF PrepareStack, Goto, git
<1>3. ASSUME NEW r \in Requests, BeginRewrite(r) PROVE TypeOK'
  <2>1. found' \in [Requests -> Worktrees \cup {None}]
    BY <1>3, WorktreeType DEF BeginRewrite
  <2> QED
    BY <1>3, <2>1, HomesAreInstances DEF BeginRewrite, Goto, git, calls
<1>4. ASSUME NEW r \in Requests, CheckBranch(r) PROVE TypeOK'
  BY <1>4, ControlTypes, DisturbNoneType DEF CheckBranch, Continue, Return, git, calls
<1>5. ASSUME NEW r \in Requests, CheckHead(r) PROVE TypeOK'
  BY <1>5, ControlTypes, DisturbNoneType DEF CheckHead, Continue, Return, git, calls
<1>6. ASSUME NEW r \in Requests, Validate(r) PROVE TypeOK'
  BY <1>6, ControlTypes, DisturbNoneType DEF Validate, Continue, Return, git, calls
<1>7. ASSUME NEW r \in Requests, FailEarly(r) PROVE TypeOK'
  BY <1>7, ControlTypes, DisturbNoneType DEF FailEarly, Continue, Return, git, calls
<1>8. ASSUME NEW r \in Requests, AddWorktree(r) PROVE TypeOK'
  BY <1>8, ControlTypes, DisturbNoneType DEF AddWorktree, Continue, Return, git, calls
<1>9. ASSUME NEW r \in Requests, LeakWorktree(r) PROVE TypeOK'
  BY <1>9, ControlTypes, DisturbNoneType DEF LeakWorktree, Continue, Return, git, calls
<1>10. ASSUME NEW r \in Requests, Replay(r) PROVE TypeOK'
  <2> DEFINE k == built[r] + 1
  <2>1. k \in Nat
    OBVIOUS
  <2>2. Replacement(r, k) \in Commit /\ Replacement(r, built[r]) \in Commit
    BY <2>1, MadeType
  <2>3. stack[r].base \in Commit \cup {None}
    BY DEF Stacks
  <2>4. Add(Replacement(r, k), IF k = 1 THEN stack[r].base ELSE Replacement(r, built[r]))
    BY <1>10 DEF Replay
  <2>5. DOMAIN parent' \subseteq Commit /\ parent' \in [DOMAIN parent' -> Commit \cup {None}]
    BY <2>2, <2>3, <2>4, AddType
  <2>6. built' = [built EXCEPT ![r] = k]
    BY <1>10 DEF Replay
  <2>7. built' \in [Requests -> Nat]
    BY <2>1, <2>6
  <2>8. pc' \in [Requests -> {"idle", "stack", "apply"} \cup Running \cup Ended]
    BY <1>10 DEF Replay, Continue, Goto
  <2> QED
    BY <1>10, <2>5, <2>7, <2>8, DisturbNoneType DEF Replay, Continue, calls
<1>11. ASSUME NEW r \in Requests, Seal(r) PROVE TypeOK'
  BY <1>11, ControlTypes, DisturbNoneType DEF Seal, Continue, Return, git, calls
<1>12. ASSUME NEW r \in Requests, FailReplay(r) PROVE TypeOK'
  BY <1>12, ControlTypes, DisturbNoneType DEF FailReplay, Continue, Return, git, calls
<1>13. ASSUME NEW r \in Requests, Abandon(r) PROVE TypeOK'
  BY <1>13, ControlTypes, DisturbNoneType DEF Abandon, Continue, Return, git, calls
<1>14. ASSUME NEW r \in Requests, DryRun(r) PROVE TypeOK'
  BY <1>14, ControlTypes, DisturbNoneType DEF DryRun, Continue, Return, git, calls
<1>15. ASSUME NEW r \in Requests, WriteBackup(r) PROVE TypeOK'
  <2>1. backups' \subseteq Commit \cup {None}
    BY <1>15 DEF WriteBackup, Stacks
  <2> QED
    BY <1>15, <2>1, ControlTypes, DisturbNoneType DEF WriteBackup, Continue, Return, calls
<1>16. ASSUME NEW r \in Requests, MoveBranch(r) PROVE TypeOK'
  <2>1. refs' \in [Branches -> Commit]
    BY <1>16, NewHeadType DEF MoveBranch
  <2>2. found' \in [Requests -> Worktrees \cup {None}]
    BY <1>16, DisturbType DEF MoveBranch
  <2> QED
    BY <1>16, <2>1, <2>2, ControlTypes, DisturbNoneType DEF MoveBranch, Continue, Return, calls
<1>17. ASSUME NEW r \in Requests, FailInstall(r) PROVE TypeOK'
  BY <1>17, ControlTypes, DisturbNoneType DEF FailInstall, Continue, Return, git, calls
<1>18. ASSUME NEW r \in Requests, InstallTree(r) PROVE TypeOK'
  <2>1. index' \in Commit \cup {Mixed}
    BY <1>18, NewHeadType, MergeType DEF InstallTree
  <2>2. found' \in [Requests -> Worktrees \cup {None}]
    BY <1>18, DisturbType DEF InstallTree
  <2> QED
    BY <1>18, <2>1, <2>2, ControlTypes, DisturbNoneType DEF InstallTree, Continue, calls
<1>19. ASSUME NEW r \in Requests, FailTree(r) PROVE TypeOK'
  <2>1. found' \in [Requests -> Worktrees \cup {None}]
    BY <1>19, DisturbType, DisturbNoneType DEF FailTree
  <2> QED
    BY <1>19, <2>1, ControlTypes DEF FailTree, StopsHalfway
<1>20. ASSUME NEW r \in Requests, RollbackRef(r) PROVE TypeOK'
  <2>1. stack[r].head \in Commit
    BY <1>20, NewHeadType DEF NoDanglingNames, RollbackRef
  <2>2. refs' \in [Branches -> Commit]
    BY <1>20, <2>1 DEF RollbackRef
  <2>3. found' \in [Requests -> Worktrees \cup {None}]
    BY <1>20, DisturbType DEF RollbackRef
  <2> QED
    BY <1>20, <2>2, <2>3, ControlTypes DEF RollbackRef, Continue, Return, calls
<1>21. ASSUME NEW r \in Requests, RollbackTree(r) PROVE TypeOK'
  <2>1. index' \in {stack[r].head, index, Mixed}
    BY <1>21, MergeType DEF RollbackTree
  <2>2. stack[r].head \in Commit
    BY <1>21 DEF NoDanglingNames, RollbackTree
  <2>3. found' \in [Requests -> Worktrees \cup {None}]
    BY <1>21, DisturbType DEF RollbackTree
  <2> QED
    BY <1>21, <2>1, <2>2, <2>3, ControlTypes, DisturbNoneType DEF RollbackTree, Return
<1>22. ASSUME NEW r \in Requests, FailRollback(r) PROVE TypeOK'
  <2>1. found' \in [Requests -> Worktrees \cup {None}]
    BY <1>22, DisturbType, DisturbNoneType DEF FailRollback
  <2> QED
    BY <1>22, <2>1, ControlTypes DEF FailRollback, StopsHalfway, Return
<1>23. ASSUME NEW r \in Requests, Verify(r) PROVE TypeOK'
  BY <1>23, ControlTypes, DisturbNoneType DEF Verify, Continue, Return, git, calls
<1>24. ASSUME NEW r \in Requests, Expire(r) PROVE TypeOK'
  BY <1>24 DEF Expire, git
<1>25. ASSUME NEW i \in Instances, Cancel(i) PROVE TypeOK'
  BY <1>25 DEF Cancel, git
<1>26. ASSUME NEW i \in Instances, Crash(i) PROVE TypeOK'
  <2>1. stack' \in [Requests -> Stacks]
    BY <1>26, NoStackType DEF Crash, Forget
  <2>2. pc' \in [Requests -> {"idle", "stack", "apply"} \cup Running \cup Ended]
    BY <1>26 DEF Crash
  <2> QED
    BY <1>26, <2>1, <2>2, DisturbNoneType DEF Crash, Forget, git
<1>27. ASSUME UserCommit PROVE TypeOK'
  <2>0. userSteps' \in Nat
    BY <1>27 DEF UserCommit, UserStep
  <2>1. found' \in [Requests -> Worktrees \cup {None}]
    BY <1>27, DisturbType DEF UserCommit, UserStep
  <2>2. <<User, userSteps>> \in Commit
    BY MadeType
  <2>3. DOMAIN parent' \subseteq Commit /\ parent' \in [DOMAIN parent' -> Commit \cup {None}]
    BY <1>27, <2>2, AddType, HeadCommitType DEF UserCommit
  <2>4. refs' \in [Branches -> Commit] /\ head' \in Branches \cup Commit
    BY <1>27, <2>2 DEF UserCommit
  <2>5. index' \in Commit \cup {Mixed} /\ merges' \subseteq Commit
    BY <1>27, <2>2 DEF UserCommit
  <2> QED
    BY <1>27, <2>0, <2>1, <2>3, <2>4, <2>5 DEF UserCommit, UserStep, calls
<1>28. ASSUME UserSwitch PROVE TypeOK'
  <2>0. userSteps' \in Nat
    BY <1>28 DEF UserSwitch, UserStep
  <2>1. found' \in [Requests -> Worktrees \cup {None}]
    BY <1>28, DisturbType DEF UserSwitch, UserStep
  <2>2. head' \in Branches \cup Commit
    BY <1>28, HeadCommitType DEF UserSwitch
  <2>3. index' \in Commit \cup {Mixed}
    BY <1>28 DEF UserSwitch
  <2> QED
    BY <1>28, <2>0, <2>1, <2>2, <2>3 DEF UserSwitch, UserStep, calls
<1>29. ASSUME UserMove PROVE TypeOK'
  <2>0. userSteps' \in Nat
    BY <1>29 DEF UserMove, UserStep
  <2>1. found' \in [Requests -> Worktrees \cup {None}]
    BY <1>29, DisturbType DEF UserMove, UserStep
  <2>2. refs' \in [Branches -> Commit]
    BY <1>29 DEF UserMove
  <2>3. index' \in Commit \cup {Mixed}
    BY <1>29 DEF UserMove
  <2> QED
    BY <1>29, <2>0, <2>1, <2>2, <2>3 DEF UserMove, UserStep, calls
<1>30. ASSUME UserEdit PROVE TypeOK'
  <2>0. userSteps' \in Nat
    BY <1>30 DEF UserEdit, UserStep
  <2>1. found' \in [Requests -> Worktrees \cup {None}]
    BY <1>30, DisturbType DEF UserEdit, UserStep
  <2> QED
    BY <1>30, <2>0, <2>1 DEF UserEdit, UserStep, calls
<1>31. ASSUME UNCHANGED vars PROVE TypeOK'
  BY <1>31 DEF vars, git, calls
<1> QED
  BY <1>1, <1>2, <1>3, <1>4, <1>5, <1>6, <1>7, <1>8, <1>9, <1>10, <1>11, <1>12, <1>13, <1>14,
     <1>15, <1>16, <1>17, <1>18, <1>19, <1>20, <1>21, <1>22, <1>23, <1>24, <1>25, <1>26, <1>27, <1>28,
     <1>29, <1>30, <1>31
     DEF Next, Review, RewriteStep, UserNext

\* A failed worktree update goes on to the rollback and has moved nothing.
LEMMA FailTreeGoes ==
  ASSUME NEW r \in Requests, FailTree(r)
  PROVE  /\ pc[r] = "install" /\ Goto(r, "undoRef")
         /\ UNCHANGED <<refs, head, index, backups, parent, merges, stack, built, rewriteMu,
                        userSteps>>
BY DEF FailTree

\* A request that goes on keeps rewriteMu, one that returns gives it up.
LEMMA LockFollows ==
  ASSUME TypeOK, OneRewritePerProcess, NEW r \in Requests, pc[r] \in Running, NEW l
  PROVE  /\ l \in Running /\ Continue(r, l) => OneRewritePerProcess'
         /\ l \in Ended /\ Return(r, l) => OneRewritePerProcess'
<1> USE HomesAreInstances, NamesAreNew DEF TypeOK, OneRewritePerProcess, Goto
<1>1. ASSUME l \in Running, Continue(r, l) PROVE OneRewritePerProcess'
  BY <1>1 DEF Continue
<1>2. Running \cap Ended = {}
  BY DEF Running, Early, Replaying, Critical, Ended
<1>3. ASSUME l \in Ended, Return(r, l) PROVE OneRewritePerProcess'
  BY <1>2, <1>3 DEF Return
<1> QED
  BY <1>1, <1>3

\* A process serves one rewrite at a time: the holder of rewriteMu.
LEMMA NextOneRewrite == TypeOK /\ OneRewritePerProcess /\ [Next]_vars => OneRewritePerProcess'
<1> SUFFICES ASSUME TypeOK /\ OneRewritePerProcess, [Next]_vars PROVE OneRewritePerProcess'
  OBVIOUS
<1> USE DEF Running, Early, Replaying, Critical, Ended
<1>1. ASSUME NEW r \in Requests, PrepareBranch(r) PROVE OneRewritePerProcess'
  BY <1>1 DEF PrepareBranch, OneRewritePerProcess, TypeOK, Goto, git
<1>2. ASSUME NEW r \in Requests, PrepareStack(r) PROVE OneRewritePerProcess'
  BY <1>2 DEF PrepareStack, OneRewritePerProcess, TypeOK, Goto, git
<1>3. ASSUME NEW r \in Requests, BeginRewrite(r) PROVE OneRewritePerProcess'
  <2>1. Home[r] \in Instances /\ rewriteMu'[Home[r]] = r /\ pc'[r] \in Running
    BY <1>3, HomesAreInstances DEF BeginRewrite, TypeOK, Goto
  <2>2. ASSUME NEW q \in Requests, q # r PROVE pc'[q] \in Running <=> rewriteMu'[Home[q]] = q
    <3>1. pc'[q] = pc[q] /\ (pc[q] \in Running <=> rewriteMu[Home[q]] = q)
      BY <1>3, <2>2 DEF BeginRewrite, TypeOK, Goto, OneRewritePerProcess
    <3>2. CASE Home[q] = Home[r]
      BY <1>3, <3>1, <3>2, <2>1, <2>2, NamesAreNew DEF BeginRewrite
    <3>3. CASE Home[q] # Home[r]
      BY <1>3, <3>1, <3>3, HomesAreInstances DEF BeginRewrite, TypeOK
    <3> QED
      BY <3>2, <3>3
  <2> QED
    BY <2>1, <2>2 DEF OneRewritePerProcess
<1>4. ASSUME NEW r \in Requests, CheckBranch(r) PROVE OneRewritePerProcess'
  BY <1>4, LockFollows DEF CheckBranch
<1>5. ASSUME NEW r \in Requests, CheckHead(r) PROVE OneRewritePerProcess'
  BY <1>5, LockFollows DEF CheckHead
<1>6. ASSUME NEW r \in Requests, Validate(r) PROVE OneRewritePerProcess'
  BY <1>6, LockFollows DEF Validate
<1>7. ASSUME NEW r \in Requests, FailEarly(r) PROVE OneRewritePerProcess'
  BY <1>7, LockFollows DEF FailEarly
<1>8. ASSUME NEW r \in Requests, AddWorktree(r) PROVE OneRewritePerProcess'
  BY <1>8, LockFollows DEF AddWorktree
<1>9. ASSUME NEW r \in Requests, LeakWorktree(r) PROVE OneRewritePerProcess'
  BY <1>9, LockFollows DEF LeakWorktree
<1>10. ASSUME NEW r \in Requests, Replay(r) PROVE OneRewritePerProcess'
  BY <1>10, LockFollows DEF Replay
<1>11. ASSUME NEW r \in Requests, Seal(r) PROVE OneRewritePerProcess'
  BY <1>11, LockFollows DEF Seal
<1>12. ASSUME NEW r \in Requests, FailReplay(r) PROVE OneRewritePerProcess'
  BY <1>12, LockFollows DEF FailReplay
<1>13. ASSUME NEW r \in Requests, Abandon(r) PROVE OneRewritePerProcess'
  BY <1>13, LockFollows DEF Abandon
<1>14. ASSUME NEW r \in Requests, DryRun(r) PROVE OneRewritePerProcess'
  BY <1>14, LockFollows DEF DryRun
<1>15. ASSUME NEW r \in Requests, WriteBackup(r) PROVE OneRewritePerProcess'
  BY <1>15, LockFollows DEF WriteBackup
<1>16. ASSUME NEW r \in Requests, MoveBranch(r) PROVE OneRewritePerProcess'
  BY <1>16, LockFollows DEF MoveBranch
<1>17. ASSUME NEW r \in Requests, FailInstall(r) PROVE OneRewritePerProcess'
  BY <1>17, LockFollows DEF FailInstall
<1>18. ASSUME NEW r \in Requests, InstallTree(r) PROVE OneRewritePerProcess'
  BY <1>18, LockFollows DEF InstallTree
<1>19. ASSUME NEW r \in Requests, FailTree(r) PROVE OneRewritePerProcess'
  BY <1>19, FailTreeGoes DEF OneRewritePerProcess, TypeOK, Goto
<1>20. ASSUME NEW r \in Requests, RollbackRef(r) PROVE OneRewritePerProcess'
  BY <1>20, LockFollows DEF RollbackRef
<1>21. ASSUME NEW r \in Requests, RollbackTree(r) PROVE OneRewritePerProcess'
  BY <1>21, LockFollows DEF RollbackTree
<1>22. ASSUME NEW r \in Requests, FailRollback(r) PROVE OneRewritePerProcess'
  BY <1>22, LockFollows DEF FailRollback
<1>23. ASSUME NEW r \in Requests, Verify(r) PROVE OneRewritePerProcess'
  BY <1>23, LockFollows DEF Verify
<1>24. ASSUME NEW r \in Requests, Expire(r) PROVE OneRewritePerProcess'
  BY <1>24 DEF Expire, OneRewritePerProcess
<1>25. ASSUME NEW i \in Instances, Cancel(i) PROVE OneRewritePerProcess'
  BY <1>25 DEF Cancel, OneRewritePerProcess
<1>26. ASSUME NEW i \in Instances, Crash(i) PROVE OneRewritePerProcess'
  BY <1>26, HomesAreInstances, NamesAreNew DEF Crash, OneRewritePerProcess, TypeOK
<1>27. ASSUME UserCommit PROVE OneRewritePerProcess'
  BY <1>27 DEF UserStep, UserCommit, OneRewritePerProcess
<1>28. ASSUME UserSwitch PROVE OneRewritePerProcess'
  BY <1>28 DEF UserStep, UserSwitch, OneRewritePerProcess
<1>29. ASSUME UserMove PROVE OneRewritePerProcess'
  BY <1>29 DEF UserStep, UserMove, OneRewritePerProcess
<1>30. ASSUME UserEdit PROVE OneRewritePerProcess'
  BY <1>30 DEF UserStep, UserEdit, OneRewritePerProcess
<1>31. ASSUME UNCHANGED vars PROVE OneRewritePerProcess'
  BY <1>31 DEF vars, git, calls, OneRewritePerProcess
<1> QED
  BY <1>1, <1>2, <1>3, <1>4, <1>5, <1>6, <1>7, <1>8, <1>9, <1>10, <1>11, <1>12, <1>13, <1>14,
     <1>15, <1>16, <1>17, <1>18, <1>19, <1>20, <1>21, <1>22, <1>23, <1>24, <1>25, <1>26, <1>27, <1>28,
     <1>29, <1>30, <1>31
     DEF Next, Review, RewriteStep, UserNext

\* What a request's own step does to the stacks: those of the others stay, and
\* its own stays as long as it goes on.
LEMMA StackFollows ==
  ASSUME TypeOK, NEW r \in Requests, NEW l
  PROVE  /\ Continue(r, l) => stack' = stack /\ pc'[r] = l
         /\ Return(r, l) => pc'[r] = l /\ stack'[r] = NoStack /\ stack'[r].head = None
         /\ Continue(r, l) \/ Return(r, l) =>
              \A q \in Requests \ {r} : stack'[q] = stack[q] /\ pc'[q] = pc[q]
<1>1. NoStack.head = None
  BY DEF NoStack
<1> QED
  BY <1>1 DEF TypeOK, Continue, Return, Goto, Forget, calls

\* The recovery ref is written before the branch moves, and never removed.
LEMMA NextBackedUp == TypeOK /\ BackedUp /\ [Next]_vars => BackedUp'
<1> SUFFICES ASSUME TypeOK /\ BackedUp, [Next]_vars PROVE BackedUp'
  OBVIOUS
<1> USE DEF BackedUp, TypeOK, Running, Early, Replaying, Critical, Ended
<1>1. ASSUME NEW r \in Requests, PrepareBranch(r) PROVE BackedUp'
  BY <1>1 DEF PrepareBranch, Goto, git
<1>2. ASSUME NEW r \in Requests, PrepareStack(r) PROVE BackedUp'
  BY <1>2 DEF PrepareStack, Goto, git
<1>3. ASSUME NEW r \in Requests, BeginRewrite(r) PROVE BackedUp'
  BY <1>3 DEF BeginRewrite, Goto, git, calls
<1>4. ASSUME NEW r \in Requests, CheckBranch(r) PROVE BackedUp'
  BY <1>4, StackFollows DEF CheckBranch, git
<1>5. ASSUME NEW r \in Requests, CheckHead(r) PROVE BackedUp'
  BY <1>5, StackFollows DEF CheckHead, git
<1>6. ASSUME NEW r \in Requests, Validate(r) PROVE BackedUp'
  BY <1>6, StackFollows DEF Validate, git
<1>7. ASSUME NEW r \in Requests, FailEarly(r) PROVE BackedUp'
  BY <1>7, StackFollows DEF FailEarly, git
<1>8. ASSUME NEW r \in Requests, AddWorktree(r) PROVE BackedUp'
  BY <1>8, StackFollows DEF AddWorktree, git
<1>9. ASSUME NEW r \in Requests, LeakWorktree(r) PROVE BackedUp'
  BY <1>9, StackFollows DEF LeakWorktree, git
<1>10. ASSUME NEW r \in Requests, Replay(r) PROVE BackedUp'
  BY <1>10, StackFollows DEF Replay, git
<1>11. ASSUME NEW r \in Requests, Seal(r) PROVE BackedUp'
  BY <1>11, StackFollows DEF Seal, git
<1>12. ASSUME NEW r \in Requests, FailReplay(r) PROVE BackedUp'
  BY <1>12, StackFollows DEF FailReplay, git
<1>13. ASSUME NEW r \in Requests, Abandon(r) PROVE BackedUp'
  BY <1>13, StackFollows DEF Abandon, git
<1>14. ASSUME NEW r \in Requests, DryRun(r) PROVE BackedUp'
  BY <1>14, StackFollows DEF DryRun, git
<1>15. ASSUME NEW r \in Requests, WriteBackup(r) PROVE BackedUp'
  BY <1>15, StackFollows DEF WriteBackup, git
<1>16. ASSUME NEW r \in Requests, MoveBranch(r) PROVE BackedUp'
  BY <1>16, StackFollows DEF MoveBranch, git
<1>17. ASSUME NEW r \in Requests, FailInstall(r) PROVE BackedUp'
  BY <1>17, StackFollows DEF FailInstall, git
<1>18. ASSUME NEW r \in Requests, InstallTree(r) PROVE BackedUp'
  BY <1>18, StackFollows DEF InstallTree, git
<1>19. ASSUME NEW r \in Requests, FailTree(r) PROVE BackedUp'
  BY <1>19, FailTreeGoes DEF Goto
<1>20. ASSUME NEW r \in Requests, RollbackRef(r) PROVE BackedUp'
  BY <1>20, StackFollows DEF RollbackRef, git
<1>21. ASSUME NEW r \in Requests, RollbackTree(r) PROVE BackedUp'
  BY <1>21, StackFollows DEF RollbackTree, git
<1>22. ASSUME NEW r \in Requests, FailRollback(r) PROVE BackedUp'
  BY <1>22, StackFollows DEF FailRollback, git
<1>23. ASSUME NEW r \in Requests, Verify(r) PROVE BackedUp'
  BY <1>23, StackFollows DEF Verify, git
<1>24. ASSUME NEW r \in Requests, Expire(r) PROVE BackedUp'
  BY <1>24 DEF Expire, git
<1>25. ASSUME NEW i \in Instances, Cancel(i) PROVE BackedUp'
  BY <1>25 DEF Cancel, git
<1>26. ASSUME NEW i \in Instances, Crash(i) PROVE BackedUp'
  BY <1>26 DEF Crash, Forget, git
<1>27. ASSUME UserCommit PROVE BackedUp'
  BY <1>27 DEF UserStep, UserCommit, calls
<1>28. ASSUME UserSwitch PROVE BackedUp'
  BY <1>28 DEF UserStep, UserSwitch, calls
<1>29. ASSUME UserMove PROVE BackedUp'
  BY <1>29 DEF UserStep, UserMove, calls
<1>30. ASSUME UserEdit PROVE BackedUp'
  BY <1>30 DEF UserStep, UserEdit, calls
<1>31. ASSUME UNCHANGED vars PROVE BackedUp'
  BY <1>31 DEF vars, git, calls
<1> QED
  BY <1>1, <1>2, <1>3, <1>4, <1>5, <1>6, <1>7, <1>8, <1>9, <1>10, <1>11, <1>12, <1>13, <1>14,
     <1>15, <1>16, <1>17, <1>18, <1>19, <1>20, <1>21, <1>22, <1>23, <1>24, <1>25, <1>26, <1>27, <1>28,
     <1>29, <1>30, <1>31
     DEF Next, Review, RewriteStep, UserNext

\* HEAD names an existing commit.
LEMMA HeadExists == TypeOK /\ NoDanglingNames => HeadCommit \in DOMAIN parent
BY DEF TypeOK, NoDanglingNames, HeadCommit

\* A request that goes on, or returns, keeps the names of all.
LEMMA NamesFollow ==
  ASSUME TypeOK, NoDanglingNames, NEW r \in Requests, NEW l, pc[r] \in Running,
         parent' = parent, head' = head, \A b \in Branches : refs'[b] \in DOMAIN parent,
         index' # Mixed => index' \in DOMAIN parent
  PROVE  /\ l \in Ended /\ Return(r, l) => NoDanglingNames'
         /\ /\ l \in Running /\ Goto(r, l) /\ stack' = stack
            /\ l \in Critical \cup {"seal"} => pc[r] \in Critical \cup {"seal"}
            => NoDanglingNames'
         /\ /\ l \in Running /\ Continue(r, l)
            /\ l \in Critical \cup {"seal"} => pc[r] \in Critical \cup {"seal"}
            => NoDanglingNames'
<1> USE DEF TypeOK, NoDanglingNames, Goto
<1>1. ASSUME l \in Ended, Return(r, l) PROVE NoDanglingNames'
  <2>1. l \notin Running \cup {"stack", "apply"} /\ "seal" \in Running /\ Critical \subseteq Running
    BY <1>1 DEF Running, Early, Replaying, Critical, Ended
  <2>2. pc'[r] = l /\ \A q \in Requests \ {r} : pc'[q] = pc[q] /\ stack'[q] = stack[q]
    BY <1>1, StackFollows
  <2>3. \A q \in Requests \ {r} : NewHead(q)' = NewHead(q)
    BY <2>2 DEF NewHead
  <2> QED
    BY <2>1, <2>2, <2>3
<1>2. ASSUME l \in Running, Goto(r, l), stack' = stack,
             l \in Critical \cup {"seal"} => pc[r] \in Critical \cup {"seal"}
      PROVE  NoDanglingNames'
  <2>1. pc'[r] = l /\ \A q \in Requests \ {r} : pc'[q] = pc[q]
    BY <1>2
  <2>2. \A q \in Requests : NewHead(q)' = NewHead(q)
    BY <1>2 DEF NewHead
  <2> QED
    BY <1>2, <2>1, <2>2
<1> QED
  BY <1>1, <1>2 DEF Continue, calls

\* Commits are only added, and refs and reviewed stacks only name existing ones.
LEMMA NextNoDangling == TypeOK /\ NoDanglingNames /\ [Next]_vars => NoDanglingNames'
<1> SUFFICES ASSUME TypeOK /\ NoDanglingNames, [Next]_vars PROVE NoDanglingNames'
  OBVIOUS
<1> USE DEF TypeOK, NoDanglingNames, Running, Early, Replaying, Critical, Ended
<1>1. ASSUME NEW r \in Requests, PrepareBranch(r) PROVE NoDanglingNames'
  BY <1>1 DEF PrepareBranch, Goto, git, NewHead
<1>2. ASSUME NEW r \in Requests, PrepareStack(r) PROVE NoDanglingNames'
  <2>1. /\ stack[r].branch \in Branches /\ HeadCommit \in DOMAIN parent
        /\ stack'[r].branch = stack[r].branch /\ stack'[r].head = HeadCommit
    BY <1>2, HeadExists DEF PrepareStack
  <2>2. /\ pc'[r] = "apply"
        /\ \A q \in Requests \ {r} : pc'[q] = pc[q] /\ stack'[q] = stack[q]
    BY <1>2 DEF PrepareStack, Goto
  <2> QED
    BY <1>2, <2>1, <2>2 DEF PrepareStack, git, NewHead
<1>3. ASSUME NEW r \in Requests, BeginRewrite(r) PROVE NoDanglingNames'
  BY <1>3 DEF BeginRewrite, Goto, git, calls, NewHead
<1>4. ASSUME NEW r \in Requests, CheckBranch(r) PROVE NoDanglingNames'
  BY <1>4, NamesFollow DEF CheckBranch, git
<1>5. ASSUME NEW r \in Requests, CheckHead(r) PROVE NoDanglingNames'
  BY <1>5, NamesFollow DEF CheckHead, git
<1>6. ASSUME NEW r \in Requests, Validate(r) PROVE NoDanglingNames'
  BY <1>6, NamesFollow DEF Validate, git
<1>7. ASSUME NEW r \in Requests, FailEarly(r) PROVE NoDanglingNames'
  BY <1>7, NamesFollow DEF FailEarly, git
<1>8. ASSUME NEW r \in Requests, AddWorktree(r) PROVE NoDanglingNames'
  BY <1>8, NamesFollow DEF AddWorktree, git
<1>9. ASSUME NEW r \in Requests, LeakWorktree(r) PROVE NoDanglingNames'
  BY <1>9, NamesFollow DEF LeakWorktree, git
<1>10. ASSUME NEW r \in Requests, Replay(r) PROVE NoDanglingNames'
  <2> DEFINE k == built[r] + 1
             p == IF k = 1 THEN stack[r].base ELSE Replacement(r, built[r])
  <2>1. k \in Nat /\ Replacement(r, k) \in Commit
    BY MadeType
  <2>2. p \in Commit \cup {None}
    BY MadeType DEF Stacks
  <2>3. DOMAIN parent' = DOMAIN parent \cup {Replacement(r, k)}
    <3>1. Add(Replacement(r, k), p)
      BY <1>10 DEF Replay
    <3> HIDE DEF p
    <3> QED
      BY <2>1, <2>2, <3>1, AddType
  <2>4. stack' = stack /\ refs' = refs /\ head' = head /\ index' = index
    BY <1>10 DEF Replay, Continue, calls
  <2>5. pc'[r] = "seal" => NewHead(r)' \in DOMAIN parent'
    BY <1>10, <2>3, <2>4 DEF Replay, Continue, Goto, NewHead
  <2>6. \A q \in Requests \ {r} : pc'[q] = pc[q]
    BY <1>10 DEF Replay, Continue, Goto
  <2>7. pc[r] = "replay" /\ pc'[r] \in {"replay", "seal"}
    BY <1>10 DEF Replay, Continue, Goto
  <2>8. ASSUME NEW q \in Requests
        PROVE  /\ pc'[q] \in Running \cup {"stack", "apply"} => stack'[q].branch \in Branches
               /\ pc'[q] \in Running \cup {"apply"} => stack'[q].head \in DOMAIN parent'
               /\ pc'[q] \in Critical \cup {"seal"} => NewHead(q)' \in DOMAIN parent'
    <3>1. CASE q = r
      BY <2>3, <2>4, <2>5, <2>7, <3>1 DEF NewHead
    <3>2. CASE q # r
      BY <2>3, <2>4, <2>6, <3>2 DEF NewHead
    <3> QED
      BY <3>1, <3>2
  <2> QED
    <3>1. /\ \A b \in Branches : refs'[b] \in DOMAIN parent'
          /\ head' \notin Branches => head' \in DOMAIN parent'
          /\ index' # Mixed => index' \in DOMAIN parent'
      BY <2>3, <2>4
    <3> HIDE DEF TypeOK
    <3> QED
      BY <2>8, <3>1
<1>11. ASSUME NEW r \in Requests, Seal(r) PROVE NoDanglingNames'
  BY <1>11, NamesFollow DEF Seal, git
<1>12. ASSUME NEW r \in Requests, FailReplay(r) PROVE NoDanglingNames'
  BY <1>12, NamesFollow DEF FailReplay, git
<1>13. ASSUME NEW r \in Requests, Abandon(r) PROVE NoDanglingNames'
  BY <1>13, NamesFollow DEF Abandon, git
<1>14. ASSUME NEW r \in Requests, DryRun(r) PROVE NoDanglingNames'
  BY <1>14, NamesFollow DEF DryRun, git
<1>15. ASSUME NEW r \in Requests, WriteBackup(r) PROVE NoDanglingNames'
  BY <1>15, NamesFollow DEF WriteBackup, git
<1>16. ASSUME NEW r \in Requests, MoveBranch(r) PROVE NoDanglingNames'
  <2>1. NewHead(r) \in DOMAIN parent
    BY <1>16 DEF MoveBranch
  <2>2. \A b \in Branches : refs'[b] \in DOMAIN parent
    BY <1>16, <2>1 DEF MoveBranch
  <2> QED
    BY <1>16, <2>2, NamesFollow DEF MoveBranch
<1>17. ASSUME NEW r \in Requests, FailInstall(r) PROVE NoDanglingNames'
  BY <1>17, NamesFollow DEF FailInstall, git
<1>18. ASSUME NEW r \in Requests, InstallTree(r) PROVE NoDanglingNames'
  <2>1. index' \in {NewHead(r), index, Mixed} /\ NewHead(r) \in DOMAIN parent
    BY <1>18, MergeType DEF InstallTree
  <2> QED
    BY <1>18, <2>1, NamesFollow DEF InstallTree
<1>19. ASSUME NEW r \in Requests, FailTree(r) PROVE NoDanglingNames'
  BY <1>19, FailTreeGoes, NamesFollow
<1>20. ASSUME NEW r \in Requests, RollbackRef(r) PROVE NoDanglingNames'
  <2>1. stack[r].head \in DOMAIN parent
    BY <1>20 DEF RollbackRef
  <2>2. \A b \in Branches : refs'[b] \in DOMAIN parent
    BY <1>20, <2>1 DEF RollbackRef
  <2> QED
    BY <1>20, <2>2, NamesFollow DEF RollbackRef
<1>21. ASSUME NEW r \in Requests, RollbackTree(r) PROVE NoDanglingNames'
  <2>1. index' \in {stack[r].head, index, Mixed} /\ stack[r].head \in DOMAIN parent
    BY <1>21, MergeType DEF RollbackTree
  <2> QED
    BY <1>21, <2>1, NamesFollow DEF RollbackTree
<1>22. ASSUME NEW r \in Requests, FailRollback(r) PROVE NoDanglingNames'
  BY <1>22, NamesFollow DEF FailRollback, git
<1>23. ASSUME NEW r \in Requests, Verify(r) PROVE NoDanglingNames'
  BY <1>23, NamesFollow DEF Verify, git
<1>24. ASSUME NEW r \in Requests, Expire(r) PROVE NoDanglingNames'
  BY <1>24 DEF Expire, git, NewHead
<1>25. ASSUME NEW i \in Instances, Cancel(i) PROVE NoDanglingNames'
  BY <1>25 DEF Cancel, git, NewHead
<1>26. ASSUME NEW i \in Instances, Crash(i) PROVE NoDanglingNames'
  BY <1>26 DEF Crash, Forget, git, NewHead
<1>27. ASSUME UserCommit PROVE NoDanglingNames'
  <2>1. <<User, userSteps>> \in Commit /\ HeadCommit \in Commit
    BY MadeType, HeadCommitType
  <2>2. DOMAIN parent' = DOMAIN parent \cup {<<User, userSteps>>}
    BY <1>27, <2>1, AddType DEF UserCommit
  <2>3. \A b \in Branches : refs'[b] \in DOMAIN parent'
    BY <1>27, <2>2 DEF UserCommit
  <2>4. head' \notin Branches => head' \in DOMAIN parent'
    BY <1>27, <2>2 DEF UserCommit
  <2> QED
    BY <1>27, <2>2, <2>3, <2>4 DEF UserCommit, UserStep, calls, NewHead
<1>28. ASSUME UserSwitch PROVE NoDanglingNames'
  <2>1. head' \notin Branches => head' \in DOMAIN parent
    BY <1>28, HeadExists DEF UserSwitch
  <2> QED
    BY <1>28, <2>1 DEF UserSwitch, UserStep, calls, NewHead
<1>29. ASSUME UserMove PROVE NoDanglingNames'
  BY <1>29 DEF UserStep, UserMove, calls, NewHead
<1>30. ASSUME UserEdit PROVE NoDanglingNames'
  BY <1>30 DEF UserStep, UserEdit, calls, NewHead
<1>31. ASSUME UNCHANGED vars PROVE NoDanglingNames'
  BY <1>31 DEF vars, git, calls, NewHead
<1> QED
  BY <1>1, <1>2, <1>3, <1>4, <1>5, <1>6, <1>7, <1>8, <1>9, <1>10, <1>11, <1>12, <1>13, <1>14,
     <1>15, <1>16, <1>17, <1>18, <1>19, <1>20, <1>21, <1>22, <1>23, <1>24, <1>25, <1>26, <1>27, <1>28,
     <1>29, <1>30, <1>31
     DEF Next, Review, RewriteStep, UserNext

\* Neither another request's replacement nor the user's commit is one of r's.
LEMMA OwnReplacements ==
  /\ \A r, q \in Requests, k \in Nat : q # r => Replacement(q, k) \notin {r} \X Nat
  /\ \A r \in Requests, k \in Nat : <<User, k>> \notin {r} \X Nat
  /\ \A r \in Requests : None \notin {r} \X Nat
BY NamesAreNew, NothingElseIsMade DEF Replacement, Made

\* What was found is kept or dropped by all but the step that begins the call.
LEMMA FoundDrops ==
  ASSUME TypeOK
  PROVE  /\ \A S \in SUBSET Requests : Disturb(S) => \A q \in Requests : found'[q] \in {found[q], None}
         /\ DisturbNone => \A q \in Requests : found'[q] \in {found[q], None}
BY DEF Disturb, DisturbNone

\* Nothing is replaced without a commit, and nothing is reviewed without a review.
LEMMA FreshStays ==
  ASSUME FreshReplacements, parent' = parent,
         \A q \in Requests : found'[q] \in {found[q], None},
         \A q \in Requests : pc'[q] \in {"idle", "stack", "apply"} => pc[q] \in {"idle", "stack", "apply"},
         \A q \in Requests : stack'[q] = stack[q] \/ stack'[q] = NoStack
  PROVE  FreshReplacements'
<1>1. NoStack.head = None
  BY DEF NoStack
<1> QED
  BY <1>1, OwnReplacements DEF FreshReplacements

LEMMA FreshFollows ==
  ASSUME TypeOK, FreshReplacements, NEW r \in Requests, NEW l, l \notin {"idle", "stack", "apply"},
         parent' = parent, \A q \in Requests : found'[q] \in {found[q], None}
  PROVE  /\ Goto(r, l) /\ stack' = stack => FreshReplacements'
         /\ Continue(r, l) => FreshReplacements'
         /\ Return(r, l) => FreshReplacements'
<1>1. ASSUME Goto(r, l), \A q \in Requests : stack'[q] = stack[q] \/ stack'[q] = NoStack
      PROVE  FreshReplacements'
  BY <1>1, FreshStays DEF Goto, TypeOK
<1> QED
  BY <1>1 DEF Continue, Return, Forget, calls

\* A request replaces nothing before it runs, so it never reviewed its own work.
LEMMA NextFresh == (TypeOK /\ NoDanglingNames /\ FreshReplacements) /\ [Next]_vars => FreshReplacements'
<1> SUFFICES ASSUME (TypeOK /\ NoDanglingNames /\ FreshReplacements), [Next]_vars PROVE FreshReplacements'
  OBVIOUS
<1>0. /\ \A S \in SUBSET Requests : Disturb(S) => \A q \in Requests : found'[q] \in {found[q], None}
      /\ DisturbNone => \A q \in Requests : found'[q] \in {found[q], None}
  BY FoundDrops
<1> USE DEF TypeOK, FreshReplacements, Running, Early, Replaying, Critical, Ended
<1>1. ASSUME NEW r \in Requests, PrepareBranch(r) PROVE FreshReplacements'
  <2>1. stack'[r].head = None
    BY <1>1 DEF PrepareBranch, NoStack
  <2> QED
    BY <1>1, <2>1, OwnReplacements DEF PrepareBranch, Goto, git
<1>2. ASSUME NEW r \in Requests, PrepareStack(r) PROVE FreshReplacements'
  <2>1. HeadCommit \notin {r} \X Nat /\ stack'[r].head = HeadCommit
    BY <1>2, HeadExists DEF PrepareStack
  <2>2. /\ pc'[r] = "apply"
        /\ \A q \in Requests \ {r} : pc'[q] = pc[q] /\ stack'[q] = stack[q]
    BY <1>2 DEF PrepareStack, Goto
  <2> QED
    BY <1>2, <2>1, <2>2 DEF PrepareStack, git
<1>3. ASSUME NEW r \in Requests, BeginRewrite(r) PROVE FreshReplacements'
  <2>1. index \notin {r} \X Nat
    BY <1>3, NothingElseIsMade DEF BeginRewrite, NoDanglingNames, Made
  <2> QED
    BY <1>3, <2>1 DEF BeginRewrite, Goto, git, calls, Worktree
<1>4. ASSUME NEW r \in Requests, CheckBranch(r) PROVE FreshReplacements'
  BY <1>0, <1>4, FreshFollows DEF CheckBranch, git
<1>5. ASSUME NEW r \in Requests, CheckHead(r) PROVE FreshReplacements'
  BY <1>0, <1>5, FreshFollows DEF CheckHead, git
<1>6. ASSUME NEW r \in Requests, Validate(r) PROVE FreshReplacements'
  BY <1>0, <1>6, FreshFollows DEF Validate, git
<1>7. ASSUME NEW r \in Requests, FailEarly(r) PROVE FreshReplacements'
  BY <1>0, <1>7, FreshFollows DEF FailEarly, git
<1>8. ASSUME NEW r \in Requests, AddWorktree(r) PROVE FreshReplacements'
  BY <1>0, <1>8, FreshFollows DEF AddWorktree, git
<1>9. ASSUME NEW r \in Requests, LeakWorktree(r) PROVE FreshReplacements'
  BY <1>0, <1>9, FreshFollows DEF LeakWorktree, git
<1>10. ASSUME NEW r \in Requests, Replay(r) PROVE FreshReplacements'
  <2> DEFINE k == built[r] + 1
             p == IF k = 1 THEN stack[r].base ELSE Replacement(r, built[r])
  <2>1. k \in Nat /\ Replacement(r, k) \in Commit
    BY MadeType
  <2>2. p \in Commit \cup {None}
    BY MadeType DEF Stacks
  <2>3. DOMAIN parent' = DOMAIN parent \cup {Replacement(r, k)}
    <3>1. Add(Replacement(r, k), p)
      BY <1>10 DEF Replay
    <3> HIDE DEF p
    <3> QED
      BY <2>1, <2>2, <3>1, AddType
  <2>4. stack' = stack /\ pc'[r] \notin {"idle", "stack", "apply"}
    BY <1>10 DEF Replay, Continue, Goto, calls
  <2>5. \A q \in Requests \ {r} : pc'[q] = pc[q] /\ Replacement(r, k) \notin {q} \X Nat
    BY <1>10, <2>1, OwnReplacements DEF Replay, Continue, Goto
  <2> QED
    BY <1>0, <1>10, <2>3, <2>4, <2>5 DEF Replay
<1>11. ASSUME NEW r \in Requests, Seal(r) PROVE FreshReplacements'
  BY <1>0, <1>11, FreshFollows DEF Seal, git
<1>12. ASSUME NEW r \in Requests, FailReplay(r) PROVE FreshReplacements'
  BY <1>0, <1>12, FreshFollows DEF FailReplay, git
<1>13. ASSUME NEW r \in Requests, Abandon(r) PROVE FreshReplacements'
  BY <1>0, <1>13, FreshFollows DEF Abandon, git
<1>14. ASSUME NEW r \in Requests, DryRun(r) PROVE FreshReplacements'
  BY <1>0, <1>14, FreshFollows DEF DryRun, git
<1>15. ASSUME NEW r \in Requests, WriteBackup(r) PROVE FreshReplacements'
  BY <1>0, <1>15, FreshFollows DEF WriteBackup, git
<1>16. ASSUME NEW r \in Requests, MoveBranch(r) PROVE FreshReplacements'
  BY <1>0, <1>16, FreshFollows DEF MoveBranch, git
<1>17. ASSUME NEW r \in Requests, FailInstall(r) PROVE FreshReplacements'
  BY <1>0, <1>17, FreshFollows DEF FailInstall, git
<1>18. ASSUME NEW r \in Requests, InstallTree(r) PROVE FreshReplacements'
  BY <1>0, <1>18, FreshFollows DEF InstallTree, git
<1>19. ASSUME NEW r \in Requests, FailTree(r) PROVE FreshReplacements'
  <2>1. \A q \in Requests : found'[q] \in {found[q], None}
    BY <1>0, <1>19 DEF FailTree
  <2> QED
    BY <1>19, <2>1, FailTreeGoes, FreshFollows
<1>20. ASSUME NEW r \in Requests, RollbackRef(r) PROVE FreshReplacements'
  BY <1>0, <1>20, FreshFollows DEF RollbackRef, git
<1>21. ASSUME NEW r \in Requests, RollbackTree(r) PROVE FreshReplacements'
  BY <1>0, <1>21, FreshFollows DEF RollbackTree, git
<1>22. ASSUME NEW r \in Requests, FailRollback(r) PROVE FreshReplacements'
  BY <1>0, <1>22, FreshFollows DEF FailRollback, git
<1>23. ASSUME NEW r \in Requests, Verify(r) PROVE FreshReplacements'
  BY <1>0, <1>23, FreshFollows DEF Verify, git
<1>24. ASSUME NEW r \in Requests, Expire(r) PROVE FreshReplacements'
  BY <1>24 DEF Expire, git
<1>25. ASSUME NEW i \in Instances, Cancel(i) PROVE FreshReplacements'
  BY <1>25 DEF Cancel, git
<1>26. ASSUME NEW i \in Instances, Crash(i) PROVE FreshReplacements'
  BY <1>0, <1>26, FreshStays DEF Crash, Forget, git
<1>27. ASSUME UserCommit PROVE FreshReplacements'
  <2>1. <<User, userSteps>> \in Commit /\ HeadCommit \in Commit
    BY MadeType, HeadCommitType
  <2>2. DOMAIN parent' = DOMAIN parent \cup {<<User, userSteps>>}
    BY <1>27, <2>1, AddType DEF UserCommit
  <2> QED
    BY <1>0, <1>27, <2>2, OwnReplacements DEF UserCommit, UserStep, calls
<1>28. ASSUME UserSwitch PROVE FreshReplacements'
  BY <1>0, <1>28, FreshStays DEF UserStep, UserSwitch, calls
<1>29. ASSUME UserMove PROVE FreshReplacements'
  BY <1>0, <1>29, FreshStays DEF UserStep, UserMove, calls
<1>30. ASSUME UserEdit PROVE FreshReplacements'
  BY <1>0, <1>30, FreshStays DEF UserStep, UserEdit, calls
<1>31. ASSUME UNCHANGED vars PROVE FreshReplacements'
  BY <1>31 DEF vars, git, calls
<1> QED
  BY <1>1, <1>2, <1>3, <1>4, <1>5, <1>6, <1>7, <1>8, <1>9, <1>10, <1>11, <1>12, <1>13, <1>14,
     <1>15, <1>16, <1>17, <1>18, <1>19, <1>20, <1>21, <1>22, <1>23, <1>24, <1>25, <1>26, <1>27, <1>28,
     <1>29, <1>30, <1>31
     DEF Next, Review, RewriteStep, UserNext

\* The replaced head is neither the new head nor the mixed tree.
LEMMA HeadsDiffer ==
  ASSUME TypeOK, FreshReplacements, NEW r \in Requests
  PROVE  stack[r].head # NewHead(r) /\ stack[r].head # Mixed /\ NewHead(r) # Mixed
<1>1. NewHead(r) \in {r} \X Nat /\ NewHead(r) \in Made
  BY NewHeadType DEF Made
<1>2. stack[r].head \in Origins \cup Made \cup {None}
  BY DEF TypeOK, Stacks, Commit
<1>3. Mixed \notin Origins \cup Made \cup {None}
  BY NamesAreNew, NothingElseIsMade
<1> QED
  BY <1>1, <1>2, <1>3 DEF FreshReplacements

\* A worktree update leaves what IndexFrom says, from what the call found, and from
\* what may be there when it is taken back.
LEMMA MergesFit ==
  ASSUME TypeOK, FreshReplacements, NEW r \in Requests, found[r] # None
  PROVE  /\ index = found[r].index => /\ index \in IndexFrom(r, stack[r].head)
                                      /\ TwoWayMerge(stack[r].head, NewHead(r))
                                           \subseteq IndexFrom(r, NewHead(r))
         /\ index \in IndexFrom(r, NewHead(r)) \cup IndexFrom(r, stack[r].head) =>
              TwoWayMerge(NewHead(r), stack[r].head) \subseteq IndexFrom(r, stack[r].head)
<1>1. NewHead(r) # found[r].index
  BY NewHeadType DEF FreshReplacements
<1> QED
  BY <1>1, HeadsDiffer DEF TwoWayMerge, IndexFrom

\* What r may leave depends on what it found and reviewed only.
LEMMA LeftStays ==
  ASSUME NEW r \in Requests, found'[r] = found[r], stack'[r] = stack[r], r \in halfway => r \in halfway'
  PROVE  /\ NewHead(r)' = NewHead(r)
         /\ Moved(r)' = Moved(r)
         /\ IndexFrom(r, NewHead(r))' = IndexFrom(r, NewHead(r))
         /\ IndexFrom(r, stack[r].head)' = IndexFrom(r, stack[r].head)
         /\ StaleFrom(r) \subseteq StaleFrom(r)'
<1>1. NewHead(r)' = NewHead(r)
  BY DEF NewHead
<1>2. Moved(r)' = Moved(r)
  BY <1>1 DEF Moved, Left
<1>3. IndexFrom(r, NewHead(r))' = IndexFrom(r, NewHead(r))
      /\ IndexFrom(r, stack[r].head)' = IndexFrom(r, stack[r].head)
  BY <1>1 DEF IndexFrom
<1>4. StaleFrom(r) \subseteq StaleFrom(r)'
  BY DEF StaleFrom
<1> QED
  BY <1>1, <1>2, <1>3, <1>4

\* A rewrite that finds the worktree as before, and has gone nowhere, is in step.
LEMMA SameStep ==
  ASSUME NEW r \in Requests, NEW l, InStep(r, l), Worktree' = Worktree,
         found'[r] = found[r], stack'[r] = stack[r], r \in halfway => r \in halfway'
  PROVE  InStep(r, l)'
<1>1. /\ NewHead(r)' = NewHead(r)
      /\ Moved(r)' = Moved(r)
      /\ IndexFrom(r, NewHead(r))' = IndexFrom(r, NewHead(r))
      /\ IndexFrom(r, stack[r].head)' = IndexFrom(r, stack[r].head)
      /\ StaleFrom(r) \subseteq StaleFrom(r)'
  BY LeftStays
<1>2. l = "verify" => Installed(r, Worktree)'
  BY <1>1 DEF InStep, Installed, Left
<1>3. l \in {"undoRef", "undoTree"} =>
        (\E i \in IndexFrom(r, NewHead(r)) \cup IndexFrom(r, stack[r].head),
            files \in StaleFrom(r), locked \in BOOLEAN :
           Worktree = Left(r, IF l = "undoRef" THEN NewHead(r) ELSE stack[r].head, i, files, locked))'
  BY <1>1 DEF InStep, Left
<1> QED
  BY <1>1, <1>2, <1>3 DEF InStep

\* So is one that is not disturbed.
LEMMA StaysInStep ==
  ASSUME TypeOK, InstallInSteps, NEW q \in Requests,
         pc'[q] = pc[q], stack'[q] = stack[q], q \in halfway => q \in halfway',
         found'[q] # None, found'[q] = found[q], UNCHANGED <<refs, head, index, stale, lock>>
  PROVE  InStep(q, pc[q])'
<1>1. PICK l : l = pc[q]
  OBVIOUS
<1>2. InStep(q, l) /\ Worktree' = Worktree
  BY <1>1 DEF InstallInSteps, Worktree
<1>3. InStep(q, l)'
  BY <1>2, SameStep
<1>4. l = pc'[q]
  BY <1>1
<1> QED
  BY <1>3, <1>4 DEF InStep

\* A step of r disturbs the others if it changes what they see.
Alone(r) ==
  \A q \in Requests \ {r} :
    found'[q] # None => found'[q] = found[q] /\ UNCHANGED <<refs, head, index, stale, lock>>

LEMMA DisturbsOthers ==
  ASSUME TypeOK, NEW r \in Requests
  PROVE  /\ Disturb(Requests \ {r}) => Alone(r)
         /\ DisturbNone /\ UNCHANGED <<refs, head, index, stale, lock>> => Alone(r)
BY DEF Alone, Disturb, DisturbNone

\* So a step of r keeps everybody in step if it keeps r, or ends r's call.
LEMMA OwnStep ==
  ASSUME TypeOK, InstallInSteps, NEW r \in Requests, NEW l, Alone(r)
  PROVE  /\ l \in Ended /\ Return(r, l) => InstallInSteps'
         /\ /\ Goto(r, l) /\ halfway \subseteq halfway'
            /\ \A q \in Requests \ {r} : stack'[q] = stack[q]
            /\ found'[r] # None => InStep(r, l)'
            => InstallInSteps'
<1>1. ASSUME Goto(r, l), found'[r] # None => InStep(r, l)',
             \A q \in Requests \ {r} : stack'[q] = stack[q] /\ (q \in halfway => q \in halfway')
      PROVE  InstallInSteps'
  <2>1. pc'[r] = l /\ \A q \in Requests \ {r} : pc'[q] = pc[q]
    BY <1>1 DEF Goto, TypeOK
  <2>2. ASSUME NEW q \in Requests \ {r}, found'[q] # None PROVE InStep(q, pc[q])'
    BY <1>1, <2>1, <2>2, StaysInStep DEF Alone
  <2>3. ASSUME NEW q \in Requests, found'[q] # None PROVE InStep(q, pc[q])'
    <3>1. CASE q = r
      BY <1>1, <2>1, <2>3, <3>1 DEF InStep
    <3>2. CASE q # r
      BY <2>2, <2>3, <3>2
    <3> QED
      BY <3>1, <3>2
  <2> QED
    BY <2>3 DEF InstallInSteps
<1>2. ASSUME l \in Ended, Return(r, l) PROVE InstallInSteps'
  <2>1. Goto(r, l)
        /\ \A q \in Requests \ {r} : stack'[q] = stack[q] /\ (q \in halfway => q \in halfway')
    BY <1>2 DEF Return, Forget
  <2>2. InStep(r, l)'
    BY <1>2 DEF InStep, Running, Early, Replaying, Critical, Ended
  <2> QED
    BY <1>1, <2>1, <2>2
<1> QED
  BY <1>1, <1>2

\* A command that only reads, or changes what nobody finds.
LEMMA QuietStep ==
  ASSUME TypeOK, InstallInSteps, NEW r \in Requests, NEW l,
         DisturbNone, UNCHANGED <<refs, head, index, stale, lock>>
  PROVE  /\ l \in Ended /\ Return(r, l) => InstallInSteps'
         /\ Continue(r, l) /\ (found[r] # None => InStep(r, l)) => InstallInSteps'
<1>1. Alone(r)
  BY DisturbsOthers
<1>2. ASSUME Continue(r, l), found[r] # None => InStep(r, l) PROVE InstallInSteps'
  <2>1. Goto(r, l) /\ stack' = stack /\ halfway' = halfway
    BY <1>2 DEF Continue, calls
  <2>2. ASSUME found'[r] # None PROVE InStep(r, l)'
    <3>1. found'[r] = found[r] /\ Worktree' = Worktree
      BY <2>1, <2>2 DEF DisturbNone, Disturb, Worktree, TypeOK
    <3> QED
      BY <1>2, <2>1, <2>2, <3>1, SameStep
  <2> QED
    BY <1>1, <2>1, <2>2, OwnStep
<1> QED
  BY <1>1, <1>2, OwnStep

\* An undisturbed rewrite finds the worktree where its last command left it.
LEMMA NextInSteps ==
  (TypeOK /\ NoDanglingNames /\ FreshReplacements /\ InstallInSteps) /\ [Next]_vars => InstallInSteps'
<1> SUFFICES ASSUME TypeOK, NoDanglingNames, FreshReplacements, InstallInSteps, [Next]_vars
             PROVE  InstallInSteps'
  OBVIOUS
<1> USE DEF Running, Early, Replaying, Critical
<1>0. /\ \A r \in Requests : found[r] # None => InStep(r, pc[r])
      /\ \A l : l \in Ended <=> l \in {"refused", "rolledBack", "torn", "uncertain", "installed", "crashed"}
  BY DEF InstallInSteps, Ended
<1>1. ASSUME NEW r \in Requests, PrepareBranch(r) PROVE InstallInSteps'
  <2>1. InStep(r, "stack")' /\ Goto(r, "stack")
    BY <1>1 DEF InStep, PrepareBranch
  <2> QED
    BY <1>1, <2>1, OwnStep DEF PrepareBranch, Alone, git, TypeOK
<1>2. ASSUME NEW r \in Requests, PrepareStack(r) PROVE InstallInSteps'
  <2>1. InStep(r, "apply")' /\ Goto(r, "apply")
    BY <1>2 DEF InStep, PrepareStack
  <2>2. \A q \in Requests \ {r} : stack'[q] = stack[q]
    BY <1>2 DEF PrepareStack
  <2> QED
    BY <1>2, <2>1, <2>2, OwnStep DEF PrepareStack, Alone, git
<1>3. ASSUME NEW r \in Requests, BeginRewrite(r) PROVE InstallInSteps'
  <2>1. Worktree' = Worktree /\ found'[r] = Worktree
    BY <1>3 DEF BeginRewrite, TypeOK, Worktree, git
  <2>2. InStep(r, "branch")' /\ Goto(r, "branch")
    BY <1>3, <2>1 DEF InStep, BeginRewrite
  <2> QED
    BY <1>3, <2>2, OwnStep DEF BeginRewrite, Alone, git, calls, TypeOK
<1>4. ASSUME NEW r \in Requests, CheckBranch(r) PROVE InstallInSteps'
  <2>1. head = stack[r].branch /\ found[r] # None => InStep(r, "head")
    BY <1>0, <1>4 DEF CheckBranch, InStep, Worktree
  <2> QED
    BY <1>0, <1>4, <2>1, QuietStep DEF CheckBranch, git
<1>5. ASSUME NEW r \in Requests, CheckHead(r) PROVE InstallInSteps'
  <2>1. HeadCommit = stack[r].head /\ found[r] # None => InStep(r, "validate")
    BY <1>0, <1>5 DEF CheckHead, InStep, Worktree, HeadCommit, NoDanglingNames
  <2> QED
    BY <1>0, <1>5, <2>1, QuietStep DEF CheckHead, git
<1>6. ASSUME NEW r \in Requests, Validate(r) PROVE InstallInSteps'
  <2>1. found[r] # None => InStep(r, "add")
    BY <1>0, <1>6 DEF Validate, InStep
  <2> QED
    BY <1>0, <1>6, <2>1, QuietStep DEF Validate, git
<1>7. ASSUME NEW r \in Requests, FailEarly(r) PROVE InstallInSteps'
  BY <1>0, <1>7, QuietStep DEF FailEarly, git
<1>8. ASSUME NEW r \in Requests, AddWorktree(r) PROVE InstallInSteps'
  <2>1. found[r] # None => InStep(r, "replay")
    BY <1>0, <1>8 DEF AddWorktree, InStep
  <2> QED
    BY <1>0, <1>8, <2>1, QuietStep DEF AddWorktree, git
<1>9. ASSUME NEW r \in Requests, LeakWorktree(r) PROVE InstallInSteps'
  BY <1>0, <1>9, QuietStep DEF LeakWorktree, git
<1>10. ASSUME NEW r \in Requests, Replay(r) PROVE InstallInSteps'
  <2>1. found[r] # None => InStep(r, "replay") /\ InStep(r, "seal")
    BY <1>0, <1>10 DEF Replay, InStep
  <2> QED
    BY <1>0, <1>10, <2>1, QuietStep DEF Replay
<1>11. ASSUME NEW r \in Requests, Seal(r) PROVE InstallInSteps'
  <2>1. found[r] # None => InStep(r, "check")
    BY <1>0, <1>11 DEF Seal, InStep
  <2> QED
    BY <1>0, <1>11, <2>1, QuietStep DEF Seal, git
<1>12. ASSUME NEW r \in Requests, FailReplay(r) PROVE InstallInSteps'
  <2>1. found[r] # None => InStep(r, "abandon")
    BY <1>0, <1>12 DEF FailReplay, InStep
  <2> QED
    BY <1>0, <1>12, <2>1, QuietStep DEF FailReplay, git
<1>13. ASSUME NEW r \in Requests, Abandon(r) PROVE InstallInSteps'
  BY <1>0, <1>13, QuietStep DEF Abandon, git
<1>14. ASSUME NEW r \in Requests, DryRun(r) PROVE InstallInSteps'
  <2>1. ~lock
    BY <1>14 DEF DryRun, TwoWayMerge
  <2>2. found[r] # None => InStep(r, "backup")
    BY <1>0, <1>14, <2>1 DEF DryRun, InStep, Worktree
  <2> QED
    BY <1>0, <1>14, <2>2, QuietStep DEF DryRun, git
<1>15. ASSUME NEW r \in Requests, WriteBackup(r) PROVE InstallInSteps'
  <2>1. found[r] # None => InStep(r, "move")
    BY <1>0, <1>15 DEF WriteBackup, InStep
  <2> QED
    BY <1>0, <1>15, <2>1, QuietStep DEF WriteBackup
<1>16. ASSUME NEW r \in Requests, MoveBranch(r) PROVE InstallInSteps'
  <2>1. Alone(r)
    BY <1>16, DisturbsOthers DEF MoveBranch
  <2>2. CASE Return(r, "refused")
    BY <1>0, <2>1, <2>2, OwnStep
  <2>3. CASE Continue(r, "install")
    <3>1. Goto(r, "install") /\ stack' = stack /\ halfway' = halfway
      BY <2>3 DEF Continue, calls
    <3>2. ASSUME found'[r] # None PROVE InStep(r, "install")'
      <4>1. found'[r] = found[r]
        BY <1>16, <3>2 DEF MoveBranch, Disturb, TypeOK
      <4>2. stack[r].branch \in Branches /\ found[r] # None /\ InStep(r, "move")
        BY <1>0, <1>16, <3>2, <4>1 DEF MoveBranch, NoDanglingNames
      <4>3. Worktree' = Moved(r)
        BY <1>16, <4>2 DEF MoveBranch, InStep, Worktree, Moved, Left
      <4>4. Moved(r)' = Moved(r)
        BY <3>1, <4>1, LeftStays
      <4> QED
        BY <3>1, <4>1, <4>2, <4>3, <4>4 DEF InStep
    <3> QED
      BY <2>1, <3>1, <3>2, OwnStep
  <2> QED
    BY <1>16, <2>2, <2>3 DEF MoveBranch
<1>17. ASSUME NEW r \in Requests, FailInstall(r) PROVE InstallInSteps'
  BY <1>0, <1>17, QuietStep DEF FailInstall, git
<1>18. ASSUME NEW r \in Requests, InstallTree(r) PROVE InstallInSteps'
  <2> DEFINE l == IF r \in expired THEN "undoRef" ELSE "verify"
  <2>1. Alone(r) /\ Goto(r, l) /\ stack' = stack /\ halfway' = halfway
    BY <1>18, DisturbsOthers DEF InstallTree, Continue, calls
  <2>2. ASSUME found'[r] # None PROVE InStep(r, "undoRef")' /\ InStep(r, "verify")'
    <3>1. found'[r] = found[r]
      BY <1>18, <2>2 DEF InstallTree, Disturb, TypeOK
    <3>2. stack[r].branch \in Branches /\ found[r] # None /\ InStep(r, "install")
      BY <1>0, <1>18, <2>2, <3>1 DEF InstallTree, NoDanglingNames
    <3>3. /\ Worktree = Moved(r) /\ ~found[r].lock
          /\ found[r].head = stack[r].branch /\ found[r].refs[stack[r].branch] = stack[r].head
      BY <3>2 DEF InStep
    <3>4. index = found[r].index
      BY <3>3 DEF Worktree, Moved, Left
    <3>5. index' \in IndexFrom(r, NewHead(r))
      BY <1>18, <3>2, <3>4, MergesFit DEF InstallTree
    <3>6. Worktree' = Left(r, NewHead(r), index', found[r].stale, found[r].lock)
      BY <1>18, <3>3 DEF InstallTree, Worktree, Moved, Left
    <3>7. found[r].stale \in StaleFrom(r) /\ found[r].lock \in BOOLEAN
      BY <3>2 DEF StaleFrom, TypeOK, Worktrees
    <3>8. /\ NewHead(r)' = NewHead(r)
          /\ IndexFrom(r, NewHead(r))' = IndexFrom(r, NewHead(r))
          /\ StaleFrom(r) \subseteq StaleFrom(r)'
      BY <2>1, <3>1, LeftStays
    <3>9. Installed(r, Worktree)'
      BY <2>1, <3>1, <3>5, <3>6, <3>8 DEF Installed, Left
    <3>10. (\E i \in IndexFrom(r, NewHead(r)) \cup IndexFrom(r, stack[r].head),
               files \in StaleFrom(r), locked \in BOOLEAN :
              Worktree = Left(r, NewHead(r), i, files, locked))'
      BY <2>1, <3>1, <3>5, <3>6, <3>7, <3>8 DEF Left
    <3> QED
      BY <2>1, <3>1, <3>3, <3>9, <3>10 DEF InStep
  <2>3. l \in {"undoRef", "verify"}
    OBVIOUS
  <2> HIDE DEF l
  <2>4. CASE l = "undoRef"
    BY <2>1, <2>2, <2>4, OwnStep
  <2>5. CASE l = "verify"
    BY <2>1, <2>2, <2>5, OwnStep
  <2> QED
    BY <2>3, <2>4, <2>5
<1>19. ASSUME NEW r \in Requests, FailTree(r) PROVE InstallInSteps'
  <2>1. Alone(r)
    BY <1>19, DisturbsOthers DEF FailTree
  <2>2. /\ Goto(r, "undoRef") /\ stack' = stack /\ halfway \subseteq halfway'
        /\ pc[r] = "install" /\ refs' = refs /\ head' = head /\ index' = index
    BY <1>19 DEF FailTree
  <2>3. lock' \in BOOLEAN /\ (stale' = stale \/ (stale' = TRUE /\ r \in halfway'))
    BY <1>19 DEF FailTree, StopsHalfway, TypeOK
  <2>4. ASSUME found'[r] # None PROVE InStep(r, "undoRef")'
    <3>1. found'[r] = found[r]
      BY <1>19, <2>4 DEF FailTree, Disturb, DisturbNone, TypeOK
    <3>2. stack[r].branch \in Branches /\ found[r] # None /\ InStep(r, "install")
      BY <1>0, <2>2, <2>4, <3>1 DEF NoDanglingNames
    <3>3. /\ Worktree = Moved(r) /\ ~found[r].lock
          /\ found[r].head = stack[r].branch /\ found[r].refs[stack[r].branch] = stack[r].head
      BY <3>2 DEF InStep
    <3>4. index = found[r].index /\ stale = found[r].stale
      BY <3>3 DEF Worktree, Moved, Left
    <3>5. index \in IndexFrom(r, stack[r].head)
      BY <3>2, <3>4, MergesFit
    <3>6. stale' \in StaleFrom(r)'
      BY <2>3, <3>1, <3>4 DEF StaleFrom
    <3>7. Worktree' = Left(r, NewHead(r), index, stale', lock')
      BY <2>2, <3>3 DEF Worktree, Moved, Left
    <3>8. /\ NewHead(r)' = NewHead(r)
          /\ IndexFrom(r, stack[r].head)' = IndexFrom(r, stack[r].head)
      BY <2>2, <3>1, LeftStays
    <3>9. (\E i \in IndexFrom(r, NewHead(r)) \cup IndexFrom(r, stack[r].head),
              files \in StaleFrom(r), locked \in BOOLEAN :
             Worktree = Left(r, NewHead(r), i, files, locked))'
      BY <2>2, <2>3, <3>1, <3>5, <3>6, <3>7, <3>8 DEF Left
    <3> QED
      BY <2>2, <3>1, <3>3, <3>9 DEF InStep
  <2> QED
    BY <2>1, <2>2, <2>4, OwnStep
<1>20. ASSUME NEW r \in Requests, RollbackRef(r) PROVE InstallInSteps'
  <2>1. Alone(r)
    BY <1>20, DisturbsOthers DEF RollbackRef
  <2>2. CASE Return(r, "torn")
    BY <1>0, <2>1, <2>2, OwnStep
  <2>3. CASE Continue(r, "undoTree")
    <3>1. Goto(r, "undoTree") /\ stack' = stack /\ halfway' = halfway
      BY <2>3 DEF Continue, calls
    <3>2. ASSUME found'[r] # None PROVE InStep(r, "undoTree")'
      <4>1. found'[r] = found[r]
        BY <1>20, <3>2 DEF RollbackRef, Disturb, TypeOK
      <4>2. stack[r].branch \in Branches /\ found[r] # None /\ InStep(r, "undoRef")
        BY <1>0, <1>20, <3>2, <4>1 DEF RollbackRef, NoDanglingNames
      <4>3. PICK i \in IndexFrom(r, NewHead(r)) \cup IndexFrom(r, stack[r].head),
                 files \in StaleFrom(r), locked \in BOOLEAN :
                 Worktree = Left(r, NewHead(r), i, files, locked)
        BY <4>2 DEF InStep
      <4>4. found[r].head = stack[r].branch /\ found[r].refs[stack[r].branch] = stack[r].head
            /\ ~found[r].lock
        BY <4>2 DEF InStep
      <4>5. refs' = [[found[r].refs EXCEPT ![stack[r].branch] = NewHead(r)]
                       EXCEPT ![stack[r].branch] = stack[r].head]
        BY <1>20, <4>3 DEF RollbackRef, Worktree, Left
      <4>6. refs' = [found[r].refs EXCEPT ![stack[r].branch] = stack[r].head]
        BY <4>5
      <4>7. Worktree' = Left(r, stack[r].head, i, files, locked)
        BY <1>20, <4>3, <4>6 DEF RollbackRef, Worktree, Left
      <4>8. /\ IndexFrom(r, NewHead(r))' = IndexFrom(r, NewHead(r))
            /\ IndexFrom(r, stack[r].head)' = IndexFrom(r, stack[r].head)
            /\ StaleFrom(r) \subseteq StaleFrom(r)'
        BY <3>1, <4>1, LeftStays
      <4>9. (\E j \in IndexFrom(r, NewHead(r)) \cup IndexFrom(r, stack[r].head),
                f \in StaleFrom(r), k \in BOOLEAN :
               Worktree = Left(r, stack[r].head, j, f, k))'
        BY <3>1, <4>1, <4>3, <4>7, <4>8 DEF Left
      <4> QED
        BY <3>1, <4>1, <4>4, <4>9 DEF InStep
    <3> QED
      BY <2>1, <3>1, <3>2, OwnStep
  <2> QED
    BY <1>20, <2>2, <2>3 DEF RollbackRef
<1>21. ASSUME NEW r \in Requests, RollbackTree(r) PROVE InstallInSteps'
  <2>1. Alone(r)
    BY <1>21, DisturbsOthers DEF RollbackTree
  <2> QED
    BY <1>0, <1>21, <2>1, OwnStep DEF RollbackTree
<1>22. ASSUME NEW r \in Requests, FailRollback(r) PROVE InstallInSteps'
  <2>1. Alone(r)
    BY <1>22, DisturbsOthers DEF FailRollback
  <2> QED
    BY <1>0, <1>22, <2>1, OwnStep DEF FailRollback
<1>23. ASSUME NEW r \in Requests, Verify(r) PROVE InstallInSteps'
  BY <1>0, <1>23, QuietStep DEF Verify, git
<1>24. ASSUME NEW r \in Requests, Expire(r) PROVE InstallInSteps'
  <2>1. ASSUME NEW q \in Requests, found'[q] # None PROVE InStep(q, pc[q])'
    BY <1>24, <2>1, StaysInStep DEF Expire, git
  <2> QED
    BY <1>24, <2>1 DEF InstallInSteps
<1>25. ASSUME NEW i \in Instances, Cancel(i) PROVE InstallInSteps'
  <2>1. ASSUME NEW q \in Requests, found'[q] # None PROVE InStep(q, pc[q])'
    BY <1>25, <2>1, StaysInStep DEF Cancel, git
  <2> QED
    BY <2>1 DEF InstallInSteps
<1>26. ASSUME NEW i \in Instances, Crash(i) PROVE InstallInSteps'
  <2>1. ASSUME NEW q \in Requests, found'[q] # None PROVE InStep(q, pc[q])'
    <3>1. pc'[q] \in Running /\ found'[q] = found[q]
      BY <1>26, <2>1 DEF Crash, DisturbNone, Disturb
    <3>2. pc'[q] = pc[q] /\ Home[q] # i
      BY <1>0, <1>26, <3>1 DEF Crash
    <3>3. stack'[q] = stack[q] /\ (q \in halfway => q \in halfway')
      BY <1>26, <3>2 DEF Crash, Forget
    <3> QED
      BY <1>26, <2>1, <3>1, <3>2, <3>3, StaysInStep DEF Crash, git
  <2> QED
    BY <2>1 DEF InstallInSteps
<1>27. ASSUME UserNext PROVE InstallInSteps'
  <2>1. Disturb(Requests)
    BY <1>27 DEF UserNext, UserCommit, UserSwitch, UserMove, UserEdit, UserStep
  <2> QED
    BY <2>1 DEF Disturb, InstallInSteps
<1>28. ASSUME UNCHANGED vars PROVE InstallInSteps'
  <2>1. ASSUME NEW q \in Requests, found'[q] # None PROVE InStep(q, pc[q])'
    BY <1>28, <2>1, StaysInStep DEF vars, git, calls
  <2> QED
    BY <2>1 DEF InstallInSteps
<1> QED
  BY <1>1, <1>2, <1>3, <1>4, <1>5, <1>6, <1>7, <1>8, <1>9, <1>10, <1>11, <1>12, <1>13, <1>14,
     <1>15, <1>16, <1>17, <1>18, <1>19, <1>20, <1>21, <1>22, <1>23, <1>24, <1>25, <1>26, <1>27, <1>28
     DEF Next, Review, RewriteStep

--------------------------------------------------------------------------------
(* Histories                                                                *)

\* A set of natural numbers has a least element.
LEMMA Least ==
  ASSUME NEW T \in SUBSET Nat, T # {}
  PROVE  \E n \in T : \A m \in T : n <= m
<1> DEFINE Below == OpToRel(<, Nat)
<1>1. IsWellFoundedOn(Below, Nat)
  BY NatLessThanWellFounded DEF Below
<1>2. \A x, y \in Nat : <<x, y>> \in Below <=> x < y
  BY DEF OpToRel, Below
<1> HIDE DEF Below
<1>3. PICK n \in T : \A m \in T : ~(<<m, n>> \in Below)
  <2>1. IsWellFoundedOn(Below, Nat) /\ T \subseteq Nat /\ T # {}
    BY <1>1
  <2> QED
    BY ONLY <2>1, WFMin
<1>4. ASSUME NEW m \in T PROVE n <= m
  <2>1. m \in Nat /\ n \in Nat
    OBVIOUS
  <2>2. ~(m < n)
    BY <1>2, <1>3, <2>1
  <2> QED
    BY <2>1, <2>2
<1> QED
  BY <1>4

\* A history that can be computed is what its definition says.
LEMMA ChainIsComputed ==
  ASSUME NEW p, NEW F, F = [d \in DOMAIN p |-> IF p[d] = None THEN <<d>> ELSE Append(F[p[d]], d)]
  PROVE  \E G : /\ G = [d \in DOMAIN p |-> IF p[d] = None THEN <<d>> ELSE Append(G[p[d]], d)]
                /\ \A c : ChainIn(p, c) = G[c]
<1> DEFINE R(G) == G = [d \in DOMAIN p |-> IF p[d] = None THEN <<d>> ELSE Append(G[p[d]], d)]
           G == CHOOSE G : R(G)
<1>1. \A c : ChainIn(p, c) = G[c]
  BY DEF ChainIn
<1>2. R(F)
  OBVIOUS
<1> HIDE DEF R
<1>3. R(G)
  BY <1>2
<1> QED
  BY <1>1, <1>3 DEF R

\* The history of a commit goes on from that of its parent.
LEMMA ChainStep ==
  ASSUME NEW p, HistoryEnds(p), NEW c \in DOMAIN p
  PROVE  /\ ChainIn(p, c) \in Seq(DOMAIN p)
         /\ p[c] \in DOMAIN p \/ p[c] = None
         /\ p[c] = None => ChainIn(p, c) = <<c>>
         /\ p[c] # None => ChainIn(p, c) = Append(ChainIn(p, p[c]), c)
BY DEF HistoryEnds

\* Each beginning of a history is the history of its last commit.
LEMMA ChainPrefix ==
  ASSUME NEW p, HistoryEnds(p)
  PROVE  \A c \in DOMAIN p :
           /\ Len(ChainIn(p, c)) \in Nat \ {0}
           /\ ChainIn(p, c)[Len(ChainIn(p, c))] = c
           /\ \A i \in 1 .. Len(ChainIn(p, c)) :
                ChainIn(p, ChainIn(p, c)[i]) = SubSeq(ChainIn(p, c), 1, i)
<1> DEFINE S(c) == ChainIn(p, c)
           Good(c) == /\ Len(S(c)) \in Nat \ {0}
                      /\ S(c)[Len(S(c))] = c
                      /\ \A i \in 1 .. Len(S(c)) : S(S(c)[i]) = SubSeq(S(c), 1, i)
           T == {Len(S(c)) : c \in {d \in DOMAIN p : ~Good(d)}}
<1>0. \A c \in DOMAIN p : /\ S(c) \in Seq(DOMAIN p)
                          /\ p[c] \in DOMAIN p \/ p[c] = None
                          /\ p[c] = None => S(c) = <<c>>
                          /\ p[c] # None => S(c) = Append(S(p[c]), c)
  BY ChainStep
<1> HIDE DEF S
<1>1. T \in SUBSET Nat
  BY <1>0
<1>2. ASSUME T # {} PROVE FALSE
  <2>1. PICK n \in T : \A m \in T : n <= m
    <3> HIDE DEF T
    <3> QED
      BY <1>1, <1>2, Least
  <2>2. PICK c \in DOMAIN p : ~Good(c) /\ n = Len(S(c))
    OBVIOUS
  <2>3. CASE p[c] = None
    <3>1. S(c) = <<c>>
      BY <1>0, <2>3
    <3>2. Len(S(c)) = 1 /\ S(c)[1] = c
      BY <3>1
    <3>5. SubSeq(S(c), 1, 1) = S(c)
      <4>1. S(c) \in Seq(DOMAIN p) /\ SubSeq(S(c), 1, 1) \in Seq(DOMAIN p)
        BY <1>0, <3>2
      <4>2. Len(SubSeq(S(c), 1, 1)) = 1 /\ SubSeq(S(c), 1, 1)[1] = S(c)[1]
        BY <3>2, <4>1
      <4> QED
        BY <3>2, <4>1, <4>2, SeqEqual
    <3>3. \A i \in 1 .. Len(S(c)) : i = 1
      BY <3>2
    <3>4. Good(c)
      BY <3>2, <3>3, <3>5
    <3> QED
      BY <2>2, <3>4
  <2>4. CASE p[c] # None
    <3> DEFINE b == p[c]
    <3>1. b \in DOMAIN p /\ S(b) \in Seq(DOMAIN p) /\ S(c) = Append(S(b), c)
      BY <1>0, <2>4
    <3>2. Len(S(b)) \in Nat /\ Len(S(c)) = Len(S(b)) + 1 /\ S(c)[Len(S(c))] = c
      BY <3>1
    <3>3. Good(b)
      <4>1. \A m \in T : Len(S(c)) <= m
        BY <2>1, <2>2
      <4>2. ~Good(b) => Len(S(b)) \in T
        BY <3>1
      <4> HIDE DEF T, Good
      <4> QED
        BY <3>2, <4>1, <4>2
    <3>4. ASSUME NEW i \in 1 .. Len(S(b))
          PROVE  S(S(c)[i]) = SubSeq(S(c), 1, i)
      <4>1. S(c)[i] = S(b)[i]
        BY <3>1, <3>2
      <4>2. SubSeq(S(c), 1, i) = SubSeq(S(b), 1, i)
        BY <3>1, <3>2
      <4> QED
        BY <3>3, <4>1, <4>2
    <3>5. S(S(c)[Len(S(c))]) = SubSeq(S(c), 1, Len(S(c)))
      BY <3>1, <3>2
    <3>6. Good(c)
      <4>1. ASSUME NEW i \in 1 .. Len(S(c)) PROVE S(S(c)[i]) = SubSeq(S(c), 1, i)
        <5>1. i \in 1 .. Len(S(b)) \/ i = Len(S(c))
          BY <3>2
        <5> QED
          BY <3>4, <3>5, <5>1
      <4> QED
        BY <3>2, <4>1
    <3> QED
      BY <2>2, <3>6
  <2> QED
    BY <2>3, <2>4
<1>3. \A c \in DOMAIN p : Good(c)
  <2> HIDE DEF Good
  <2> QED
    BY <1>2
<1> QED
  BY <1>3 DEF S

\* Two histories with a commit in common are the same up to it.
LEMMA ChainsPart ==
  ASSUME NEW p, HistoryEnds(p), NEW c \in DOMAIN p, NEW d \in DOMAIN p,
         NEW i \in 1 .. Len(ChainIn(p, c)), NEW j \in 1 .. Len(ChainIn(p, d)),
         ChainIn(p, c)[i] = ChainIn(p, d)[j]
  PROVE  /\ i = j
         /\ \A k \in 1 .. i : ChainIn(p, c)[k] = ChainIn(p, d)[k]
<1> DEFINE s == ChainIn(p, c)
           t == ChainIn(p, d)
<1>1. s \in Seq(DOMAIN p) /\ t \in Seq(DOMAIN p)
  BY ChainStep
<1>2. SubSeq(s, 1, i) = SubSeq(t, 1, j)
  <2>1. ChainIn(p, s[i]) = SubSeq(s, 1, i)
    BY ChainPrefix
  <2>2. ChainIn(p, t[j]) = SubSeq(t, 1, j)
    BY ChainPrefix
  <2> QED
    BY <2>1, <2>2
<1> HIDE DEF s, t
<1>3. Len(SubSeq(s, 1, i)) = i /\ Len(SubSeq(t, 1, j)) = j
  BY <1>1 DEF s, t
<1>4. i = j
  BY <1>2, <1>3
<1>5. ASSUME NEW k \in 1 .. i PROVE s[k] = t[k]
  <2>1. SubSeq(s, 1, i)[k] = s[k] /\ SubSeq(t, 1, i)[k] = t[k]
    BY <1>1, <1>4 DEF s, t
  <2> QED
    BY <1>2, <1>4, <2>1
<1> QED
  BY <1>4, <1>5 DEF s, t

\* So what one history has and another has not is all above the place where
\* they part.
LEMMA AboveFits ==
  ASSUME NEW p, HistoryEnds(p), NEW c \in DOMAIN p, NEW d \in DOMAIN p
  PROVE  \E n \in 0 .. Len(ChainIn(p, c)) :
           /\ \A i \in 1 .. Len(ChainIn(p, c)) :
                ChainIn(p, c)[i] \in Elements(ChainIn(p, d)) <=> i <= n
           /\ Above(ChainIn(p, c), ChainIn(p, d)) =
                SubSeq(ChainIn(p, c), n + 1, Len(ChainIn(p, c)))
<1> DEFINE s == ChainIn(p, c)
           t == ChainIn(p, d)
           Parts(n) == n \in 0 .. Len(s)
                       /\ \A i \in 1 .. Len(s) : s[i] \in Elements(t) <=> i <= n
           T == {i \in 1 .. Len(s) : s[i] \notin Elements(t)}
<1>1. s \in Seq(DOMAIN p) /\ t \in Seq(DOMAIN p)
  BY ChainStep
<1>2. \A i \in 1 .. Len(s) : \A j \in 1 .. i : s[i] \in Elements(t) => s[j] \in Elements(t)
  <2> SUFFICES ASSUME NEW i \in 1 .. Len(s), NEW j \in 1 .. i, s[i] \in Elements(t)
               PROVE  s[j] \in Elements(t)
    OBVIOUS
  <2>1. PICK k \in DOMAIN t : s[i] = t[k]
    BY DEF Elements
  <2>2. k \in 1 .. Len(t)
    BY <1>1
  <2>3. i = k /\ s[j] = t[j]
    BY <2>1, <2>2, ChainsPart
  <2>4. j \in DOMAIN t
    BY <1>1, <2>2, <2>3
  <2> QED
    BY <2>3, <2>4 DEF Elements
<1> HIDE DEF s, t
<1>3. \E n : Parts(n)
  <2>1. CASE T = {}
    BY <1>1, <2>1
  <2>2. CASE T # {}
    <3>1. T \in SUBSET Nat
      BY <1>1
    <3>2. PICK m \in T : \A i \in T : m <= i
      <4> HIDE DEF T
      <4> QED
        BY <2>2, <3>1, Least
    <3>3. ASSUME NEW i \in 1 .. Len(s) PROVE s[i] \in Elements(t) <=> i <= m - 1
      <4>1. CASE i < m
        BY <1>1, <3>2, <4>1
      <4>2. CASE ~(i < m)
        BY <1>1, <1>2, <3>2, <4>2
      <4> QED
        BY <4>1, <4>2
    <3>4. m - 1 \in 0 .. Len(s)
      BY <1>1
    <3>5. Parts(m - 1)
      BY <3>3, <3>4
    <3> QED
      BY <3>5
  <2> QED
    BY <2>1, <2>2
<1> DEFINE N == CHOOSE n \in 0 .. Len(s) : \A i \in 1 .. Len(s) : s[i] \in Elements(t) <=> i <= n
<1>4. Parts(N)
  BY <1>3
<1>5. Above(s, t) = SubSeq(s, N + 1, Len(s))
  BY DEF Above
<1> HIDE DEF N
<1> QED
  BY <1>4, <1>5 DEF s, t

\* A new commit on an old one leaves every older history as it was.
LEMMA HistoryGrows ==
  ASSUME NEW p, HistoryEnds(p), NEW c, c \notin DOMAIN p, NEW b \in DOMAIN p, NEW q,
         q = [d \in DOMAIN p \cup {c} |-> IF d = c THEN b ELSE p[d]]
  PROVE  /\ HistoryEnds(q)
         /\ \A d \in DOMAIN p : ChainIn(q, d) = ChainIn(p, d)
<1> DEFINE S(d) == ChainIn(p, d)
           own == IF b = None THEN <<c>> ELSE Append(S(b), c)
           F == [d \in DOMAIN q |-> IF d = c THEN own ELSE S(d)]
<1>0. \A d \in DOMAIN p : /\ S(d) \in Seq(DOMAIN p)
                          /\ p[d] \in DOMAIN p \/ p[d] = None
                          /\ p[d] = None => S(d) = <<d>>
                          /\ p[d] # None => S(d) = Append(S(p[d]), d)
  BY ChainStep
<1> HIDE DEF S
<1>1. /\ DOMAIN q = DOMAIN p \cup {c}
      /\ q[c] = b
      /\ \A d \in DOMAIN p : q[d] = p[d] /\ d # c
  OBVIOUS
<1>2. \A d \in DOMAIN p : F[d] = S(d)
  BY <1>1
<1>3. F = [d \in DOMAIN q |-> IF q[d] = None THEN <<d>> ELSE Append(F[q[d]], d)]
  <2>1. F[c] = IF q[c] = None THEN <<c>> ELSE Append(F[q[c]], c)
    BY <1>1, <1>2
  <2>2. \A d \in DOMAIN p : F[d] = IF q[d] = None THEN <<d>> ELSE Append(F[q[d]], d)
    BY <1>0, <1>1, <1>2
  <2>3. F = [d \in DOMAIN q |-> F[d]]
    OBVIOUS
  <2> HIDE DEF F
  <2>4. \A d \in DOMAIN q : F[d] = IF q[d] = None THEN <<d>> ELSE Append(F[q[d]], d)
    BY <1>1, <2>1, <2>2
  <2> QED
    BY <2>3, <2>4
<1> HIDE DEF F
<1>4. PICK G : /\ G = [d \in DOMAIN q |-> IF q[d] = None THEN <<d>> ELSE Append(G[q[d]], d)]
               /\ \A d : ChainIn(q, d) = G[d]
  <2>1. \E G : /\ G = [d \in DOMAIN q |-> IF q[d] = None THEN <<d>> ELSE Append(G[q[d]], d)]
               /\ \A d : ChainIn(q, d) = G[d]
    BY ONLY <1>3, ChainIsComputed, Zenon
  <2> QED
    BY ONLY <2>1
<1>5. \A d \in DOMAIN q : G[d] = IF q[d] = None THEN <<d>> ELSE Append(G[q[d]], d)
  BY <1>4
<1> DEFINE T == {Len(S(d)) : d \in {e \in DOMAIN p : G[e] # S(e)}}
<1>6. ASSUME T # {} PROVE FALSE
  <2>1. T \in SUBSET Nat
    BY <1>0
  <2>2. PICK n \in T : \A m \in T : n <= m
    <3> HIDE DEF T
    <3> QED
      BY <1>6, <2>1, Least
  <2>3. PICK d \in DOMAIN p : G[d] # S(d) /\ n = Len(S(d))
    OBVIOUS
  <2>4. p[d] # None
    BY <1>0, <1>1, <1>5, <2>3
  <2>5. p[d] \in DOMAIN p /\ Len(S(d)) = Len(S(p[d])) + 1 /\ Len(S(p[d])) \in Nat
    BY <1>0, <2>4
  <2>6. G[p[d]] # S(p[d])
    <3>1. G[d] = Append(G[p[d]], d) /\ S(d) = Append(S(p[d]), d)
      BY <1>0, <1>1, <1>5, <2>4
    <3> QED
      BY <2>3, <3>1
  <2>7. Len(S(p[d])) \in T
    BY <2>5, <2>6
  <2> HIDE DEF T
  <2> QED
    BY <2>2, <2>3, <2>5, <2>7
<1>7. \A d \in DOMAIN p : G[d] = S(d)
  BY <1>6
<1> HIDE DEF T
<1>8. \A d \in DOMAIN q : /\ q[d] \in DOMAIN q \cup {None}
                          /\ G[d] \in Seq(DOMAIN q)
                          /\ G[d] = IF q[d] = None THEN <<d>> ELSE Append(G[q[d]], d)
  <2>1. ASSUME NEW d \in DOMAIN p PROVE q[d] \in DOMAIN q \cup {None} /\ G[d] \in Seq(DOMAIN q)
    BY <1>0, <1>1, <1>7
  <2>2. q[c] \in DOMAIN q \cup {None} /\ G[c] \in Seq(DOMAIN q)
    <3>1. b \in DOMAIN q /\ c \in DOMAIN q /\ G[b] \in Seq(DOMAIN q)
      BY <1>1, <2>1
    <3>2. G[c] = IF b = None THEN <<c>> ELSE Append(G[b], c)
      BY <1>1, <1>5, <3>1
    <3>3. <<c>> \in Seq(DOMAIN q) /\ Append(G[b], c) \in Seq(DOMAIN q)
      BY <3>1
    <3> QED
      BY <1>1, <3>1, <3>2, <3>3
  <2> QED
    BY <1>1, <1>5, <2>1, <2>2
<1>9. HistoryEnds(q)
  <2>1. \A d : ChainIn(q, d) = G[d]
    BY <1>4
  <2>2. ASSUME NEW d \in DOMAIN q
        PROVE  /\ q[d] \in DOMAIN q \cup {None}
               /\ ChainIn(q, d) \in Seq(DOMAIN q)
               /\ ChainIn(q, d) = IF q[d] = None THEN <<d>> ELSE Append(ChainIn(q, q[d]), d)
    <3>1. ChainIn(q, d) = G[d] /\ ChainIn(q, q[d]) = G[q[d]]
      BY <2>1
    <3>2. /\ q[d] \in DOMAIN q \cup {None}
          /\ G[d] \in Seq(DOMAIN q)
          /\ G[d] = IF q[d] = None THEN <<d>> ELSE Append(G[q[d]], d)
      BY <1>8
    <3> QED
      BY ONLY <3>1, <3>2
  <2> QED
    BY ONLY <2>2 DEF HistoryEnds
<1> QED
  BY <1>4, <1>7, <1>9 DEF S

\* The history of the k-th is that of b, followed by the replacements up to it.
Climbs(p, b, r, k) ==
  /\ Len(ChainIn(p, Replacement(r, k))) = Len(ChainIn(p, b)) + k
  /\ \A i \in 1 .. Len(ChainIn(p, b)) : ChainIn(p, Replacement(r, k))[i] = ChainIn(p, b)[i]
  /\ \A i \in 1 .. k :
       ChainIn(p, Replacement(r, k))[Len(ChainIn(p, b)) + i] = Replacement(r, i)

\* Replaying commit by commit builds the history one expects.
LEMMA ReplayedChain ==
  ASSUME NEW p, HistoryEnds(p), None \notin DOMAIN p, NEW b \in DOMAIN p, NEW r, NEW m \in Nat,
         Tower(p, b, r, m)
  PROVE  \A k \in 1 .. m : Climbs(p, b, r, k)
<1> DEFINE S(d) == ChainIn(p, d)
           L == Len(S(b))
           R(k) == Replacement(r, k)
           Good(k) == /\ Len(S(R(k))) = L + k
                      /\ \A i \in 1 .. L : S(R(k))[i] = S(b)[i]
                      /\ \A i \in 1 .. k : S(R(k))[L + i] = R(i)
           T == {k \in 1 .. m : ~Good(k)}
<1>0. \A d \in DOMAIN p : /\ S(d) \in Seq(DOMAIN p)
                          /\ p[d] \in DOMAIN p => S(d) = Append(S(p[d]), d)
  BY ChainStep
<1>1. \A k \in 1 .. m : R(k) \in DOMAIN p /\ p[R(k)] = IF k = 1 THEN b ELSE R(k - 1)
  BY DEF Tower
<1> HIDE DEF S, R
<1>2. L \in Nat
  BY <1>0
<1>3. ASSUME 1 \in 1 .. m PROVE Good(1)
  <2>1. S(R(1)) = Append(S(b), R(1)) /\ S(b) \in Seq(DOMAIN p)
    BY <1>0, <1>1, <1>3
  <2> QED
    BY <1>2, <2>1
<1>4. ASSUME NEW k \in 1 .. m, k # 1, Good(k - 1) PROVE Good(k)
  <2>1. k - 1 \in 1 .. m
    BY <1>4
  <2>2. S(R(k)) = Append(S(R(k - 1)), R(k)) /\ S(R(k - 1)) \in Seq(DOMAIN p)
    BY <1>0, <1>1, <1>4, <2>1
  <2>3. Len(S(R(k))) = L + k /\ S(R(k))[L + k] = R(k)
    BY <1>2, <1>4, <2>2
  <2>4. \A i \in 1 .. L : S(R(k))[i] = S(b)[i]
    BY <1>2, <1>4, <2>1, <2>2
  <2>5. ASSUME NEW i \in 1 .. k PROVE S(R(k))[L + i] = R(i)
    <3>1. CASE i = k
      BY <2>3, <3>1
    <3>2. CASE i # k
      <4>1. i \in 1 .. k - 1 /\ L + i \in 1 .. Len(S(R(k - 1)))
        BY <1>2, <1>4, <2>1, <3>2
      <4>2. S(R(k))[L + i] = S(R(k - 1))[L + i]
        BY <2>2, <4>1
      <4> QED
        BY <1>4, <4>1, <4>2
    <3> QED
      BY <3>1, <3>2
  <2> QED
    BY <2>3, <2>4, <2>5
<1>5. T \in SUBSET Nat
  OBVIOUS
<1>6. ASSUME T # {} PROVE FALSE
  <2>1. PICK n \in T : \A k \in T : n <= k
    <3> HIDE DEF T
    <3> QED
      BY <1>5, <1>6, Least
  <2>2. n \in 1 .. m /\ ~Good(n)
    OBVIOUS
  <2>3. n # 1
    <3> HIDE DEF Good
    <3> QED
      BY <1>3, <2>2
  <2>4. n - 1 \in 1 .. m /\ n - 1 \notin T
    <3> HIDE DEF T, Good
    <3> QED
      BY <2>1, <2>2, <2>3
  <2> HIDE DEF Good
  <2> QED
    BY <1>4, <2>2, <2>3, <2>4
<1>7. \A k \in 1 .. m : Good(k)
  <2> HIDE DEF Good
  <2> QED
    BY <1>6
<1> QED
  BY <1>7 DEF S, R, Climbs

\* So the commits above the base are the replacements.
LEMMA ReplacedRange ==
  ASSUME NEW p, HistoryEnds(p), None \notin DOMAIN p, NEW b \in DOMAIN p, NEW r, NEW m \in Nat,
         m # 0, Tower(p, b, r, m),
         Elements(ChainIn(p, b)) \cap ({r} \X Nat) = {}
  PROVE  Above(ChainIn(p, Replacement(r, m)), ChainIn(p, b)) = [k \in 1 .. m |-> Replacement(r, k)]
<1> DEFINE s == ChainIn(p, Replacement(r, m))
           t == ChainIn(p, b)
           L == Len(t)
           new == [k \in 1 .. m |-> Replacement(r, k)]
<1>1. Replacement(r, m) \in DOMAIN p /\ s \in Seq(DOMAIN p) /\ t \in Seq(DOMAIN p)
  BY ChainStep DEF Tower
<1>2. /\ Len(s) = L + m
      /\ \A i \in 1 .. L : s[i] = t[i]
      /\ \A i \in 1 .. m : s[L + i] = Replacement(r, i)
  <2>1. m \in 1 .. m
    OBVIOUS
  <2>2. \A k \in 1 .. m : Climbs(p, b, r, k)
    BY ReplayedChain
  <2> QED
    BY <2>1, <2>2 DEF Climbs
<1>3. PICK n \in 0 .. Len(s) :
        /\ \A i \in 1 .. Len(s) : s[i] \in Elements(t) <=> i <= n
        /\ Above(s, t) = SubSeq(s, n + 1, Len(s))
  BY <1>1, AboveFits
<1> HIDE DEF s, t
<1>4. L \in Nat
  BY <1>1
<1>5. n >= L
  <2>1. ASSUME L # 0 PROVE n >= L
    <3>1. L \in 1 .. Len(s) /\ L \in 1 .. L
      BY <1>2, <1>4, <2>1
    <3>2. s[L] = t[L] /\ L \in DOMAIN t
      BY <1>1, <1>2, <3>1
    <3>3. s[L] \in Elements(t)
      BY <3>2 DEF Elements
    <3> QED
      BY <1>3, <3>1, <3>3
  <2> QED
    BY <1>3, <1>4, <2>1
<1>6. n <= L
  <2>1. L + 1 \in 1 .. Len(s) /\ s[L + 1] = Replacement(r, 1)
    BY <1>2, <1>4
  <2>2. Replacement(r, 1) \in {r} \X Nat
    BY DEF Replacement
  <2>3. s[L + 1] \notin Elements(t)
    BY <2>1, <2>2 DEF t
  <2>4. ~(L + 1 <= n)
    BY <1>3, <2>1, <2>3
  <2> QED
    BY <1>3, <1>4, <2>4
<1>7. n = L
  BY <1>3, <1>4, <1>5, <1>6
<1>8. SubSeq(s, L + 1, L + m) = new
  <2>1. /\ SubSeq(s, L + 1, L + m) \in Seq(DOMAIN p)
        /\ Len(SubSeq(s, L + 1, L + m)) = m
        /\ \A k \in 1 .. m : SubSeq(s, L + 1, L + m)[k] = s[L + k]
    BY <1>1, <1>2, <1>4
  <2>2. new \in Seq(DOMAIN p) /\ Len(new) = m /\ \A k \in 1 .. m : new[k] = s[L + k]
    <3>1. new \in [1 .. m -> DOMAIN p] /\ \A k \in 1 .. m : new[k] = s[L + k]
      BY <1>2 DEF Tower
    <3> HIDE DEF new
    <3>2. new \in Seq(DOMAIN p)
      BY <3>1
    <3> QED
      BY <3>1, <3>2
  <2> HIDE DEF new
  <2> QED
    BY <2>1, <2>2, SeqEqual
<1> QED
  BY <1>2, <1>3, <1>7, <1>8 DEF s, t

--------------------------------------------------------------------------------
(* The invariant                                                            *)

\* The invariant holds initially.
LEMMA InitSound == Init => Sound
<1> SUFFICES ASSUME Init PROVE Sound
  OBVIOUS
<1>1. TypeOK
  BY InitTypeOK
<1>2. \A r \in Requests : pc[r] = "idle" /\ stack[r] = NoStack /\ NoStack.head = None
  BY DEF Init, NoStack
<1>3. OneRewritePerProcess /\ BackedUp /\ InstallInSteps
  BY <1>2, HomesAreInstances, NamesAreNew
     DEF Init, OneRewritePerProcess, BackedUp, InstallInSteps,
         Running, Early, Replaying, Critical
<1>4. NoDanglingNames
  BY <1>2, OriginIsClosed
     DEF Init, NoDanglingNames, Running, Early, Replaying, Critical
<1>5. FreshReplacements
  <2>1. \A r \in Requests : \A c \in DOMAIN parent : c \notin {r} \X Nat
    BY OriginIsClosed, NothingElseIsMade DEF Init, Made
  <2> QED
    BY <1>2, <2>1, OwnReplacements DEF FreshReplacements, Init
<1> QED
  BY <1>1, <1>3, <1>4, <1>5 DEF Sound

\* No step disturbs what the names, the lock and the installation need.
LEMMA NextSound == Sound /\ [Next]_vars => Sound'
BY NextTypeOK, NextOneRewrite, NextBackedUp, NextNoDangling, NextFresh, NextInSteps DEF Sound

\* The rest of the invariant holds initially.
LEMMA InitIInv == Init => IInv
<1> SUFFICES ASSUME Init PROVE IInv
  OBVIOUS
<1>1. OnlyAdded
  <2>1. parent = OriginParent /\ DOMAIN parent = Origins
    BY OriginIsClosed DEF Init
  <2>2. \A r \in Requests \cup {User} : DOMAIN parent \cap ({r} \X Nat) = {}
    BY <2>1, NothingElseIsMade DEF Made
  <2>3. HistoryEnds(parent)
    BY <2>1, OriginIsClosed
  <2> QED
    BY <2>2, <2>3 DEF OnlyAdded
<1>2. OnPlan
  BY DEF Init, OnPlan, Reviewed, Replayed, Running, Early, Replaying, Critical
<1> QED
  BY <1>1, <1>2, InitSound DEF IInv

\* r's call goes from label a to label l, and its plan stays what it was.
Follows(a, l) ==
  /\ a \in Running \cup {"apply"} /\ l \in Running
  /\ l \in {"add"} \cup Replaying \cup Critical => a \in {"add"} \cup Replaying \cup Critical
  /\ l \in Early => a \in Early \cup {"apply"}
  /\ l \in {"seal"} \cup Critical => a \in {"seal"} \cup Critical

\* A step that makes no commit and leaves every plan alone.
Ordinary ==
  /\ parent' = parent
  /\ built' = built
  /\ userSteps' \in {userSteps, userSteps + 1}
  /\ \A r \in Requests :
       \/ pc'[r] \in Ended
       \/ stack'[r] = stack[r] /\ (pc'[r] = pc[r] \/ Follows(pc[r], pc'[r]))

\* Every other request stays where it is.
LEMMA OthersStay ==
  ASSUME TypeOK, NEW r \in Requests, NEW l
  PROVE  /\ Continue(r, l) => /\ stack' = stack
                              /\ pc'[r] = l
                              /\ \A q \in Requests \ {r} : pc'[q] = pc[q]
         /\ Return(r, l) => /\ pc'[r] = l
                            /\ \A q \in Requests \ {r} : pc'[q] = pc[q] /\ stack'[q] = stack[q]
BY DEF TypeOK, Continue, Return, Forget, Goto, calls

\* A request that goes on, or returns, after a command that makes no commit.
LEMMA OrdinaryStep ==
  ASSUME TypeOK, NEW r \in Requests, NEW l, parent' = parent, built' = built,
         userSteps' = userSteps
  PROVE  /\ Follows(pc[r], l) /\ Continue(r, l) => Ordinary
         /\ l \in Ended /\ Return(r, l) => Ordinary
<1>1. ASSUME Follows(pc[r], l), Continue(r, l) PROVE Ordinary
  BY <1>1, OthersStay DEF Ordinary
<1>2. ASSUME l \in Ended, Return(r, l) PROVE Ordinary
  BY <1>2, OthersStay DEF Ordinary
<1> QED
  BY <1>1, <1>2

\* All other steps review a stack, validate it, replay a commit of it, or are
\* commits of the user.
LEMMA OrdinarySteps ==
  TypeOK /\ [Next]_vars =>
    \/ Ordinary
    \/ \E r \in Requests : PrepareBranch(r) \/ PrepareStack(r) \/ Validate(r) \/ Replay(r)
    \/ UserCommit
<1> SUFFICES ASSUME TypeOK, [Next]_vars,
                    ~ \E r \in Requests :
                        PrepareBranch(r) \/ PrepareStack(r) \/ Validate(r) \/ Replay(r),
                    ~UserCommit
             PROVE  Ordinary
  OBVIOUS
<1>0. \A l : l \in Ended <=> l \in {"refused", "rolledBack", "torn", "uncertain", "installed", "crashed"}
  BY DEF Ended
<1>1. ASSUME NEW r \in Requests, BeginRewrite(r) PROVE Ordinary
  BY <1>1 DEF BeginRewrite, Ordinary, Follows, TypeOK, Goto, git, calls, Running, Early, Replaying, Critical
<1>2. ASSUME NEW r \in Requests, CheckBranch(r) PROVE Ordinary
  BY <1>0, <1>2, OrdinaryStep DEF CheckBranch, Follows, git, Running, Early, Replaying, Critical
<1>3. ASSUME NEW r \in Requests, CheckHead(r) PROVE Ordinary
  BY <1>0, <1>3, OrdinaryStep DEF CheckHead, Follows, git, Running, Early, Replaying, Critical
<1>4. ASSUME NEW r \in Requests, FailEarly(r) PROVE Ordinary
  BY <1>0, <1>4, OrdinaryStep DEF FailEarly, Follows, git, Running, Early, Replaying, Critical
<1>5. ASSUME NEW r \in Requests, AddWorktree(r) PROVE Ordinary
  BY <1>0, <1>5, OrdinaryStep DEF AddWorktree, Follows, git, Running, Early, Replaying, Critical
<1>6. ASSUME NEW r \in Requests, LeakWorktree(r) PROVE Ordinary
  BY <1>0, <1>6, OrdinaryStep DEF LeakWorktree, Follows, git, Running, Early, Replaying, Critical
<1>7. ASSUME NEW r \in Requests, Seal(r) PROVE Ordinary
  BY <1>0, <1>7, OrdinaryStep DEF Seal, Follows, git, Running, Early, Replaying, Critical
<1>8. ASSUME NEW r \in Requests, FailReplay(r) PROVE Ordinary
  BY <1>0, <1>8, OrdinaryStep DEF FailReplay, Follows, git, Running, Early, Replaying, Critical
<1>9. ASSUME NEW r \in Requests, Abandon(r) PROVE Ordinary
  BY <1>0, <1>9, OrdinaryStep DEF Abandon, Follows, git, Running, Early, Replaying, Critical
<1>10. ASSUME NEW r \in Requests, DryRun(r) PROVE Ordinary
  BY <1>0, <1>10, OrdinaryStep DEF DryRun, Follows, git, Running, Early, Replaying, Critical
<1>11. ASSUME NEW r \in Requests, WriteBackup(r) PROVE Ordinary
  BY <1>0, <1>11, OrdinaryStep DEF WriteBackup, Follows, git, Running, Early, Replaying, Critical
<1>12. ASSUME NEW r \in Requests, MoveBranch(r) PROVE Ordinary
  BY <1>0, <1>12, OrdinaryStep DEF MoveBranch, Follows, git, Running, Early, Replaying, Critical
<1>13. ASSUME NEW r \in Requests, FailInstall(r) PROVE Ordinary
  BY <1>0, <1>13, OrdinaryStep DEF FailInstall, Follows, git, Running, Early, Replaying, Critical
<1>14. ASSUME NEW r \in Requests, InstallTree(r) PROVE Ordinary
  BY <1>0, <1>14, OrdinaryStep DEF InstallTree, Follows, git, Running, Early, Replaying, Critical
<1>15. ASSUME NEW r \in Requests, FailTree(r) PROVE Ordinary
  BY <1>0, <1>15, FailTreeGoes
     DEF Ordinary, Follows, TypeOK, Goto, Running, Early, Replaying, Critical
<1>16. ASSUME NEW r \in Requests, RollbackRef(r) PROVE Ordinary
  BY <1>0, <1>16, OrdinaryStep DEF RollbackRef, Follows, git, Running, Early, Replaying, Critical
<1>17. ASSUME NEW r \in Requests, RollbackTree(r) PROVE Ordinary
  BY <1>0, <1>17, OrdinaryStep DEF RollbackTree, Follows, git, Running, Early, Replaying, Critical
<1>18. ASSUME NEW r \in Requests, FailRollback(r) PROVE Ordinary
  BY <1>0, <1>18, OrdinaryStep DEF FailRollback, Follows, git, Running, Early, Replaying, Critical
<1>19. ASSUME NEW r \in Requests, Verify(r) PROVE Ordinary
  BY <1>0, <1>19, OrdinaryStep DEF Verify, Follows, git, Running, Early, Replaying, Critical
<1>20. ASSUME NEW r \in Requests, Expire(r) PROVE Ordinary
  BY <1>20 DEF Expire, Ordinary, git
<1>21. ASSUME NEW i \in Instances, Cancel(i) PROVE Ordinary
  BY <1>21 DEF Cancel, Ordinary, git
<1>22. ASSUME NEW i \in Instances, Crash(i) PROVE Ordinary
  BY <1>0, <1>22 DEF Crash, Forget, Ordinary, git, TypeOK
<1>23. ASSUME UserSwitch PROVE Ordinary
  BY <1>23 DEF UserSwitch, UserStep, Ordinary, calls
<1>24. ASSUME UserMove PROVE Ordinary
  BY <1>24 DEF UserMove, UserStep, Ordinary, calls
<1>25. ASSUME UserEdit PROVE Ordinary
  BY <1>25 DEF UserEdit, UserStep, Ordinary, calls
<1>26. ASSUME UNCHANGED vars PROVE Ordinary
  BY <1>26 DEF vars, Ordinary, git, calls
<1> QED
  BY <1>1, <1>2, <1>3, <1>4, <1>5, <1>6, <1>7, <1>8, <1>9, <1>10, <1>11, <1>12, <1>13, <1>14, <1>15, <1>16, <1>17, <1>18, <1>19, <1>20, <1>21, <1>22, <1>23, <1>24, <1>25, <1>26
     DEF Next, Review, RewriteStep, UserNext

\* What a new commit on an old one does to the histories.
LEMMA ChainsStay ==
  ASSUME HistoryEnds(parent), NEW c, c \notin DOMAIN parent, NEW b \in DOMAIN parent, Add(c, b)
  PROVE  /\ HistoryEnds(parent')
         /\ DOMAIN parent' = DOMAIN parent \cup {c}
         /\ parent'[c] = b
         /\ \A d \in DOMAIN parent :
              parent'[d] = parent[d] /\ ChainIn(parent', d) = ChainIn(parent, d)
<1>1. parent' = [d \in DOMAIN parent \cup {c} |-> IF d = c THEN b ELSE parent[d]]
  BY DEF Add
<1>2. HistoryEnds(parent') /\ \A d \in DOMAIN parent : ChainIn(parent', d) = ChainIn(parent, d)
  <2> DEFINE q == parent'
  <2>1. q = [d \in DOMAIN parent \cup {c} |-> IF d = c THEN b ELSE parent[d]]
    BY <1>1
  <2> HIDE DEF q
  <2>2. HistoryEnds(q) /\ \A d \in DOMAIN parent : ChainIn(q, d) = ChainIn(parent, d)
    BY <2>1, HistoryGrows
  <2> QED
    BY <2>2 DEF q
<1> QED
  BY <1>1, <1>2

\* The next replacement is a new commit, on one that is there.
LEMMA NextReplacement ==
  ASSUME IInv, NEW r \in Requests, Replay(r)
  PROVE  /\ Replacement(r, built[r] + 1) \notin DOMAIN parent
         /\ (IF built[r] + 1 = 1 THEN stack[r].base ELSE Replacement(r, built[r])) \in DOMAIN parent
         /\ built[r] \in Nat
<1>1. built[r] \in Nat /\ pc[r] = "replay"
  BY DEF IInv, Sound, TypeOK, Replay
<1>2. Replacement(r, built[r] + 1) \notin DOMAIN parent
  <2>1. \A c \in DOMAIN parent \cap ({r} \X Nat) : c[2] \in 1 .. built[r]
    BY DEF IInv, OnlyAdded
  <2>2. /\ Replacement(r, built[r] + 1) \in {r} \X Nat
        /\ Replacement(r, built[r] + 1)[2] = built[r] + 1
    BY <1>1 DEF Replacement
  <2> QED
    BY <1>1, <2>1, <2>2
<1>3. stack[r].base \in DOMAIN parent /\ Tower(parent, stack[r].base, r, built[r])
  BY <1>1 DEF IInv, OnPlan, Reviewed, Replayed, Running, Replaying
<1>4. built[r] # 0 => Replacement(r, built[r]) \in DOMAIN parent
  BY <1>1, <1>3 DEF Tower
<1> QED
  BY <1>1, <1>2, <1>3, <1>4

\* The user's commit is a new one, on one that is there.
LEMMA NextUserCommit ==
  ASSUME IInv, UserCommit
  PROVE  /\ <<User, userSteps>> \notin DOMAIN parent
         /\ HeadCommit \in DOMAIN parent
         /\ userSteps \in Nat
<1>1. userSteps \in Nat
  BY DEF IInv, Sound, TypeOK
<1>2. \A c \in DOMAIN parent \cap ({User} \X Nat) : c[2] < userSteps
  BY DEF IInv, OnlyAdded
<1>3. <<User, userSteps>> \in {User} \X Nat /\ <<User, userSteps>>[2] = userSteps
  BY <1>1
<1>4. HeadCommit \in DOMAIN parent
  BY DEF IInv, Sound, NoDanglingNames, HeadCommit
<1> QED
  BY <1>1, <1>2, <1>3, <1>4

\* Commits are only added.
LEMMA NextOnlyAdded == IInv /\ [Next]_vars => OnlyAdded'
<1> SUFFICES ASSUME IInv, [Next]_vars PROVE OnlyAdded'
  OBVIOUS
<1>0. TypeOK /\ OnlyAdded /\ userSteps \in Nat /\ \A q \in Requests : built[q] \in Nat
  BY DEF IInv, Sound, TypeOK
<1>1. ASSUME Ordinary PROVE OnlyAdded'
  BY <1>0, <1>1 DEF Ordinary, OnlyAdded
<1>2. ASSUME NEW r \in Requests, PrepareBranch(r) \/ PrepareStack(r) \/ Validate(r)
      PROVE  OnlyAdded'
  <2>1. parent' = parent /\ built' = built /\ userSteps' = userSteps
    BY <1>2 DEF PrepareBranch, PrepareStack, Validate, git
  <2> QED
    BY <1>0, <2>1 DEF OnlyAdded
<1>3. ASSUME NEW r \in Requests, Replay(r) PROVE OnlyAdded'
  <2> DEFINE k == built[r] + 1
             c == Replacement(r, k)
             b == IF k = 1 THEN stack[r].base ELSE Replacement(r, built[r])
  <2>1. c \notin DOMAIN parent /\ b \in DOMAIN parent /\ built[r] \in Nat
    BY <1>3, NextReplacement
  <2>2. Add(c, b) /\ userSteps' = userSteps /\ built' = [built EXCEPT ![r] = k]
    BY <1>3 DEF Replay
  <2>3. HistoryEnds(parent') /\ DOMAIN parent' = DOMAIN parent \cup {c}
    <3> HIDE DEF c, b
    <3> QED
      BY <1>0, <2>1, <2>2, ChainsStay DEF OnlyAdded
  <2>4. ASSUME NEW q \in Requests, NEW d \in DOMAIN parent' \cap ({q} \X Nat)
        PROVE  d[2] \in 1 .. built'[q]
    <3>1. CASE d \in DOMAIN parent
      <4>1. d[2] \in 1 .. built[q]
        BY <1>0, <3>1 DEF OnlyAdded
      <4>2. built[q] \in Nat /\ built'[q] \in {built[q], built[q] + 1}
        BY <1>0, <2>2 DEF IInv, Sound, TypeOK
      <4> QED
        BY <4>1, <4>2
    <3>2. CASE d \notin DOMAIN parent
      <4>1. d = c /\ q = r /\ d[2] = k
        BY <2>3, <3>2 DEF Replacement
      <4>2. built'[r] = k
        BY <2>2 DEF IInv, Sound, TypeOK
      <4> QED
        BY <2>1, <4>1, <4>2
    <3> QED
      BY <3>1, <3>2
  <2>5. ASSUME NEW d \in DOMAIN parent' \cap ({User} \X Nat) PROVE d[2] < userSteps'
    <3>1. d # c
      BY NamesAreNew DEF Replacement
    <3> HIDE DEF c
    <3>2. d \in DOMAIN parent
      BY <2>3, <3>1
    <3> QED
      BY <1>0, <2>2, <3>2 DEF OnlyAdded
  <2> QED
    BY <2>3, <2>4, <2>5 DEF OnlyAdded
<1>4. ASSUME UserCommit PROVE OnlyAdded'
  <2> DEFINE c == <<User, userSteps>>
  <2>1. c \notin DOMAIN parent /\ HeadCommit \in DOMAIN parent
    BY <1>4, NextUserCommit
  <2>2. Add(c, HeadCommit) /\ userSteps' = userSteps + 1 /\ built' = built
    BY <1>4 DEF UserCommit, UserStep
  <2>3. HistoryEnds(parent') /\ DOMAIN parent' = DOMAIN parent \cup {c}
    <3> HIDE DEF c
    <3> QED
      BY <1>0, <2>1, <2>2, ChainsStay DEF OnlyAdded
  <2>4. ASSUME NEW q \in Requests, NEW d \in DOMAIN parent' \cap ({q} \X Nat)
        PROVE  d[2] \in 1 .. built'[q]
    <3>1. d # c
      BY NamesAreNew
    <3> HIDE DEF c
    <3>2. d \in DOMAIN parent
      BY <2>3, <3>1
    <3> QED
      BY <1>0, <2>2, <3>2 DEF OnlyAdded
  <2>5. ASSUME NEW d \in DOMAIN parent' \cap ({User} \X Nat) PROVE d[2] < userSteps'
    <3>1. CASE d \in DOMAIN parent
      <4>1. d[2] < userSteps /\ d[2] \in Nat
        BY <1>0, <3>1 DEF OnlyAdded
      <4> QED
        BY <1>0, <2>2, <4>1
    <3>2. CASE d \notin DOMAIN parent
      <4>1. d[2] = userSteps
        BY <2>3, <3>2
      <4> QED
        BY <1>0, <2>2, <4>1
    <3> QED
      BY <3>1, <3>2
  <2> QED
    BY <2>3, <2>4, <2>5 DEF OnlyAdded
<1> QED
  BY <1>0, <1>1, <1>2, <1>3, <1>4, OrdinarySteps

\* A request's plan survives the commands that make no commit.
LEMMA PlanStays ==
  ASSUME NEW r \in Requests, Reviewed(r), Replayed(r), parent' = parent, built' = built,
         \/ pc'[r] \in Ended
         \/ stack'[r] = stack[r] /\ (pc'[r] = pc[r] \/ Follows(pc[r], pc'[r]))
  PROVE  Reviewed(r)' /\ Replayed(r)'
<1>1. CASE pc'[r] \in Ended
  BY <1>1 DEF Reviewed, Replayed, Ended, Running, Early, Replaying, Critical
<1>2. CASE stack'[r] = stack[r] /\ pc'[r] = pc[r]
  BY <1>2 DEF Reviewed, Replayed, RangeOf, Chain
<1>3. CASE stack'[r] = stack[r] /\ Follows(pc[r], pc'[r])
  <2>1. Reviewed(r)'
    BY <1>3 DEF Reviewed, Follows, RangeOf, Chain
  <2>2. pc[r] = "add" => Tower(parent, stack[r].base, r, built[r])
    BY DEF Replayed, Early, Tower
  <2>3. pc'[r] \in {"idle", "stack", "apply"} \cup Early => built'[r] = 0
    BY <1>3 DEF Replayed, Follows, Running, Early, Replaying, Critical
  <2>4. pc'[r] \in Replaying \cup Critical => Tower(parent', stack'[r].base, r, built'[r])
    BY <1>3, <2>2 DEF Replayed, Follows
  <2>5. pc'[r] \in {"seal"} \cup Critical => built'[r] = Len(stack'[r].planned)
    BY <1>3 DEF Replayed, Follows
  <2> QED
    BY <2>1, <2>3, <2>4, <2>5 DEF Replayed
<1> QED
  BY <1>1, <1>2, <1>3

\* And a commit that is made meanwhile.
LEMMA PlanSurvives ==
  ASSUME IInv, NEW r \in Requests, NEW c, c \notin DOMAIN parent, NEW b \in DOMAIN parent,
         Add(c, b), stack'[r] = stack[r],
         pc'[r] = pc[r] \/ {pc[r], pc'[r]} \subseteq Replaying
  PROVE  /\ Reviewed(r)'
         /\ \A m : Tower(parent, stack[r].base, r, m) => Tower(parent', stack'[r].base, r, m)
<1>0. /\ HistoryEnds(parent')
      /\ DOMAIN parent' = DOMAIN parent \cup {c}
      /\ \A d \in DOMAIN parent :
              parent'[d] = parent[d] /\ ChainIn(parent', d) = ChainIn(parent, d)
  BY ChainsStay DEF IInv, OnlyAdded
<1>1. Reviewed(r) /\ (pc[r] \in Running \cup {"apply"} => stack[r].head \in DOMAIN parent)
  BY DEF IInv, OnPlan, Sound, NoDanglingNames
<1>2. \A m : Tower(parent, stack[r].base, r, m) => Tower(parent', stack'[r].base, r, m)
  BY <1>0 DEF Tower
<1>3. /\ pc'[r] \in Running \cup {"apply"} <=> pc[r] \in Running \cup {"apply"}
      /\ pc'[r] \in {"add"} \cup Replaying \cup Critical <=>
           pc[r] \in {"add"} \cup Replaying \cup Critical
  BY DEF Running
<1>4. CASE pc[r] \in Running \cup {"apply"}
  <2>1. stack[r].base \in DOMAIN parent /\ stack[r].head \in DOMAIN parent
    BY <1>1, <1>4 DEF Reviewed
  <2>2. /\ Chain(stack[r].base)' = Chain(stack[r].base)
        /\ RangeOf(stack[r].base, stack[r].head)' = RangeOf(stack[r].base, stack[r].head)
    BY <1>0, <2>1 DEF Chain, RangeOf
  <2> QED
    BY <1>0, <1>1, <1>2, <1>3, <2>1, <2>2 DEF Reviewed
<1>5. CASE pc[r] \notin Running \cup {"apply"}
  <2>1. {"add"} \cup Replaying \cup Critical \subseteq Running
    BY DEF Running, Early
  <2> QED
    BY <1>2, <1>3, <1>5, <2>1 DEF Reviewed
<1> QED
  BY <1>4, <1>5

\* Every request's plan holds.
LEMMA NextOnPlan == IInv /\ [Next]_vars => OnPlan'
<1> SUFFICES ASSUME IInv, [Next]_vars PROVE OnPlan'
  OBVIOUS
<1>0. /\ TypeOK /\ FreshReplacements /\ HistoryEnds(parent)
      /\ \A q \in Requests : Reviewed(q) /\ Replayed(q)
  BY DEF IInv, Sound, OnlyAdded, OnPlan
<1>1. ASSUME Ordinary PROVE OnPlan'
  BY <1>0, <1>1, PlanStays DEF Ordinary, OnPlan
<1>2. ASSUME NEW r \in Requests, NEW q \in Requests \ {r},
             PrepareBranch(r) \/ PrepareStack(r) \/ Validate(r)
      PROVE  Reviewed(q)' /\ Replayed(q)'
  <2>1. parent' = parent /\ built' = built
    BY <1>2 DEF PrepareBranch, PrepareStack, Validate, git
  <2>2. pc'[q] = pc[q] /\ stack'[q] = stack[q]
    BY <1>0, <1>2, OthersStay
       DEF PrepareBranch, PrepareStack, Validate, Goto, TypeOK
  <2> QED
    BY <1>0, <2>1, <2>2, PlanStays
<1>3. ASSUME NEW r \in Requests, PrepareBranch(r) PROVE OnPlan'
  <2>1. pc[r] = "idle" /\ pc'[r] = "stack" /\ built' = built
    BY <1>0, <1>3 DEF PrepareBranch, Goto, TypeOK
  <2>2. Reviewed(r)' /\ Replayed(r)'
    BY <1>0, <2>1 DEF Reviewed, Replayed, Running, Early, Replaying, Critical
  <2> QED
    BY <1>2, <1>3, <2>2 DEF OnPlan
<1>4. ASSUME NEW r \in Requests, PrepareStack(r) PROVE OnPlan'
  <2>1. pc[r] = "stack" /\ pc'[r] = "apply" /\ built' = built /\ parent' = parent
    BY <1>0, <1>4 DEF PrepareStack, Goto, TypeOK, git
  <2>2. PICK start \in DOMAIN parent, planned \in Plans(DOMAIN parent), confirm \in BOOLEAN :
          /\ parent[start] # None
          /\ stack' = [stack EXCEPT ![r] =
                       [branch |-> stack[r].branch, head |-> HeadCommit,
                        base |-> parent[start], planned |-> planned, confirm |-> confirm]]
    BY <1>4 DEF PrepareStack
  <2>3. stack'[r].base = parent[start] /\ stack'[r].planned = planned
    BY <1>0, <2>2 DEF TypeOK
  <2>4. parent[start] \in DOMAIN parent
    BY <1>0, <2>2, ChainStep
  <2>5. planned # <<>>
    <3>1. PICK n \in 1 .. MaxRewriteCommits : planned \in [1 .. n -> DOMAIN parent]
      BY DEF Plans
    <3>2. n \in Nat \ {0} /\ 1 \in DOMAIN planned
      BY <3>1, LimitIsPositive
    <3> QED
      BY <3>2
  <2>6. Elements(Chain(parent[start])) \cap ({r} \X Nat) = {}
    <3>1. Chain(parent[start]) \in Seq(DOMAIN parent)
      BY <1>0, <2>4, ChainStep DEF Chain
    <3>2. Elements(Chain(parent[start])) \subseteq DOMAIN parent
      BY <3>1 DEF Elements
    <3>3. \A c \in DOMAIN parent : c \notin {r} \X Nat
      BY <1>0, <2>1 DEF FreshReplacements
    <3> QED
      BY <3>2, <3>3
  <2>7. Chain(stack[r].base)' = Chain(parent[start])
    BY <2>1, <2>3 DEF Chain
  <2>8. Reviewed(r)'
    BY <2>1, <2>3, <2>4, <2>5, <2>6, <2>7
       DEF Reviewed, Running, Early, Replaying, Critical
  <2>9. Replayed(r)'
    BY <1>0, <2>1 DEF Replayed, Running, Early, Replaying, Critical
  <2> QED
    BY <1>2, <1>4, <2>8, <2>9 DEF OnPlan
<1>5. ASSUME NEW r \in Requests, Validate(r) PROVE OnPlan'
  <2>1. pc[r] = "validate" /\ parent' = parent /\ built' = built
    BY <1>5 DEF Validate, git
  <2>2. ASSUME ValidRange(r), Continue(r, "add") PROVE Reviewed(r)' /\ Replayed(r)'
    <3>1. pc'[r] = "add" /\ stack' = stack
      BY <1>0, <2>2, OthersStay
    <3>2. Reviewed(r)'
      BY <1>0, <2>1, <2>2, <3>1
         DEF Reviewed, ValidRange, RangeOf, Chain, Running, Early
    <3>3. Replayed(r)'
      BY <1>0, <2>1, <3>1 DEF Replayed, Running, Early, Replaying, Critical
    <3> QED
      BY <3>2, <3>3
  <2>3. ASSUME Return(r, "refused") PROVE Reviewed(r)' /\ Replayed(r)'
    <3>1. pc'[r] \in Ended
      BY <1>0, <2>3, OthersStay DEF Ended
    <3> QED
      BY <1>0, <2>1, <3>1, PlanStays
  <2>4. Reviewed(r)' /\ Replayed(r)'
    BY <1>5, <2>2, <2>3 DEF Validate
  <2> QED
    BY <1>2, <1>5, <2>4 DEF OnPlan
<1>6. ASSUME NEW r \in Requests, Replay(r) PROVE OnPlan'
  <2> DEFINE k == built[r] + 1
             c == Replacement(r, k)
             b == IF k = 1 THEN stack[r].base ELSE Replacement(r, built[r])
  <2>1. c \notin DOMAIN parent /\ b \in DOMAIN parent /\ built[r] \in Nat
    BY <1>6, NextReplacement
  <2>2. /\ Add(c, b) /\ stack' = stack /\ pc[r] = "replay" /\ k <= Len(stack[r].planned)
        /\ \A q \in Requests \ {r} : pc'[q] = pc[q] /\ built'[q] = built[q]
        /\ built'[r] = k
        /\ pc'[r] = IF k = Len(stack[r].planned) THEN "seal" ELSE "replay"
    BY <1>0, <1>6, OthersStay DEF Replay, TypeOK
  <2>3. ASSUME NEW q \in Requests
        PROVE  /\ Reviewed(q)'
               /\ \A m : Tower(parent, stack[q].base, q, m) => Tower(parent', stack'[q].base, q, m)
    <3>1. pc'[q] = pc[q] \/ {pc[q], pc'[q]} \subseteq Replaying
      BY <2>2 DEF Replaying
    <3>2. stack'[q] = stack[q] /\ Add(c, b)
      BY <2>2
    <3> HIDE DEF c, b
    <3> QED
      BY <2>1, <3>1, <3>2, PlanSurvives
  <2>4. ASSUME NEW q \in Requests \ {r} PROVE Replayed(q)'
    <3>1. pc'[q] = pc[q] /\ built'[q] = built[q] /\ stack'[q] = stack[q]
      BY <2>2
    <3> HIDE DEF c, b
    <3> QED
      BY <1>0, <2>3, <3>1 DEF Replayed
  <2>5. Tower(parent', stack'[r].base, r, k)
    <3>1. Tower(parent', stack'[r].base, r, built[r])
      BY <1>0, <2>2, <2>3 DEF Replayed, Replaying
    <3>2. c \in DOMAIN parent' /\ parent'[c] = b
      <4> HIDE DEF c, b
      <4> QED
        BY <1>0, <2>1, <2>2, ChainsStay
    <3>3. stack'[r].base = stack[r].base /\ k - 1 = built[r]
      BY <2>1, <2>2
    <3>4. \A i \in 1 .. k : i \in 1 .. built[r] \/ i = k
      BY <2>1
    <3> QED
      BY <3>1, <3>2, <3>3, <3>4 DEF Tower
  <2>6. Replayed(r)'
    BY <2>2, <2>5 DEF Replayed, Early, Replaying, Critical
  <2> QED
    BY <2>3, <2>4, <2>6 DEF OnPlan
<1>7. ASSUME UserCommit PROVE OnPlan'
  <2> DEFINE c == <<User, userSteps>>
  <2>1. c \notin DOMAIN parent /\ HeadCommit \in DOMAIN parent
    BY <1>7, NextUserCommit
  <2>2. Add(c, HeadCommit) /\ built' = built /\ stack' = stack /\ pc' = pc
    BY <1>7 DEF UserCommit, UserStep, calls
  <2> HIDE DEF c
  <2>3. ASSUME NEW q \in Requests PROVE Reviewed(q)' /\ Replayed(q)'
    <3>1. /\ Reviewed(q)'
          /\ \A m : Tower(parent, stack[q].base, q, m) => Tower(parent', stack'[q].base, q, m)
      BY <2>1, <2>2, PlanSurvives
    <3>2. Replayed(q)'
      BY <1>0, <2>2, <3>1 DEF Replayed
    <3> QED
      BY <3>1, <3>2
  <2> QED
    BY <2>3 DEF OnPlan
<1> QED
  BY <1>0, <1>1, <1>3, <1>4, <1>5, <1>6, <1>7, OrdinarySteps

\* The invariant is inductive.
LEMMA NextIInv == IInv /\ [Next]_vars => IInv'
BY NextSound, NextOnlyAdded, NextOnPlan DEF IInv

\* Whatever the user, another process, a deadline or a crash does between two
\* of its commands: one rewrite runs per process, the replaced head has a
\* recovery ref before its branch moves, refs and reviewed stacks name existing
\* commits, and an undisturbed rewrite finds what it left.
THEOREM Invariant == Spec => []IInv
BY InitIInv, NextIInv, PTL DEF Spec

\* Every variable keeps its range.
THEOREM TypeCorrect == Spec => []TypeOK
<1>1. IInv => TypeOK
  BY DEF IInv, Sound
<1> QED
  BY <1>1, Invariant, PTL

--------------------------------------------------------------------------------
(* What follows from it                                                     *)

\* What stands between base and new head when the branch moves is what the
\* replay has made, one commit for each that was reviewed.
LEMMA AllReplayed == IInv => NothingDropped
<1> SUFFICES ASSUME IInv, NEW r \in Requests, pc[r] \in {"move", "install", "verify"}
             PROVE  LET old == RangeOf(stack[r].base, stack[r].head)
                        new == RangeOf(stack[r].base, NewHead(r))
                    IN /\ new = [k \in DOMAIN old |-> Replacement(r, k)]
                       /\ \A c \in Elements(old) : \E k \in DOMAIN new : stack[r].planned[k] = c
  BY DEF NothingDropped
<1> DEFINE old == RangeOf(stack[r].base, stack[r].head)
           new == RangeOf(stack[r].base, NewHead(r))
           planned == stack[r].planned
           m == Len(planned)
<1>1. pc[r] \in Critical
  BY DEF Critical
<1>2. TypeOK /\ HistoryEnds(parent) /\ Reviewed(r) /\ Replayed(r) /\ NoDanglingNames
  BY DEF IInv, Sound, OnlyAdded, OnPlan
<1>3. /\ stack[r].base \in DOMAIN parent
      /\ planned # <<>>
      /\ Elements(ChainIn(parent, stack[r].base)) \cap ({r} \X Nat) = {}
      /\ m = Len(old)
      /\ Elements(planned) = Elements(old)
  BY <1>1, <1>2 DEF Reviewed, Running, Chain
<1>4. planned \in Seq(Commit) /\ m \in Nat /\ m # 0
  <2>1. planned \in Seq(Commit)
    BY <1>2 DEF TypeOK, Stacks
  <2> QED
    BY <1>3, <2>1, EmptySeq
<1>5. Tower(parent, stack[r].base, r, m)
  BY <1>1, <1>2 DEF Replayed
<1>6. None \notin DOMAIN parent
  BY <1>2, NamesAreNew, NothingElseIsMade DEF TypeOK, Commit
<1>7. new = [k \in 1 .. m |-> Replacement(r, k)]
  <2> DEFINE p == parent
             b == stack[r].base
  <2>1. /\ HistoryEnds(p) /\ None \notin DOMAIN p /\ b \in DOMAIN p /\ Tower(p, b, r, m)
        /\ Elements(ChainIn(p, b)) \cap ({r} \X Nat) = {}
    BY <1>2, <1>3, <1>5, <1>6
  <2>2. Above(ChainIn(p, Replacement(r, m)), ChainIn(p, b)) = [k \in 1 .. m |-> Replacement(r, k)]
    <3> HIDE DEF p, b, m
    <3> QED
      BY <1>4, <2>1, ReplacedRange
  <2> QED
    BY <2>2 DEF RangeOf, Chain, NewHead
<1>8. old \in Seq(DOMAIN parent)
  <2>1. stack[r].head \in DOMAIN parent
    BY <1>1, <1>2 DEF NoDanglingNames, Running
  <2>2. /\ ChainIn(parent, stack[r].head) \in Seq(DOMAIN parent)
        /\ \E n \in 0 .. Len(ChainIn(parent, stack[r].head)) :
             old = SubSeq(ChainIn(parent, stack[r].head), n + 1, Len(ChainIn(parent, stack[r].head)))
    BY <1>2, <1>3, <2>1, AboveFits, ChainStep DEF RangeOf, Chain
  <2> QED
    BY <2>2
<1>9. DOMAIN old = 1 .. m /\ DOMAIN new = 1 .. m /\ DOMAIN planned = 1 .. m
  BY <1>3, <1>4, <1>7, <1>8
<1> HIDE DEF old, new, planned, m
<1>10. \A c \in Elements(old) : \E k \in DOMAIN new : planned[k] = c
  BY <1>3, <1>9 DEF Elements
<1> QED
  BY <1>7, <1>9, <1>10 DEF old, new, planned

\* What a rewrite installs has a replacement for every commit of the reviewed
\* range, once and in the edited order, whatever happened since the review.
THEOREM NothingIsDropped == Spec => []NothingDropped
BY AllReplayed, Invariant, PTL

\* Only a leased move and the rollback of one touch a branch.
LEMMA StepKeepsTips == IInv /\ [Next]_vars => TipsKept
<1> SUFFICES ASSUME IInv, [Next]_vars PROVE TipsKept
  OBVIOUS
<1> USE DEF IInv, Sound, TypeOK, TipsKept
<1>1. ASSUME NEW r \in Requests, PrepareBranch(r) PROVE TipsKept
  BY <1>1 DEF PrepareBranch, git
<1>2. ASSUME NEW r \in Requests, PrepareStack(r) PROVE TipsKept
  BY <1>2 DEF PrepareStack, git
<1>3. ASSUME NEW r \in Requests, BeginRewrite(r) PROVE TipsKept
  BY <1>3 DEF BeginRewrite, git
<1>4. ASSUME NEW r \in Requests, CheckBranch(r) PROVE TipsKept
  BY <1>4 DEF CheckBranch, git
<1>5. ASSUME NEW r \in Requests, CheckHead(r) PROVE TipsKept
  BY <1>5 DEF CheckHead, git
<1>6. ASSUME NEW r \in Requests, Validate(r) PROVE TipsKept
  BY <1>6 DEF Validate, git
<1>7. ASSUME NEW r \in Requests, FailEarly(r) PROVE TipsKept
  BY <1>7 DEF FailEarly, git
<1>8. ASSUME NEW r \in Requests, AddWorktree(r) PROVE TipsKept
  BY <1>8 DEF AddWorktree, git
<1>9. ASSUME NEW r \in Requests, LeakWorktree(r) PROVE TipsKept
  BY <1>9 DEF LeakWorktree, git
<1>10. ASSUME NEW r \in Requests, Replay(r) PROVE TipsKept
  BY <1>10 DEF Replay, git
<1>11. ASSUME NEW r \in Requests, Seal(r) PROVE TipsKept
  BY <1>11 DEF Seal, git
<1>12. ASSUME NEW r \in Requests, FailReplay(r) PROVE TipsKept
  BY <1>12 DEF FailReplay, git
<1>13. ASSUME NEW r \in Requests, Abandon(r) PROVE TipsKept
  BY <1>13 DEF Abandon, git
<1>14. ASSUME NEW r \in Requests, DryRun(r) PROVE TipsKept
  BY <1>14 DEF DryRun, git
<1>15. ASSUME NEW r \in Requests, WriteBackup(r) PROVE TipsKept
  BY <1>15 DEF WriteBackup, git
<1>16. ASSUME NEW r \in Requests, MoveBranch(r) PROVE TipsKept
  <2>1. stack[r].head \in backups /\ refs[stack[r].branch] = stack[r].head
    BY <1>16 DEF MoveBranch, LeaseHolds, BackedUp
  <2>2. \A b \in Branches : refs'[b] # refs[b] => b = stack[r].branch
    BY <1>16 DEF MoveBranch
  <2> QED
    BY <2>1, <2>2
<1>17. ASSUME NEW r \in Requests, FailInstall(r) PROVE TipsKept
  BY <1>17 DEF FailInstall, git
<1>18. ASSUME NEW r \in Requests, InstallTree(r) PROVE TipsKept
  BY <1>18 DEF InstallTree, git
<1>19. ASSUME NEW r \in Requests, FailTree(r) PROVE TipsKept
  BY <1>19 DEF FailTree, git
<1>20. ASSUME NEW r \in Requests, RollbackRef(r) PROVE TipsKept
  <2>1. pc[r] = "undoRef" /\ refs[stack[r].branch] = NewHead(r)
    BY <1>20 DEF RollbackRef
  <2>2. \A b \in Branches : refs'[b] # refs[b] => b = stack[r].branch
    BY <1>20 DEF RollbackRef
  <2> QED
    BY <2>1, <2>2
<1>21. ASSUME NEW r \in Requests, RollbackTree(r) PROVE TipsKept
  BY <1>21 DEF RollbackTree, git
<1>22. ASSUME NEW r \in Requests, FailRollback(r) PROVE TipsKept
  BY <1>22 DEF FailRollback, git
<1>23. ASSUME NEW r \in Requests, Verify(r) PROVE TipsKept
  BY <1>23 DEF Verify, git
<1>24. ASSUME NEW r \in Requests, Expire(r) PROVE TipsKept
  BY <1>24 DEF Expire, git
<1>25. ASSUME NEW i \in Instances, Cancel(i) PROVE TipsKept
  BY <1>25 DEF Cancel, git
<1>26. ASSUME NEW i \in Instances, Crash(i) PROVE TipsKept
  BY <1>26 DEF Crash, git
<1>27. ASSUME UserCommit PROVE TipsKept
  <2>1. userSteps' # userSteps
    BY <1>27 DEF UserCommit, UserStep
  <2> QED
    BY <2>1
<1>28. ASSUME UserSwitch PROVE TipsKept
  <2>1. userSteps' # userSteps
    BY <1>28 DEF UserSwitch, UserStep
  <2> QED
    BY <2>1
<1>29. ASSUME UserMove PROVE TipsKept
  <2>1. userSteps' # userSteps
    BY <1>29 DEF UserMove, UserStep
  <2> QED
    BY <2>1
<1>30. ASSUME UserEdit PROVE TipsKept
  <2>1. userSteps' # userSteps
    BY <1>30 DEF UserEdit, UserStep
  <2> QED
    BY <2>1
<1>31. ASSUME UNCHANGED vars PROVE TipsKept
  BY <1>31 DEF vars, git, calls
<1> QED
  BY <1>1, <1>2, <1>3, <1>4, <1>5, <1>6, <1>7, <1>8, <1>9, <1>10, <1>11, <1>12, <1>13, <1>14,
     <1>15, <1>16, <1>17, <1>18, <1>19, <1>20, <1>21, <1>22, <1>23, <1>24, <1>25, <1>26, <1>27, <1>28,
     <1>29, <1>30, <1>31
     DEF Next, Review, RewriteStep, UserNext

\* GitGit never loses the tip of a branch it moves, whoever else moves it: the
\* tip has a recovery ref, or is the rewrite's own new head.
THEOREM TipsAreKept == Spec => KeepsTips
<1>1. IInv /\ [Next]_vars => [TipsKept]_vars
  BY StepKeepsTips
<1> QED
  BY <1>1, Invariant, PTL DEF Spec, KeepsTips

\* What r may answer, with l, in a step that leaves the worktree as it is then.
Answer(r, l) ==
  /\ l \in {"installed", "uncertain"} => Installed(r, Worktree')
  /\ l = "rolledBack" => Back(r, Worktree')
  /\ l = "refused" => \/ Worktree' = found[r]
                      \/ r \in expired /\ Worktree' = Moved(r)

\* Only the step that returns answers.
LEMMA OwnAnswer ==
  ASSUME TypeOK, NEW r \in Requests, NEW l
  PROVE  /\ Goto(r, l) /\ l \in {"stack", "apply"} \cup Running => OutcomeTrue
         /\ Goto(r, l) /\ l \in Ended /\ (found[r] # None => Answer(r, l)) => OutcomeTrue
<1>1. ASSUME Goto(r, l) PROVE pc'[r] = l /\ \A q \in Requests \ {r} : pc'[q] = pc[q]
  BY <1>1 DEF Goto, TypeOK
<1>2. ASSUME Goto(r, l), l \in {"stack", "apply"} \cup Running PROVE OutcomeTrue
  BY <1>1, <1>2 DEF OutcomeTrue, Running, Early, Replaying, Critical
<1>3. ASSUME Goto(r, l), l \in Ended, found[r] # None => Answer(r, l) PROVE OutcomeTrue
  BY <1>1, <1>3 DEF OutcomeTrue, Answer
<1> QED
  BY <1>2, <1>3

\* A refusal from where nothing has been changed.
LEMMA Refusal ==
  ASSUME TypeOK, InstallInSteps, NEW r \in Requests, UNCHANGED <<refs, head, index, stale, lock>>,
         pc[r] \in Early \cup Replaying \cup {"abandon", "check", "backup", "move"}
  PROVE  found[r] # None => Answer(r, "refused")
<1>1. Worktree' = Worktree
  BY DEF Worktree
<1>2. found[r] # None => Worktree = found[r]
  BY DEF InstallInSteps, InStep
<1> QED
  BY <1>1, <1>2 DEF Answer

\* Success is answered where the update left the worktree, a rollback where both of
\* its halves have, and a refusal before anything is changed.
LEMMA StepTellsTheTruth == IInv /\ [Next]_vars => OutcomeTrue
<1> SUFFICES ASSUME IInv, [Next]_vars PROVE OutcomeTrue
  OBVIOUS
<1>0. /\ TypeOK /\ NoDanglingNames /\ FreshReplacements /\ InstallInSteps
      /\ \A r \in Requests : found[r] # None => InStep(r, pc[r])
  BY DEF IInv, Sound, InstallInSteps
<1>a. ASSUME NEW r \in Requests, NEW l, Continue(r, l), l \in Running PROVE OutcomeTrue
  BY <1>0, <1>a, OwnAnswer DEF Continue
<1>b. ASSUME NEW r \in Requests, Return(r, "refused"), UNCHANGED <<refs, head, index, stale, lock>>,
             pc[r] \in Early \cup Replaying \cup {"abandon", "check", "backup", "move"}
      PROVE  OutcomeTrue
  BY <1>0, <1>b, Refusal, OwnAnswer DEF Return, Ended
<1> USE DEF Running, Early, Replaying, Critical
<1>1. ASSUME NEW r \in Requests, Review(r) PROVE OutcomeTrue
  BY <1>0, <1>1, OwnAnswer DEF Review, PrepareBranch, PrepareStack
<1>2. ASSUME NEW r \in Requests, BeginRewrite(r) PROVE OutcomeTrue
  BY <1>0, <1>2, OwnAnswer DEF BeginRewrite
<1>3. ASSUME NEW r \in Requests, CheckBranch(r) PROVE OutcomeTrue
  BY <1>a, <1>b, <1>3 DEF CheckBranch, git
<1>4. ASSUME NEW r \in Requests, CheckHead(r) PROVE OutcomeTrue
  BY <1>a, <1>b, <1>4 DEF CheckHead, git
<1>5. ASSUME NEW r \in Requests, Validate(r) PROVE OutcomeTrue
  BY <1>a, <1>b, <1>5 DEF Validate, git
<1>6. ASSUME NEW r \in Requests, FailEarly(r) PROVE OutcomeTrue
  BY <1>b, <1>6 DEF FailEarly, git
<1>7. ASSUME NEW r \in Requests, AddWorktree(r) PROVE OutcomeTrue
  BY <1>a, <1>7 DEF AddWorktree
<1>8. ASSUME NEW r \in Requests, LeakWorktree(r) PROVE OutcomeTrue
  BY <1>b, <1>8 DEF LeakWorktree, git
<1>9. ASSUME NEW r \in Requests, Replay(r) PROVE OutcomeTrue
  BY <1>a, <1>9 DEF Replay
<1>10. ASSUME NEW r \in Requests, Seal(r) PROVE OutcomeTrue
  BY <1>a, <1>10 DEF Seal
<1>11. ASSUME NEW r \in Requests, FailReplay(r) PROVE OutcomeTrue
  BY <1>a, <1>11 DEF FailReplay
<1>12. ASSUME NEW r \in Requests, Abandon(r) PROVE OutcomeTrue
  BY <1>b, <1>12 DEF Abandon, git
<1>13. ASSUME NEW r \in Requests, DryRun(r) PROVE OutcomeTrue
  BY <1>a, <1>13 DEF DryRun
<1>14. ASSUME NEW r \in Requests, WriteBackup(r) PROVE OutcomeTrue
  BY <1>a, <1>b, <1>14 DEF WriteBackup
<1>15. ASSUME NEW r \in Requests, MoveBranch(r) PROVE OutcomeTrue
  <2>1. CASE Continue(r, "install")
    BY <1>a, <2>1
  <2>2. CASE r \in expired /\ Return(r, "refused")
    <3>1. ASSUME found[r] # None PROVE Worktree' = Moved(r)
      <4>1. stack[r].branch \in Branches /\ InStep(r, "move")
        BY <1>0, <1>15, <3>1 DEF MoveBranch, NoDanglingNames
      <4> QED
        BY <1>15, <3>1, <4>1 DEF MoveBranch, InStep, Worktree, Moved, Left
    <3>2. found[r] # None => Answer(r, "refused")
      BY <2>2, <3>1 DEF Answer
    <3> QED
      BY <1>0, <2>2, <3>2, OwnAnswer DEF Return, Ended
  <2> QED
    BY <1>15, <2>1, <2>2 DEF MoveBranch
<1>16. ASSUME NEW r \in Requests, FailInstall(r) PROVE OutcomeTrue
  BY <1>b, <1>16 DEF FailInstall, git
<1>17. ASSUME NEW r \in Requests, InstallTree(r) PROVE OutcomeTrue
  BY <1>a, <1>17 DEF InstallTree
<1>18. ASSUME NEW r \in Requests, FailTree(r) PROVE OutcomeTrue
  BY <1>0, <1>18, OwnAnswer DEF FailTree
<1>19. ASSUME NEW r \in Requests, RollbackRef(r) PROVE OutcomeTrue
  <2>1. Answer(r, "torn")
    BY DEF Answer
  <2> QED
    BY <1>0, <1>a, <1>19, <2>1, OwnAnswer DEF RollbackRef, Return, Ended
<1>20. ASSUME NEW r \in Requests, RollbackTree(r) PROVE OutcomeTrue
  <2>1. ASSUME found[r] # None PROVE Back(r, Worktree')
    <3>1. stack[r].branch \in Branches /\ stack[r].head \in Commit /\ InStep(r, "undoTree")
      BY <1>0, <1>20, <2>1 DEF RollbackTree, NoDanglingNames, TypeOK
    <3>2. PICK i \in IndexFrom(r, NewHead(r)) \cup IndexFrom(r, stack[r].head),
               files \in StaleFrom(r), locked \in BOOLEAN :
               Worktree = Left(r, stack[r].head, i, files, locked)
      BY <3>1 DEF InStep
    <3>3. index' \in TwoWayMerge(NewHead(r), stack[r].head)
          /\ UNCHANGED <<refs, head, stale, lock>>
      BY <1>20 DEF RollbackTree
    <3>4. lock = FALSE /\ found[r].lock = FALSE
      BY <1>0, <2>1, <3>1, <3>3 DEF TwoWayMerge, InStep, TypeOK, Worktrees
    <3>5. index = i
      BY <3>2 DEF Worktree, Left
    <3>6. index' \in IndexFrom(r, stack[r].head)
      BY <1>0, <2>1, <3>3, <3>5, MergesFit
    <3>7. Worktree' = Left(r, stack[r].head, index', files, found[r].lock)
      BY <3>2, <3>3, <3>4 DEF Worktree, Left
    <3> QED
      BY <3>6, <3>7 DEF Back
  <2>2. found[r] # None => Answer(r, "rolledBack") /\ Answer(r, "torn")
    BY <2>1 DEF Answer
  <2> QED
    BY <1>0, <1>20, <2>2, OwnAnswer DEF RollbackTree, Return, Ended
<1>21. ASSUME NEW r \in Requests, FailRollback(r) PROVE OutcomeTrue
  <2>1. Answer(r, "torn")
    BY DEF Answer
  <2> QED
    BY <1>0, <1>21, <2>1, OwnAnswer DEF FailRollback, Return, Ended
<1>22. ASSUME NEW r \in Requests, Verify(r) PROVE OutcomeTrue
  <2>1. Worktree' = Worktree /\ pc[r] = "verify"
    BY <1>22 DEF Verify, Worktree, git
  <2>2. found[r] # None => Installed(r, Worktree')
    BY <1>0, <2>1 DEF InStep
  <2>3. found[r] # None => Answer(r, "installed") /\ Answer(r, "uncertain")
    BY <2>2 DEF Answer
  <2> QED
    BY <1>0, <1>22, <2>3, OwnAnswer DEF Verify, Return, Ended
<1>23. ASSUME NEW i \in Instances, Crash(i) PROVE OutcomeTrue
  <2>1. \A q \in Requests : pc'[q] \in {"crashed", pc[q]}
    BY <1>0, <1>23 DEF Crash
  <2> QED
    BY <2>1 DEF OutcomeTrue
<1>24. ASSUME pc' = pc PROVE OutcomeTrue
  BY <1>24 DEF OutcomeTrue
<1>25. (\E r \in Requests : Expire(r)) \/ (\E i \in Instances : Cancel(i)) \/ UserNext
       \/ UNCHANGED vars => pc' = pc
  BY DEF Expire, Cancel, UserNext, UserCommit, UserSwitch, UserMove, UserEdit, UserStep, vars
<1> QED
  BY <1>1, <1>2, <1>3, <1>4, <1>5, <1>6, <1>7, <1>8, <1>9, <1>10, <1>11, <1>12, <1>13, <1>14, <1>15, <1>16, <1>17, <1>18, <1>19, <1>20, <1>21, <1>22, <1>23, <1>24, <1>25
     DEF Next, RewriteStep

\* With nobody else at work a rewrite is all or nothing, whichever of its commands
\* fails or is killed: installed, taken back, or refused with nothing changed, as it
\* answers.
THEOREM RewriteIsAllOrNothing == Spec => AllOrNothing
<1>1. IInv /\ [Next]_vars => [OutcomeTrue]_vars
  BY StepTellsTheTruth
<1> QED
  BY <1>1, Invariant, PTL DEF Spec, AllOrNothing

================================================================================
