----------------------------- MODULE CommitRewrite -----------------------------
(***************************************************************************)
(* Edit Mode's history rewrite (internal/desktop/commit_rewrite.go): the   *)
(* stack is read for review, and later, under rewriteMu, it is replayed in *)
(* a temporary worktree and installed by a sequence of Git commands        *)
(* (dry run, backup ref, leased branch move, worktree update, check of     *)
(* HEAD), with a rollback when the worktree cannot be updated.             *)
(*                                                                         *)
(* One action is one Git command, or a few that only read.  Between any    *)
(* two of them the user's own Git commands, a rewrite of another GitGit    *)
(* process, a cancellation, the 15 s deadline of the installation or a     *)
(* crash may happen.  Trees are abstracted by the commit they belong to.   *)
(***************************************************************************)
EXTENDS Naturals, Sequences

CONSTANTS
  Requests,      \* calls of RewriteCommits, each with the stack it was given
  Instances,     \* GitGit processes that opened this worktree
  Home,          \* Home[r] is the process that serves r
  Branches,      \* local branches
  Default,       \* what readDefaultBranch answers
  Origins,       \* commits of the repository when the model starts
  OriginParent,  \* their first parents; a root's is None
  OriginRefs,    \* the branch tips then
  OriginMerges,  \* those with more than one parent
  User,          \* author of the commits made by others than RewriteCommits
  None,          \* no commit, no request
  Mixed,         \* an index that is no commit's tree
  MaxRewriteCommits,  \* maximumRewriteCommits
  MaxUserSteps   \* bound: Git commands the user runs

\* The first-parent history of a commit, oldest first, when parents are as p says.
ChainIn(p, c) ==
  LET upTo[d \in DOMAIN p] == IF p[d] = None THEN <<d>> ELSE Append(upTo[p[d]], d)
  IN upTo[c]

\* Every commit's history leads to a first commit.
HistoryEnds(p) ==
  \A c \in DOMAIN p :
    /\ p[c] \in DOMAIN p \cup {None}
    /\ ChainIn(p, c) \in Seq(DOMAIN p)
    /\ ChainIn(p, c) = IF p[c] = None THEN <<c>> ELSE Append(ChainIn(p, p[c]), c)

ASSUME LimitIsPositive == MaxRewriteCommits \in Nat \ {0} /\ MaxUserSteps \in Nat
ASSUME HomesAreInstances == Home \in [Requests -> Instances]
ASSUME OriginIsClosed ==
  /\ OriginParent \in [Origins -> Origins \cup {None}]
  /\ HistoryEnds(OriginParent)
  /\ OriginRefs \in [Branches -> Origins]
  /\ OriginMerges \subseteq Origins
  /\ Default \in Branches
ASSUME NamesAreNew ==
  /\ None \notin Requests \cup Origins
  /\ Mixed \notin Origins \cup {None}
  /\ User \notin Requests

\* The k-th replacement of r, and the k-th commit of the user: fresh objects.
Made == (Requests \cup {User}) \X Nat
ASSUME NothingElseIsMade ==
  /\ \A x \in Origins \cup Branches \cup {None, Mixed} : x \notin Made
  /\ Branches \cap (Origins \cup {None}) = {}

VARIABLES
  refs,       \* refs/heads/<branch>
  head,       \* HEAD: a branch, or a commit when detached
  index,      \* the commit whose tree the index has
  stale,      \* files that nobody edited are not as the index has them
  lock,       \* a stale index.lock, left by a killed git
  overlap,    \* local changes in files that a rewrite would touch
  backups,    \* targets of refs/gitgit/backups/*
  parent,     \* first parent of every commit object made so far
  merges,     \* commits with more than one parent
  temps,      \* requests whose temporary worktree is registered
  rewriteMu,  \* holder of each process's Service.rewriteMu
  pc,         \* where each request is
  stack,      \* the CommitEditStack reviewed, with the edited order "planned"
  built,      \* replacements committed so far
  cancelled,  \* requests whose operation context is cancelled
  expired,    \* requests whose installation deadline has passed
  found,      \* history variable: refs and worktree when each call began, until
              \* somebody else changes them
  halfway,    \* history variable: requests whose read-tree stopped halfway
  userSteps   \* Git commands run by the user

git   == <<refs, head, index, stale, lock, overlap, backups, parent, merges>>
calls == <<stack, cancelled, expired, halfway>>
vars  == <<git, calls, built, temps, rewriteMu, pc, found, userSteps>>

Commit == Origins \cup Made

HeadCommit == IF head \in Branches THEN refs[head] ELSE head

Worktree == [refs |-> refs, head |-> head, index |-> index, stale |-> stale, lock |-> lock]

--------------------------------------------------------------------------------
(* Histories                                                                *)

Chain(c) == ChainIn(parent, c)

Elements(s) == {s[i] : i \in DOMAIN s}

\* What history s has and history t has not: two histories part once.
Above(s, t) ==
  LET known == Elements(t)
      n == CHOOSE n \in 0 .. Len(s) : \A i \in 1 .. Len(s) : s[i] \in known <=> i <= n
  IN SubSeq(s, n + 1, Len(s))

\* git rev-list --first-parent base..tip, oldest first.
RangeOf(base, tip) == Above(Chain(tip), Chain(base))

Replacement(r, k) == <<r, k>>
NewHead(r) == Replacement(r, Len(stack[r].planned))

\* An order of commits that an edited stack may ask for, right or wrong.
Plans(S) == UNION {[1 .. n -> S] : n \in 1 .. MaxRewriteCommits}

Add(c, p) == parent' = [d \in DOMAIN parent \cup {c} |-> IF d = c THEN p ELSE parent[d]]

--------------------------------------------------------------------------------
Early     == {"branch", "head", "validate", "add"}  \* before the temporary worktree
Replaying == {"replay", "seal"}
Critical  == {"check", "backup", "move", "install", "undoRef", "undoTree", "verify"}
Running   == Early \cup Replaying \cup Critical \cup {"abandon"}
Ended     == {"refused", "rolledBack", "torn", "uncertain", "installed", "crashed"}

Goto(r, l) == pc' = [pc EXCEPT ![r] = l]

NoStack == [branch |-> None, head |-> None, base |-> None, planned |-> <<>>, confirm |-> FALSE]

\* What a request was given is gone when it has answered.
Forget(ended) ==
  /\ stack' = [r \in Requests |-> IF r \in ended THEN NoStack ELSE stack[r]]
  /\ cancelled' = cancelled \ ended
  /\ expired' = expired \ ended
  /\ halfway' = halfway \ ended

KeepLocked(r, outcome) ==   \* mutant: rewriteMu is not unlocked
  Goto(r, outcome) /\ Forget({r}) /\ UNCHANGED rewriteMu

\* RewriteCommits returns; its deferred Unlock runs.
Return(r, outcome) ==
  /\ Goto(r, outcome)
  /\ Forget({r})
  /\ rewriteMu' = [rewriteMu EXCEPT ![Home[r]] = None]

\* r goes on to its next command.
Continue(r, l) == Goto(r, l) /\ UNCHANGED <<calls, rewriteMu>>

\* Whoever changes refs or the worktree disturbs the other rewrites: what those
\* found is no measure of what they leave.
Disturb(others) ==
  found' = [q \in Requests |-> IF q \in others \/ pc'[q] \notin Running THEN None ELSE found[q]]
DisturbNone == Disturb({})

Init ==
  /\ refs = OriginRefs
  /\ head = Default
  /\ index = OriginRefs[Default]
  /\ stale = FALSE
  /\ lock = FALSE
  /\ overlap = FALSE
  /\ backups = {}
  /\ parent = OriginParent
  /\ merges = OriginMerges
  /\ temps = {}
  /\ rewriteMu = [i \in Instances |-> None]
  /\ pc = [r \in Requests |-> "idle"]
  /\ stack = [r \in Requests |-> NoStack]
  /\ built = [r \in Requests |-> 0]
  /\ cancelled = {}
  /\ expired = {}
  /\ found = [r \in Requests |-> None]
  /\ halfway = {}
  /\ userSteps = 0

--------------------------------------------------------------------------------
(* Review: prepareCommitEdit reads the branch, then the stack above a start. *)

PrepareBranch(r) ==
  /\ pc[r] = "idle"
  /\ head \in Branches
  /\ stack' = [stack EXCEPT ![r] = [NoStack EXCEPT !.branch = head]]
  /\ Goto(r, "stack")
  /\ UNCHANGED <<git, built, cancelled, expired, halfway, temps, rewriteMu, found, userSteps>>

\* The stack from start to HEAD, and what the user makes of it.
PrepareStack(r) ==
  /\ pc[r] = "stack"
  /\ \E start \in DOMAIN parent, planned \in Plans(DOMAIN parent), confirm \in BOOLEAN :
        /\ start \in Elements(Chain(HeadCommit))
        /\ parent[start] # None
        /\ LET range == RangeOf(parent[start], HeadCommit)
           IN /\ Len(range) <= MaxRewriteCommits
              /\ Elements(range) \cap merges = {}
              /\ Elements(planned) \subseteq Elements(range)
        /\ stack' = [stack EXCEPT ![r] =
                       [branch |-> stack[r].branch, head |-> HeadCommit,
                        base |-> parent[start], planned |-> planned, confirm |-> confirm]]
  /\ Goto(r, "apply")
  /\ UNCHANGED <<git, built, cancelled, expired, halfway, temps, rewriteMu, found, userSteps>>

\* Apply: RewriteCommits takes rewriteMu and begins its operation.
BeginRewrite(r) ==
  /\ pc[r] = "apply"
  /\ rewriteMu[Home[r]] = None
  /\ rewriteMu' = [rewriteMu EXCEPT ![Home[r]] = r]
  /\ Goto(r, "branch")
  /\ found' = [found EXCEPT ![r] = Worktree]
  /\ UNCHANGED <<git, calls, built, temps, userSteps>>

--------------------------------------------------------------------------------
(* Validation                                                                *)

CheckBranch(r) ==
  /\ pc[r] = "branch"
  /\ r \notin cancelled
  /\ IF head = stack[r].branch
     THEN Continue(r, "head")
     ELSE Return(r, "refused")
  /\ DisturbNone
  /\ UNCHANGED <<git, built, temps, userSteps>>

CheckHead(r) ==
  /\ pc[r] = "head"
  /\ r \notin cancelled
  /\ IF HeadCommit = stack[r].head
     THEN Continue(r, "validate")
     ELSE Return(r, "refused")
  /\ DisturbNone
  /\ UNCHANGED <<git, built, temps, userSteps>>

SameLength(r) ==   \* mutant: the edited commits are only counted
  Len(stack[r].planned) = Len(RangeOf(stack[r].base, stack[r].head))

\* validateRewriteRange: base is an ancestor, no merge is in the range, and
\* the edited commits are a permutation of it.
ValidRange(r) ==
  LET range == RangeOf(stack[r].base, stack[r].head)
  IN /\ stack[r].base \in Elements(Chain(stack[r].head))
     /\ Len(stack[r].planned) = Len(range)
     /\ Elements(stack[r].planned) = Elements(range)
     /\ Elements(range) \cap merges = {}

Validate(r) ==
  /\ pc[r] = "validate"
  /\ r \notin cancelled
  /\ IF /\ stack[r].branch = Default => stack[r].confirm
        /\ ValidRange(r)
     THEN Continue(r, "add")
     ELSE Return(r, "refused")
  /\ DisturbNone
  /\ UNCHANGED <<git, built, temps, userSteps>>

\* A command, or the check of the author, provenance note or identity, fails
\* before the temporary worktree exists, or finds ctx cancelled.
FailEarly(r) ==
  /\ pc[r] \in Early
  /\ Return(r, "refused")
  /\ DisturbNone
  /\ UNCHANGED <<git, built, temps, userSteps>>

--------------------------------------------------------------------------------
(* Replay in a temporary worktree                                            *)

AddWorktree(r) ==
  /\ pc[r] = "add"
  /\ r \notin cancelled
  /\ temps' = temps \cup {r}
  /\ Continue(r, "replay")
  /\ DisturbNone
  /\ UNCHANGED <<git, built, userSteps>>

\* worktree add is killed after it registered the worktree: worktreeAdded is
\* still false, so nobody will remove the registration.
LeakWorktree(r) ==
  /\ pc[r] = "add"
  /\ r \in cancelled
  /\ temps' = temps \cup {r}
  /\ Return(r, "refused")
  /\ DisturbNone
  /\ UNCHANGED <<git, built, userSteps>>

\* One planned commit: cherry-pick, file edits, commit.
Replay(r) ==
  LET k == built[r] + 1
  IN /\ pc[r] = "replay"
     /\ r \notin cancelled
     /\ k <= Len(stack[r].planned)
     /\ Add(Replacement(r, k), IF k = 1 THEN stack[r].base ELSE Replacement(r, built[r]))
     /\ built' = [built EXCEPT ![r] = k]
     /\ Continue(r, IF k = Len(stack[r].planned) THEN "seal" ELSE "replay")
     /\ DisturbNone
     /\ UNCHANGED <<refs, head, index, stale, lock, overlap, backups, merges, temps, userSteps>>

\* The new head is resolved and the temporary worktree removed.
Seal(r) ==
  /\ pc[r] = "seal"
  /\ r \notin cancelled
  /\ temps' = temps \ {r}
  /\ Continue(r, "check")
  /\ DisturbNone
  /\ UNCHANGED <<git, built, userSteps>>

\* A conflict, an edit of a file that cannot be edited (applyCommitFileEdits),
\* another error, or a cancelled ctx.
FailReplay(r) ==
  /\ pc[r] \in Replaying
  /\ Continue(r, "abandon")
  /\ DisturbNone
  /\ UNCHANGED <<git, built, temps, userSteps>>

\* The deferred cleanup, with a context of its own, may fail as well.
Abandon(r) ==
  /\ pc[r] = "abandon"
  /\ temps' \in {temps, temps \ {r}}
  /\ Return(r, "refused")
  /\ DisturbNone
  /\ UNCHANGED <<git, built, userSteps>>

--------------------------------------------------------------------------------
(* Installation, under a context that cannot be cancelled but has a deadline *)

\* What git read-tree -m -u from to may leave in the index when it succeeds.
TwoWayMerge(from, to) ==
  IF lock \/ (overlap /\ index # to) THEN {}
  ELSE IF index \in {from, to} THEN {to}
  ELSE {index, Mixed}

\* The last look at ctx, then read-tree --dry-run.
DryRun(r) ==
  /\ pc[r] = "check"
  /\ r \notin cancelled
  /\ r \notin expired
  /\ TwoWayMerge(stack[r].head, NewHead(r)) # {}
  /\ Continue(r, "backup")
  /\ DisturbNone
  /\ UNCHANGED <<git, built, temps, userSteps>>

SkipBackup(r) ==   \* mutant: the recovery ref is not written
  /\ pc[r] = "backup"
  /\ Continue(r, "move")
  /\ DisturbNone
  /\ UNCHANGED <<git, built, temps, userSteps>>

\* update-ref refs/gitgit/backups/<branch>/<time> <old>.
WriteBackup(r) ==
  /\ pc[r] = "backup"
  /\ backups' = backups \cup {stack[r].head}
  /\ \/ r \notin expired /\ Continue(r, "move")
     \/ r \in expired /\ Return(r, "refused")    \* killed too late
  /\ DisturbNone
  /\ UNCHANGED <<refs, head, index, stale, lock, overlap, parent, merges, built, temps, userSteps>>

AnyTip(r) == TRUE   \* mutant: update-ref without the old value

\* The lease: update-ref <branch> <new> <old>.
LeaseHolds(r) == refs[stack[r].branch] = stack[r].head

MoveBranch(r) ==
  /\ pc[r] = "move"
  /\ LeaseHolds(r)
  /\ refs' = [refs EXCEPT ![stack[r].branch] = NewHead(r)]
  /\ \/ r \notin expired /\ Continue(r, "install")
     \/ r \in expired /\ Return(r, "refused")    \* killed too late
  /\ Disturb(Requests \ {r})
  /\ UNCHANGED <<head, index, stale, lock, overlap, backups, parent, merges, built, temps,
                 userSteps>>

\* The dry run, the backup or the move fails and has done nothing.
FailInstall(r) ==
  /\ pc[r] \in {"check", "backup", "move"}
  /\ Return(r, "refused")
  /\ DisturbNone
  /\ UNCHANGED <<git, built, temps, userSteps>>

\* read-tree -m -u <old> <new> in the user's worktree.
InstallTree(r) ==
  /\ pc[r] = "install"
  /\ index' \in TwoWayMerge(stack[r].head, NewHead(r))
  /\ Continue(r, IF r \in expired THEN "undoRef" ELSE "verify")
  /\ Disturb(Requests \ {r})
  /\ UNCHANGED <<refs, head, stale, lock, overlap, backups, parent, merges, built, temps,
                 userSteps>>

\* A read-tree that has begun to write its files stops: the files are of both
\* trees, and the index is not written.
StopsHalfway(from, to) ==
  /\ TwoWayMerge(from, to) # {}
  /\ index # to
  /\ stale' = TRUE

NoRollback(r) ==   \* mutant: when it fails, the call returns
  /\ pc[r] = "install"
  /\ r \notin expired
  /\ Return(r, "refused")
  /\ DisturbNone
  /\ UNCHANGED <<git, built, temps, userSteps>>

\* It fails before it has changed anything, or halfway; killed at the deadline,
\* it may leave index.lock behind.
FailTree(r) ==
  /\ pc[r] = "install"
  /\ \/ UNCHANGED <<stale, halfway>>
     \/ StopsHalfway(stack[r].head, NewHead(r)) /\ halfway' = halfway \cup {r}
  /\ lock' \in (IF r \in expired THEN {lock, TRUE} ELSE {lock})
  /\ Goto(r, "undoRef")
  /\ IF <<stale, lock>>' # <<stale, lock>> THEN Disturb(Requests \ {r}) ELSE DisturbNone
  /\ UNCHANGED <<refs, head, index, overlap, backups, parent, merges, stack, cancelled, expired,
                 built, temps, rewriteMu, userSteps>>

\* rollbackInstalledRewrite, first half: update-ref <branch> <old> <new>.
RollbackRef(r) ==
  /\ pc[r] = "undoRef"
  /\ refs[stack[r].branch] = NewHead(r)
  /\ refs' = [refs EXCEPT ![stack[r].branch] = stack[r].head]
  /\ \/ Continue(r, "undoTree")
     \/ Return(r, "torn")    \* killed too late, at the deadline of the rollback
  /\ Disturb(Requests \ {r})
  /\ UNCHANGED <<head, index, stale, lock, overlap, backups, parent, merges, built, temps,
                 userSteps>>

RefOnly(r) ==   \* mutant: the rollback forgets the worktree
  /\ pc[r] = "undoTree"
  /\ Return(r, "rolledBack")
  /\ DisturbNone
  /\ UNCHANGED <<git, built, temps, userSteps>>

\* Second half: read-tree -m -u <new> <old>.
RollbackTree(r) ==
  /\ pc[r] = "undoTree"
  /\ index' \in TwoWayMerge(NewHead(r), stack[r].head)
  /\ \E outcome \in {"rolledBack", "torn"} : Return(r, outcome)   \* in time, or too late
  /\ Disturb(Requests \ {r})
  /\ UNCHANGED <<refs, head, stale, lock, overlap, backups, parent, merges, built, temps,
                 userSteps>>

\* Either half fails: "rollback also failed".
FailRollback(r) ==
  /\ \/ pc[r] \in {"undoRef", "undoTree"} /\ UNCHANGED <<stale, lock>>
     \/ pc[r] = "undoTree" /\ UNCHANGED stale /\ lock' = TRUE
     \/ pc[r] = "undoTree" /\ StopsHalfway(NewHead(r), stack[r].head) /\ lock' \in BOOLEAN
  /\ Return(r, "torn")
  /\ IF <<stale, lock>>' # <<stale, lock>> THEN Disturb(Requests \ {r}) ELSE DisturbNone
  /\ UNCHANGED <<refs, head, index, overlap, backups, parent, merges, built, temps, userSteps>>

\* HEAD must be the new head; the refresh after it changes nothing, and a
\* failed one only adds a warning.
Verify(r) ==
  /\ pc[r] = "verify"
  /\ \/ r \notin expired /\ HeadCommit = NewHead(r) /\ Return(r, "installed")
     \/ Return(r, "uncertain")   \* it differs, or could not be read
  /\ DisturbNone
  /\ UNCHANGED <<git, built, temps, userSteps>>

--------------------------------------------------------------------------------
(* The environment                                                           *)

\* Service.CancelOperations at shutdown cancels the process's operations.
Cancel(i) ==
  /\ \E r \in Requests \ cancelled : Home[r] = i /\ pc[r] \in Running
  /\ cancelled' = cancelled \cup {r \in Requests : Home[r] = i /\ pc[r] \in Running}
  /\ UNCHANGED <<git, stack, built, expired, halfway, temps, rewriteMu, pc, found, userSteps>>

\* The 15 s of the installation are over: its command is killed.
Expire(r) ==
  /\ pc[r] \in {"check", "backup", "move", "install", "verify"}
  /\ r \notin expired
  /\ expired' = expired \cup {r}
  /\ UNCHANGED <<git, stack, built, cancelled, halfway, temps, rewriteMu, pc, found, userSteps>>

\* The process dies.  Nothing is recovered at the next start.
Crash(i) ==
  /\ \E r \in Requests : Home[r] = i /\ pc[r] \in Running
  /\ pc' = [r \in Requests |->
              IF Home[r] = i /\ pc[r] \notin Ended THEN "crashed" ELSE pc[r]]
  /\ Forget({r \in Requests : Home[r] = i})
  /\ rewriteMu' = [rewriteMu EXCEPT ![i] = None]
  /\ DisturbNone
  /\ UNCHANGED <<git, built, temps, userSteps>>

\* Bound: the user runs MaxUserSteps commands.
UserStep ==
  /\ userSteps < MaxUserSteps
  /\ userSteps' = userSteps + 1
  /\ Disturb(Requests)
  /\ UNCHANGED <<backups, calls, built, temps, rewriteMu, pc>>

\* git commit or git merge on HEAD; the commit takes what is in the index.
UserCommit ==
  LET c == <<User, userSteps>>
  IN /\ UserStep
     /\ ~lock
     /\ Add(c, HeadCommit)
     /\ merges' \in {merges, merges \cup {c}}
     /\ index' = c
     /\ IF head \in Branches
        THEN refs' = [refs EXCEPT ![head] = c] /\ UNCHANGED head
        ELSE head' = c /\ UNCHANGED refs
     /\ UNCHANGED <<stale, lock, overlap>>

\* git switch, to a branch or detached; staged differences are carried over.
UserSwitch ==
  /\ UserStep
  /\ ~lock
  /\ head' \in (Branches \cup {HeadCommit}) \ {head}
  /\ index' = IF index = HeadCommit /\ head' \in Branches THEN refs[head']
              ELSE IF head' \in Branches THEN Mixed ELSE index
  /\ UNCHANGED <<refs, stale, lock, overlap, parent, merges>>

\* git branch -f, git fetch, git push from elsewhere: any tip.  git reset moves
\* the index with it, and --hard the files.
UserMove ==
  /\ UserStep
  /\ \E b \in Branches, c \in DOMAIN parent :
        /\ refs' = [refs EXCEPT ![b] = c]
        /\ \/ UNCHANGED <<index, stale, overlap>>
           \/ /\ head = b /\ ~lock
              /\ index' = c
              /\ \/ stale' = FALSE /\ overlap' = FALSE
                 \/ stale' = TRUE /\ UNCHANGED overlap
  /\ UNCHANGED <<head, lock, parent, merges>>

\* Files are edited or stashed, or restored from the index; a stale lock is removed.
UserEdit ==
  /\ UserStep
  /\ \/ overlap' = ~overlap /\ UNCHANGED <<stale, lock>>
     \/ ~lock /\ stale /\ stale' = FALSE /\ UNCHANGED <<lock, overlap>>
     \/ lock /\ lock' = FALSE /\ UNCHANGED <<stale, overlap>>
  /\ UNCHANGED <<refs, head, index, parent, merges>>

--------------------------------------------------------------------------------
Review(r) == PrepareBranch(r) \/ PrepareStack(r)

RewriteStep(r) ==
  \/ BeginRewrite(r) \/ CheckBranch(r) \/ CheckHead(r) \/ Validate(r) \/ FailEarly(r)
  \/ AddWorktree(r) \/ LeakWorktree(r) \/ Replay(r) \/ Seal(r) \/ FailReplay(r)
  \/ Abandon(r) \/ DryRun(r) \/ WriteBackup(r) \/ MoveBranch(r) \/ FailInstall(r)
  \/ InstallTree(r) \/ FailTree(r) \/ RollbackRef(r) \/ RollbackTree(r)
  \/ FailRollback(r) \/ Verify(r)

UserNext == UserCommit \/ UserSwitch \/ UserMove \/ UserEdit

Next ==
  \/ \E r \in Requests : Review(r) \/ RewriteStep(r) \/ Expire(r)
  \/ \E i \in Instances : Cancel(i) \/ Crash(i)
  \/ UserNext

Spec == Init /\ [][Next]_vars

\* Every Git command of a rewrite ends; nobody has to review, or to crash.
FairSpec == Spec /\ \A r \in Requests : WF_vars(RewriteStep(r))

--------------------------------------------------------------------------------
(* Properties                                                                *)

Stacks == [branch : Branches \cup {None}, head : Commit \cup {None}, base : Commit \cup {None},
           planned : Seq(Commit), confirm : BOOLEAN]

Worktrees == [refs : [Branches -> Commit], head : Branches \cup Commit,
              index : Commit \cup {Mixed}, stale : BOOLEAN, lock : BOOLEAN]

TypeOK ==
  /\ refs \in [Branches -> Commit]
  /\ head \in Branches \cup Commit
  /\ index \in Commit \cup {Mixed}
  /\ stale \in BOOLEAN /\ lock \in BOOLEAN /\ overlap \in BOOLEAN
  /\ backups \subseteq Commit \cup {None}
  /\ DOMAIN parent \subseteq Commit
  /\ parent \in [DOMAIN parent -> Commit \cup {None}]
  /\ merges \subseteq Commit
  /\ temps \subseteq Requests
  /\ rewriteMu \in [Instances -> Requests \cup {None}]
  /\ pc \in [Requests -> {"idle", "stack", "apply"} \cup Running \cup Ended]
  /\ stack \in [Requests -> Stacks]
  /\ built \in [Requests -> Nat]
  /\ cancelled \subseteq Requests /\ expired \subseteq Requests
  /\ found \in [Requests -> Worktrees \cup {None}] /\ halfway \subseteq Requests
  /\ userSteps \in Nat

\* A process serves one rewrite at a time.
OneRewritePerProcess ==
  \A r \in Requests : pc[r] \in Running <=> rewriteMu[Home[r]] = r

\* From the backup on, the replaced head has a recovery ref.
BackedUp ==
  \A r \in Requests :
    pc[r] \in {"move", "install", "undoRef", "undoTree", "verify"} => stack[r].head \in backups

\* Refs and reviewed stacks name existing commits.
NoDanglingNames ==
  /\ \A b \in Branches : refs[b] \in DOMAIN parent
  /\ head \notin Branches => head \in DOMAIN parent
  /\ index # Mixed => index \in DOMAIN parent
  /\ \A r \in Requests :
        /\ pc[r] \in Running \cup {"stack", "apply"} => stack[r].branch \in Branches
        /\ pc[r] \in Running \cup {"apply"} => stack[r].head \in DOMAIN parent
        /\ pc[r] \in Critical \cup {"seal"} => NewHead(r) \in DOMAIN parent

\* A request replaces nothing before it runs, so what it reviewed and what it found
\* is not its own.
FreshReplacements ==
  \A r \in Requests :
    /\ pc[r] \in {"idle", "stack", "apply"} => \A c \in DOMAIN parent : c \notin {r} \X Nat
    /\ stack[r].head \notin {r} \X Nat
    /\ found[r] # None => found[r].index \notin {r} \X Nat

\* The worktree r found, but for r's branch, the index, the files and the lock.
Left(r, tip, i, files, locked) ==
  [refs  |-> [found[r].refs EXCEPT ![stack[r].branch] = tip], head |-> found[r].head,
   index |-> i, stale |-> files, lock |-> locked]

\* The branch is moved, and nothing else.
Moved(r) == Left(r, NewHead(r), found[r].index, found[r].stale, found[r].lock)

\* What may be in the index when the worktree has been updated to c, or back to it:
\* what was staged stays staged, and without it all is of one commit.
IndexFrom(r, c) == IF found[r].index = stack[r].head THEN {c} ELSE {found[r].index, Mixed}

\* The files are as they were found, but for those its own read-tree left halfway.
StaleFrom(r) == IF r \in halfway THEN {found[r].stale, TRUE} ELSE {found[r].stale}

Installed(r, w) ==
  \E i \in IndexFrom(r, NewHead(r)) :
    w = Left(r, NewHead(r), i, found[r].stale, found[r].lock)

Back(r, w) ==
  \E i \in IndexFrom(r, stack[r].head), files \in StaleFrom(r) :
    w = Left(r, stack[r].head, i, files, found[r].lock)

\* What a rewrite that nobody disturbed finds when it is at l.
InStep(r, l) ==
  /\ l \in Early \cup Replaying \cup {"abandon", "check", "backup", "move"} =>
       Worktree = found[r]
  /\ l \in {"head", "validate", "add"} \cup Replaying \cup Critical =>
       found[r].head = stack[r].branch
  /\ l \in {"validate", "add"} \cup Replaying \cup Critical =>
       found[r].refs[stack[r].branch] = stack[r].head
  /\ l \in Critical \ {"check"} => ~found[r].lock
  /\ l = "install" => Worktree = Moved(r)
  /\ l = "verify" => Installed(r, Worktree)
  /\ l \in {"undoRef", "undoTree"} =>
       \E i \in IndexFrom(r, NewHead(r)) \cup IndexFrom(r, stack[r].head),
          files \in StaleFrom(r), locked \in BOOLEAN :
         Worktree = Left(r, IF l = "undoRef" THEN NewHead(r) ELSE stack[r].head, i, files, locked)

InstallInSteps == \A r \in Requests : found[r] # None => InStep(r, pc[r])

Sound ==
  /\ TypeOK
  /\ OneRewritePerProcess
  /\ BackedUp
  /\ NoDanglingNames
  /\ FreshReplacements
  /\ InstallInSteps

\* Commits are only added, and have not been there before.
OnlyAdded ==
  /\ HistoryEnds(parent)
  /\ \A r \in Requests : \A c \in DOMAIN parent \cap ({r} \X Nat) : c[2] \in 1 .. built[r]
  /\ \A c \in DOMAIN parent \cap ({User} \X Nat) : c[2] < userSteps

\* What was reviewed lies on a base that no replacement of it is below, and is
\* replayed only if the edited commits are those of the range.
Reviewed(r) ==
  /\ pc[r] \in Running \cup {"apply"} =>
       /\ stack[r].base \in DOMAIN parent
       /\ stack[r].planned # <<>>
       /\ Elements(Chain(stack[r].base)) \cap ({r} \X Nat) = {}
  /\ pc[r] \in {"add"} \cup Replaying \cup Critical =>
       LET range == RangeOf(stack[r].base, stack[r].head)
       IN /\ Len(stack[r].planned) = Len(range)
          /\ Elements(stack[r].planned) = Elements(range)

\* The first m replacements of r lie on b, each on top of the one before.
Tower(p, b, r, m) ==
  \A k \in 1 .. m : /\ Replacement(r, k) \in DOMAIN p
                    /\ p[Replacement(r, k)] = IF k = 1 THEN b ELSE Replacement(r, k - 1)

\* So are those made so far.
Replayed(r) ==
  /\ pc[r] \in {"idle", "stack", "apply"} \cup Early => built[r] = 0
  /\ pc[r] \in Replaying \cup Critical => Tower(parent, stack[r].base, r, built[r])
  /\ pc[r] \in {"seal"} \cup Critical => built[r] = Len(stack[r].planned)

OnPlan == \A r \in Requests : Reviewed(r) /\ Replayed(r)

IInv == Sound /\ OnlyAdded /\ OnPlan

\* A rewrite never loses history: whenever GitGit itself moves a branch, the
\* tip it leaves is kept by a recovery ref, or is the rewrite's own new head
\* that it takes back; so a commit made on the branch meanwhile by the user
\* or by another GitGit stays where it is (commit_rewrite.go:437-447).
TipsKept ==
  \A b \in Branches :
    refs'[b] # refs[b] /\ userSteps' = userSteps =>
      \/ refs[b] \in backups
      \/ \E r \in Requests : pc[r] = "undoRef" /\ refs[b] = NewHead(r)

KeepsTips == [][TipsKept]_vars

\* What is installed replaces the whole reviewed range: every commit between
\* base and the old head is replayed exactly once, in the edited order, on top
\* of base (validateRewriteRange and the replay loop).
NothingDropped ==
  \A r \in Requests :
    pc[r] \in {"move", "install", "verify"} =>
      LET old == RangeOf(stack[r].base, stack[r].head)
          new == RangeOf(stack[r].base, NewHead(r))
      IN /\ new = [k \in DOMAIN old |-> Replacement(r, k)]
         /\ \A c \in Elements(old) : \E k \in DOMAIN new : stack[r].planned[k] = c

\* If nobody else interferes, a rewrite is all or nothing, whichever command fails or
\* is killed (commit_rewrite.go:431-454, 474-484).  An answer of success, or that HEAD
\* cannot be read after it, means that the branch is on the new head and the index
\* with it, and all else as the call found it; a failed worktree update whose rollback
\* has not failed, that branch and index are back, and the files but for those the
\* update left halfway; and a refusal, that nothing is changed, unless the deadline
\* killed the move of the branch when it was done.
OutcomeTrue ==
  \A r \in Requests : found[r] # None =>
    LET answers(outcomes) == pc[r] \notin outcomes /\ pc'[r] \in outcomes
    IN /\ answers({"installed", "uncertain"}) => Installed(r, Worktree')
       /\ answers({"rolledBack"}) => Back(r, Worktree')
       /\ answers({"refused"}) =>
            \/ Worktree' = found[r]
            \/ r \in expired /\ Worktree' = Moved(r)

AllOrNothing == [][OutcomeTrue]_vars

\* An Apply that was sent returns, and frees rewriteMu for the next one of its
\* process, whatever fails on the way (deferred Unlock, commit_rewrite.go:316).
AppliesReturn ==
  \A r \in Requests : pc[r] = "apply" ~> pc[r] \in Ended
================================================================================
