----------------------------- MODULE Worktrees -----------------------------
(* The worktree changes of the desktop service: removal with the branch,     *)
(* creation, move and sparse-checkout (internal/desktop/service.go,          *)
(* worktree_mutation.go, internal/app/worktree.go), against other Git        *)
(* commands of the user.                                                     *)
(*                                                                           *)
(* rewriteMu admits one request at a time.  It takes a snapshot, checks,     *)
(* checks again, and runs the Git commands that change something; between    *)
(* any two of its steps the user may act in a terminal.  A directory is a    *)
(* place of sparse-checkout, a path a place of worktrees, and `Inside' says  *)
(* which paths lie below which.  A worktree below another lies where the     *)
(* other ignores it.  What else is on disk is a file.                        *)
EXTENDS Naturals, Sequences, FiniteSets, Functions

CONSTANTS
  Commits, NoCommit,
  Ancestors,           \* [Commits -> what each commit contains, itself included]
  Branches, NoBranch,
  Default,             \* state.DefaultBranch
  Paths,
  Inside,              \* <<p, q>>: p lies below q
  Main, Viewed,        \* state.ProjectRoot, state.Root
  Dirs,                \* directories of the repository
  Tips, Held,          \* at first: the commit of each branch, the branch of each path
  MaxRequests, MaxUser, MaxSelected

ASSUME WorktreesAssumption ==
  /\ Ancestors \in [Commits -> SUBSET Commits]
  /\ NoCommit \notin Commits /\ NoBranch \notin Branches
  /\ Default \in Branches
  /\ Inside \subseteq Paths \X Paths
  /\ \A p \in Paths : <<p, p>> \notin Inside
  /\ {Main, Viewed} \subseteq Paths
  /\ Tips \in [Branches -> Commits \cup {NoCommit}] /\ Tips[Default] \in Commits
  /\ Held \in [Paths -> Branches \cup {NoBranch}]
  /\ Held[Main] # NoBranch /\ Held[Viewed] # NoBranch
  /\ \A p, q \in Paths : Held[p] # NoBranch /\ Held[q] # NoBranch => <<p, q>> \notin Inside
  /\ \A p, q \in Paths : Held[p] = Held[q] /\ Held[p] # NoBranch => p = q
  /\ MaxRequests \in Nat /\ MaxUser \in Nat /\ MaxSelected \in Nat

Trees == [branch : Branches \cup {NoBranch}, locked : BOOLEAN, changed : SUBSET Dirs,
          sparse : {"off", "cone", "other"}, dirs : SUBSET Dirs]
NewTree(b) == [branch |-> b, locked |-> FALSE, changed |-> {}, sparse |-> "off", dirs |-> {}]

\* What RemoveMergedWorktrees is asked for, duplicates dropped (`seen').
Selections == {ts \in UNION {[1..n -> Paths] : n \in 1..MaxSelected} : IsInjective(ts)}
SparseKinds == {"set", "expand", "contract", "disable"}
Requests == [kind : {"remove", "create", "move"} \cup SparseKinds,
             targets : Seq(Paths), dest : Paths,
             name : Branches \cup {NoBranch}, rev : Branches \cup {NoBranch},
             detach : BOOLEAN, dirs : SUBSET Dirs]
Asked(kind, targets, dest, name, rev, detach, dirs) ==
  [kind |-> kind, targets |-> targets, dest |-> dest, name |-> name, rev |-> rev,
   detach |-> detach, dirs |-> dirs]
ToRemove(ts) == Asked("remove", ts, Main, NoBranch, NoBranch, FALSE, {})
ToCreate(d, name, rev, detach) == Asked("create", << >>, d, name, rev, detach, {})
ToMove(p, d) == Asked("move", <<p>>, d, NoBranch, NoBranch, FALSE, {})
ToSparse(kind, p, ds) == Asked(kind, <<p>>, Main, NoBranch, NoBranch, FALSE, ds)
NoRequest == ToRemove(<< >>)
NoSnapshot == [branch |-> Tips, registered |-> {}, present |-> {},
               tree |-> [p \in Paths |-> NewTree(NoBranch)]]

VARIABLES
  branch,       \* [Branches -> its commit, or NoCommit]
  registered,   \* paths of the worktrees Git knows
  present,      \* paths at which something is on disk
  tree,         \* [Paths -> the worktree there]
  stage,        \* where the request stands, "idle" without one
  request,
  snap,         \* its snapshot: what it knows of the first four
  next,         \* the target at which a removal stands
  pinned,       \* defaultHead of a removal, revisionHead of a creation
  heads,        \* [Paths -> branchHead of a checked target]
  disturbed,    \* the user acted, or a command failed, since the snapshot: a history
  nested,       \* a race or the user put a worktree below another one: a history
  requests, userSteps   \* bounds

git == <<branch, registered, present, tree>>
work == <<request, snap, next, pinned, heads>>
bounds == <<requests, userSteps>>
vars == <<git, stage, work, disturbed, nested, bounds>>

Exists(b) == branch[b] # NoCommit
Unborn(t, tips) == t.branch # NoBranch /\ tips[t.branch] = NoCommit
\* git status: something changed, or everything is new below an unborn HEAD.
Dirty(t, tips) == t.changed # {} \/ Unborn(t, tips)
Below(p) == {q \in Paths : <<q, p>> \in Inside}
Related(p, q) == <<p, q>> \in Inside \/ <<q, p>> \in Inside
Target == request.targets[next]
Visible(t) == IF t.sparse = "off" THEN Dirs ELSE t.dirs

Init ==
  /\ branch = Tips
  /\ registered = {p \in Paths : Held[p] # NoBranch}
  /\ present = registered
  /\ tree = [p \in Paths |-> NewTree(Held[p])]
  /\ stage = "idle"
  /\ request = NoRequest
  /\ snap = NoSnapshot
  /\ next = 1
  /\ pinned = NoCommit
  /\ heads = [p \in Paths |-> NoCommit]
  /\ disturbed = FALSE /\ nested = FALSE
  /\ requests = 0 /\ userSteps = 0

-----------------------------------------------------------------------------
(* Requests.                                                                *)

Snapshot == [branch |-> branch, registered |-> registered, present |-> present, tree |-> tree]

Begin(r, first) ==
  /\ stage = "idle" /\ requests < MaxRequests
  /\ stage' = first
  /\ request' = r
  /\ snap' = Snapshot
  /\ next' = 1 /\ pinned' = NoCommit /\ heads' = [p \in Paths |-> NoCommit]
  /\ disturbed' = FALSE
  /\ requests' = requests + 1
  /\ UNCHANGED <<git, nested, userSteps>>

Forget ==
  /\ request' = NoRequest /\ snap' = NoSnapshot
  /\ next' = 1 /\ pinned' = NoCommit /\ heads' = [p \in Paths |-> NoCommit]

\* The request returns, with its result or an error.
Return == stage' = "idle" /\ Forget /\ UNCHANGED <<disturbed, bounds>>

Refuse == Return /\ UNCHANGED <<git, nested>>

GoOn(s) ==
  /\ stage' = s
  /\ UNCHANGED <<git, request, snap, heads, disturbed, nested, bounds>>

\* The context is cancelled or a Git command fails of itself.
Fail ==
  /\ stage # "idle"
  /\ stage' = "idle"
  /\ disturbed' = TRUE
  /\ Forget
  /\ UNCHANGED <<git, nested, bounds>>

-----------------------------------------------------------------------------
(* RemoveMergedWorktrees.                                                   *)

RemoveBegins ==
  \E ts \in Selections : Begin(ToRemove(ts), "default")

ReadDefault ==
  /\ stage = "default"
  /\ pinned' = branch[Default]
  /\ next' = next
  /\ GoOn("check")

Removable(p) ==
  LET t == snap.tree[p] IN
  /\ p \in snap.registered \ {Main, Viewed}
  /\ t.branch \notin {NoBranch, Default}
  /\ ~t.locked
  /\ p \in snap.present => ~Dirty(t, snap.branch)
  /\ snap.branch[t.branch] \in Ancestors[snap.branch[Default]]

CleanNow(p) == p \in registered \cap present /\ ~Dirty(tree[p], branch)

CheckTarget ==
  /\ stage = "check"
  /\ IF Removable(Target) /\ CleanNow(Target)
     THEN GoOn("head") /\ UNCHANGED <<next, pinned>>
     ELSE Refuse

\* mutant: the removal starts after the first check
RemoveAtOnce == <<"tree", 1>>

\* The first loop checks every target before the second removes one.
AfterCheck == IF next < Len(request.targets) THEN <<"check", next + 1>> ELSE <<"tree", 1>>

SnapshotMerged(h) == TRUE   \* mutant: MergedIntoDefault of the snapshot is enough

MergedNow(h) == h \in Ancestors[pinned]

CheckHead ==
  LET b == snap.tree[Target].branch IN
  /\ stage = "head"
  /\ IF Exists(b) /\ branch[b] = snap.branch[b] /\ MergedNow(branch[b])
     THEN /\ heads' = [heads EXCEPT ![Target] = branch[b]]
          /\ stage' = AfterCheck[1] /\ next' = AfterCheck[2]
          /\ UNCHANGED <<git, request, snap, pinned, disturbed, nested, bounds>>
     ELSE Refuse

\* git worktree remove, which takes all that lies below the path with it.
CanRemove(p) ==
  /\ p \in registered \ {Main} /\ ~tree[p].locked
  /\ p \in present => ~Dirty(tree[p], branch)

GitRemoves(p) ==
  /\ registered' = registered \ {p}
  /\ present' = present \ ({p} \cup Below(p))
  /\ tree' = [tree EXCEPT ![p] = NewTree(NoBranch)]
  /\ UNCHANGED <<branch, nested>>

RemoveTree ==
  /\ stage = "tree"
  /\ IF CanRemove(Target)
     THEN /\ GitRemoves(Target)
          /\ stage' = "branch"
          /\ UNCHANGED <<work, disturbed, bounds>>
     ELSE Refuse

\* update-ref --stdin: both refs are verified and the branch deleted in one transaction.
BranchUnchanged(b) == branch[b] = heads[Target]   \* mutant: no `verify' of the default

RefsUnchanged(b) == branch[Default] = pinned /\ branch[b] = heads[Target]

DeleteBranch ==
  LET b == snap.tree[Target].branch IN
  /\ stage = "branch"
  /\ IF RefsUnchanged(b)
     THEN /\ branch' = [branch EXCEPT ![b] = NoCommit]
          /\ UNCHANGED <<registered, present, tree, nested>>
          /\ IF next < Len(request.targets)
             THEN /\ stage' = "tree" /\ next' = next + 1
                  /\ UNCHANGED <<request, snap, pinned, heads, disturbed, bounds>>
             ELSE Return
     ELSE Refuse

Remove == RemoveBegins \/ ReadDefault \/ CheckTarget \/ CheckHead \/ RemoveTree \/ DeleteBranch

-----------------------------------------------------------------------------
(* CreateWorktree and MoveWorktree.                                         *)

\* resolveWorktreeLocation: the parent exists; worktreeDestinationIsFree: nothing is
\* there, and no worktree of the snapshot lies around it or below it.
Reachable(d) == \A q \in Paths : <<d, q>> \in Inside => q \in registered \cap present

NoneBelow(d) ==   \* mutant: containment is tested one way only
  \A q \in snap.registered : q # d /\ <<q, d>> \notin Inside

Apart(d) == \A q \in snap.registered : q # d /\ ~Related(q, d)

Free(d) == d \notin present /\ Apart(d)

HeldIn(trees, known, b) == \E p \in known : trees[p].branch = b

\* The worktree that comes to d; `nested' when that is a race's or the user's doing.
Place(d, t, blame) ==
  /\ tree' = [tree EXCEPT ![d] = t]
  /\ nested' = (nested \/ (blame /\ \E q \in registered : Related(q, d)))

CreateBegins ==
  \E d \in Paths, b, r \in Branches \cup {NoBranch}, detach \in BOOLEAN :
    Begin(ToCreate(d, b, r, detach), "create")

CreateIsLegal ==
  LET b == request.name  r == request.rev IN
  /\ Reachable(request.dest) /\ Free(request.dest)
  /\ b # NoBranch => ~request.detach /\ ~Exists(b)
  /\ b = NoBranch /\ ~request.detach => r # NoBranch /\ ~HeldIn(snap.tree, snap.registered, r)
  /\ r # NoBranch => Exists(r)

CheckCreate ==
  /\ stage = "create"
  /\ IF CreateIsLegal
     THEN /\ pinned' = IF request.rev = NoBranch THEN NoCommit ELSE branch[request.rev]
          /\ next' = next
          /\ GoOn("verify")
     ELSE Refuse

VerifyCreate ==
  LET b == request.name  r == request.rev IN
  /\ stage = "verify"
  /\ IF /\ Free(request.dest)
        /\ b # NoBranch => ~Exists(b)
        /\ r # NoBranch => branch[r] = pinned
     THEN GoOn("add") /\ UNCHANGED <<next, pinned>>
     ELSE Refuse

\* git worktree add: the branch comes first, and stays when the path is taken or another
\* worktree already stands on it, unborn.
StartPoint == branch[IF request.rev # NoBranch THEN request.rev ELSE tree[Viewed].branch]
HeadOfNew == IF request.detach THEN NoBranch
             ELSE IF request.name # NoBranch THEN request.name ELSE request.rev
CheckedOut(b) == b # NoBranch /\ HeldIn(tree, registered, b)

AddTree ==
  LET b == request.name  d == request.dest IN
  /\ stage = "add"
  /\ \/ /\ StartPoint \in Commits
        /\ b # NoBranch => ~Exists(b)
        /\ branch' = IF b = NoBranch THEN branch ELSE [branch EXCEPT ![b] = StartPoint]
        /\ IF d \notin registered \cup present /\ ~CheckedOut(HeadOfNew)
           THEN /\ Place(d, NewTree(HeadOfNew), disturbed)
                /\ registered' = registered \cup {d} /\ present' = present \cup {d}
           ELSE UNCHANGED <<registered, present, tree, nested>>
        /\ Return
     \/ /\ StartPoint \notin Commits \/ (b # NoBranch /\ Exists(b))
        /\ Refuse

Create == CreateBegins \/ CheckCreate \/ VerifyCreate \/ AddTree

MoveBegins ==
  \E p, d \in Paths : Begin(ToMove(p, d), "move")

CheckMove ==
  LET t == snap.tree[Target] IN
  /\ stage = "move"
  /\ IF /\ Target \in (snap.registered \cap snap.present) \ {Main, Viewed}
        /\ ~t.locked /\ ~Dirty(t, snap.branch)
        /\ Reachable(request.dest) /\ Free(request.dest)
     THEN GoOn("status") /\ UNCHANGED <<next, pinned>>
     ELSE Refuse

VerifyMove ==
  /\ stage = "status"
  /\ IF CleanNow(Target) /\ request.dest \notin present
     THEN GoOn("git move") /\ UNCHANGED <<next, pinned>>
     ELSE Refuse

\* git worktree move: worktrees below the source are not where Git looks for them.
MoveTree ==
  LET d == request.dest IN
  /\ stage = "git move"
  /\ IF Target \in registered \cap present /\ ~tree[Target].locked /\ d \notin registered \cup present
     THEN /\ Place(d, tree[Target], disturbed)
          /\ registered' = (registered \ {Target}) \cup {d}
          /\ present' = (present \ ({Target} \cup Below(Target))) \cup {d}
          /\ branch' = branch
          /\ Return
     ELSE Refuse

Move == MoveBegins \/ CheckMove \/ VerifyMove \/ MoveTree

-----------------------------------------------------------------------------
(* mutateWorktreeSparse, SparseSet, SparseExpand, SparseContract.           *)

SparseBegins ==
  \E p \in Paths, kind \in SparseKinds, ds \in SUBSET Dirs :
    /\ (kind = "disable") <=> (ds = {})
    /\ Begin(ToSparse(kind, p, ds), "sparse")

\* protectDirtyPaths: git sparse-checkout check-rules on all that git status lists.
Covered == tree[Target].changed \subseteq request.dirs

NeverProbed == FALSE   \* mutant: no CheckSparseRules

\* The first sparse-checkout of a worktree is probed here; SparseSet probes the others.
ProbedFirst == request.kind = "set" /\ snap.tree[Target].sparse = "off"

CheckSparse ==
  LET t == snap.tree[Target] IN
  /\ stage = "sparse"
  /\ IF /\ Target \in snap.registered /\ Target \in registered \cap present
        /\ ~t.locked /\ t.sparse # "other"
        /\ ~Unborn(t, snap.branch)
        /\ request.kind = "disable" => t.sparse = "cone"
        /\ ProbedFirst => Covered
     THEN GoOn("list") /\ UNCHANGED <<next, pinned>>
     ELSE Refuse

Present == Target \in registered \cap present

\* sparseState: a command that fails reads as no sparse-checkout.
SparseNow == IF Present THEN tree[Target].sparse ELSE "off"

\* SparseList against the snapshot.
ListSparse ==
  LET t == snap.tree[Target] IN
  /\ stage = "list"
  /\ IF SparseNow = t.sparse /\ (t.sparse = "off" \/ tree[Target].dirs = t.dirs)
     THEN GoOn(request.kind) /\ UNCHANGED <<next, pinned>>
     ELSE Refuse

\* SparseExpand: with no sparse-checkout it is SparseSet.
ExpandReads ==
  /\ stage = "expand"
  /\ \/ SparseNow = "cone" /\ GoOn("git add") /\ UNCHANGED <<next, pinned>>
     \/ SparseNow = "off" /\ GoOn("set") /\ UNCHANGED <<next, pinned>>
     \/ SparseNow = "other" /\ Refuse

\* SparseContract: what is left is given to SparseSet.
ContractReads ==
  /\ stage = "contract"
  /\ IF SparseNow = "cone" /\ request.dirs \cap tree[Target].dirs # {}
     THEN /\ request' = [request EXCEPT !.dirs = tree[Target].dirs \ @]
          /\ stage' = "set"
          /\ UNCHANGED <<git, snap, next, pinned, heads, disturbed, nested, bounds>>
     ELSE Refuse

\* SparseSet reads the state again, and probes when a selection is replaced.
SetReads ==
  /\ stage = "set"
  /\ \/ SparseNow = "cone" /\ GoOn("probe") /\ UNCHANGED <<next, pinned>>
     \/ SparseNow = "off" /\ GoOn("git set") /\ UNCHANGED <<next, pinned>>
     \/ SparseNow = "other" /\ Refuse

Probe ==
  /\ stage = "probe"
  /\ IF Present /\ Covered
     THEN GoOn("git set") /\ UNCHANGED <<next, pinned>>
     ELSE Refuse

GitWrites(on, ds) ==
  /\ tree' = [tree EXCEPT ![Target].sparse = on, ![Target].dirs = ds]
  /\ Return
  /\ UNCHANGED <<branch, registered, present, nested>>

WriteSparse ==
  LET t == tree[Target] IN
  \/ stage \in {"git set", "git add", "disable"} /\ ~Present /\ Refuse
  \/ stage = "git set" /\ Present /\ GitWrites("cone", request.dirs)
  \/ stage = "git add" /\ Present /\ t.sparse # "off" /\ GitWrites(t.sparse, t.dirs \cup request.dirs)
  \/ stage = "git add" /\ Present /\ t.sparse = "off" /\ Refuse
  \/ stage = "disable" /\ Present /\ GitWrites("off", {})

Sparse == SparseBegins \/ CheckSparse \/ ListSparse \/ ExpandReads \/ ContractReads
          \/ SetReads \/ Probe \/ WriteSparse

-----------------------------------------------------------------------------
(* The user's Git commands, without --force.                                *)

UserActs ==
  /\ userSteps < MaxUser
  /\ userSteps' = userSteps + 1
  /\ disturbed' = TRUE
  /\ UNCHANGED <<stage, work, requests>>

\* commit, merge, reset, pull, branch
MovesBranch ==
  \E b \in Branches, c \in Commits :
    /\ c # branch[b]
    /\ branch' = [branch EXCEPT ![b] = c]
    /\ UNCHANGED <<registered, present, tree, nested>>

\* branch -d and -D
DeletesBranch ==
  \E b \in Branches \ {Default} :
    /\ Exists(b) /\ ~HeldIn(tree, registered, b)
    /\ branch' = [branch EXCEPT ![b] = NoCommit]
    /\ UNCHANGED <<registered, present, tree, nested>>

\* an editor, lock and unlock, sparse-checkout, switch
ChangesTree ==
  \E p \in registered \cap present :
    /\ \/ \E d \in Dirs : tree' = [tree EXCEPT ![p].changed = (@ \ {d}) \cup ({d} \ @)]
       \/ p # Main /\ tree' = [tree EXCEPT ![p].locked = ~@]
       \/ \E ds \in SUBSET Dirs : tree' = [tree EXCEPT ![p].sparse = "cone", ![p].dirs = ds]
       \/ \E on \in {"off", "other"} : tree' = [tree EXCEPT ![p].sparse = on, ![p].dirs = {}]
       \/ \E b \in {b \in Branches : Exists(b)} :
            /\ ~HeldIn(tree, registered, b)
            /\ tree' = [tree EXCEPT ![p].branch = b]
    /\ UNCHANGED <<branch, registered, present, nested>>

\* worktree add, worktree remove, rm -r, and a file where a worktree could be
ChangesPaths ==
  \/ \E d \in Paths \ (registered \cup present), b \in {b \in Branches : Exists(b)} :
       /\ Reachable(d) /\ ~HeldIn(tree, registered, b)
       /\ Place(d, NewTree(b), TRUE)
       /\ registered' = registered \cup {d} /\ present' = present \cup {d}
       /\ branch' = branch
  \/ \E p \in registered \ {Viewed} : CanRemove(p) /\ GitRemoves(p)
  \/ \E p \in (registered \cap present) \ {Main, Viewed} :
       /\ present' = present \ ({p} \cup Below(p))
       /\ UNCHANGED <<branch, registered, tree, nested>>
  \/ \E d \in Paths \ (registered \cup present) :
       /\ present' = present \cup {d}
       /\ UNCHANGED <<branch, registered, tree, nested>>

User == UserActs /\ (MovesBranch \/ DeletesBranch \/ ChangesTree \/ ChangesPaths)

Next == Remove \/ Create \/ Move \/ Sparse \/ Fail \/ User

Spec == Init /\ [][Next]_vars

-----------------------------------------------------------------------------
(* Properties.                                                              *)

CreateStages == {"create", "verify", "add"}
MoveStages == {"move", "status", "git move"}
Stages == {"idle", "default", "check", "head", "tree", "branch"} \cup CreateStages
          \cup MoveStages \cup SparseKinds \cup {"sparse", "list", "probe", "git set", "git add"}

GitOK ==
  /\ branch \in [Branches -> Commits \cup {NoCommit}]
  /\ branch[Default] \in Commits
  /\ registered \in SUBSET Paths /\ {Main, Viewed} \subseteq registered
  /\ present \in SUBSET Paths
  /\ tree \in [Paths -> Trees] /\ tree[Viewed].branch \in Branches
  /\ nested \in BOOLEAN

WorkOK ==
  /\ stage \in Stages
  /\ request \in Requests
  /\ snap \in [branch : [Branches -> Commits \cup {NoCommit}],
               registered : SUBSET Paths, present : SUBSET Paths, tree : [Paths -> Trees]]
  /\ next \in Nat
  /\ pinned \in Commits \cup {NoCommit}
  /\ heads \in [Paths -> Commits \cup {NoCommit}]
  /\ disturbed \in BOOLEAN
  /\ requests \in Nat /\ userSteps \in Nat

TypeOK == GitOK /\ WorkOK

\* Where a request stands at a target, it has one; what it will do is known.
Standing ==
  /\ stage \notin {"idle"} \cup CreateStages => next \in 1..Len(request.targets)
  /\ stage = "default" => next = 1
  /\ stage \in {"sparse", "list"} => request.kind \in SparseKinds

\* What a removal has checked is of linked worktrees on other branches than the default
\* one, and merged into the head that it read.
CheckedTarget(p) ==
  /\ p \notin {Main, Viewed}
  /\ snap.tree[p].branch \in Branches \ {Default}
  /\ heads[p] \in Ancestors[pinned]

Checked ==
  stage \in {"check", "head", "tree", "branch"} =>
    /\ pinned \in Commits
    /\ \A i \in 1..Len(request.targets) :
         i < next \/ stage \in {"tree", "branch"} => CheckedTarget(request.targets[i])
    /\ stage = "head" => Removable(Target)

\* A destination that was checked lies apart from the worktrees of the snapshot, which
\* are those of Git until the user acts.
Destined ==
  /\ stage \in {"verify", "add", "status", "git move"} => Apart(request.dest)
  /\ stage \in {"status", "git move"} => Target \notin {Main, Viewed}
  /\ stage \in CreateStages \cup MoveStages /\ ~disturbed => registered = snap.registered

\* Only a race or the user puts a worktree below another one.
NoneNested == ~nested => \A p, q \in registered : <<p, q>> \notin Inside

Sound == TypeOK /\ Standing /\ Checked /\ Destined /\ NoneNested

RemoveStages == {"default", "check", "head", "tree", "branch"}
SparseStages == SparseKinds \cup {"sparse", "list", "probe", "git set", "git add"}

\* A stage belongs to one kind of request.
KindAtStage ==
  /\ stage \in RemoveStages => request.kind = "remove"
  /\ stage \in CreateStages => request.kind = "create"
  /\ stage \in MoveStages => request.kind = "move"
  /\ stage \in SparseStages => request.kind \in SparseKinds
  /\ stage \in {"expand", "contract", "disable"} => request.kind = stage
  /\ stage = "git add" => request.kind = "expand"

\* Git checks a branch out in one worktree at most.
OneEach(trees, known) ==
  \A p, q \in known : trees[p].branch = trees[q].branch /\ trees[p].branch # NoBranch => p = q

BranchesApart ==
  /\ OneEach(tree, registered)
  /\ stage \in RemoveStages =>
       OneEach(snap.tree, snap.registered) /\ IsInjective(request.targets)

AsInSnapshot ==
  /\ branch = snap.branch /\ registered = snap.registered
  /\ present = snap.present /\ tree = snap.tree

\* What the checks establish of a target, in the snapshot.
Cleared(p) ==
  LET t == snap.tree[p] IN
  /\ Removable(p) /\ ~Dirty(t, snap.branch)
  /\ heads[p] = snap.branch[t.branch] /\ heads[p] # NoCommit

\* The targets whose worktree, and those whose branch, has been taken.
Taken == {i \in 1..Len(request.targets) : i < next \/ (i = next /\ stage = "branch")}
Deleted(b) == \E i \in 1..Len(request.targets) :
                i < next /\ snap.tree[request.targets[i]].branch = b

\* As long as nobody disturbs a removal, what it has not taken yet is as in its snapshot.
RemovalOnCourse ==
  ~disturbed =>
    /\ stage \in {"default", "check", "head"} => AsInSnapshot
    /\ stage \in {"check", "head", "tree", "branch"} => pinned = snap.branch[Default]
    /\ stage = "head" => ~Dirty(snap.tree[Target], snap.branch)
    /\ stage \in {"check", "head"} =>
         \A i \in 1..Len(request.targets) : i < next => Cleared(request.targets[i])
    /\ stage \in {"tree", "branch"} =>
         /\ \A i \in 1..Len(request.targets) : Cleared(request.targets[i])
         /\ registered = snap.registered \ {request.targets[i] : i \in Taken}
         /\ \A p \in registered : tree[p] = snap.tree[p]
         /\ \A b \in Branches : branch[b] = IF Deleted(b) THEN NoCommit ELSE snap.branch[b]

\* As long as nobody disturbs it, a sparse-checkout request writes what it has probed.
SparseOnCourse ==
  stage \in SparseStages /\ ~disturbed =>
    LET t == snap.tree[Target] IN
    /\ AsInSnapshot
    /\ stage # "sparse" => Target \in registered \cap present
    /\ stage \in {"list", "set"} /\ request.kind = "set" /\ t.sparse = "off" => Covered
    /\ stage = "set" /\ request.kind = "contract" => t.sparse = "cone"
    /\ stage = "git set" /\ request.kind \in {"set", "contract"} => Covered

OnCourse == KindAtStage /\ BranchesApart /\ RemovalOnCourse /\ SparseOnCourse

\* The inductive invariant.
IInv == Sound /\ OnCourse

GitGitActs == userSteps' = userSteps

\* RemoveMergedWorktrees deletes a branch only while its tip is contained in the default
\* branch, as both are when it is deleted, whatever was done since they were checked.
DeletedIsMerged ==
  [][\A b \in Branches :
       GitGitActs /\ Exists(b) /\ branch'[b] = NoCommit =>
         branch[b] \in Ancestors[branch[Default]]]_vars

\* A removal that nobody disturbs takes all of the selection, or nothing
\* (docs/worktree.md: when one worktree fails, none of the selection is removed).
WholeOrNothing ==
  [][request.kind = "remove" /\ stage # "idle" /\ stage' = "idle" /\ ~disturbed' =>
       \/ registered' = snap.registered /\ branch' = snap.branch
       \/ \A p \in Range(request.targets) :
            p \notin registered' /\ branch'[snap.tree[p].branch] = NoCommit]_vars

\* As long as no race and no user nested worktrees, a step of GitGit takes away the directory
\* of one worktree at most: creation and move never arrange a removal that takes another
\* worktree, and its changes, with it.
SparesOthers ==
  [][GitGitActs /\ ~nested =>
       \A p, q \in registered \cap present : {p, q} \cap present' = {} => p = q]_vars

Spares(kinds) ==
  GitGitActs /\ stage # "idle" /\ request.kind \in kinds /\ ~disturbed =>
    \A p \in Paths : tree[p].changed \cap Visible(tree[p]) \subseteq Visible(tree'[p])

\* An undisturbed `set' or `contract' never leaves a directory with local changes outside
\* the selection, the first selection of a worktree included.
SparseSpares == [][Spares({"set", "contract"})]_vars
=============================================================================
