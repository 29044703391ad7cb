-------------------------- MODULE Worktrees_proofs --------------------------
(* For every value of the constants: IInv is an invariant, a branch is       *)
(* deleted only while merged, no step of GitGit takes two directories, an    *)
(* undisturbed removal takes all of its selection or nothing, and an         *)
(* undisturbed sparse-checkout leaves no local changes outside the selection.*)
(* Sound is preserved by itself; OnCourse, what an undisturbed request       *)
(* relies on, is preserved given Sound.                                      *)
EXTENDS Worktrees, TLAPS

GitSound == GitOK /\ NoneNested
WorkSound == WorkOK /\ Standing /\ Checked /\ Destined

LEMMA SoundParts == Sound <=> GitSound /\ WorkSound
BY DEF Sound, TypeOK, GitSound, WorkSound

LEMMA SoundNext ==
  ASSUME GitSound', WorkSound'
  PROVE  Sound'
BY DEF Sound, TypeOK, GitSound, WorkSound

\* A selection is a sequence of paths that is not empty.
LEMMA SelectionIsSequence ==
  ASSUME NEW ts \in Selections
  PROVE  ts \in Seq(Paths) /\ Len(ts) \in Nat \ {0}
<1>1. PICK n \in 1..MaxSelected : ts \in [1..n -> Paths]
  BY DEF Selections
<1>2. n \in Nat \ {0}
  BY <1>1, WorktreesAssumption DEF WorktreesAssumption
<1> QED
  BY <1>1, <1>2

LEMMA GitStays ==
  ASSUME GitSound, UNCHANGED <<git, nested>>
  PROVE  GitSound'
BY DEF GitSound, GitOK, NoneNested, git

LEMMA InitSound == Init => Sound
<1> SUFFICES ASSUME Init PROVE Sound
  OBVIOUS
<1>1. \A b \in Branches \cup {NoBranch} : NewTree(b) \in Trees
  BY DEF NewTree, Trees
<1>2. GitOK
  <2>1. tree \in [Paths -> Trees]
    BY <1>1, WorktreesAssumption DEF Init, WorktreesAssumption
  <2>2. tree[Viewed].branch = Held[Viewed] /\ Held[Viewed] \in Branches
    BY WorktreesAssumption DEF Init, WorktreesAssumption, NewTree
  <2> QED
    BY <2>1, <2>2, WorktreesAssumption DEF Init, GitOK, WorktreesAssumption
<1>3. WorkOK
  <2>1. NoRequest \in Requests
    BY WorktreesAssumption DEF NoRequest, ToRemove, Asked, Requests, WorktreesAssumption
  <2>2. NoSnapshot \in [branch : [Branches -> Commits \cup {NoCommit}],
               registered : SUBSET Paths, present : SUBSET Paths, tree : [Paths -> Trees]]
    BY <1>1, WorktreesAssumption DEF NoSnapshot, WorktreesAssumption
  <2> QED
    BY <2>1, <2>2 DEF Init, WorkOK, Stages
<1>4. Standing /\ Checked /\ Destined
  BY DEF Init, Standing, Checked, Destined, CreateStages, MoveStages
<1>5. NoneNested
  BY WorktreesAssumption DEF Init, NoneNested, WorktreesAssumption
<1> QED
  BY <1>2, <1>3, <1>4, <1>5 DEF Sound, TypeOK

-----------------------------------------------------------------------------
(* A request begins and ends.                                               *)

LEMMA BeginKeeps ==
  ASSUME Sound, NEW r \in Requests, NEW first \in {"default", "create", "move", "sparse"},
         first # "create" => Len(r.targets) \in Nat \ {0},
         first = "sparse" => r.kind \in SparseKinds,
         Begin(r, first)
  PROVE  Sound'
<1>1. GitSound'
  BY GitStays, SoundParts DEF Begin
<1>2. WorkOK'
  <2>1. snap' \in [branch : [Branches -> Commits \cup {NoCommit}],
               registered : SUBSET Paths, present : SUBSET Paths, tree : [Paths -> Trees]]
    BY DEF Begin, Snapshot, Sound, TypeOK, GitOK
  <2> QED
    <3>1. stage' \in Stages /\ request' \in Requests
      BY DEF Begin, Stages, CreateStages, MoveStages
    <3>2. next' \in Nat /\ pinned' \in Commits \cup {NoCommit} /\ disturbed' \in BOOLEAN
      BY DEF Begin
    <3>3. heads' \in [Paths -> Commits \cup {NoCommit}]
      BY DEF Begin
    <3>4. requests' \in Nat /\ userSteps' \in Nat
      BY DEF Begin, Sound, TypeOK, WorkOK
    <3> QED
      BY <2>1, <3>1, <3>2, <3>3, <3>4 DEF WorkOK
<1>3. Standing'
  BY DEF Begin, Standing, CreateStages
<1>4. Checked'
  BY DEF Begin, Checked
<1>5. Destined'
  BY DEF Begin, Destined, Snapshot, git
<1> QED
  BY <1>1, <1>2, <1>3, <1>4, <1>5 DEF Sound, TypeOK, GitSound

\* At rest nothing is promised of the request.
LEMMA EndsSound ==
  ASSUME Sound, stage' = "idle", Forget, disturbed' \in BOOLEAN, UNCHANGED bounds
  PROVE  WorkSound'
<1>1. NoRequest \in Requests
  BY WorktreesAssumption DEF NoRequest, ToRemove, Asked, Requests, WorktreesAssumption
<1>2. NoSnapshot \in [branch : [Branches -> Commits \cup {NoCommit}],
             registered : SUBSET Paths, present : SUBSET Paths, tree : [Paths -> Trees]]
  <2>1. NewTree(NoBranch) \in Trees
    BY DEF NewTree, Trees
  <2> QED
    BY <2>1, WorktreesAssumption DEF NoSnapshot, WorktreesAssumption
<1>3. WorkOK'
  BY <1>1, <1>2 DEF Forget, WorkOK, Stages, Sound, TypeOK, bounds
<1>4. Standing' /\ Checked' /\ Destined'
  BY DEF Standing, Checked, Destined, CreateStages, MoveStages
<1> QED
  BY <1>3, <1>4 DEF WorkSound

LEMMA ReturnSound ==
  ASSUME Sound, Return
  PROVE  WorkSound'
BY EndsSound DEF Return, Sound, TypeOK, WorkOK

LEMMA RefuseKeeps ==
  ASSUME Sound, Refuse
  PROVE  Sound'
<1>1. WorkSound'
  BY ReturnSound DEF Refuse
<1>2. GitSound'
  BY GitStays, SoundParts DEF Refuse
<1> QED
  BY <1>1, <1>2, SoundNext

LEMMA FailKeeps ==
  ASSUME Sound, Fail
  PROVE  Sound'
<1>1. WorkSound'
  BY EndsSound DEF Fail
<1>2. GitSound'
  BY GitStays, SoundParts DEF Fail
<1> QED
  BY <1>1, <1>2, SoundNext

-----------------------------------------------------------------------------
(* A step that only goes on.                                                *)

\* What a check must establish when it goes on to the next stage.
LEMMA GoOnKeeps ==
  ASSUME Sound, NEW s \in Stages, GoOn(s),
         next' \in Nat, pinned' \in Commits \cup {NoCommit},
         Standing', Checked', Destined'
  PROVE  Sound'
<1>1. GitSound'
  BY GitStays, SoundParts DEF GoOn
<1>2. WorkOK'
  BY DEF GoOn, WorkOK, Sound, TypeOK, bounds
<1> QED
  BY <1>1, <1>2, SoundNext DEF WorkSound

\* A target is a path.
LEMMA TargetIsPath ==
  ASSUME Sound, stage \notin {"idle"} \cup CreateStages
  PROVE  Target \in Paths
BY DEF Sound, TypeOK, WorkOK, Standing, Target, Requests

\* A step that stays at its target, outside removal, creation and move.
LEMMA SparseGoesOn ==
  ASSUME Sound, NEW s \in SparseKinds \cup {"list", "probe", "git set", "git add"},
         stage \in SparseKinds \cup {"sparse", "list", "probe"}, s = "list" => stage = "sparse",
         GoOn(s), UNCHANGED <<next, pinned>>
  PROVE  Sound'
<1>1. s \in Stages
  BY DEF Stages
<1>2. Standing'
  BY DEF Standing, GoOn, Sound, SparseKinds, CreateStages
<1>3. Checked' /\ Destined'
  BY DEF Checked, Destined, GoOn, SparseKinds, CreateStages, MoveStages
<1> QED
  BY <1>1, <1>2, <1>3, GoOnKeeps DEF Sound, TypeOK, WorkOK

-----------------------------------------------------------------------------
(* Removal.                                                                 *)

LEMMA RemoveBeginsKeeps ==
  ASSUME Sound, RemoveBegins
  PROVE  Sound'
<1>1. PICK ts \in Selections : Begin(ToRemove(ts), "default")
  BY DEF RemoveBegins
<1>2. ts \in Seq(Paths) /\ Len(ts) \in Nat \ {0}
  BY SelectionIsSequence
<1>3. ToRemove(ts) \in Requests /\ ToRemove(ts).targets = ts
  BY <1>2, WorktreesAssumption DEF ToRemove, Asked, Requests, WorktreesAssumption
<1> QED
  BY <1>1, <1>2, <1>3, BeginKeeps

LEMMA ReadDefaultKeeps ==
  ASSUME Sound, ReadDefault
  PROVE  Sound'
<1>1. "check" \in Stages
  BY DEF Stages
<1>2. pinned' \in Commits /\ next' \in Nat
  BY DEF ReadDefault, Sound, TypeOK, GitOK, WorkOK
<1>3. Standing'
  BY DEF ReadDefault, GoOn, Standing, Sound, CreateStages
<1>4. Checked'
  BY <1>2 DEF ReadDefault, GoOn, Checked, Standing, Sound
<1>5. Destined'
  BY DEF ReadDefault, GoOn, Destined, CreateStages, MoveStages
<1> QED
  BY <1>1, <1>2, <1>3, <1>4, <1>5, GoOnKeeps DEF ReadDefault

LEMMA CheckTargetKeeps ==
  ASSUME Sound, CheckTarget
  PROVE  Sound'
<1>1. CASE Removable(Target) /\ GoOn("head") /\ UNCHANGED <<next, pinned>>
  <2>1. "head" \in Stages
    BY DEF Stages
  <2>2. Standing'
    BY <1>1 DEF CheckTarget, GoOn, Standing, Sound, CreateStages
  <2>3. Checked'
    <3>1. \A p : CheckedTarget(p) => CheckedTarget(p)'
      BY <1>1 DEF GoOn, CheckedTarget
    <3>2. Removable(Target)'
      BY <1>1 DEF GoOn, Removable, Dirty, Unborn, Target
    <3> QED
      BY <1>1, <3>1, <3>2 DEF CheckTarget, GoOn, Checked, Sound
  <2>4. Destined'
    BY <1>1 DEF CheckTarget, GoOn, Destined, CreateStages, MoveStages
  <2> QED
    BY <1>1, <2>1, <2>2, <2>3, <2>4, GoOnKeeps DEF Sound, TypeOK, WorkOK
<1> QED
  BY <1>1, RefuseKeeps DEF CheckTarget

LEMMA CheckHeadKeeps ==
  ASSUME Sound, CheckHead
  PROVE  Sound'
<1> DEFINE b == snap.tree[Target].branch
<1>1. CASE /\ Exists(b) /\ branch[b] = snap.branch[b] /\ MergedNow(branch[b])
           /\ heads' = [heads EXCEPT ![Target] = branch[b]]
           /\ stage' = AfterCheck[1] /\ next' = AfterCheck[2]
           /\ UNCHANGED <<git, request, snap, pinned, disturbed, nested, bounds>>
  <2>1. Target \in Paths /\ next \in 1..Len(request.targets) /\ Len(request.targets) \in Nat
    BY TargetIsPath DEF CheckHead, CreateStages, Sound, TypeOK, WorkOK, Requests, Standing
  <2>2. \/ next < Len(request.targets) /\ stage' = "check" /\ next' = next + 1
        \/ next = Len(request.targets) /\ stage' = "tree" /\ next' = 1
    BY <1>1, <2>1 DEF AfterCheck
  <2>3. Target \notin {Main, Viewed} /\ b \in Branches \ {Default}
    BY <2>1 DEF CheckHead, Sound, TypeOK, WorkOK, Checked, Removable, Trees
  <2>4. GitSound'
    BY <1>1, GitStays, SoundParts
  <2>5. WorkOK'
    <3>1. branch[b] \in Commits
      BY <1>1, <2>3 DEF Exists, Sound, TypeOK, GitOK
    <3>2. heads' \in [Paths -> Commits \cup {NoCommit}]
      BY <1>1, <3>1 DEF Sound, TypeOK, WorkOK
    <3>3. stage' \in Stages
      BY <2>2 DEF Stages
    <3>4. next' \in Nat
      BY <2>1, <2>2
    <3> QED
      BY <1>1, <3>2, <3>3, <3>4 DEF Sound, TypeOK, WorkOK, bounds
  <2>6. Standing'
    BY <1>1, <2>1, <2>2 DEF Standing
  <2>7. Checked'
    <3>1. ASSUME NEW i \in 1..Len(request.targets), i <= next
          PROVE  CheckedTarget(request.targets[i])'
      <4>1. CASE request.targets[i] = Target
        BY <1>1, <2>1, <2>3, <4>1 DEF CheckedTarget, MergedNow, Sound, TypeOK, WorkOK
      <4>2. CASE request.targets[i] # Target
        <5>1. i < next
          BY <2>1, <3>1, <4>2 DEF Target
        <5>2. CheckedTarget(request.targets[i])
          BY <5>1 DEF CheckHead, Sound, Checked
        <5>3. heads'[request.targets[i]] = heads[request.targets[i]]
          BY <1>1, <4>2 DEF Sound, TypeOK, WorkOK, Requests
        <5> QED
          BY <1>1, <5>2, <5>3 DEF CheckedTarget
      <4> QED
        BY <4>1, <4>2
    <3>2. pinned' \in Commits
      BY <1>1 DEF CheckHead, Sound, Checked
    <3> QED
      BY <1>1, <2>1, <2>2, <3>1, <3>2 DEF Checked
  <2>8. Destined'
    BY <2>2 DEF Destined, CreateStages, MoveStages
  <2> QED
    BY <2>4, <2>5, <2>6, <2>7, <2>8, SoundNext DEF WorkSound
<1> QED
  BY <1>1, RefuseKeeps DEF CheckHead

\* git worktree remove, whoever runs it.
LEMMA GitRemovesSound ==
  ASSUME Sound, NEW p \in Paths \ {Main, Viewed}, GitRemoves(p)
  PROVE  GitSound'
<1>1. NewTree(NoBranch) \in Trees
  BY DEF NewTree, Trees
<1>2. GitOK'
  <2>1. tree' \in [Paths -> Trees]
    BY <1>1 DEF GitRemoves, Sound, TypeOK, GitOK
  <2>2. tree'[Viewed].branch \in Branches
    BY DEF GitRemoves, Sound, TypeOK, GitOK
  <2>3. registered' \in SUBSET Paths /\ {Main, Viewed} \subseteq registered'
    BY DEF GitRemoves, Sound, TypeOK, GitOK
  <2>4. present' \in SUBSET Paths
    BY DEF GitRemoves, Sound, TypeOK, GitOK
  <2> QED
    BY <2>1, <2>2, <2>3, <2>4 DEF GitRemoves, Sound, TypeOK, GitOK
<1>3. NoneNested'
  BY DEF GitRemoves, Sound, NoneNested
<1> QED
  BY <1>2, <1>3 DEF GitSound

LEMMA RemoveTreeKeeps ==
  ASSUME Sound, RemoveTree
  PROVE  Sound'
<1>1. CASE GitRemoves(Target) /\ stage' = "branch" /\ UNCHANGED <<work, disturbed, bounds>>
  <2>1. Target \in Paths \ {Main, Viewed}
    <3>1. Target \in Paths /\ next \in 1..Len(request.targets)
      BY TargetIsPath DEF RemoveTree, CreateStages, Sound, Standing
    <3> QED
      BY <3>1 DEF RemoveTree, Sound, Checked, CheckedTarget, Target
  <2>2. GitSound'
    BY <1>1, <2>1, GitRemovesSound
  <2>3. WorkOK' /\ Standing'
    BY <1>1 DEF RemoveTree, WorkOK, Standing, Sound, TypeOK, work, bounds, Stages, CreateStages
  <2>4. Checked'
    BY <1>1 DEF RemoveTree, Checked, CheckedTarget, Sound, work
  <2>5. Destined'
    BY <1>1 DEF Destined, CreateStages, MoveStages
  <2> QED
    BY <2>2, <2>3, <2>4, <2>5, SoundNext DEF WorkSound
<1> QED
  BY <1>1, RefuseKeeps DEF RemoveTree

\* Where the branch of a target is deleted, the target was checked.
LEMMA DeletedWasChecked ==
  ASSUME Sound, stage = "branch"
  PROVE  /\ Target \in Paths /\ pinned \in Commits
         /\ snap.tree[Target].branch \in Branches \ {Default}
         /\ heads[Target] \in Ancestors[pinned]
<1>1. Target \in Paths /\ next \in 1..Len(request.targets)
  BY TargetIsPath DEF CreateStages, Sound, Standing
<1>2. CheckedTarget(request.targets[next]) /\ pinned \in Commits
  BY <1>1 DEF Sound, Checked
<1> QED
  BY <1>1, <1>2 DEF CheckedTarget, Target

LEMMA DeleteBranchKeeps ==
  ASSUME Sound, DeleteBranch
  PROVE  Sound'
<1> DEFINE b == snap.tree[Target].branch
<1>1. CASE /\ branch' = [branch EXCEPT ![b] = NoCommit]
           /\ UNCHANGED <<registered, present, tree, nested>>
           /\ IF next < Len(request.targets)
              THEN /\ stage' = "tree" /\ next' = next + 1
                   /\ UNCHANGED <<request, snap, pinned, heads, disturbed, bounds>>
              ELSE Return
  <2>1. b \in Branches \ {Default}
    BY DeletedWasChecked DEF DeleteBranch
  <2>2. GitSound'
    <3>1. branch' \in [Branches -> Commits \cup {NoCommit}] /\ branch'[Default] \in Commits
      BY <1>1, <2>1, WorktreesAssumption DEF Sound, TypeOK, GitOK, WorktreesAssumption
    <3> QED
      BY <1>1, <3>1 DEF Sound, TypeOK, GitOK, GitSound, NoneNested
  <2>3. CASE next < Len(request.targets)
    <3>1. next \in 1..Len(request.targets) /\ Len(request.targets) \in Nat
      BY DEF DeleteBranch, CreateStages, Sound, TypeOK, WorkOK, Requests, Standing
    <3>2. WorkOK'
      <4>1. stage' \in Stages /\ next' \in Nat
        BY <1>1, <2>3, <3>1 DEF Stages
      <4> QED
        BY <1>1, <2>3, <4>1 DEF WorkOK, Sound, TypeOK, bounds
    <3>5. Standing'
      BY <1>1, <2>3, <3>1 DEF Standing
    <3>3. Checked'
      BY <1>1, <2>3 DEF DeleteBranch, Checked, CheckedTarget, Sound
    <3>4. Destined'
      BY <1>1, <2>3 DEF Destined, CreateStages, MoveStages
    <3> QED
      BY <2>2, <3>2, <3>3, <3>4, <3>5, SoundNext DEF WorkSound
  <2>4. CASE ~(next < Len(request.targets))
    BY <1>1, <2>2, <2>4, ReturnSound, SoundNext
  <2> QED
    BY <2>3, <2>4
<1> QED
  BY <1>1, RefuseKeeps DEF DeleteBranch

-----------------------------------------------------------------------------
(* Creation and move.                                                       *)

LEMMA CreateBeginsKeeps ==
  ASSUME Sound, CreateBegins
  PROVE  Sound'
<1>1. PICK d \in Paths, b \in Branches \cup {NoBranch}, r \in Branches \cup {NoBranch},
           detach \in BOOLEAN : Begin(ToCreate(d, b, r, detach), "create")
  BY DEF CreateBegins
<1>2. ToCreate(d, b, r, detach) \in Requests
  BY DEF ToCreate, Asked, Requests
<1> QED
  BY <1>1, <1>2, BeginKeeps

LEMMA CheckCreateKeeps ==
  ASSUME Sound, CheckCreate
  PROVE  Sound'
<1>1. CASE /\ CreateIsLegal
           /\ pinned' = (IF request.rev = NoBranch THEN NoCommit ELSE branch[request.rev])
           /\ next' = next /\ GoOn("verify")
  <2>1. pinned' \in Commits \cup {NoCommit} /\ next' \in Nat
    BY <1>1 DEF Sound, TypeOK, GitOK, WorkOK, Requests
  <2>2. Standing' /\ Checked' /\ "verify" \in Stages
    BY <1>1 DEF GoOn, Standing, Checked, CreateStages, Stages
  <2>3. Destined'
    BY <1>1 DEF CheckCreate, CreateIsLegal, Free, Apart, GoOn, Destined, CreateStages,
          MoveStages, Sound, git
  <2> QED
    BY <1>1, <2>1, <2>2, <2>3, GoOnKeeps
<1> QED
  BY <1>1, RefuseKeeps DEF CheckCreate

LEMMA VerifyCreateKeeps ==
  ASSUME Sound, VerifyCreate
  PROVE  Sound'
<1>1. CASE Free(request.dest) /\ GoOn("add") /\ UNCHANGED <<next, pinned>>
  <2>1. Standing' /\ Checked' /\ "add" \in Stages
    BY <1>1 DEF GoOn, Standing, Checked, CreateStages, Stages
  <2>2. Destined'
    BY <1>1 DEF VerifyCreate, Free, Apart, GoOn, Destined, CreateStages, MoveStages, Sound, git
  <2> QED
    BY <1>1, <2>1, <2>2, GoOnKeeps DEF Sound, TypeOK, WorkOK
<1> QED
  BY <1>1, RefuseKeeps DEF VerifyCreate

\* The worktree that GitGit puts at its destination lies apart from all others, unless the
\* request was disturbed.
LEMMA PlacedApart ==
  ASSUME Sound, stage \in {"add", "git move"}, NEW t, Place(request.dest, t, disturbed),
         NEW rest \in SUBSET registered, registered' = rest \cup {request.dest}
  PROVE  NoneNested'
<1>1. CASE disturbed
  BY <1>1, WorktreesAssumption DEF Place, NoneNested, Sound, Related, WorktreesAssumption, TypeOK,
        GitOK, WorkOK, Requests
<1>2. CASE ~disturbed
  <2>1. Apart(request.dest) /\ registered = snap.registered
    BY <1>2 DEF Sound, Destined, CreateStages, MoveStages
  <2> QED
    BY <2>1, WorktreesAssumption DEF Place, NoneNested, Sound, Apart, Related, WorktreesAssumption,
          TypeOK, WorkOK, Requests
<1> QED
  BY <1>1, <1>2

LEMMA AddTreeKeeps ==
  ASSUME Sound, AddTree
  PROVE  Sound'
<1> DEFINE b == request.name
           d == request.dest
<1>1. CASE /\ StartPoint \in Commits
           /\ branch' = (IF b = NoBranch THEN branch ELSE [branch EXCEPT ![b] = StartPoint])
           /\ IF d \notin registered \cup present /\ ~CheckedOut(HeadOfNew)
              THEN /\ Place(d, NewTree(HeadOfNew), disturbed)
                   /\ registered' = registered \cup {d} /\ present' = present \cup {d}
              ELSE UNCHANGED <<registered, present, tree, nested>>
           /\ Return
  <2>1. branch' \in [Branches -> Commits \cup {NoCommit}] /\ branch'[Default] \in Commits
    BY <1>1, WorktreesAssumption DEF Sound, TypeOK, GitOK, WorktreesAssumption
  <2>2. CASE d \notin registered \cup present /\ ~CheckedOut(HeadOfNew)
    <3>1. HeadOfNew \in Branches \cup {NoBranch} /\ d \in Paths
      BY DEF HeadOfNew, Sound, TypeOK, WorkOK, Requests
    <3>2. NewTree(HeadOfNew) \in Trees
      BY <3>1 DEF NewTree, Trees
    <3>3. tree' \in [Paths -> Trees] /\ tree'[Viewed] = tree[Viewed] /\ nested' \in BOOLEAN
      BY <1>1, <2>2, <3>1, <3>2 DEF Place, Sound, TypeOK, GitOK
    <3>4. GitOK'
      BY <1>1, <2>1, <2>2, <3>1, <3>3 DEF Sound, TypeOK, GitOK
    <3>5. NoneNested'
      BY <1>1, <2>2, PlacedApart DEF AddTree
    <3> QED
      BY <1>1, <3>4, <3>5, ReturnSound, SoundNext DEF GitSound
  <2>3. CASE ~(d \notin registered \cup present /\ ~CheckedOut(HeadOfNew))
    <3>1. GitSound'
      BY <1>1, <2>1, <2>3 DEF Sound, TypeOK, GitOK, GitSound, NoneNested
    <3> QED
      BY <1>1, <3>1, ReturnSound, SoundNext
  <2> QED
    BY <2>2, <2>3
<1> QED
  BY <1>1, RefuseKeeps DEF AddTree

LEMMA MoveBeginsKeeps ==
  ASSUME Sound, MoveBegins
  PROVE  Sound'
<1>1. PICK p \in Paths, d \in Paths : Begin(ToMove(p, d), "move")
  BY DEF MoveBegins
<1>2. ToMove(p, d) \in Requests /\ Len(ToMove(p, d).targets) \in Nat \ {0}
  BY DEF ToMove, Asked, Requests
<1> QED
  BY <1>1, <1>2, BeginKeeps

LEMMA CheckMoveKeeps ==
  ASSUME Sound, CheckMove
  PROVE  Sound'
<1>1. CASE /\ Target \notin {Main, Viewed} /\ Free(request.dest)
           /\ GoOn("status") /\ UNCHANGED <<next, pinned>>
  <2>1. Standing' /\ Checked' /\ "status" \in Stages
    BY <1>1 DEF CheckMove, GoOn, Standing, Checked, CreateStages, MoveStages, Stages, Sound
  <2>2. Destined'
    BY <1>1 DEF CheckMove, Free, Apart, GoOn, Destined, CreateStages, MoveStages, Sound, git, Target
  <2> QED
    BY <1>1, <2>1, <2>2, GoOnKeeps DEF Sound, TypeOK, WorkOK
<1> QED
  BY <1>1, RefuseKeeps DEF CheckMove

LEMMA VerifyMoveKeeps ==
  ASSUME Sound, VerifyMove
  PROVE  Sound'
<1>1. CASE GoOn("git move") /\ UNCHANGED <<next, pinned>>
  <2>1. Standing' /\ Checked' /\ "git move" \in Stages
    BY <1>1 DEF VerifyMove, GoOn, Standing, Checked, CreateStages, MoveStages, Stages, Sound
  <2>2. Destined'
    BY <1>1 DEF VerifyMove, Apart, GoOn, Destined, CreateStages, MoveStages, Sound, git, Target
  <2> QED
    BY <1>1, <2>1, <2>2, GoOnKeeps DEF Sound, TypeOK, WorkOK
<1> QED
  BY <1>1, RefuseKeeps DEF VerifyMove

LEMMA MoveTreeKeeps ==
  ASSUME Sound, MoveTree
  PROVE  Sound'
<1> DEFINE d == request.dest
<1>1. CASE /\ d \notin registered \cup present
           /\ Place(d, tree[Target], disturbed)
           /\ registered' = (registered \ {Target}) \cup {d}
           /\ present' = (present \ ({Target} \cup Below(Target))) \cup {d}
           /\ branch' = branch
           /\ Return
  <2>1. Target \in Paths \ {Main, Viewed} /\ d \in Paths
    BY TargetIsPath DEF MoveTree, CreateStages, Sound, Destined, TypeOK, WorkOK, Requests
  <2>2. tree' \in [Paths -> Trees] /\ tree'[Viewed] = tree[Viewed] /\ nested' \in BOOLEAN
    BY <1>1, <2>1 DEF Place, Sound, TypeOK, GitOK
  <2>3. GitOK'
    BY <1>1, <2>1, <2>2 DEF Sound, TypeOK, GitOK
  <2>4. NoneNested'
    BY <1>1, PlacedApart DEF MoveTree
  <2> QED
    BY <1>1, <2>3, <2>4, ReturnSound, SoundNext DEF GitSound
<1> QED
  BY <1>1, RefuseKeeps DEF MoveTree

-----------------------------------------------------------------------------
(* Sparse-checkout.                                                         *)

LEMMA SparseBeginsKeeps ==
  ASSUME Sound, SparseBegins
  PROVE  Sound'
<1>1. PICK p \in Paths, kind \in SparseKinds, ds \in SUBSET Dirs :
        Begin(ToSparse(kind, p, ds), "sparse")
  BY DEF SparseBegins
<1>2. /\ ToSparse(kind, p, ds) \in Requests
      /\ ToSparse(kind, p, ds).kind \in SparseKinds
      /\ Len(ToSparse(kind, p, ds).targets) \in Nat \ {0}
  BY WorktreesAssumption DEF ToSparse, Asked, Requests, WorktreesAssumption
<1> QED
  BY <1>1, <1>2, BeginKeeps

LEMMA CheckSparseKeeps ==
  ASSUME Sound, CheckSparse
  PROVE  Sound'
BY SparseGoesOn, RefuseKeeps DEF CheckSparse

LEMMA ListSparseKeeps ==
  ASSUME Sound, ListSparse
  PROVE  Sound'
<1>1. CASE Refuse
  BY <1>1, RefuseKeeps
<1>2. CASE request.kind \in SparseKinds /\ GoOn(request.kind) /\ UNCHANGED <<next, pinned>>
  BY <1>2, SparseGoesOn DEF ListSparse, SparseKinds
<1>3. stage = "list" => request.kind \in SparseKinds
  BY DEF Sound, Standing
<1> QED
  BY <1>1, <1>2, <1>3 DEF ListSparse

LEMMA ExpandReadsKeeps ==
  ASSUME Sound, ExpandReads
  PROVE  Sound'
BY SparseGoesOn, RefuseKeeps DEF ExpandReads, SparseKinds

LEMMA SetReadsKeeps ==
  ASSUME Sound, SetReads
  PROVE  Sound'
BY SparseGoesOn, RefuseKeeps DEF SetReads, SparseKinds

LEMMA ProbeKeeps ==
  ASSUME Sound, Probe
  PROVE  Sound'
BY SparseGoesOn, RefuseKeeps DEF Probe, SparseKinds

LEMMA ContractReadsKeeps ==
  ASSUME Sound, ContractReads
  PROVE  Sound'
<1>1. CASE /\ request' = [request EXCEPT !.dirs = tree[Target].dirs \ @]
           /\ stage' = "set"
           /\ UNCHANGED <<git, snap, next, pinned, heads, disturbed, nested, bounds>>
  <2>1. GitSound'
    BY <1>1, GitStays, SoundParts
  <2>2. request' \in Requests /\ request'.targets = request.targets
    <3>1. Target \in Paths
      BY TargetIsPath DEF ContractReads, CreateStages
    <3>2. tree[Target].dirs \ request.dirs \in SUBSET Dirs
      BY <3>1 DEF Sound, TypeOK, GitOK, Trees
    <3> QED
      BY <1>1, <3>2 DEF Sound, TypeOK, WorkOK, Requests
  <2>3. WorkOK' /\ stage' \in Stages
    BY <1>1, <2>2 DEF Sound, TypeOK, WorkOK, Stages, SparseKinds, bounds
  <2>4. Standing' /\ Checked' /\ Destined'
    BY <1>1, <2>2 DEF ContractReads, Sound, Standing, Checked, Destined, CreateStages,
          MoveStages
  <2> QED
    BY <2>1, <2>3, <2>4, SoundNext DEF WorkSound
<1> QED
  BY <1>1, RefuseKeeps DEF ContractReads

LEMMA WriteSparseKeeps ==
  ASSUME Sound, WriteSparse
  PROVE  Sound'
<1>1. CASE Refuse
  BY <1>1, RefuseKeeps
<1>2. ASSUME NEW on \in {"off", "cone", "other"}, NEW ds \in SUBSET Dirs, GitWrites(on, ds)
      PROVE  Sound'
  <2>1. GitOK'
    <3>1. Target \in Paths
      BY TargetIsPath DEF WriteSparse, CreateStages
    <3> DEFINE t == [tree[Target] EXCEPT !.sparse = on, !.dirs = ds]
    <3>2. tree \in [Paths -> Trees] /\ tree[Target] \in Trees
      BY <3>1 DEF Sound, TypeOK, GitOK
    <3>3. t \in Trees /\ t.branch = tree[Target].branch
      BY <1>2, <3>2 DEF Trees
    <3>4. tree' = [tree EXCEPT ![Target] = t]
      BY <1>2 DEF GitWrites
    <3> HIDE DEF t
    <3>5. tree' \in [Paths -> Trees] /\ \A p \in Paths : tree'[p].branch = tree[p].branch
      BY <3>1, <3>2, <3>3, <3>4
    <3> QED
      BY <1>2, <3>5, WorktreesAssumption DEF GitWrites, Sound, TypeOK, GitOK, WorktreesAssumption
  <2>2. NoneNested'
    BY <1>2 DEF GitWrites, Sound, NoneNested
  <2> QED
    BY <1>2, <2>1, <2>2, ReturnSound, SoundNext DEF GitWrites, GitSound
<1>3. Target \in Paths \/ Refuse
  BY TargetIsPath DEF WriteSparse, CreateStages
<1>4. request.dirs \in SUBSET Dirs
  BY DEF Sound, TypeOK, WorkOK, Requests
<1>5. Target \in Paths => /\ tree[Target].dirs \in SUBSET Dirs
                         /\ tree[Target].sparse \in {"off", "cone", "other"}
  BY DEF Sound, TypeOK, GitOK, Trees
<1> QED
  BY <1>1, <1>2, <1>3, <1>4, <1>5 DEF WriteSparse

-----------------------------------------------------------------------------
(* The user.                                                                *)

\* What the user does leaves the request alone.
LEMMA UserLeavesWork ==
  ASSUME Sound, UserActs
  PROVE  WorkSound'
<1>1. WorkOK' /\ Standing'
  BY DEF UserActs, WorkOK, Standing, Sound, TypeOK, work
<1>2. Checked'
  <2>1. \A p : CheckedTarget(p) <=> CheckedTarget(p)'
    BY DEF UserActs, CheckedTarget, work
  <2>2. Removable(Target) <=> Removable(Target)'
    BY DEF UserActs, Removable, Dirty, Unborn, Target, work
  <2> QED
    BY <2>1, <2>2 DEF UserActs, Checked, Sound, work
<1>3. Destined'
  BY DEF UserActs, Destined, Apart, Target, Sound, work
<1> QED
  BY <1>1, <1>2, <1>3 DEF WorkSound

LEMMA MovesBranchSound ==
  ASSUME Sound, MovesBranch \/ DeletesBranch
  PROVE  GitSound'
<1>1. PICK b \in Branches, c \in Commits \cup {NoCommit} :
        branch' = [branch EXCEPT ![b] = c] /\ (b = Default => c \in Commits)
  BY DEF MovesBranch, DeletesBranch
<1>2. branch' \in [Branches -> Commits \cup {NoCommit}] /\ branch'[Default] \in Commits
  BY <1>1, WorktreesAssumption DEF Sound, TypeOK, GitOK, WorktreesAssumption
<1>3. UNCHANGED <<registered, present, tree, nested>>
  BY DEF MovesBranch, DeletesBranch
<1> QED
  BY <1>2, <1>3 DEF Sound, TypeOK, GitOK, GitSound, NoneNested

LEMMA ChangesTreeSound ==
  ASSUME Sound, ChangesTree
  PROVE  GitSound'
<1>1. PICK p \in registered \cap present :
        \/ \E d \in Dirs : tree' = [tree EXCEPT ![p].changed = (@ \ {d}) \cup ({d} \ @)]
        \/ tree' = [tree EXCEPT ![p].locked = ~@]
        \/ \E ds \in SUBSET Dirs : tree' = [tree EXCEPT ![p].sparse = "cone", ![p].dirs = ds]
        \/ \E on \in {"off", "other"} : tree' = [tree EXCEPT ![p].sparse = on, ![p].dirs = {}]
        \/ \E b \in Branches : tree' = [tree EXCEPT ![p].branch = b]
  BY DEF ChangesTree
<1>2. p \in Paths /\ tree \in [Paths -> Trees] /\ Viewed \in Paths
  BY WorktreesAssumption DEF Sound, TypeOK, GitOK, WorktreesAssumption
<1>3. tree' \in [Paths -> Trees] /\ tree'[Viewed].branch \in Branches
  <2>1. CASE \E d \in Dirs : tree' = [tree EXCEPT ![p].changed = (@ \ {d}) \cup ({d} \ @)]
    BY <1>2, <2>1 DEF Trees, Sound, TypeOK, GitOK
  <2>2. CASE tree' = [tree EXCEPT ![p].locked = ~@]
    BY <1>2, <2>2 DEF Trees, Sound, TypeOK, GitOK
  <2>3. ASSUME NEW on \in {"off", "cone", "other"}, NEW ds \in SUBSET Dirs,
               tree' = [tree EXCEPT ![p].sparse = on, ![p].dirs = ds]
        PROVE  tree' \in [Paths -> Trees] /\ tree'[Viewed].branch = tree[Viewed].branch
    <3>1. tree[p] \in Trees
      BY <1>2
    <3>2. [[tree[p] EXCEPT !.sparse = on] EXCEPT !.dirs = ds] \in Trees
      BY <3>1 DEF Trees
    <3>3. tree' = [tree EXCEPT ![p] = [[tree[p] EXCEPT !.sparse = on] EXCEPT !.dirs = ds]]
      BY <1>2, <2>3
    <3> QED
      BY <1>2, <3>1, <3>2, <3>3 DEF Trees
  <2>4. {} \in SUBSET Dirs /\ tree[Viewed].branch \in Branches
    BY DEF Sound, TypeOK, GitOK
  <2>5. CASE \E b \in Branches : tree' = [tree EXCEPT ![p].branch = b]
    BY <1>2, <2>5 DEF Trees, Sound, TypeOK, GitOK
  <2> QED
    BY <1>1, <2>1, <2>2, <2>3, <2>4, <2>5
<1> QED
  BY <1>3 DEF ChangesTree, Sound, TypeOK, GitOK, GitSound, NoneNested

LEMMA ChangesPathsSound ==
  ASSUME Sound, ChangesPaths
  PROVE  GitSound'
<1>1. ASSUME NEW d \in Paths \ (registered \cup present), NEW b \in Branches,
             Place(d, NewTree(b), TRUE),
             registered' = registered \cup {d}, present' = present \cup {d}, branch' = branch
      PROVE  GitSound'
  <2>1. NewTree(b) \in Trees
    BY DEF NewTree, Trees
  <2>2. GitOK'
    BY <1>1, <2>1 DEF Place, Sound, TypeOK, GitOK
  <2>3. NoneNested'
    BY <1>1, WorktreesAssumption DEF Place, Related, Sound, NoneNested, WorktreesAssumption
  <2> QED
    BY <2>2, <2>3 DEF GitSound
<1>2. ASSUME NEW p \in registered \ {Viewed}, CanRemove(p), GitRemoves(p)
      PROVE  GitSound'
  BY <1>2, GitRemovesSound DEF CanRemove, Sound, TypeOK, GitOK
<1>3. ASSUME present' \in SUBSET Paths, UNCHANGED <<branch, registered, tree, nested>>
      PROVE  GitSound'
  BY <1>3 DEF Sound, TypeOK, GitOK, GitSound, NoneNested
<1>4. present \in SUBSET Paths
  BY DEF Sound, TypeOK, GitOK
<1> QED
  BY <1>1, <1>2, <1>3, <1>4 DEF ChangesPaths

LEMMA UserKeeps ==
  ASSUME Sound, User
  PROVE  Sound'
BY UserLeavesWork, MovesBranchSound, ChangesTreeSound, ChangesPathsSound, SoundNext DEF User

-----------------------------------------------------------------------------
(* What an undisturbed request relies on.                                   *)

\* A request that has ended relies on nothing.
LEMMA RestOnCourse ==
  ASSUME stage' = "idle", OneEach(tree', registered')
  PROVE  OnCourse'
BY DEF OnCourse, KindAtStage, BranchesApart, RemovalOnCourse, SparseOnCourse, RemoveStages,
       CreateStages, MoveStages, SparseStages, SparseKinds

LEMMA RefuseOnCourse ==
  ASSUME OnCourse, Refuse
  PROVE  OnCourse'
BY RestOnCourse DEF OnCourse, BranchesApart, Refuse, Return, git, OneEach

\* A selection has no duplicates.
LEMMA SelectionIsInjective ==
  ASSUME NEW ts \in Selections
  PROVE  IsInjective(ts)
BY DEF Selections

LEMMA BeginOnCourse ==
  ASSUME OnCourse, NEW r, NEW first,
         \/ first = "default" /\ r.kind = "remove" /\ IsInjective(r.targets)
         \/ first = "create" /\ r.kind = "create"
         \/ first = "move" /\ r.kind = "move"
         \/ first = "sparse" /\ r.kind \in SparseKinds,
         Begin(r, first)
  PROVE  OnCourse'
<1>1. /\ stage' = first /\ request' = r /\ snap' = Snapshot /\ next' = 1
      /\ UNCHANGED <<branch, registered, present, tree>>
  BY DEF Begin, git
<1>2. AsInSnapshot'
  BY <1>1 DEF AsInSnapshot, Snapshot
<1>3. KindAtStage'
  BY <1>1 DEF KindAtStage, RemoveStages, CreateStages, MoveStages, SparseStages, SparseKinds
<1>4. BranchesApart'
  <2>1. OneEach(tree', registered') /\ OneEach(snap'.tree, snap'.registered)
    BY <1>1 DEF Snapshot, OnCourse, BranchesApart
  <2>2. stage' \in RemoveStages => IsInjective(request'.targets)
    BY <1>1 DEF RemoveStages, SparseKinds
  <2> QED
    BY <2>1, <2>2 DEF BranchesApart
<1>5. RemovalOnCourse'
  BY <1>1, <1>2 DEF RemovalOnCourse, SparseKinds
<1>6. SparseOnCourse'
  BY <1>1, <1>2 DEF SparseOnCourse, SparseStages, SparseKinds
<1> QED
  BY <1>3, <1>4, <1>5, <1>6 DEF OnCourse

\* What the user does disturbs the request, which keeps its kind.
LEMMA UserOnCourse ==
  ASSUME OnCourse, UserActs, OneEach(tree', registered')
  PROVE  OnCourse'
<1>1. disturbed' = TRUE /\ UNCHANGED <<stage, request, snap>>
  BY DEF UserActs, work
<1> QED
  BY <1>1 DEF OnCourse, KindAtStage, BranchesApart, RemovalOnCourse, SparseOnCourse

\* A step of a creation or a move that only goes on.
LEMMA PlaceGoesOn ==
  ASSUME OnCourse, NEW s, GoOn(s),
         \/ stage \in CreateStages /\ s \in {"verify", "add"}
         \/ stage \in MoveStages /\ s \in {"status", "git move"}
  PROVE  OnCourse'
<1>1. stage' = s /\ UNCHANGED <<request, tree, registered>>
  BY DEF GoOn, git
<1>2. KindAtStage'
  BY <1>1 DEF OnCourse, KindAtStage, CreateStages, MoveStages, RemoveStages, SparseStages, SparseKinds
<1>3. BranchesApart'
  BY <1>1 DEF OnCourse, BranchesApart, RemoveStages
<1>4. RemovalOnCourse' /\ SparseOnCourse'
  BY <1>1 DEF RemovalOnCourse, SparseOnCourse, SparseStages, SparseKinds
<1> QED
  BY <1>2, <1>3, <1>4 DEF OnCourse

\* Every worktree has its branch to itself, whatever Git is asked to do.
LEMMA RemovedApart ==
  ASSUME IInv, NEW p \in Paths, GitRemoves(p)
  PROVE  OneEach(tree', registered')
<1>1. \A q \in registered' : q \in registered /\ q # p
  BY DEF GitRemoves
<1>2. \A q \in registered' : tree'[q] = tree[q]
  BY <1>1 DEF GitRemoves, IInv, Sound, TypeOK, GitOK
<1> QED
  BY <1>1, <1>2 DEF OneEach, IInv, OnCourse, BranchesApart

LEMMA PlacedApartBranches ==
  ASSUME IInv, NEW d \in Paths \ registered, NEW b \in Branches \cup {NoBranch},
         tree' = [tree EXCEPT ![d] = NewTree(b)], registered' = registered \cup {d},
         ~CheckedOut(b)
  PROVE  OneEach(tree', registered')
<1>1. /\ tree'[d].branch = b
      /\ \A q \in registered : tree'[q] = tree[q]
  BY DEF NewTree, IInv, Sound, TypeOK, GitOK
<1>2. b # NoBranch => \A q \in registered : tree[q].branch # b
  BY DEF CheckedOut, HeldIn
<1>3. OneEach(tree, registered)
  BY DEF IInv, OnCourse, BranchesApart
<1> QED
  BY <1>1, <1>2, <1>3 DEF OneEach

LEMMA MovedApart ==
  ASSUME IInv, NEW d \in Paths \ registered, NEW p \in registered,
         tree' = [tree EXCEPT ![d] = tree[p]], registered' = (registered \ {p}) \cup {d}
  PROVE  OneEach(tree', registered')
<1>1. /\ tree'[d] = tree[p]
      /\ \A q \in registered : tree'[q] = tree[q]
  BY DEF IInv, Sound, TypeOK, GitOK
<1>2. OneEach(tree, registered)
  BY DEF IInv, OnCourse, BranchesApart
<1> QED
  BY <1>1, <1>2 DEF OneEach

\* Changing the rest of one worktree leaves every branch where it is.
LEMMA BranchesStay ==
  ASSUME IInv, registered' = registered,
         \A p \in Paths : tree'[p].branch = tree[p].branch
  PROVE  OneEach(tree', registered')
BY DEF OneEach, IInv, Sound, TypeOK, GitOK, OnCourse, BranchesApart

-----------------------------------------------------------------------------
(* An undisturbed removal.                                                  *)

\* Where a removal stands, and what it selects.
LEMMA RemovalStands ==
  ASSUME IInv, stage \in RemoveStages
  PROVE  /\ next \in 1..Len(request.targets) /\ Len(request.targets) \in Nat /\ next \in Nat
         /\ \A i \in 1..Len(request.targets) : request.targets[i] \in Paths
         /\ \A i, j \in 1..Len(request.targets) :
              request.targets[i] = request.targets[j] => i = j
         /\ OneEach(snap.tree, snap.registered)
         /\ Target = request.targets[next]
         /\ request.kind = "remove"
<1>1. request.targets \in Seq(Paths) /\ next \in 1..Len(request.targets)
  BY DEF IInv, Sound, TypeOK, WorkOK, Requests, Standing, RemoveStages, CreateStages
<1>2. IsInjective(request.targets) /\ OneEach(snap.tree, snap.registered) /\ request.kind = "remove"
  BY DEF IInv, OnCourse, BranchesApart, KindAtStage
<1>3. \A i, j \in 1..Len(request.targets) : request.targets[i] = request.targets[j] => i = j
  BY <1>1, <1>2 DEF IsInjective
<1> QED
  BY <1>1, <1>2, <1>3 DEF Target

LEMMA ReadDefaultOnCourse ==
  ASSUME IInv, ReadDefault
  PROVE  OnCourse'
<1>1. /\ stage = "default" /\ stage' = "check" /\ next' = next /\ pinned' = branch[Default]
      /\ UNCHANGED <<branch, registered, present, tree, request, snap, heads, disturbed>>
  BY DEF ReadDefault, GoOn, git
<1>2. next = 1
  BY <1>1 DEF IInv, Sound, Standing
<1>3. KindAtStage' /\ BranchesApart' /\ SparseOnCourse'
  BY <1>1 DEF IInv, OnCourse, KindAtStage, BranchesApart, SparseOnCourse, RemoveStages,
       CreateStages, MoveStages, SparseStages, SparseKinds
<1>4. ~disturbed => AsInSnapshot
  BY <1>1 DEF IInv, OnCourse, RemovalOnCourse
<1>5. RemovalOnCourse'
  <2>1. ~disturbed => pinned' = snap'.branch[Default] /\ AsInSnapshot'
    BY <1>1, <1>4 DEF AsInSnapshot
  <2>2. \A i \in 1..Len(request'.targets) : ~(i < next')
    BY <1>1, <1>2
  <2> QED
    BY <1>1, <2>1, <2>2 DEF RemovalOnCourse
<1> QED
  BY <1>3, <1>5 DEF OnCourse

LEMMA CheckTargetOnCourse ==
  ASSUME IInv, CheckTarget
  PROVE  OnCourse'
<1>1. CASE /\ stage = "check" /\ CleanNow(Target)
           /\ GoOn("head") /\ UNCHANGED <<next, pinned>>
  <2>1. /\ stage' = "head"
        /\ UNCHANGED <<branch, registered, present, tree, request, snap, heads, disturbed,
                       next, pinned>>
    BY <1>1 DEF GoOn, git
  <2>2. KindAtStage' /\ BranchesApart' /\ SparseOnCourse'
    BY <1>1, <2>1 DEF IInv, OnCourse, KindAtStage, BranchesApart, SparseOnCourse, RemoveStages,
         CreateStages, MoveStages, SparseStages, SparseKinds
  <2>3. RemovalOnCourse'
    <3>1. SUFFICES ASSUME ~disturbed PROVE RemovalOnCourse'
      BY <2>1 DEF RemovalOnCourse
    <3>2. /\ AsInSnapshot /\ pinned = snap.branch[Default]
          /\ \A i \in 1..Len(request.targets) : i < next => Cleared(request.targets[i])
      BY <1>1, <3>1 DEF IInv, OnCourse, RemovalOnCourse
    <3>3. ~Dirty(snap.tree[Target], snap.branch)
      BY <1>1, <3>2 DEF CleanNow, AsInSnapshot
    <3>4. AsInSnapshot' /\ pinned' = snap'.branch[Default]
      BY <2>1, <3>2 DEF AsInSnapshot
    <3>5. ~Dirty(snap.tree[Target], snap.branch)'
      BY <2>1, <3>3 DEF Dirty, Unborn, Target
    <3>6. \A p : Cleared(p) => Cleared(p)'
      BY <2>1 DEF Cleared, Removable, Dirty, Unborn
    <3> QED
      BY <2>1, <3>2, <3>4, <3>5, <3>6 DEF RemovalOnCourse
  <2> QED
    BY <2>2, <2>3 DEF OnCourse
<1> QED
  BY <1>1, RefuseOnCourse DEF CheckTarget, IInv

LEMMA CheckHeadOnCourse ==
  ASSUME IInv, CheckHead
  PROVE  OnCourse'
<1> DEFINE b == snap.tree[Target].branch
<1>1. CASE /\ stage = "head" /\ Exists(b) /\ branch[b] = snap.branch[b]
           /\ heads' = [heads EXCEPT ![Target] = branch[b]]
           /\ stage' = AfterCheck[1] /\ next' = AfterCheck[2]
           /\ UNCHANGED <<git, request, snap, pinned, disturbed, nested, bounds>>
  <2>1. /\ next \in 1..Len(request.targets) /\ Len(request.targets) \in Nat /\ next \in Nat
        /\ \A i \in 1..Len(request.targets) : request.targets[i] \in Paths
        /\ Target = request.targets[next] /\ Target \in Paths
    BY <1>1, RemovalStands DEF RemoveStages
  <2>2. \/ next < Len(request.targets) /\ stage' = "check" /\ next' = next + 1
        \/ next = Len(request.targets) /\ stage' = "tree" /\ next' = 1
    BY <1>1, <2>1 DEF AfterCheck
  <2>3. UNCHANGED <<branch, registered, present, tree, request, snap, disturbed, pinned>>
    BY <1>1 DEF git
  <2>4. KindAtStage' /\ BranchesApart' /\ SparseOnCourse'
    BY <1>1, <2>2, <2>3 DEF IInv, OnCourse, KindAtStage, BranchesApart, SparseOnCourse, RemoveStages,
         CreateStages, MoveStages, SparseStages, SparseKinds
  <2>5. RemovalOnCourse'
    <3>1. SUFFICES ASSUME ~disturbed PROVE RemovalOnCourse'
      BY <2>3 DEF RemovalOnCourse
    <3>2. /\ AsInSnapshot /\ pinned = snap.branch[Default]
          /\ ~Dirty(snap.tree[Target], snap.branch)
          /\ \A i \in 1..Len(request.targets) : i < next => Cleared(request.targets[i])
      BY <1>1, <3>1 DEF IInv, OnCourse, RemovalOnCourse
    <3>3. AsInSnapshot' /\ pinned' = snap'.branch[Default]
      BY <2>3, <3>2 DEF AsInSnapshot
    <3>4. Removable(Target)
      BY <1>1 DEF IInv, Sound, Checked
    <3>5. ASSUME NEW i \in 1..Len(request.targets), i < next \/ i = next
          PROVE  Cleared(request.targets[i])'
      <4>1. CASE request.targets[i] = Target
        <5>1. heads'[Target] = snap'.branch[b] /\ heads'[Target] # NoCommit
          BY <1>1, <2>1, <2>3 DEF Exists, IInv, Sound, TypeOK, WorkOK
        <5>2. Removable(request.targets[i])' /\ ~Dirty(snap.tree[request.targets[i]], snap.branch)'
          BY <2>3, <3>2, <3>4, <4>1 DEF Removable, Dirty, Unborn
        <5> QED
          BY <2>3, <4>1, <5>1, <5>2 DEF Cleared
      <4>2. CASE request.targets[i] # Target
        <5>1. Cleared(request.targets[i])
          BY <2>1, <3>2, <3>5, <4>2
        <5>2. heads'[request.targets[i]] = heads[request.targets[i]]
          BY <1>1, <2>1, <4>2 DEF IInv, Sound, TypeOK, WorkOK
        <5> QED
          BY <2>3, <5>1, <5>2 DEF Cleared, Removable, Dirty, Unborn
      <4> QED
        BY <4>1, <4>2
    <3>6. CASE next < Len(request.targets)
      <4>1. stage' = "check" /\ next' = next + 1
        BY <2>1, <2>2, <3>6
      <4>2. \A i \in 1..Len(request'.targets) : i < next' => Cleared(request.targets[i])'
        BY <2>1, <2>3, <3>5, <4>1
      <4> QED
        BY <3>3, <4>1, <4>2 DEF RemovalOnCourse
    <3>7. CASE next = Len(request.targets)
      <4>1. stage' = "tree" /\ next' = 1
        BY <2>1, <2>2, <3>7
      <4>2. \A i \in 1..Len(request'.targets) : Cleared(request.targets[i])'
        BY <2>1, <2>3, <3>5, <3>7
      <4>3. Taken' = {} /\ \A c \in Branches : ~Deleted(c)'
        BY <4>1 DEF Taken, Deleted
      <4> QED
        BY <2>3, <3>2, <3>3, <4>1, <4>2, <4>3 DEF RemovalOnCourse, AsInSnapshot
    <3> QED
      BY <2>1, <3>6, <3>7
  <2> QED
    BY <2>4, <2>5 DEF OnCourse
<1> QED
  BY <1>1, RefuseOnCourse DEF CheckHead, IInv

\* An undisturbed removal finds the target where it stands as it was in the snapshot, and Git
\* does what it is asked to.
LEMMA NextTargetStands ==
  ASSUME IInv, stage \in {"tree", "branch"}, ~disturbed
  PROVE  /\ Cleared(Target) /\ pinned = snap.branch[Default]
         /\ \A i \in 1..Len(request.targets) : Cleared(request.targets[i])
         /\ stage = "tree" => Target \in registered /\ tree[Target] = snap.tree[Target]
         /\ branch[Default] = snap.branch[Default]
         /\ branch[snap.tree[Target].branch] = snap.branch[snap.tree[Target].branch]
<1>1. /\ next \in 1..Len(request.targets) /\ Len(request.targets) \in Nat /\ next \in Nat
      /\ \A i \in 1..Len(request.targets) : request.targets[i] \in Paths
      /\ \A i, j \in 1..Len(request.targets) : request.targets[i] = request.targets[j] => i = j
      /\ OneEach(snap.tree, snap.registered)
      /\ Target = request.targets[next]
  BY RemovalStands DEF RemoveStages
<1>2. /\ \A i \in 1..Len(request.targets) : Cleared(request.targets[i])
      /\ registered = snap.registered \ {request.targets[i] : i \in Taken}
      /\ \A p \in registered : tree[p] = snap.tree[p]
      /\ \A b \in Branches : branch[b] = IF Deleted(b) THEN NoCommit ELSE snap.branch[b]
      /\ pinned = snap.branch[Default]
  BY DEF IInv, OnCourse, RemovalOnCourse
<1>3. \A i \in 1..Len(request.targets) :
        /\ request.targets[i] \in snap.registered
        /\ snap.tree[request.targets[i]].branch \in Branches \ {Default}
        /\ snap.tree[request.targets[i]].branch # NoBranch
  <2> SUFFICES ASSUME NEW i \in 1..Len(request.targets)
               PROVE  /\ request.targets[i] \in snap.registered
                      /\ snap.tree[request.targets[i]].branch \in Branches \ {Default}
                      /\ snap.tree[request.targets[i]].branch # NoBranch
    OBVIOUS
  <2>1. Removable(request.targets[i])
    BY <1>2 DEF Cleared
  <2>2. snap.tree[request.targets[i]] \in Trees
    BY <1>1 DEF IInv, Sound, TypeOK, WorkOK
  <2> QED
    BY <2>1, <2>2 DEF Removable, Trees
<1>4. stage = "tree" => Target \in registered
  <2>1. stage = "tree" => \A i \in Taken : request.targets[i] # Target
    BY <1>1 DEF Taken
  <2> QED
    BY <1>1, <1>2, <1>3, <2>1
<1>5. ~Deleted(snap.tree[Target].branch)
  <2> SUFFICES ASSUME NEW i \in 1..Len(request.targets), i < next,
                      snap.tree[request.targets[i]].branch = snap.tree[Target].branch
               PROVE  FALSE
    BY DEF Deleted
  <2>1. request.targets[i] = Target
    BY <1>1, <1>3 DEF OneEach
  <2> QED
    BY <1>1, <2>1
<1>6. ~Deleted(Default)
  BY <1>3 DEF Deleted
<1>7. Default \in Branches
  BY WorktreesAssumption DEF WorktreesAssumption
<1> QED
  BY <1>1, <1>2, <1>3, <1>4, <1>5, <1>6, <1>7

LEMMA RemoveTreeOnCourse ==
  ASSUME IInv, RemoveTree
  PROVE  OnCourse'
<1>1. CASE stage = "tree" /\ GitRemoves(Target) /\ stage' = "branch" /\ UNCHANGED <<work, disturbed, bounds>>
  <2>1. UNCHANGED <<branch, request, snap, next, pinned, heads, disturbed>>
    BY <1>1 DEF GitRemoves, work
  <2>2. /\ next \in 1..Len(request.targets) /\ Target = request.targets[next] /\ Target \in Paths
    BY <1>1, RemovalStands DEF RemoveStages
  <2>3. KindAtStage' /\ SparseOnCourse'
    BY <1>1, <2>1 DEF IInv, OnCourse, KindAtStage, SparseOnCourse, RemoveStages,
         CreateStages, MoveStages, SparseStages, SparseKinds
  <2>4. BranchesApart'
    <3>1. OneEach(tree', registered')
      BY <1>1, <2>2, RemovedApart
    <3> QED
      BY <1>1, <2>1, <3>1 DEF IInv, OnCourse, BranchesApart, RemoveStages
  <2>5. RemovalOnCourse'
    <3>1. SUFFICES ASSUME ~disturbed PROVE RemovalOnCourse'
      BY <2>1 DEF RemovalOnCourse
    <3>2. /\ \A i \in 1..Len(request.targets) : Cleared(request.targets[i])
          /\ registered = snap.registered \ {request.targets[i] : i \in Taken}
          /\ \A p \in registered : tree[p] = snap.tree[p]
          /\ \A b \in Branches : branch[b] = IF Deleted(b) THEN NoCommit ELSE snap.branch[b]
          /\ pinned = snap.branch[Default]
      BY <1>1, <3>1 DEF IInv, OnCourse, RemovalOnCourse
    <3>3. Taken' = Taken \cup {next} /\ next \in 1..Len(request.targets)
      BY <1>1, <2>1, <2>2 DEF Taken
    <3>4. registered' = snap'.registered \ {request'.targets[i] : i \in Taken'}
      BY <1>1, <2>1, <2>2, <3>2, <3>3 DEF GitRemoves
    <3>5. \A p \in registered' : tree'[p] = snap'.tree[p]
      BY <1>1, <2>1, <3>2 DEF GitRemoves, IInv, Sound, TypeOK, GitOK
    <3>6. \A b \in Branches : branch'[b] = IF Deleted(b)' THEN NoCommit ELSE snap'.branch[b]
      BY <2>1, <3>2 DEF Deleted
    <3>7. \A i \in 1..Len(request'.targets) : Cleared(request.targets[i])'
      BY <2>1, <3>2 DEF Cleared, Removable, Dirty, Unborn
    <3> QED
      BY <1>1, <2>1, <3>2, <3>4, <3>5, <3>6, <3>7 DEF RemovalOnCourse
  <2> QED
    BY <2>3, <2>4, <2>5 DEF OnCourse
<1> QED
  BY <1>1, RefuseOnCourse DEF RemoveTree, IInv

LEMMA DeleteBranchOnCourse ==
  ASSUME IInv, DeleteBranch
  PROVE  OnCourse'
<1> DEFINE b == snap.tree[Target].branch
<1>1. CASE /\ stage = "branch"
           /\ branch' = [branch EXCEPT ![b] = NoCommit]
           /\ UNCHANGED <<registered, present, tree, nested>>
           /\ stage' = "tree" /\ next' = next + 1 /\ next < Len(request.targets)
           /\ UNCHANGED <<request, snap, pinned, heads, disturbed, bounds>>
  <2>1. /\ next \in 1..Len(request.targets) /\ Len(request.targets) \in Nat /\ next \in Nat
        /\ Target = request.targets[next]
    BY <1>1, RemovalStands DEF RemoveStages
  <2>3. KindAtStage' /\ BranchesApart' /\ SparseOnCourse'
    BY <1>1 DEF IInv, OnCourse, KindAtStage, BranchesApart, SparseOnCourse, RemoveStages,
         CreateStages, MoveStages, SparseStages, SparseKinds
  <2>5. RemovalOnCourse'
    <3>1. SUFFICES ASSUME ~disturbed PROVE RemovalOnCourse'
      BY <1>1 DEF RemovalOnCourse
    <3>2. /\ \A i \in 1..Len(request.targets) : Cleared(request.targets[i])
          /\ registered = snap.registered \ {request.targets[i] : i \in Taken}
          /\ \A p \in registered : tree[p] = snap.tree[p]
          /\ \A c \in Branches : branch[c] = IF Deleted(c) THEN NoCommit ELSE snap.branch[c]
          /\ pinned = snap.branch[Default]
      BY <1>1, <3>1 DEF IInv, OnCourse, RemovalOnCourse
    <3>3. Taken' = Taken
      BY <1>1, <2>1 DEF Taken
    <3>4. registered' = snap'.registered \ {request'.targets[i] : i \in Taken'}
      BY <1>1, <3>2, <3>3
    <3>5. \A p \in registered' : tree'[p] = snap'.tree[p]
      BY <1>1, <3>2
    <3>6. \A c \in Branches : branch'[c] = IF Deleted(c)' THEN NoCommit ELSE snap'.branch[c]
      <4>1. \A c : Deleted(c)' <=> Deleted(c) \/ c = b
        BY <1>1, <2>1 DEF Deleted
      <4>2. \A c \in Branches : branch'[c] = IF c = b THEN NoCommit ELSE branch[c]
        BY <1>1 DEF IInv, Sound, TypeOK, GitOK
      <4> QED
        BY <1>1, <3>2, <4>1, <4>2
    <3>7. \A i \in 1..Len(request'.targets) : Cleared(request.targets[i])'
      BY <1>1, <3>2 DEF Cleared, Removable, Dirty, Unborn
    <3> QED
      BY <1>1, <3>2, <3>4, <3>5, <3>6, <3>7 DEF RemovalOnCourse
  <2> QED
    BY <2>3, <2>5 DEF OnCourse
<1>2. CASE Return /\ UNCHANGED <<registered, tree>>
  BY <1>2, RestOnCourse, BranchesStay DEF Return
<1> QED
  BY <1>1, <1>2, RefuseOnCourse DEF DeleteBranch, IInv

-----------------------------------------------------------------------------
(* Creation, move and an undisturbed sparse-checkout.                       *)

LEMMA AddTreeOnCourse ==
  ASSUME IInv, AddTree
  PROVE  OnCourse'
<1> DEFINE d == request.dest
<1>0. d \in Paths /\ HeadOfNew \in Branches \cup {NoBranch}
  BY DEF HeadOfNew, IInv, Sound, TypeOK, WorkOK, Requests
<1>1. CASE /\ d \notin registered \cup present /\ ~CheckedOut(HeadOfNew)
           /\ Place(d, NewTree(HeadOfNew), disturbed)
           /\ registered' = registered \cup {d} /\ Return
  <2>1. tree' = [tree EXCEPT ![d] = NewTree(HeadOfNew)]
    BY <1>1 DEF Place
  <2>2. OneEach(tree', registered')
    BY <1>0, <1>1, <2>1, PlacedApartBranches
  <2> QED
    BY <1>1, <2>2, RestOnCourse DEF Return
<1>2. CASE UNCHANGED <<registered, tree>> /\ Return
  BY <1>2, RestOnCourse, BranchesStay DEF Return
<1> QED
  BY <1>1, <1>2, RefuseOnCourse DEF AddTree, IInv

LEMMA MoveTreeOnCourse ==
  ASSUME IInv, MoveTree
  PROVE  OnCourse'
<1> DEFINE d == request.dest
<1>0. d \in Paths
  BY DEF IInv, Sound, TypeOK, WorkOK, Requests
<1>1. CASE /\ Target \in registered /\ d \notin registered \cup present
           /\ Place(d, tree[Target], disturbed)
           /\ registered' = (registered \ {Target}) \cup {d} /\ Return
  <2>1. tree' = [tree EXCEPT ![d] = tree[Target]]
    BY <1>1 DEF Place
  <2>2. OneEach(tree', registered')
    BY <1>0, <1>1, <2>1, MovedApart
  <2> QED
    BY <1>1, <2>2, RestOnCourse DEF Return
<1> QED
  BY <1>1, RefuseOnCourse DEF MoveTree, IInv

\* A step of a sparse-checkout request that only goes on keeps what it has established.
LEMMA SparseStepOnCourse ==
  ASSUME IInv, stage \in SparseStages, GoOn(stage'), UNCHANGED <<next, pinned>>,
         stage' \in SparseStages \ {"sparse"},
         stage' \in {"expand", "contract", "disable"} => request.kind = stage',
         stage' = "git add" => request.kind = "expand",
         ~disturbed =>
           LET t == snap.tree[Target] IN
           /\ Target \in registered \cap present
           /\ stage' \in {"list", "set"} /\ request.kind = "set" /\ t.sparse = "off" => Covered
           /\ stage' = "set" /\ request.kind = "contract" => t.sparse = "cone"
           /\ stage' = "git set" /\ request.kind \in {"set", "contract"} => Covered
  PROVE  OnCourse'
<1>1. UNCHANGED <<branch, registered, present, tree, request, snap, disturbed, next>>
  BY DEF GoOn, git
<1>2. KindAtStage'
  BY <1>1 DEF IInv, OnCourse, KindAtStage, RemoveStages, CreateStages, MoveStages, SparseStages,
       SparseKinds
<1>3. BranchesApart'
  BY <1>1 DEF IInv, OnCourse, BranchesApart, RemoveStages, SparseStages, SparseKinds
<1>4. RemovalOnCourse'
  BY DEF RemovalOnCourse, SparseStages, SparseKinds
<1>5. SparseOnCourse'
  <2>1. ~disturbed => AsInSnapshot'
    BY <1>1 DEF IInv, OnCourse, SparseOnCourse, AsInSnapshot
  <2>2. Covered' = Covered /\ Target' = Target
    BY <1>1 DEF Covered, Target
  <2> QED
    BY <1>1, <2>1, <2>2 DEF SparseOnCourse
<1> QED
  BY <1>2, <1>3, <1>4, <1>5 DEF OnCourse

\* What an undisturbed request has established when it stands at a stage.
LEMMA SparseStands ==
  ASSUME IInv, stage \in SparseStages, ~disturbed
  PROVE  /\ tree = snap.tree /\ registered = snap.registered /\ present = snap.present
         /\ stage # "sparse" => Present
         /\ stage \in {"list", "set"} /\ request.kind = "set" /\ snap.tree[Target].sparse = "off"
              => Covered
         /\ stage = "set" /\ request.kind = "contract" => snap.tree[Target].sparse = "cone"
         /\ stage = "git set" /\ request.kind \in {"set", "contract"} => Covered
BY DEF IInv, OnCourse, SparseOnCourse, AsInSnapshot, Present

LEMMA CheckSparseOnCourse ==
  ASSUME IInv, CheckSparse
  PROVE  OnCourse'
<1>1. CASE /\ stage = "sparse" /\ Target \in registered \cap present /\ (ProbedFirst => Covered)
           /\ GoOn("list") /\ UNCHANGED <<next, pinned>>
  <2>1. stage' = "list" /\ stage \in SparseStages /\ GoOn(stage')
    BY <1>1 DEF GoOn, SparseStages
  <2> QED
    BY <1>1, <2>1, SparseStepOnCourse DEF ProbedFirst, SparseStages, SparseKinds
<1> QED
  BY <1>1, RefuseOnCourse DEF CheckSparse, IInv

LEMMA ListSparseOnCourse ==
  ASSUME IInv, ListSparse
  PROVE  OnCourse'
<1>1. CASE stage = "list" /\ GoOn(request.kind) /\ UNCHANGED <<next, pinned>>
  <2>1. stage' = request.kind /\ stage \in SparseStages /\ request.kind \in SparseKinds
    BY <1>1 DEF GoOn, SparseStages, IInv, Sound, Standing
  <2>2. stage' \in SparseStages \ {"sparse", "git add", "git set", "list", "probe"}
    BY <2>1 DEF SparseStages, SparseKinds
  <2>3. ~disturbed => /\ Target \in registered \cap present
                      /\ request.kind = "set" /\ snap.tree[Target].sparse = "off" => Covered
    BY <1>1, <2>1, SparseStands DEF Present
  <2> QED
    BY <1>1, <2>1, <2>2, <2>3, SparseStepOnCourse
<1> QED
  BY <1>1, RefuseOnCourse DEF ListSparse, IInv

LEMMA ExpandReadsOnCourse ==
  ASSUME IInv, ExpandReads
  PROVE  OnCourse'
<1>1. ASSUME NEW s \in {"git add", "set"}, stage = "expand", GoOn(s), UNCHANGED <<next, pinned>>
      PROVE  OnCourse'
  <2>1. stage' = s /\ stage \in SparseStages /\ request.kind = "expand"
    BY <1>1 DEF GoOn, SparseStages, SparseKinds, IInv, OnCourse, KindAtStage
  <2>2. s \in SparseStages \ {"sparse"}
    BY <1>1 DEF SparseStages, SparseKinds
  <2>3. ~disturbed => Target \in registered \cap present
    BY <1>1, <2>1, SparseStands DEF Present
  <2> QED
    BY <1>1, <2>1, <2>2, <2>3, SparseStepOnCourse
<1> QED
  BY <1>1, RefuseOnCourse DEF ExpandReads, IInv

LEMMA ContractReadsOnCourse ==
  ASSUME IInv, ContractReads
  PROVE  OnCourse'
<1>1. CASE /\ stage = "contract" /\ SparseNow = "cone"
           /\ request' = [request EXCEPT !.dirs = tree[Target].dirs \ @]
           /\ stage' = "set"
           /\ UNCHANGED <<git, snap, next, pinned, heads, disturbed, nested, bounds>>
  <2>1. /\ request'.kind = request.kind /\ request'.targets = request.targets
        /\ request.kind = "contract"
        /\ UNCHANGED <<branch, registered, present, tree, next, snap, disturbed>>
    BY <1>1 DEF git, IInv, Sound, TypeOK, WorkOK, Requests, OnCourse, KindAtStage
  <2>2. stage \in SparseStages
    BY <1>1 DEF SparseStages, SparseKinds
  <2>3. KindAtStage'
    BY <1>1, <2>1 DEF KindAtStage, RemoveStages, CreateStages, MoveStages, SparseStages, SparseKinds
  <2>4. BranchesApart'
    BY <1>1, <2>1 DEF IInv, OnCourse, BranchesApart, RemoveStages
  <2>5. RemovalOnCourse'
    BY <1>1 DEF RemovalOnCourse
  <2>6. SparseOnCourse'
    <3>1. ~disturbed => AsInSnapshot /\ Present
      BY <1>1, <2>2 DEF IInv, OnCourse, SparseOnCourse, Present
    <3>2. ~disturbed => AsInSnapshot'
      BY <2>1, <3>1 DEF AsInSnapshot
    <3>3. ~disturbed => snap.tree[Target].sparse = "cone" /\ Target \in registered \cap present
      BY <1>1, <3>1 DEF AsInSnapshot, SparseNow, Present
    <3>4. Target' = Target
      BY <2>1 DEF Target
    <3> QED
      BY <1>1, <2>1, <3>2, <3>3, <3>4 DEF SparseOnCourse
  <2> QED
    BY <2>3, <2>4, <2>5, <2>6 DEF OnCourse
<1> QED
  BY <1>1, RefuseOnCourse DEF ContractReads, IInv

LEMMA SetReadsOnCourse ==
  ASSUME IInv, SetReads
  PROVE  OnCourse'
<1>0. stage = "set" => stage \in SparseStages
  BY DEF SparseStages, SparseKinds
<1>1. CASE stage = "set" /\ GoOn("probe") /\ UNCHANGED <<next, pinned>>
  <2>1. stage' = "probe" /\ stage' \in SparseStages \ {"sparse"} /\ GoOn(stage')
    BY <1>1 DEF GoOn, SparseStages
  <2>2. ~disturbed => Target \in registered \cap present
    BY <1>0, <1>1, SparseStands DEF Present
  <2> QED
    BY <1>0, <1>1, <2>1, <2>2, SparseStepOnCourse
<1>2. CASE stage = "set" /\ SparseNow = "off" /\ GoOn("git set") /\ UNCHANGED <<next, pinned>>
  <2>1. stage' = "git set" /\ stage' \in SparseStages \ {"sparse"} /\ GoOn(stage')
    BY <1>2 DEF GoOn, SparseStages
  <2>2. ~disturbed => Present /\ tree = snap.tree
    BY <1>0, <1>2, SparseStands
  <2>4. ~disturbed => Target \in registered \cap present /\ snap.tree[Target].sparse = "off"
    BY <1>2, <2>2 DEF Present, SparseNow
  <2>3. ~disturbed /\ request.kind \in {"set", "contract"} => Covered
    BY <1>0, <1>2, <2>4, SparseStands
  <2> QED
    BY <1>0, <1>2, <2>1, <2>3, <2>4, SparseStepOnCourse
<1> QED
  BY <1>1, <1>2, RefuseOnCourse DEF SetReads, IInv

LEMMA ProbeOnCourse ==
  ASSUME IInv, Probe
  PROVE  OnCourse'
<1>1. CASE stage = "probe" /\ Present /\ Covered /\ GoOn("git set") /\ UNCHANGED <<next, pinned>>
  <2>1. /\ stage' = "git set" /\ stage' \in SparseStages \ {"sparse"} /\ GoOn(stage')
        /\ stage \in SparseStages
    BY <1>1 DEF GoOn, SparseStages
  <2> QED
    BY <1>1, <2>1, SparseStepOnCourse DEF Present
<1> QED
  BY <1>1, RefuseOnCourse DEF Probe, IInv

\* Only the sparse-checkout of the target is written.
LEMMA SparseWritten ==
  ASSUME IInv, stage \in SparseStages, NEW on, NEW ds, GitWrites(on, ds)
  PROVE  /\ Target \in Paths /\ stage' = "idle" /\ registered' = registered
         /\ \A p \in Paths : p # Target => tree'[p] = tree[p]
         /\ tree'[Target].branch = tree[Target].branch
         /\ Visible(tree'[Target]) = IF on = "off" THEN Dirs ELSE ds
<1>1. Target \in Paths /\ tree \in [Paths -> Trees]
  BY TargetIsPath DEF IInv, Sound, TypeOK, GitOK, SparseStages, SparseKinds, CreateStages
<1> DEFINE t == [tree[Target] EXCEPT !.sparse = on, !.dirs = ds]
<1>2. t.branch = tree[Target].branch /\ t.sparse = on /\ t.dirs = ds
  BY <1>1 DEF Trees
<1>3. tree' = [tree EXCEPT ![Target] = t]
  BY <1>1 DEF GitWrites
<1> HIDE DEF t
<1> QED
  BY <1>1, <1>2, <1>3 DEF GitWrites, Return, Visible

LEMMA WriteSparseOnCourse ==
  ASSUME IInv, WriteSparse
  PROVE  OnCourse'
<1>0. stage \in {"git set", "git add", "disable"} => stage \in SparseStages
  BY DEF SparseStages, SparseKinds
<1>1. ASSUME NEW on, NEW ds, GitWrites(on, ds), stage \in {"git set", "git add", "disable"}
      PROVE  OnCourse'
  <2>1. /\ stage' = "idle" /\ registered' = registered
        /\ \A p \in Paths : tree'[p].branch = tree[p].branch
    BY <1>0, <1>1, SparseWritten
  <2> QED
    BY <2>1, RestOnCourse, BranchesStay
<1> QED
  BY <1>1, RefuseOnCourse DEF WriteSparse, IInv

-----------------------------------------------------------------------------
(* The user leaves every worktree its own branch.                           *)

LEMMA UserLeavesBranchesApart ==
  ASSUME IInv, MovesBranch \/ DeletesBranch \/ ChangesTree \/ ChangesPaths
  PROVE  OneEach(tree', registered')
<1>t. /\ tree \in [Paths -> Trees] /\ registered \subseteq Paths /\ OneEach(tree, registered)
      /\ \A p \in Paths : DOMAIN tree[p] = {"branch", "locked", "changed", "sparse", "dirs"}
  BY DEF IInv, Sound, TypeOK, GitOK, OnCourse, BranchesApart, Trees
<1>1. CASE UNCHANGED <<registered, tree>>
  BY <1>1, BranchesStay
<1>2. ASSUME ChangesTree
      PROVE  OneEach(tree', registered')
  <2>1. PICK p \in registered \cap present :
          \/ \E d \in Dirs : tree' = [tree EXCEPT ![p].changed = (@ \ {d}) \cup ({d} \ @)]
          \/ tree' = [tree EXCEPT ![p].locked = ~@]
          \/ \E ds \in SUBSET Dirs : tree' = [tree EXCEPT ![p].sparse = "cone", ![p].dirs = ds]
          \/ \E on \in {"off", "other"} : tree' = [tree EXCEPT ![p].sparse = on, ![p].dirs = {}]
          \/ \E b \in Branches : ~HeldIn(tree, registered, b) /\ tree' = [tree EXCEPT ![p].branch = b]
    BY <1>2 DEF ChangesTree
  <2>2. registered' = registered /\ p \in Paths
    BY <1>2, <2>1, <1>t DEF ChangesTree
  <2>3. CASE \E d \in Dirs : tree' = [tree EXCEPT ![p].changed = (@ \ {d}) \cup ({d} \ @)]
    <3>1. \A q \in Paths : tree'[q].branch = tree[q].branch
      BY <1>t, <2>2, <2>3
    <3> QED
      BY <2>2, <3>1, BranchesStay
  <2>4. CASE tree' = [tree EXCEPT ![p].locked = ~@]
    <3>1. \A q \in Paths : tree'[q].branch = tree[q].branch
      BY <1>t, <2>2, <2>4
    <3> QED
      BY <2>2, <3>1, BranchesStay
  <2>5. ASSUME NEW on, NEW ds, tree' = [tree EXCEPT ![p].sparse = on, ![p].dirs = ds]
        PROVE  OneEach(tree', registered')
    <3>1. tree' = [tree EXCEPT ![p] = [[tree[p] EXCEPT !.sparse = on] EXCEPT !.dirs = ds]]
      BY <1>t, <2>2, <2>5
    <3>2. \A q \in Paths : tree'[q].branch = tree[q].branch
      BY <1>t, <2>2, <3>1
    <3> QED
      BY <2>2, <3>2, BranchesStay
  <2>6. ASSUME NEW b \in Branches, ~HeldIn(tree, registered, b), tree' = [tree EXCEPT ![p].branch = b]
        PROVE  OneEach(tree', registered')
    <3>1. tree'[p].branch = b /\ \A q \in Paths : q # p => tree'[q] = tree[q]
      BY <1>t, <2>2, <2>6
    <3>2. \A q \in registered : tree[q].branch # b
      BY <2>6 DEF HeldIn
    <3> QED
      BY <1>t, <2>2, <3>1, <3>2 DEF OneEach
  <2> QED
    BY <2>1, <2>3, <2>4, <2>5, <2>6
<1>3. ASSUME ChangesPaths, ~UNCHANGED <<registered, tree>>
      PROVE  OneEach(tree', registered')
  <2>1. ASSUME NEW d \in Paths \ (registered \cup present), NEW b \in Branches,
               ~HeldIn(tree, registered, b), Place(d, NewTree(b), TRUE),
               registered' = registered \cup {d}
        PROVE  OneEach(tree', registered')
    BY <2>1, PlacedApartBranches DEF CheckedOut, Place
  <2>2. ASSUME NEW p \in registered \ {Viewed}, GitRemoves(p)
        PROVE  OneEach(tree', registered')
    BY <1>t, <2>2, RemovedApart
  <2> QED
    BY <1>3, <2>1, <2>2 DEF ChangesPaths
<1> QED
  BY <1>1, <1>2, <1>3 DEF MovesBranch, DeletesBranch

-----------------------------------------------------------------------------
(* The theorems.                                                            *)

LEMMA NextKeeps == Sound /\ [Next]_vars => Sound'
<1> SUFFICES ASSUME Sound, [Next]_vars PROVE Sound'
  OBVIOUS
<1>1. CASE Remove
  BY <1>1, RemoveBeginsKeeps, ReadDefaultKeeps, CheckTargetKeeps, CheckHeadKeeps,
     RemoveTreeKeeps, DeleteBranchKeeps DEF Remove
<1>2. CASE Create
  BY <1>2, CreateBeginsKeeps, CheckCreateKeeps, VerifyCreateKeeps, AddTreeKeeps DEF Create
<1>3. CASE Move
  BY <1>3, MoveBeginsKeeps, CheckMoveKeeps, VerifyMoveKeeps, MoveTreeKeeps DEF Move
<1>4. CASE Sparse
  BY <1>4, SparseBeginsKeeps, CheckSparseKeeps, ListSparseKeeps, ExpandReadsKeeps,
     ContractReadsKeeps, SetReadsKeeps, ProbeKeeps, WriteSparseKeeps DEF Sparse
<1>5. CASE Fail
  BY <1>5, FailKeeps
<1>6. CASE User
  BY <1>6, UserKeeps
<1>7. CASE UNCHANGED vars
  <2>1. GitSound'
    BY <1>7, GitStays, SoundParts DEF vars
  <2>2. \A p : CheckedTarget(p) <=> CheckedTarget(p)'
    BY <1>7 DEF vars, CheckedTarget, work
  <2>3. Removable(Target) <=> Removable(Target)'
    BY <1>7 DEF vars, Removable, Dirty, Unborn, Target, work
  <2>4. Checked'
    BY <1>7, <2>2, <2>3 DEF vars, Checked, Sound, work
  <2>5. WorkOK' /\ Standing'
    BY <1>7 DEF vars, WorkOK, Standing, Sound, TypeOK, work, bounds
  <2>6. Destined'
    BY <1>7 DEF vars, Destined, Apart, Target, Sound, work, git
  <2> QED
    BY <2>1, <2>4, <2>5, <2>6, SoundNext DEF WorkSound
<1> QED
  BY <1>1, <1>2, <1>3, <1>4, <1>5, <1>6, <1>7 DEF Next

\* Every step keeps an undisturbed request on its course.
LEMMA NextOnCourse == IInv /\ [Next]_vars => OnCourse'
<1> SUFFICES ASSUME IInv, [Next]_vars PROVE OnCourse'
  OBVIOUS
<1>1. CASE Remove
  <2>1. CASE RemoveBegins
    <3>1. PICK ts \in Selections : Begin(ToRemove(ts), "default")
      BY <2>1 DEF RemoveBegins
    <3>2. ToRemove(ts).kind = "remove" /\ ToRemove(ts).targets = ts
      BY DEF ToRemove, Asked
    <3> QED
      BY <3>1, <3>2, SelectionIsInjective, BeginOnCourse DEF IInv
  <2> QED
    BY <1>1, <2>1, ReadDefaultOnCourse, CheckTargetOnCourse, CheckHeadOnCourse,
       RemoveTreeOnCourse, DeleteBranchOnCourse DEF Remove
<1>2. CASE Create
  <2>1. CASE CreateBegins
    <3>1. PICK r : r.kind = "create" /\ Begin(r, "create")
      BY <2>1 DEF CreateBegins, ToCreate, Asked
    <3> QED
      BY <3>1, BeginOnCourse DEF IInv
  <2>2. CASE CheckCreate \/ VerifyCreate
    BY <2>2, PlaceGoesOn, RefuseOnCourse DEF CheckCreate, VerifyCreate, CreateStages, IInv
  <2> QED
    BY <1>2, <2>1, <2>2, AddTreeOnCourse DEF Create
<1>3. CASE Move
  <2>1. CASE MoveBegins
    <3>1. PICK r : r.kind = "move" /\ Begin(r, "move")
      BY <2>1 DEF MoveBegins, ToMove, Asked
    <3> QED
      BY <3>1, BeginOnCourse DEF IInv
  <2>2. CASE CheckMove \/ VerifyMove
    BY <2>2, PlaceGoesOn, RefuseOnCourse DEF CheckMove, VerifyMove, MoveStages, IInv
  <2> QED
    BY <1>3, <2>1, <2>2, MoveTreeOnCourse DEF Move
<1>4. CASE Sparse
  <2>1. CASE SparseBegins
    <3>1. PICK r : r.kind \in SparseKinds /\ Begin(r, "sparse")
      BY <2>1 DEF SparseBegins, ToSparse, Asked
    <3> QED
      BY <3>1, BeginOnCourse DEF IInv
  <2> QED
    BY <1>4, <2>1, CheckSparseOnCourse, ListSparseOnCourse, ExpandReadsOnCourse,
       ContractReadsOnCourse, SetReadsOnCourse, ProbeOnCourse, WriteSparseOnCourse DEF Sparse
<1>5. CASE Fail
  BY <1>5, RestOnCourse, BranchesStay DEF Fail, git
<1>6. CASE User
  BY <1>6, UserOnCourse, UserLeavesBranchesApart DEF User, IInv
<1>7. CASE UNCHANGED vars
  <2>1. UNCHANGED <<branch, registered, present, tree, stage, request, snap, next, pinned, heads,
                    disturbed>>
    BY <1>7 DEF vars, git, work
  <2>2. KindAtStage' /\ BranchesApart'
    BY <2>1 DEF IInv, OnCourse, KindAtStage, BranchesApart
  <2>3. RemovalOnCourse'
    <3>1. /\ AsInSnapshot' <=> AsInSnapshot
          /\ Dirty(snap.tree[Target], snap.branch)' <=> Dirty(snap.tree[Target], snap.branch)
      BY <2>1 DEF AsInSnapshot, Dirty, Unborn, Target
    <3>2. \A p : Cleared(p)' <=> Cleared(p)
      BY <2>1 DEF Cleared, Removable, Dirty, Unborn
    <3>3. Taken' = Taken /\ \A b : Deleted(b)' <=> Deleted(b)
      BY <2>1 DEF Taken, Deleted
    <3>4. RemovalOnCourse
      BY DEF IInv, OnCourse
    <3> QED
      BY <2>1, <3>1, <3>2, <3>3, <3>4 DEF RemovalOnCourse
  <2>4. SparseOnCourse'
    BY <2>1 DEF IInv, OnCourse, SparseOnCourse, AsInSnapshot, Covered, Target
  <2> QED
    BY <2>2, <2>3, <2>4 DEF OnCourse
<1> QED
  BY <1>1, <1>2, <1>3, <1>4, <1>5, <1>6, <1>7 DEF Next

LEMMA InitOnCourse == Init => OnCourse
<1> SUFFICES ASSUME Init PROVE OnCourse
  OBVIOUS
<1>1. stage = "idle" /\ tree = [p \in Paths |-> NewTree(Held[p])]
      /\ registered = {p \in Paths : Held[p] # NoBranch}
  BY DEF Init
<1>2. OneEach(tree, registered)
  BY <1>1, WorktreesAssumption DEF OneEach, NewTree, WorktreesAssumption
<1> QED
  BY <1>1, <1>2 DEF OnCourse, KindAtStage, BranchesApart, RemovalOnCourse, SparseOnCourse,
       RemoveStages, CreateStages, MoveStages, SparseStages, SparseKinds

\* Worktrees and requests are as IInv says, for every number of paths, branches, requests and
\* user commands.
THEOREM Invariance == Spec => []IInv
<1>1. Init => IInv
  BY InitSound, InitOnCourse DEF IInv
<1>2. IInv /\ [Next]_vars => IInv'
  BY NextKeeps, NextOnCourse DEF IInv
<1> QED
  BY <1>1, <1>2, PTL DEF Spec

\* RemoveMergedWorktrees deletes a branch only while it is merged into the default branch:
\* the transaction of update-ref makes the check of merge-base hold at the deletion.
THEOREM DeletesOnlyMerged == Spec => DeletedIsMerged
<1> DEFINE Merged == \A b \in Branches :
                       GitGitActs /\ Exists(b) /\ branch'[b] = NoCommit =>
                         branch[b] \in Ancestors[branch[Default]]
<1>1. ASSUME Sound, DeleteBranch
      PROVE  Merged
  <2>1. CASE UNCHANGED branch
    BY <2>1 DEF Exists
  <2>2. CASE /\ RefsUnchanged(snap.tree[Target].branch)
             /\ branch' = [branch EXCEPT ![snap.tree[Target].branch] = NoCommit]
    BY <1>1, <2>2, DeletedWasChecked DEF DeleteBranch, RefsUnchanged, Exists, Sound, TypeOK, GitOK
  <2> QED
    BY <1>1, <2>1, <2>2 DEF DeleteBranch, Refuse, git
<1>2. ASSUME Sound, AddTree
      PROVE  Merged
  BY <1>2, WorktreesAssumption DEF AddTree, Refuse, git, Exists, Sound, TypeOK, GitOK,
        WorktreesAssumption
<1>3. ASSUME User
      PROVE  Merged
  BY <1>3 DEF User, UserActs, GitGitActs
<1>4. ASSUME [Next]_vars, ~DeleteBranch, ~AddTree, ~User
      PROVE  UNCHANGED branch
  BY <1>4 DEF Next, vars, git, Remove, Create, Move, Sparse, Fail, Refuse, Return, Begin, GoOn,
        RemoveBegins, ReadDefault, CheckTarget, CheckHead, RemoveTree, GitRemoves, CreateBegins,
        CheckCreate, VerifyCreate, MoveBegins, CheckMove, VerifyMove, MoveTree, SparseBegins,
        CheckSparse, ListSparse, ExpandReads, ContractReads, SetReads, Probe, WriteSparse, GitWrites
<1>5. IInv /\ [Next]_vars => [Merged]_vars
  BY <1>1, <1>2, <1>3, <1>4 DEF Exists, IInv
<1> QED
  BY <1>5, Invariance, PTL DEF Spec, DeletedIsMerged

\* A removal or a move takes one directory at most, unless a race or the user nested worktrees:
\* what lies below a worktree is no other worktree.
THEOREM TakesOneOnly == Spec => SparesOthers
<1> DEFINE One == GitGitActs /\ ~nested =>
                    \A p, q \in registered \cap present : {p, q} \cap present' = {} => p = q
<1>1. ASSUME Sound, ~nested, NEW t \in registered,
             present \ ({t} \cup Below(t)) \subseteq present'
      PROVE  \A p, q \in registered \cap present : {p, q} \cap present' = {} => p = q
  <2>1. \A p \in registered : p \notin Below(t)
    BY <1>1 DEF Sound, NoneNested, Below
  <2> QED
    BY <1>1, <2>1
<1>2. ASSUME Sound, RemoveTree
      PROVE  One
  <2>1. CASE CanRemove(Target) /\ GitRemoves(Target)
    BY <1>1, <1>2, <2>1 DEF CanRemove, GitRemoves
  <2>2. CASE Refuse
    BY <2>2 DEF Refuse, git
  <2> QED
    BY <1>2, <2>1, <2>2 DEF RemoveTree
<1>3. ASSUME Sound, MoveTree
      PROVE  One
  <2>1. CASE /\ Target \in registered
             /\ present' = (present \ ({Target} \cup Below(Target))) \cup {request.dest}
    BY <1>1, <1>3, <2>1
  <2>2. CASE Refuse
    BY <2>2 DEF Refuse, git
  <2> QED
    BY <1>3, <2>1, <2>2 DEF MoveTree
<1>4. ASSUME AddTree
      PROVE  One
  BY <1>4 DEF AddTree, Refuse, git
<1>5. ASSUME User
      PROVE  One
  BY <1>5 DEF User, UserActs, GitGitActs
<1>6. ASSUME [Next]_vars, ~RemoveTree, ~MoveTree, ~AddTree, ~User
      PROVE  UNCHANGED present
  BY <1>6 DEF Next, vars, git, Remove, Create, Move, Sparse, Fail, Refuse, Return, Begin, GoOn,
        RemoveBegins, ReadDefault, CheckTarget, CheckHead, DeleteBranch, CreateBegins,
        CheckCreate, VerifyCreate, MoveBegins, CheckMove, VerifyMove, SparseBegins,
        CheckSparse, ListSparse, ExpandReads, ContractReads, SetReads, Probe, WriteSparse, GitWrites
<1>7. IInv /\ [Next]_vars => [One]_vars
  BY <1>2, <1>3, <1>4, <1>5, <1>6 DEF IInv
<1> QED
  BY <1>7, Invariance, PTL DEF Spec, SparesOthers

\* A removal that nobody disturbs goes through once it has begun to remove: every worktree it
\* checked is still as it was, each with a branch to itself, so Git refuses none of them.
THEOREM RemovesAllOrNone == Spec => WholeOrNothing
<1> DEFINE Ends == request.kind = "remove" /\ stage # "idle" /\ stage' = "idle" /\ ~disturbed'
           None == registered' = snap.registered /\ branch' = snap.branch
           Gone(p) == p \notin registered' /\ branch'[snap.tree[p].branch] = NoCommit
           Whole == Ends => None \/ \A p \in Range(request.targets) : Gone(p)
<1>1. ASSUME IInv, stage \in {"default", "check", "head"}, Refuse
      PROVE  Whole
  <2>1. Ends => AsInSnapshot
    BY <1>1 DEF Refuse, Return, IInv, OnCourse, RemovalOnCourse
  <2> QED
    BY <1>1, <2>1 DEF Refuse, git, AsInSnapshot
<1>2. ASSUME IInv, RemoveTree
      PROVE  Whole
  <2>1. CASE Refuse /\ ~disturbed
    <3>1. /\ Cleared(Target) /\ Target \in registered /\ tree[Target] = snap.tree[Target]
          /\ branch[snap.tree[Target].branch] = snap.branch[snap.tree[Target].branch]
      BY <1>2, <2>1, NextTargetStands DEF RemoveTree
    <3>2. CanRemove(Target)
      BY <3>1 DEF CanRemove, Cleared, Removable, Dirty, Unborn
    <3>3. stage' = "branch"
      BY <1>2, <3>2 DEF RemoveTree
    <3> QED
      BY <3>3
  <2>2. CASE stage' = "branch"
    BY <2>2
  <2>3. CASE Refuse /\ disturbed
    BY <2>3 DEF Refuse, Return
  <2> QED
    BY <1>2, <2>1, <2>2, <2>3 DEF RemoveTree
<1>3. ASSUME IInv, DeleteBranch
      PROVE  Whole
  <2> DEFINE b == snap.tree[Target].branch
  <2>1. SUFFICES ASSUME Ends PROVE \A p \in Range(request.targets) : Gone(p)
    OBVIOUS
  <2>2. stage = "branch" /\ ~disturbed
    BY <1>3, <2>1 DEF DeleteBranch, Refuse, Return
  <2>3. /\ Cleared(Target) /\ pinned = snap.branch[Default]
        /\ branch[Default] = snap.branch[Default] /\ branch[b] = snap.branch[b]
        /\ \A i \in 1..Len(request.targets) : Cleared(request.targets[i])
    BY <1>3, <2>2, NextTargetStands
  <2>4. RefsUnchanged(b)
    BY <2>3 DEF RefsUnchanged, Cleared
  <2>5. /\ next \in 1..Len(request.targets) /\ Len(request.targets) \in Nat /\ next \in Nat
        /\ Target = request.targets[next]
    BY <1>3, <2>2, RemovalStands DEF RemoveStages
  <2>6. /\ branch' = [branch EXCEPT ![b] = NoCommit] /\ registered' = registered
        /\ next = Len(request.targets)
    BY <1>3, <2>1, <2>4, <2>5 DEF DeleteBranch
  <2>7. /\ registered = snap.registered \ {request.targets[i] : i \in Taken}
        /\ \A c \in Branches : branch[c] = IF Deleted(c) THEN NoCommit ELSE snap.branch[c]
    BY <1>3, <2>2 DEF IInv, OnCourse, RemovalOnCourse
  <2>8. ASSUME NEW i \in 1..Len(request.targets)
        PROVE  Gone(request.targets[i])
    <3>1. i \in Taken
      BY <2>2, <2>5, <2>6 DEF Taken
    <3>2. snap.tree[request.targets[i]].branch \in Branches
      <4>1. request.targets[i] \in Paths
        BY <1>3, <2>2, RemovalStands DEF RemoveStages
      <4>2. snap.tree[request.targets[i]].branch \in Branches \cup {NoBranch}
        BY <1>3, <4>1 DEF IInv, Sound, TypeOK, WorkOK, Trees
      <4> QED
        BY <2>3, <4>2 DEF Cleared, Removable
    <3>3. branch'[snap.tree[request.targets[i]].branch] = NoCommit
      <4>1. CASE i = next
        BY <1>3, <2>5, <2>6, <3>2, <4>1 DEF IInv, Sound, TypeOK, GitOK
      <4>2. CASE i # next
        <5>1. Deleted(snap.tree[request.targets[i]].branch)
          BY <2>5, <2>6, <4>2 DEF Deleted
        <5> QED
          BY <1>3, <2>6, <2>7, <3>2, <5>1 DEF IInv, Sound, TypeOK, GitOK
      <4> QED
        BY <4>1, <4>2
    <3> QED
      BY <2>6, <2>7, <3>1, <3>3
  <2>9. \A p \in Range(request.targets) : \E i \in 1..Len(request.targets) : p = request.targets[i]
    <3>1. request.targets \in Seq(Paths)
      BY <1>3 DEF IInv, Sound, TypeOK, WorkOK, Requests
    <3> QED
      BY <3>1 DEF Range
  <2> QED
    BY <2>8, <2>9
<1>4. ASSUME IInv, request.kind = "remove", stage # "idle"
      PROVE  stage \in RemoveStages
  BY <1>4 DEF IInv, OnCourse, KindAtStage, SparseKinds, RemoveStages, CreateStages, MoveStages,
       SparseStages, Sound, TypeOK, WorkOK, Stages
<1>5. ASSUME IInv, [Next]_vars, Ends
      PROVE  Whole
  <2>1. stage \in RemoveStages
    BY <1>4, <1>5
  <2>2. ~(Create \/ Move \/ Sparse \/ RemoveBegins)
    BY <2>1 DEF RemoveStages, RemoveBegins, Begin,
         Create, CreateBegins, CheckCreate, VerifyCreate, AddTree,
         Move, MoveBegins, CheckMove, VerifyMove, MoveTree,
         Sparse, SparseBegins, CheckSparse, ListSparse, ExpandReads, ContractReads, SetReads,
         Probe, WriteSparse
  <2>3. ~(Fail \/ User \/ UNCHANGED vars)
    BY <1>5 DEF Fail, User, UserActs, vars
  <2>4. CASE ReadDefault \/ CheckTarget \/ CheckHead
    <3>1. stage \in {"default", "check", "head"} /\ (Refuse \/ stage' # "idle")
      BY <2>4 DEF ReadDefault, CheckTarget, CheckHead, AfterCheck, GoOn
    <3> QED
      BY <1>1, <1>5, <3>1
  <2> QED
    BY <1>2, <1>3, <1>5, <2>2, <2>3, <2>4 DEF Next, Remove
<1>6. IInv /\ [Next]_vars => [Whole]_vars
  BY <1>5
<1> QED
  BY <1>6, Invariance, PTL DEF Spec, WholeOrNothing

\* An undisturbed set or contract writes no selection that it has not probed against what is
\* changed now: the first selection of a worktree is probed by the service, the others by
\* SparseSet, and contraction goes on only where there is one to replace.
THEOREM SparesChanges == Spec => SparseSpares
<1> DEFINE Spare == Spares({"set", "contract"})
<1>1. ASSUME IInv, WriteSparse, request.kind \in {"set", "contract"}, ~disturbed
      PROVE  \A p \in Paths : tree[p].changed \cap Visible(tree[p]) \subseteq Visible(tree'[p])
  <2>0. stage \in SparseStages
    BY <1>1 DEF WriteSparse, SparseStages, SparseKinds
  <2>1. stage = "git set"
    BY <1>1 DEF WriteSparse, IInv, OnCourse, KindAtStage
  <2>2. CASE GitWrites("cone", request.dirs)
    <3>1. Covered
      BY <1>1, <2>0, <2>1, SparseStands
    <3>2. /\ \A p \in Paths : p # Target => tree'[p] = tree[p]
          /\ Visible(tree'[Target]) = request.dirs
      BY <1>1, <2>0, <2>2, SparseWritten
    <3> QED
      BY <3>1, <3>2 DEF Covered
  <2>3. CASE Refuse
    BY <2>3 DEF Refuse, git
  <2> QED
    BY <1>1, <2>1, <2>2, <2>3 DEF WriteSparse
<1>2. ASSUME [Next]_vars, ~User, ~WriteSparse, ~RemoveTree, ~AddTree, ~MoveTree
      PROVE  UNCHANGED tree
  BY <1>2 DEF Next, vars, git, Remove, Create, Move, Sparse, Fail, Refuse, Return, Begin, GoOn,
        RemoveBegins, ReadDefault, CheckTarget, CheckHead, DeleteBranch, CreateBegins,
        CheckCreate, VerifyCreate, MoveBegins, CheckMove, VerifyMove, SparseBegins,
        CheckSparse, ListSparse, ExpandReads, ContractReads, SetReads, Probe
<1>3. ASSUME IInv, RemoveTree \/ AddTree \/ MoveTree
      PROVE  request.kind \notin {"set", "contract"}
  BY <1>3 DEF RemoveTree, AddTree, MoveTree, IInv, OnCourse, KindAtStage, RemoveStages,
       CreateStages, MoveStages
<1>4. ASSUME IInv, User
      PROVE  ~GitGitActs
  BY <1>4 DEF User, UserActs, GitGitActs, IInv, Sound, TypeOK, WorkOK
<1>5. IInv /\ [Next]_vars => [Spare]_vars
  BY <1>1, <1>2, <1>3, <1>4 DEF Spares
<1> QED
  BY <1>5, Invariance, PTL DEF Spec, SparseSpares

=============================================================================
