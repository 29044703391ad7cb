--------------------------- MODULE Extension_proofs ---------------------------
(***************************************************************************)
(* The extension in its host, proved for any repositories, targets,        *)
(* drafts, editors, texts and commits, and any bounds: first               *)
(* ExtensionSession, then EditorSession.                                   *)
(*                                                                         *)
(* In ExtensionSession the runtime and the view are proved apart: the view *)
(* depends on the runtime through runtimeChanged alone, and the runtime    *)
(* does not depend on the view.  In EditorSession the blame and the        *)
(* highlight are: each depends on the editors, and neither on the other.   *)
(***************************************************************************)
EXTENDS ExtensionSession, EditorSession, TLAPS

-----------------------------------------------------------------------------
(* ExtensionSession: its types and its two parts.                           *)


Views == [draft : Drafts, executed : Drafts \cup {None}, active : Requests \cup {0},
          phase : {"idle", "running", "ready", "stale", "error"}, results : Result]
Calls == [stage : {"none", "running", "settled"}, cancelled : BOOLEAN,
          root : Roots \cup {None}, draft : Drafts \cup {None}, client : Generations \cup {0}]

(* The types of the runtime, and those of the view. *)
RuntimeType ==
  /\ trusted \in BOOLEAN
  /\ generation \in 0..MaxRefreshes
  /\ newest \in Targets \cup {None}
  /\ waiting \in [gen : Generations, target : Targets] \cup {NoRefresh}
  /\ discovery \in [gen : Generations, target : Targets, at : Nat, client : Generations]
                    \cup {NoDiscovery}
  /\ helper \in Generations \cup {0}
  /\ clients \in [Generations -> {"none", "starting", "live", "closed"}]
  /\ phase \in Phases
  /\ root \in Roots \cup {None}
  /\ candidate \in Candidates \cup {None}

ViewType ==
  /\ view \in Views
  /\ cancellation \in Requests \cup {0}
  /\ nextRequestId \in 1..(MaxSearches + 1)
  /\ searches \in [Requests -> Calls]
  /\ viewRoot \in Roots \cup {None}
  /\ nodes \in Result

(* What a view says of itself, over results of repository r. *)
Consistent(v, r) ==
  /\ v \in Views
  /\ v.results # NoResults => v.results = [root |-> r, draft |-> v.executed]
  /\ v.executed = None <=> v.results = NoResults
  /\ v.phase = "running" <=> v.active # 0
  /\ v.phase \in {"idle", "ready", "stale"} => v.phase = SettledPhase(v, v.draft)

(* What the view and the runtime have to do with each other. *)
Follows ==
  /\ nodes = view.results
  /\ phase = "ready" => viewRoot = root
  /\ phase \notin {"ready", "loading"} => view.active = 0 /\ view.results = NoResults

RuntimeInv == RuntimeType /\ NewestWins /\ HelperOwned /\ RefreshOnCourse
ViewInv ==
  ViewType /\ Consistent(view, viewRoot) /\ Follows /\ SupersededIsCancelled /\ SearchesKnown

LEMMA Parts == IInv <=> RuntimeInv /\ ViewInv
<1>1. TypeOK <=> RuntimeType /\ ViewType
  BY DEF TypeOK, RuntimeType, ViewType, Views, Calls
<1>2. ViewType => (ResultsBelong <=> Consistent(view, viewRoot) /\ Follows)
  BY DEF ResultsBelong, Consistent, Follows, ViewType
<1> QED
  BY <1>1, <1>2 DEF IInv, RuntimeInv, ViewInv

-----------------------------------------------------------------------------
(* reduceSearchState.                                                       *)

LEMMA FreshFits ==
  ASSUME NEW d \in Drafts, NEW r
  PROVE  Consistent(Fresh(d), r) /\ Fresh(d).active = 0 /\ Fresh(d).results = NoResults
BY DraftsAssumption DEF Consistent, Fresh, Views, Result, NoResults, SettledPhase

LEMMA EditFits ==
  ASSUME NEW v, NEW r, Consistent(v, r), NEW d \in Drafts
  PROVE  /\ Consistent(ReduceEdit(v, d), r)
         /\ ReduceEdit(v, d).active = v.active /\ ReduceEdit(v, d).results = v.results
<1> DEFINE w == ReduceEdit(v, d)
<1>1. v \in Views
  BY DEF Consistent
<1>2. /\ w.draft = d /\ w.executed = v.executed /\ w.active = v.active /\ w.results = v.results
      /\ w.phase = IF v.active = 0 THEN SettledPhase(v, d) ELSE "running"
  BY <1>1 DEF ReduceEdit, Views
<1>3. SettledPhase(w, w.draft) = SettledPhase(v, d)
  BY <1>2 DEF SettledPhase
<1>4. SettledPhase(v, d) \in {"idle", "ready", "stale"}
  BY DEF SettledPhase
<1>5. w \in Views
  BY <1>1, <1>4 DEF ReduceEdit, Views
<1> HIDE DEF w
<1>6. Consistent(w, r)
  BY <1>2, <1>3, <1>4, <1>5 DEF Consistent
<1> QED
  BY <1>2, <1>6 DEF w

LEMMA StartFits ==
  ASSUME NEW v, NEW r, Consistent(v, r), NEW i \in Requests
  PROVE  /\ Consistent(ReduceStart(v, i), r)
         /\ ReduceStart(v, i).active = i /\ ReduceStart(v, i).results = v.results
<1> DEFINE w == ReduceStart(v, i)
<1>1. v \in Views
  BY DEF Consistent
<1>2. /\ w.draft = v.draft /\ w.executed = v.executed /\ w.active = i /\ w.results = v.results
      /\ w.phase = "running"
  BY <1>1 DEF ReduceStart, Views
<1>3. w \in Views
  BY <1>1 DEF ReduceStart, Views
<1>4. i # 0
  BY BoundsAssumption DEF Requests
<1> HIDE DEF w
<1>5. Consistent(w, r)
  BY <1>2, <1>3, <1>4 DEF Consistent
<1> QED
  BY <1>2, <1>5 DEF w

LEMMA CancelFits ==
  ASSUME NEW v, NEW r, Consistent(v, r)
  PROVE  /\ Consistent(ReduceCancel(v, v.active), r)
         /\ ReduceCancel(v, v.active).active = 0
         /\ ReduceCancel(v, v.active).results = v.results
         /\ ReduceCancel(v, v.active).draft = v.draft
<1> DEFINE w == ReduceCancel(v, v.active)
<1>1. v \in Views
  BY DEF Consistent
<1>2. /\ w.draft = v.draft /\ w.executed = v.executed /\ w.active = 0 /\ w.results = v.results
      /\ w.phase = SettledPhase(v, v.draft)
  BY <1>1 DEF ReduceCancel, Views
<1>3. SettledPhase(w, w.draft) = SettledPhase(v, v.draft)
  BY <1>2 DEF SettledPhase
<1>4. SettledPhase(v, v.draft) \in {"idle", "ready", "stale"}
  BY DEF SettledPhase
<1>5. w \in Views
  BY <1>1, <1>4 DEF ReduceCancel, Views
<1> HIDE DEF w
<1>6. Consistent(w, r)
  BY <1>2, <1>3, <1>4, <1>5 DEF Consistent
<1> QED
  BY <1>2, <1>6 DEF w

(* Without an active search, the view may show an error. *)
LEMMA ErrorFits ==
  ASSUME NEW v, NEW r, Consistent(v, r), v.active = 0
  PROVE  /\ Consistent([v EXCEPT !.phase = "error"], r)
         /\ [v EXCEPT !.phase = "error"].active = 0
         /\ [v EXCEPT !.phase = "error"].results = v.results
<1> DEFINE w == [v EXCEPT !.phase = "error"]
<1>1. v \in Views
  BY DEF Consistent
<1>2. /\ w.draft = v.draft /\ w.executed = v.executed /\ w.active = v.active
      /\ w.results = v.results /\ w.phase = "error" /\ w \in Views
  BY <1>1 DEF Views
<1> HIDE DEF w
<1>3. Consistent(w, r)
  BY <1>2 DEF Consistent
<1> QED
  BY <1>2, <1>3 DEF w

LEMMA SuccessFits ==
  ASSUME NEW v, NEW r \in Roots, Consistent(v, r), NEW d \in Drafts
  PROVE  LET w == ReduceSuccess(v, v.active, [root |-> r, draft |-> d]) IN
         Consistent(w, r) /\ w.active = 0
<1> DEFINE results == [root |-> r, draft |-> d]
           w == ReduceSuccess(v, v.active, results)
<1>1. v \in Views
  BY DEF Consistent
<1>2. /\ w.draft = v.draft /\ w.executed = d /\ w.active = 0 /\ w.results = results
      /\ w.phase = IF d = v.draft THEN "ready" ELSE "stale"
  BY <1>1 DEF ReduceSuccess, Views
<1>3. d # None /\ results # NoResults /\ results \in Result
  BY DraftsAssumption DEF NoResults, Result
<1>4. SettledPhase(w, w.draft) = IF d = v.draft THEN "ready" ELSE "stale"
  BY <1>2, <1>3 DEF SettledPhase
<1>5. w \in Views
  BY <1>1, <1>3 DEF ReduceSuccess, Views
<1> HIDE DEF w
<1>6. Consistent(w, r)
  BY <1>2, <1>3, <1>4, <1>5 DEF Consistent
<1> QED
  BY <1>2, <1>6 DEF w

LEMMA FailureFits ==
  ASSUME NEW v, NEW r, Consistent(v, r)
  PROVE  LET w == ReduceFailure(v, v.active) IN
         Consistent(w, r) /\ w.active = 0 /\ w.results = v.results
<1> DEFINE w == ReduceFailure(v, v.active)
<1>1. v \in Views
  BY DEF Consistent
<1>2. /\ w.draft = v.draft /\ w.executed = v.executed /\ w.active = 0
      /\ w.results = v.results /\ w.phase = "error" /\ w \in Views
  BY <1>1 DEF ReduceFailure, Views
<1> HIDE DEF w
<1>3. Consistent(w, r)
  BY <1>2 DEF Consistent
<1> QED
  BY <1>2, <1>3 DEF w

-----------------------------------------------------------------------------
(* The steps of the view.                                                   *)

(* What cancelActiveSearch leaves is cancelled. *)
LEMMA TokenFits ==
  ASSUME ViewInv
  PROVE  /\ TokenCancelled \in [Requests -> Calls]
         /\ \A i \in Requests :
              /\ TokenCancelled[i].stage = searches[i].stage
              /\ TokenCancelled[i].root = searches[i].root
              /\ TokenCancelled[i].draft = searches[i].draft
              /\ TokenCancelled[i].stage = "running" => TokenCancelled[i].cancelled
<1>1. searches \in [Requests -> Calls] /\ cancellation \in Requests \cup {0}
      /\ cancellation = view.active
      /\ \A i \in Requests : searches[i].stage = "running" /\ ~searches[i].cancelled =>
                               view.active = i
  BY DEF ViewInv, ViewType, SupersededIsCancelled
<1>2. 0 \notin Requests
  BY BoundsAssumption DEF Requests
<1>3. CASE cancellation = 0
  <2>1. TokenCancelled = searches
    BY <1>3 DEF TokenCancelled
  <2> QED
    BY <1>1, <1>2, <1>3, <2>1
<1>4. CASE cancellation # 0
  <2> DEFINE s == [searches[cancellation] EXCEPT !.cancelled = TRUE]
  <2>1. cancellation \in Requests
    BY <1>1, <1>4
  <2>2. /\ s \in Calls /\ s.stage = searches[cancellation].stage
        /\ s.root = searches[cancellation].root /\ s.draft = searches[cancellation].draft
        /\ s.cancelled
    BY <1>1, <2>1 DEF Calls
  <2>3. TokenCancelled = [searches EXCEPT ![cancellation] = s]
    BY <1>4 DEF TokenCancelled
  <2> HIDE DEF s
  <2>4. TokenCancelled[cancellation] = s
    BY <1>1, <2>1, <2>3
  <2>5. \A i \in Requests : i # cancellation => TokenCancelled[i] = searches[i]
    BY <1>1, <2>3
  <2>6. TokenCancelled \in [Requests -> Calls]
    BY <1>1, <2>2, <2>3
  <2> QED
    BY <1>1, <2>2, <2>4, <2>5, <2>6
<1> QED
  BY <1>3, <1>4

(* A view that is rid of its search, whatever repository it is of. *)
LEMMA SearchGone ==
  ASSUME ViewInv, searches' = TokenCancelled, cancellation' = 0, view'.active = 0
  PROVE  SupersededIsCancelled' /\ SearchesKnown' /\ searches' \in [Requests -> Calls]
<1>1. 0 \notin Requests
  BY BoundsAssumption DEF Requests
<1>2. \A i \in Requests : view'.active # i
  BY <1>1
<1>3. SupersededIsCancelled'
  BY <1>2, TokenFits DEF SupersededIsCancelled
<1>4. SearchesKnown'
  BY TokenFits DEF ViewInv, SearchesKnown
<1> QED
  BY <1>3, <1>4, TokenFits

LEMMA InactiveFits ==
  ASSUME ViewInv
  PROVE  /\ Consistent(Inactive, viewRoot) /\ Inactive.active = 0
         /\ Inactive.results = view.results
BY CancelFits DEF ViewInv, Inactive

LEMMA ResetFits ==
  ASSUME ViewInv, ResetView, UNCHANGED nextRequestId, viewRoot' \in Roots \cup {None},
         phase' = "ready" => viewRoot' = root'
  PROVE  ViewInv'
<1>1. view.draft \in Drafts
  BY DEF ViewInv, ViewType, Views
<1>2. Consistent(view', viewRoot') /\ view'.active = 0 /\ view'.results = NoResults
  BY <1>1, FreshFits DEF ResetView
<1>3. SupersededIsCancelled' /\ SearchesKnown' /\ searches' \in [Requests -> Calls]
  BY <1>2, SearchGone DEF ResetView
<1>4. ViewType'
  BY <1>2, <1>3 DEF ViewInv, ViewType, ResetView, Consistent, Result
<1>5. Follows'
  BY <1>2 DEF Follows, ResetView
<1> QED
  BY <1>2, <1>3, <1>4, <1>5 DEF ViewInv, Consistent, SettledPhase

(* runtimeChanged. *)
LEMMA ChangeFits ==
  ASSUME ViewInv, NEW p, NEW r \in Roots \cup {None}, p = "ready" => r \in Roots, SetState(p, r)
  PROVE  ViewInv'
<1>1. phase' = p /\ root' = r /\ RuntimeChanged(p, r)
  BY DEF SetState
<1>2. viewRoot' = IF p = "ready" THEN r ELSE IF p = "loading" THEN viewRoot ELSE None
  BY <1>1 DEF RuntimeChanged
<1>3. viewRoot \in Roots \cup {None} /\ viewRoot' \in Roots \cup {None}
  BY <1>2 DEF ViewInv, ViewType
<1>4. UNCHANGED nextRequestId
  BY <1>1 DEF RuntimeChanged
<1>5. CASE ResetView
  BY <1>1, <1>2, <1>3, <1>4, <1>5, ResetFits
<1>6. CASE ~ResetView
  <2>1. /\ UNCHANGED <<view, searches, cancellation, nodes>>
        /\ p \in {"ready", "loading"}
        /\ p = "ready" => viewRoot \in {None, r}
    BY <1>1, <1>6 DEF RuntimeChanged
  <2>2. CASE viewRoot' = viewRoot
    <3>1. ViewType'
      BY <1>3, <1>4, <2>1 DEF ViewInv, ViewType
    <3>2. Consistent(view', viewRoot')
      BY <2>1, <2>2 DEF ViewInv
    <3>3. Follows'
      BY <1>1, <1>2, <2>1 DEF ViewInv, Follows
    <3>4. SupersededIsCancelled' /\ SearchesKnown'
      BY <2>1, <2>2 DEF ViewInv, SupersededIsCancelled, SearchesKnown
    <3> QED
      BY <3>1, <3>2, <3>3, <3>4 DEF ViewInv, Consistent, SettledPhase
  <2>3. CASE viewRoot' # viewRoot
    <3>1. viewRoot = None /\ viewRoot' = r
      BY <1>2, <2>1, <2>3
    <3>2. view.results = NoResults
      <4>1. view.results # NoResults => view.results.root \in Roots
        BY DEF ViewInv, ViewType, Views, Result
      <4>2. view.results # NoResults => view.results.root = None
        BY <3>1 DEF ViewInv, Consistent
      <4> QED
        BY <4>1, <4>2, DraftsAssumption
    <3>3. \A i \in Requests : view.active # i
      BY <3>1, DraftsAssumption DEF ViewInv, SupersededIsCancelled, SearchesKnown
    <3>4. ViewType'
      BY <1>3, <1>4, <2>1 DEF ViewInv, ViewType
    <3>5. Consistent(view', viewRoot')
      BY <2>1, <3>2 DEF ViewInv, Consistent
    <3>6. Follows'
      BY <1>1, <1>2, <2>1 DEF ViewInv, Follows
    <3>7. SupersededIsCancelled' /\ SearchesKnown'
      BY <2>1, <3>3 DEF ViewInv, SupersededIsCancelled, SearchesKnown
    <3> QED
      BY <3>4, <3>5, <3>6, <3>7 DEF ViewInv, Consistent, SettledPhase
  <2> QED
    BY <2>2, <2>3
<1> QED
  BY <1>5, <1>6

(* A runtime that has not told the view anything. *)
LEMMA ViewStays ==
  ASSUME ViewInv, UNCHANGED <<phase, root, viewVars>>
  PROVE  ViewInv'
<1>1. UNCHANGED <<phase, root, view, cancellation, nextRequestId, searches, viewRoot, nodes>>
  BY DEF viewVars
<1>2. ViewType'
  BY <1>1 DEF ViewInv, ViewType
<1>3. Consistent(view', viewRoot')
  BY <1>1 DEF ViewInv
<1>4. Follows'
  BY <1>1 DEF ViewInv, Follows
<1>5. SupersededIsCancelled' /\ SearchesKnown'
  BY <1>1 DEF ViewInv, SupersededIsCancelled, SearchesKnown
<1> QED
  BY <1>2, <1>3, <1>4, <1>5 DEF ViewInv, Consistent, SettledPhase

(* What the view's own commands have in common. *)
LEMMA CommandFits ==
  ASSUME ViewInv, UNCHANGED <<phase, root, viewRoot, nodes>>, Consistent(view', viewRoot),
         view'.results = view.results,
         phase \notin {"ready", "loading"} => view'.active = 0,
         cancellation' \in Requests \cup {0}, nextRequestId' \in 1..(MaxSearches + 1),
         searches' \in [Requests -> Calls],
         SupersededIsCancelled', SearchesKnown'
  PROVE  ViewInv'
<1>1. ViewType'
  BY DEF ViewInv, ViewType, Consistent
<1>2. Follows'
  BY DEF ViewInv, Follows
<1>3. Consistent(view', viewRoot')
  OBVIOUS
<1> QED
  BY <1>1, <1>2, <1>3 DEF ViewInv, Consistent, SettledPhase

LEMMA EditStep ==
  ASSUME ViewInv, NEW d \in Drafts, Edit(d)
  PROVE  ViewInv'
<1>1. UNCHANGED <<phase, root, cancellation, nextRequestId, searches, viewRoot, nodes>>
  BY DEF Edit, runtimeVars
<1>2. /\ Consistent(view', viewRoot) /\ view'.active = view.active
      /\ view'.results = view.results
  BY EditFits DEF Edit, ViewInv
<1>3. SupersededIsCancelled' /\ SearchesKnown'
  BY <1>1, <1>2 DEF ViewInv, SupersededIsCancelled, SearchesKnown
<1>4. /\ cancellation' \in Requests \cup {0} /\ nextRequestId' \in 1..(MaxSearches + 1)
      /\ searches' \in [Requests -> Calls]
      /\ phase \notin {"ready", "loading"} => view'.active = 0
  BY <1>1, <1>2 DEF ViewInv, ViewType, Follows
<1> QED
  BY <1>1, <1>2, <1>3, <1>4, CommandFits

LEMMA RefuseStep ==
  ASSUME ViewInv, NEW d \in Drafts, RefuseSearch(d)
  PROVE  ViewInv'
<1>1. /\ UNCHANGED <<phase, root, nextRequestId, viewRoot, nodes>>
      /\ searches' = TokenCancelled /\ cancellation' = 0
      /\ view' = [ReduceEdit(Inactive, d) EXCEPT !.phase = "error"]
  BY DEF RefuseSearch, runtimeVars
<1>2. /\ Consistent(ReduceEdit(Inactive, d), viewRoot) /\ ReduceEdit(Inactive, d).active = 0
      /\ ReduceEdit(Inactive, d).results = view.results
  BY InactiveFits, EditFits
<1>3. Consistent(view', viewRoot) /\ view'.active = 0 /\ view'.results = view.results
  BY <1>1, <1>2, ErrorFits
<1>4. SupersededIsCancelled' /\ SearchesKnown' /\ searches' \in [Requests -> Calls]
  BY <1>1, <1>3, SearchGone
<1>5. nextRequestId' \in 1..(MaxSearches + 1)
  BY <1>1 DEF ViewInv, ViewType
<1> QED
  BY <1>1, <1>3, <1>4, <1>5, CommandFits

LEMMA CancelStep ==
  ASSUME ViewInv, CancelSearch
  PROVE  ViewInv'
<1>1. /\ UNCHANGED <<phase, root, nextRequestId, viewRoot, nodes>>
      /\ searches' = TokenCancelled /\ cancellation' = 0
      /\ view' = ReduceCancel(view, view.active)
  BY DEF CancelSearch, runtimeVars
<1>2. Consistent(view', viewRoot) /\ view'.active = 0 /\ view'.results = view.results
  BY <1>1, CancelFits DEF ViewInv
<1>3. SupersededIsCancelled' /\ SearchesKnown' /\ searches' \in [Requests -> Calls]
  BY <1>1, <1>2, SearchGone
<1>4. nextRequestId' \in 1..(MaxSearches + 1)
  BY <1>1 DEF ViewInv, ViewType
<1> QED
  BY <1>1, <1>2, <1>3, <1>4, CommandFits

LEMMA ClearStep ==
  ASSUME ViewInv, ClearSearch
  PROVE  ViewInv'
<1>1. ResetView /\ UNCHANGED <<phase, root, nextRequestId, viewRoot>>
  BY DEF ClearSearch, runtimeVars
<1>2. viewRoot' \in Roots \cup {None} /\ (phase' = "ready" => viewRoot' = root')
  BY <1>1 DEF ViewInv, ViewType, Follows
<1> QED
  BY <1>1, <1>2, ResetFits

LEMMA StartStep ==
  ASSUME ViewInv, phase = "ready" => root \in Roots, helper \in Generations \cup {0},
         NEW d \in Drafts, StartSearch(d)
  PROVE  ViewInv'
<1> DEFINE n == nextRequestId
           call == [stage |-> "running", cancelled |-> FALSE, root |-> root, draft |-> d,
                    client |-> helper]
<1>1. /\ UNCHANGED <<phase, root, viewRoot, nodes>>
      /\ phase = "ready" /\ n \in Requests
      /\ view' = ReduceStart(ReduceEdit(Inactive, d), n)
      /\ searches' = [TokenCancelled EXCEPT ![n] = call]
      /\ cancellation' = n /\ nextRequestId' = n + 1
  BY DEF StartSearch, runtimeVars
<1>2. /\ Consistent(ReduceEdit(Inactive, d), viewRoot)
      /\ ReduceEdit(Inactive, d).results = view.results
  BY InactiveFits, EditFits
<1>3. Consistent(view', viewRoot) /\ view'.active = n /\ view'.results = view.results
  BY <1>1, <1>2, StartFits
<1>4. call \in Calls /\ root \in Roots
  BY <1>1 DEF Calls
<1> HIDE DEF n
<1>5. /\ searches' \in [Requests -> Calls] /\ searches'[n] = call
      /\ \A i \in Requests : i # n => searches'[i] = TokenCancelled[i]
  BY <1>1, <1>4, TokenFits
<1>6. SupersededIsCancelled'
  <2>1. viewRoot' = root
    BY <1>1 DEF ViewInv, Follows
  <2>2. \A i \in Requests : searches'[i].stage = "running" /\ ~searches'[i].cancelled => i = n
    BY <1>5, TokenFits
  <2> QED
    BY <1>1, <1>3, <1>5, <2>1, <2>2 DEF SupersededIsCancelled
<1>7. SearchesKnown'
  BY <1>1, <1>4, <1>5, TokenFits DEF ViewInv, SearchesKnown
<1>8. cancellation' \in Requests \cup {0} /\ nextRequestId' \in 1..(MaxSearches + 1)
  BY <1>1, BoundsAssumption DEF Requests
<1> QED
  BY <1>1, <1>3, <1>5, <1>6, <1>7, <1>8, CommandFits

(* A search call settles: it was the active one, or it was cancelled. *)
LEMMA SettleFits ==
  ASSUME ViewInv, NEW i \in Requests, Settles(i),
         view.active = i => view'.active = 0,
         view.active # i => view' = view
  PROVE  /\ UNCHANGED <<phase, root, nextRequestId, viewRoot>>
         /\ cancellation' \in Requests \cup {0} /\ searches' \in [Requests -> Calls]
         /\ SupersededIsCancelled' /\ SearchesKnown'
<1> DEFINE s == [searches[i] EXCEPT !.stage = "settled"]
<1>1. /\ searches \in [Requests -> Calls] /\ cancellation \in Requests \cup {0}
      /\ SupersededIsCancelled /\ SearchesKnown
  BY DEF ViewInv, ViewType
<1>2. /\ searches[i].stage = "running" /\ searches' = [searches EXCEPT ![i] = s]
      /\ cancellation' = IF cancellation = i THEN 0 ELSE cancellation
      /\ UNCHANGED <<phase, root, nextRequestId, viewRoot>>
  BY DEF Settles, runtimeVars
<1>3. /\ s \in Calls /\ s.stage = "settled" /\ s.root = searches[i].root
      /\ s.draft = searches[i].draft
  BY <1>1 DEF Calls
<1> HIDE DEF s
<1>4. /\ searches' \in [Requests -> Calls] /\ searches'[i] = s
      /\ \A j \in Requests : j # i => searches'[j] = searches[j]
  BY <1>1, <1>2, <1>3
<1>5. SearchesKnown'
  BY <1>1, <1>2, <1>3, <1>4 DEF SearchesKnown
<1>6. cancellation' = view'.active /\ view'.active # i
  <2>1. cancellation = view.active /\ 0 \notin Requests
    BY <1>1, BoundsAssumption DEF SupersededIsCancelled, Requests
  <2> QED
    BY <1>2, <2>1
<1>7. \A j \in Requests : view'.active = j => view.active = j
  <2>1. 0 \notin Requests
    BY BoundsAssumption DEF Requests
  <2> QED
    BY <2>1
<1>8. SupersededIsCancelled'
  <2>1. \A j \in Requests : searches'[j].stage = "running" /\ ~searches'[j].cancelled =>
                              view'.active = j
    BY <1>1, <1>3, <1>4 DEF SupersededIsCancelled
  <2>2. \A j \in Requests : view'.active = j => /\ searches'[j].stage = "running"
                                                /\ ~searches'[j].cancelled
                                                /\ searches'[j].root = viewRoot'
    BY <1>1, <1>2, <1>4, <1>6, <1>7 DEF SupersededIsCancelled
  <2> QED
    BY <1>6, <2>1, <2>2 DEF SupersededIsCancelled
<1> QED
  BY <1>1, <1>2, <1>4, <1>5, <1>8

LEMMA SucceedStep ==
  ASSUME ViewInv, NEW i \in Requests, SearchSucceeds(i)
  PROVE  ViewInv'
<1> DEFINE results == [root |-> searches[i].root, draft |-> searches[i].draft]
<1>1. Settles(i) /\ view' = ReduceSuccess(view, i, results) /\ nodes' = view'.results
  BY DEF SearchSucceeds
<1>2. searches[i].root \in Roots /\ searches[i].draft \in Drafts
  BY <1>1 DEF ViewInv, SearchesKnown, Settles
<1>3. view.active # i => view' = view
  BY <1>1 DEF ReduceSuccess
<1>4. view.active = i => Consistent(view', viewRoot) /\ view'.active = 0
  <2> SUFFICES ASSUME view.active = i
               PROVE  Consistent(view', viewRoot) /\ view'.active = 0
    OBVIOUS
  <2>1. searches[i].root = viewRoot
    BY DEF ViewInv, SupersededIsCancelled
  <2>2. viewRoot \in Roots
    BY <1>2, <2>1
  <2>3. view' = ReduceSuccess(view, view.active, [root |-> viewRoot, draft |-> searches[i].draft])
    BY <1>1, <2>1
  <2>4. Consistent(view, viewRoot)
    BY DEF ViewInv
  <2> QED
    BY <1>2, <2>2, <2>3, <2>4, SuccessFits
<1>5. Consistent(view', viewRoot)
  BY <1>3, <1>4 DEF ViewInv
<1>6. /\ UNCHANGED <<phase, root, nextRequestId, viewRoot>>
      /\ cancellation' \in Requests \cup {0} /\ searches' \in [Requests -> Calls]
      /\ SupersededIsCancelled' /\ SearchesKnown'
  BY <1>1, <1>3, <1>4, SettleFits
<1>7. view' \in Views /\ nodes' \in Result
  BY <1>1, <1>5 DEF Consistent, Views
<1>8. ViewType'
  BY <1>6, <1>7 DEF ViewInv, ViewType
<1>9. Follows'
  <2>1. phase \notin {"ready", "loading"} => view.active # i
    <3>1. i # 0
      BY BoundsAssumption DEF Requests
    <3> QED
      BY <3>1 DEF ViewInv, Follows
  <2> QED
    BY <1>1, <1>3, <1>6, <2>1 DEF ViewInv, Follows
<1>10. Consistent(view', viewRoot')
  BY <1>5, <1>6
<1> QED
  BY <1>6, <1>8, <1>9, <1>10 DEF ViewInv, Consistent, SettledPhase

LEMMA FailStep ==
  ASSUME ViewInv, NEW i \in Requests, SearchFails(i)
  PROVE  ViewInv'
<1>1. /\ Settles(i) /\ UNCHANGED nodes
      /\ view' = IF searches[i].cancelled THEN view ELSE ReduceFailure(view, i)
  BY DEF SearchFails
<1>2. view.active # i => view' = view
  BY <1>1 DEF ReduceFailure
<1>3. view.active = i =>
        Consistent(view', viewRoot) /\ view'.active = 0 /\ view'.results = view.results
  <2> SUFFICES ASSUME view.active = i
               PROVE  Consistent(view', viewRoot) /\ view'.active = 0
                      /\ view'.results = view.results
    OBVIOUS
  <2>1. ~searches[i].cancelled
    BY DEF ViewInv, SupersededIsCancelled
  <2>2. view' = ReduceFailure(view, view.active)
    BY <1>1, <2>1
  <2>3. Consistent(view, viewRoot)
    BY DEF ViewInv
  <2> QED
    BY <2>2, <2>3, FailureFits
<1>4. Consistent(view', viewRoot) /\ view'.results = view.results
  BY <1>2, <1>3 DEF ViewInv
<1>5. /\ UNCHANGED <<phase, root, nextRequestId, viewRoot>>
      /\ cancellation' \in Requests \cup {0} /\ searches' \in [Requests -> Calls]
      /\ SupersededIsCancelled' /\ SearchesKnown'
  BY <1>1, <1>2, <1>3, SettleFits
<1>6. /\ nextRequestId' \in 1..(MaxSearches + 1)
      /\ phase \notin {"ready", "loading"} => view'.active = 0
  BY <1>2, <1>3, <1>5 DEF ViewInv, ViewType, Follows
<1> QED
  BY <1>1, <1>4, <1>5, <1>6, CommandFits

-----------------------------------------------------------------------------
(* The steps of the runtime.                                                *)

(* Who owns which client. *)
Clients(cs, h, d) ==
  /\ cs \in [Generations -> {"none", "starting", "live", "closed"}]
  /\ \A c \in Generations :
       /\ cs[c] = "live" => h = c
       /\ cs[c] = "starting" => h = 0 /\ d # NoDiscovery /\ d.at = 0 /\ d.client = c

LEMMA RuntimeClients ==
  ASSUME RuntimeInv
  PROVE  Clients(clients, helper, discovery)
<1>1. 0 = NoDiscovery.client
  BY DEF NoDiscovery
<1>2. discovery # NoDiscovery => discovery.at \in Nat
  BY DEF RuntimeInv, RuntimeType
<1> QED
  BY <1>2 DEF RuntimeInv, RuntimeType, HelperOwned, RefreshOnCourse, Clients, Discovering

(* helper?.dispose() leaves no client that runs, but one that starts. *)
LEMMA ClosedFits ==
  ASSUME NEW cs, NEW h \in Generations \cup {0}, NEW d, Clients(cs, h, d)
  PROVE  /\ Closed(cs, h) \in [Generations -> {"none", "starting", "live", "closed"}]
         /\ \A c \in Generations :
              /\ Closed(cs, h)[c] # "live"
              /\ Closed(cs, h)[c] = "starting" => cs[c] = "starting"
              /\ cs[c] = "starting" => Closed(cs, h)[c] = "starting"
              /\ cs[c] = "none" => h = c \/ Closed(cs, h)[c] = "none"
<1>1. 0 \notin Generations
  BY BoundsAssumption DEF Generations
<1>2. CASE h = 0
  BY <1>1, <1>2 DEF Closed, Clients
<1>3. CASE h # 0
  <2>1. Closed(cs, h) = [cs EXCEPT ![h] = "closed"]
    BY <1>3 DEF Closed
  <2>2. \A c \in Generations : Closed(cs, h)[c] = IF c = h THEN "closed" ELSE cs[c]
    BY <2>1 DEF Clients
  <2>3. Closed(cs, h) \in [Generations -> {"none", "starting", "live", "closed"}]
    BY <1>3, <2>1 DEF Clients
  <2> QED
    BY <1>3, <2>2, <2>3 DEF Clients
<1> QED
  BY <1>2, <1>3

(* The view is told of every change of the runtime's state. *)
Told ==
  \/ \E p \in Phases, r \in Roots \cup {None} : (p = "ready" => r \in Roots) /\ SetState(p, r)
  \/ UNCHANGED <<phase, root, viewVars>>

LEMMA ToldFits ==
  ASSUME ViewInv, Told
  PROVE  ViewInv'
BY ViewStays, ChangeFits DEF Told

(* No client starts, and one that runs is h. *)
Settled(cs, h) ==
  /\ h \in Generations \cup {0}
  /\ cs \in [Generations -> {"none", "starting", "live", "closed"}]
  /\ \A c \in Generations : cs[c] # "starting" /\ (cs[c] = "live" => h = c)

(* A refreshTrusted that begins for the newest refresh. *)
LEMMA BeginFits ==
  ASSUME NEW g \in Generations, NEW t \in Targets, NEW h, NEW cs, Settled(cs, h),
         Begin(g, t, h, cs), trusted' = TRUE, generation' = g, newest' = t,
         candidate' \in Candidates \cup {None},
         waiting' \in [gen : Generations, target : Targets] \cup {NoRefresh},
         waiting' # NoRefresh => waiting'.gen <= g /\ (waiting'.gen = g => waiting'.target = t)
  PROVE  RuntimeInv' /\ Told
<1> DEFINE d == [gen |-> g, target |-> t, at |-> IF h = 0 THEN 0 ELSE 1,
                 client |-> IF h = 0 THEN g ELSE h]
<1>1. /\ SetState("loading", None) /\ phase' = "loading" /\ root' = None
      /\ discovery' = d /\ helper' = h
      /\ clients' = IF h = 0 THEN [cs EXCEPT ![g] = "starting"] ELSE cs
  BY DEF Begin, SetState
<1>2. /\ h \in Generations \cup {0} /\ 0 \notin Generations
      /\ cs \in [Generations -> {"none", "starting", "live", "closed"}]
      /\ \A c \in Generations : cs[c] # "starting" /\ (cs[c] = "live" => h = c)
  BY BoundsAssumption DEF Settled, Generations
<1>3. /\ d.gen = g /\ d.target = t /\ d.at = (IF h = 0 THEN 0 ELSE 1)
      /\ d.client = (IF h = 0 THEN g ELSE h) /\ d # NoDiscovery
      /\ d \in [gen : Generations, target : Targets, at : Nat, client : Generations]
  BY <1>2 DEF NoDiscovery
<1> HIDE DEF d
<1>4. /\ clients' \in [Generations -> {"none", "starting", "live", "closed"}]
      /\ \A c \in Generations :
           /\ clients'[c] = "live" => h = c
           /\ clients'[c] = "starting" => h = 0 /\ c = g
      /\ h = 0 => clients'[g] = "starting"
  <2>1. CASE h = 0
    <3>1. clients' = [cs EXCEPT ![g] = "starting"]
      BY <1>1, <2>1
    <3>2. \A c \in Generations : clients'[c] = IF c = g THEN "starting" ELSE cs[c]
      BY <1>2, <3>1
    <3> QED
      BY <1>2, <2>1, <3>1, <3>2
  <2>2. CASE h # 0
    BY <1>1, <1>2, <2>2
  <2> QED
    BY <2>1, <2>2
<1>5. RuntimeType'
  <2>1. generation' \in 0..MaxRefreshes /\ trusted' \in BOOLEAN
    BY BoundsAssumption DEF Generations
  <2>2. phase' \in Phases /\ root' \in Roots \cup {None}
    BY <1>1 DEF Phases
  <2>3. helper' \in Generations \cup {0}
    BY <1>1, <1>2
  <2>4. discovery' \in [gen : Generations, target : Targets, at : Nat, client : Generations]
                         \cup {NoDiscovery}
    BY <1>1, <1>3
  <2> QED
    BY <1>4, <2>1, <2>2, <2>3, <2>4 DEF RuntimeType
<1>6. NewestWins'
  BY <1>1, <1>3 DEF NewestWins
<1>7. HelperOwned'
  BY <1>1, <1>3, <1>4 DEF HelperOwned
<1>8. RefreshOnCourse'
  <2>1. Len(t.candidates) \in Nat \ {0}
    BY TargetsAssumption
  <2>2. d.at <= Len(t.candidates) /\ (d.at > 0 <=> h # 0) /\ g <= g
    BY <1>3, <2>1 DEF Generations
  <2>3. ~Stale' /\ (Discovering' <=> h # 0)
    BY <1>1, <1>3, <2>2 DEF Stale, Discovering
  <2> QED
    BY <1>1, <1>3, <1>4, <2>2, <2>3 DEF RefreshOnCourse
<1>9. Told
  BY <1>1 DEF Told, Phases
<1> QED
  BY <1>5, <1>6, <1>7, <1>8, <1>9 DEF RuntimeInv

(* A discovery that was overtaken ends. *)
LEMMA EndStaleFits ==
  ASSUME RuntimeInv, discovery # NoDiscovery, Stale, NEW h, NEW cs, Settled(cs, h),
         EndStale(h, cs)
  PROVE  RuntimeInv' /\ Told
<1>1. /\ waiting' = NoRefresh /\ UNCHANGED <<trusted, generation, newest, candidate>>
      /\ \/ waiting.gen = generation /\ Begin(waiting.gen, waiting.target, h, cs)
         \/ /\ waiting.gen # generation
            /\ discovery' = NoDiscovery /\ helper' = h /\ clients' = cs
            /\ UNCHANGED <<phase, root, viewVars>>
  BY DEF EndStale
<1>2. /\ trusted = TRUE /\ generation \in Generations
      /\ phase \in {"loading", "idle", "untrusted", "unsupported"}
  <2>1. discovery.gen \in 1..MaxRefreshes /\ discovery.gen <= generation
        /\ generation \in 0..MaxRefreshes /\ MaxRefreshes \in Nat
    BY BoundsAssumption DEF RuntimeInv, RuntimeType, RefreshOnCourse, Generations
  <2>2. generation \in Generations
    BY <2>1 DEF Generations
  <2> QED
    BY <2>2 DEF RuntimeInv, RuntimeType, RefreshOnCourse
<1>3. CASE waiting.gen = generation /\ Begin(waiting.gen, waiting.target, h, cs)
  <2>1. waiting # NoRefresh
    BY <1>2, <1>3, BoundsAssumption DEF NoRefresh, Generations
  <2>2. waiting.target = newest /\ waiting.target \in Targets
    BY <1>3, <2>1 DEF RuntimeInv, RefreshOnCourse, RuntimeType
  <2>3. candidate' \in Candidates \cup {None}
    BY <1>1 DEF RuntimeInv, RuntimeType
  <2> QED
    BY <1>1, <1>2, <1>3, <2>2, <2>3, BeginFits
<1>4. CASE /\ waiting.gen # generation
           /\ discovery' = NoDiscovery /\ helper' = h /\ clients' = cs
           /\ UNCHANGED <<phase, root, viewVars>>
  <2>1. ~NewestQueued
    BY <1>4 DEF NewestQueued
  <2>2. phase # "loading" /\ newest = None
    BY <1>2, <2>1 DEF RuntimeInv, NewestWins, Stale
  <2>3. RuntimeType'
    BY <1>1, <1>4 DEF RuntimeInv, RuntimeType, Settled
  <2>4. NewestWins'
    BY <1>1, <1>2, <1>4, <2>2 DEF NewestWins
  <2>5. HelperOwned'
    BY <1>1, <1>2, <1>4 DEF HelperOwned, Settled
  <2>6. RefreshOnCourse'
    BY <1>1, <1>2, <1>4 DEF RefreshOnCourse, Settled
  <2>7. Told
    BY <1>4 DEF Told
  <2> QED
    BY <2>3, <2>4, <2>5, <2>6, <2>7 DEF RuntimeInv
<1> QED
  BY <1>1, <1>3, <1>4

(* refreshTrusted's catch. *)
LEMMA ThrowFits ==
  ASSUME RuntimeInv, discovery # NoDiscovery, NEW cs, Settled(cs, helper), Throw(cs)
  PROVE  RuntimeInv' /\ Told
<1>1. CASE Stale /\ EndStale(helper, cs)
  BY <1>1, EndStaleFits
<1>2. CASE /\ ~Stale /\ EndCurrent /\ clients' = Closed(cs, helper)
           /\ helper' = 0 /\ candidate' = None /\ SetState("error", None)
  <2>1. /\ discovery' = NoDiscovery /\ UNCHANGED <<trusted, generation, newest, waiting>>
        /\ phase' = "error" /\ root' = None
    BY <1>2 DEF EndCurrent, SetState
  <2>2. Clients(cs, helper, NoDiscovery)
    BY DEF Settled, Clients
  <2>3. /\ clients' \in [Generations -> {"none", "starting", "live", "closed"}]
        /\ \A c \in Generations : clients'[c] \notin {"live", "starting"}
    BY <1>2, <2>2, ClosedFits DEF Settled
  <2>4. trusted = TRUE
    BY DEF RuntimeInv, RuntimeType, RefreshOnCourse
  <2>5. RuntimeType'
    BY <1>2, <2>1, <2>3 DEF RuntimeInv, RuntimeType, Phases
  <2>6. NewestWins'
    BY <2>1 DEF NewestWins
  <2>7. HelperOwned'
    BY <1>2, <2>1, <2>3, <2>4 DEF HelperOwned
  <2>8. RefreshOnCourse'
    BY <1>2, <2>1, <2>3, <2>4 DEF RuntimeInv, RefreshOnCourse
  <2>9. Told
    BY <1>2 DEF Told, Phases
  <2> QED
    BY <2>5, <2>6, <2>7, <2>8, <2>9 DEF RuntimeInv
<1> QED
  BY <1>1, <1>2 DEF Throw

(* A refresh that leaves nothing. *)
LEMMA NothingFits ==
  ASSUME RuntimeInv, NEW p \in {"untrusted", "unsupported", "idle"}, RefreshNothing(p),
         generation < MaxRefreshes, generation' = generation + 1,
         trusted' \in BOOLEAN, trusted => trusted'
  PROVE  RuntimeInv' /\ Told
<1>1. /\ newest' = None /\ clients' = Closed(clients, helper) /\ helper' = 0
      /\ candidate' = None /\ SetState(p, None) /\ phase' = p /\ root' = None
      /\ UNCHANGED <<waiting, discovery>>
  BY DEF RefreshNothing, SetState
<1>2. Clients(clients, helper, discovery)
  BY RuntimeClients
<1>3. /\ clients' \in [Generations -> {"none", "starting", "live", "closed"}]
      /\ \A c \in Generations :
           /\ clients'[c] # "live"
           /\ clients'[c] = "starting" <=> clients[c] = "starting"
           /\ clients[c] = "none" /\ helper = 0 => clients'[c] = "none"
  <2>1. helper \in Generations \cup {0} /\ 0 \notin Generations
    BY BoundsAssumption DEF RuntimeInv, RuntimeType, Generations
  <2> QED
    BY <1>1, <1>2, <2>1, ClosedFits
<1>4. generation \in Nat /\ generation' \in 0..MaxRefreshes
  BY BoundsAssumption DEF RuntimeInv, RuntimeType
<1>5. discovery # NoDiscovery => discovery.gen \in Nat /\ discovery.gen <= generation
  BY DEF RuntimeInv, RuntimeType, RefreshOnCourse, Generations
<1>6. waiting # NoRefresh => waiting.gen \in Nat /\ waiting.gen <= generation
  BY DEF RuntimeInv, RuntimeType, RefreshOnCourse, Generations
<1>7. RuntimeType'
  BY <1>1, <1>3, <1>4 DEF RuntimeInv, RuntimeType, Phases
<1>8. NewestWins'
  BY <1>1 DEF NewestWins
<1>9. HelperOwned'
  <2>1. \A c \in Generations : ~trusted' => clients[c] = "none" /\ helper = 0
    BY DEF RuntimeInv, HelperOwned, RefreshOnCourse
  <2>2. \A c \in Generations : clients[c] = "starting" => discovery.client = c
    BY DEF RuntimeInv, HelperOwned
  <2> QED
    BY <1>1, <1>3, <2>1, <2>2 DEF HelperOwned
<1>10. RefreshOnCourse'
  <2>1. discovery # NoDiscovery => discovery.gen <= generation' /\ Stale'
    BY <1>1, <1>4, <1>5 DEF Stale
  <2>2. waiting # NoRefresh => waiting.gen <= generation' /\ waiting.gen # generation'
    BY <1>4, <1>6
  <2>3. Discovering' <=> Discovering
    BY <1>1 DEF Discovering
  <2>4. discovery # NoDiscovery => trusted' /\ discovery.at <= Len(discovery.target.candidates)
    BY DEF RuntimeInv, RefreshOnCourse
  <2>5. discovery # NoDiscovery /\ ~Discovering => clients'[discovery.client] = "starting"
    BY <1>3 DEF RuntimeInv, RefreshOnCourse, RuntimeType
  <2>6. \A c \in Generations : clients'[c] = "starting" => discovery # NoDiscovery /\ ~Discovering
    BY <1>3 DEF RuntimeInv, RefreshOnCourse
  <2> QED
    BY <1>1, <2>1, <2>2, <2>3, <2>4, <2>5, <2>6 DEF RefreshOnCourse
<1>11. Told
  BY <1>1 DEF Told, Phases
<1> QED
  BY <1>7, <1>8, <1>9, <1>10, <1>11 DEF RuntimeInv

(* A refresh for a target. *)
LEMMA TargetFits ==
  ASSUME RuntimeInv, NEW t \in Targets, NEW force \in BOOLEAN, RefreshTarget(t, force),
         generation < MaxRefreshes, generation' = generation + 1, trusted' = TRUE
  PROVE  RuntimeInv' /\ Told
<1>1. newest' = t /\ candidate' = candidate
  BY DEF RefreshTarget
<1>2. /\ generation \in Nat /\ generation' \in 0..MaxRefreshes /\ generation' \in Generations
      /\ candidate' \in Candidates \cup {None}
  BY <1>1, BoundsAssumption DEF RuntimeInv, RuntimeType, Generations
<1>3. /\ discovery # NoDiscovery => discovery.gen \in Nat /\ discovery.gen <= generation
      /\ waiting # NoRefresh => waiting.gen \in Nat /\ waiting.gen <= generation
  BY DEF RuntimeInv, RuntimeType, RefreshOnCourse, Generations
<1>n. t # None
  BY TargetsAssumption
<1>4. CASE /\ ReadyForTarget(t)
           /\ UNCHANGED <<waiting, discovery, helper, clients, phase, root, viewVars>>
  <2>1. phase = "ready" /\ discovery = NoDiscovery
    BY <1>4 DEF ReadyForTarget, RuntimeInv, HelperOwned
  <2>2. RuntimeType'
    BY <1>1, <1>2, <1>4 DEF RuntimeInv, RuntimeType
  <2>3. NewestWins'
    <3>1. ReadyForTarget(newest)'
      BY <1>1, <1>4 DEF ReadyForTarget
    <3> QED
      BY <1>1, <1>4, <1>n, <2>1, <3>1 DEF NewestWins
  <2>4. HelperOwned'
    BY <1>4, <2>1 DEF RuntimeInv, HelperOwned
  <2>5. RefreshOnCourse'
    <3>1. waiting # NoRefresh => waiting.gen <= generation' /\ waiting.gen # generation'
      BY <1>2, <1>3
    <3>2. Discovering' <=> Discovering
      BY <1>4 DEF Discovering
    <3> QED
      BY <1>4, <2>1, <3>1, <3>2 DEF RuntimeInv, RefreshOnCourse
  <2>6. Told
    BY <1>4 DEF Told
  <2> QED
    BY <2>2, <2>3, <2>4, <2>5, <2>6 DEF RuntimeInv
<1>5. CASE /\ discovery # NoDiscovery
           /\ waiting' = [gen |-> generation + 1, target |-> t]
           /\ UNCHANGED <<discovery, helper, clients, phase, root, viewVars>>
  <2>1. /\ waiting' \in [gen : Generations, target : Targets]
        /\ waiting' = [gen |-> generation', target |-> newest']
        /\ waiting'.gen = generation' /\ waiting'.target = newest'
    BY <1>1, <1>2, <1>5
  <2>2. Stale' /\ discovery.gen <= generation' /\ (Discovering' <=> Discovering)
    BY <1>2, <1>3, <1>5 DEF Stale, Discovering
  <2>3. NewestQueued'
    BY <1>5, <2>1, <2>2 DEF NewestQueued, Stale
  <2>4. trusted = TRUE /\ phase \in {"loading", "idle", "untrusted", "unsupported"}
    BY <1>5 DEF RuntimeInv, RuntimeType, RefreshOnCourse
  <2>5. RuntimeType'
    BY <1>1, <1>2, <1>5, <2>1 DEF RuntimeInv, RuntimeType
  <2>6. NewestWins'
    BY <1>5, <2>3, <2>4 DEF NewestWins
  <2>7. HelperOwned'
    BY <1>5, <2>4 DEF RuntimeInv, HelperOwned
  <2>8. RefreshOnCourse'
    <3>1. generation' <= generation'
      BY <1>2
    <3> QED
      BY <1>5, <2>1, <2>2, <2>4, <3>1 DEF RuntimeInv, RefreshOnCourse
  <2>9. Told
    BY <1>5 DEF Told
  <2> QED
    BY <2>5, <2>6, <2>7, <2>8, <2>9 DEF RuntimeInv
<1>6. CASE /\ discovery = NoDiscovery /\ Begin(generation + 1, t, helper, clients)
           /\ UNCHANGED waiting
  <2>1. Settled(clients, helper)
    BY <1>6 DEF RuntimeInv, RuntimeType, HelperOwned, RefreshOnCourse, Settled
  <2>2. /\ waiting' \in [gen : Generations, target : Targets] \cup {NoRefresh}
        /\ waiting' # NoRefresh =>
             waiting'.gen <= generation' /\ (waiting'.gen = generation' => waiting'.target = t)
    BY <1>2, <1>3, <1>6 DEF RuntimeInv, RuntimeType
  <2> QED
    BY <1>1, <1>2, <1>6, <2>1, <2>2, BeginFits
<1> QED
  BY <1>4, <1>5, <1>6 DEF RefreshTarget

LEMMA RefreshFits ==
  ASSUME RuntimeInv, NEW force \in BOOLEAN, Refresh(force), trusted' \in BOOLEAN,
         trusted => trusted'
  PROVE  RuntimeInv' /\ Told
<1>1. generation < MaxRefreshes /\ generation' = generation + 1
  BY DEF Refresh
<1>2. CASE ~trusted' /\ RefreshNothing("untrusted")
  BY <1>1, <1>2, NothingFits
<1>3. CASE RefreshNothing("unsupported") \/ RefreshNothing("idle")
  BY <1>1, <1>3, NothingFits
<1>4. CASE trusted' /\ \E t \in Targets : RefreshTarget(t, force)
  BY <1>1, <1>4, TargetFits
<1> QED
  BY <1>2, <1>3, <1>4 DEF Refresh

LEMMA StartsFits ==
  ASSUME RuntimeInv, HelperStarts
  PROVE  RuntimeInv' /\ Told
<1> DEFINE c == discovery.client
<1>1. /\ discovery # NoDiscovery /\ ~Discovering /\ helper' = c
      /\ clients' = [clients EXCEPT ![c] = "live"] /\ discovery' = [discovery EXCEPT !.at = 1]
      /\ UNCHANGED <<trusted, generation, newest, waiting, phase, root, candidate, viewVars>>
  BY DEF HelperStarts
<1>2. /\ discovery \in [gen : Generations, target : Targets, at : Nat, client : Generations]
      /\ clients \in [Generations -> {"none", "starting", "live", "closed"}]
  BY <1>1 DEF RuntimeInv, RuntimeType
<1>3. /\ discovery' \in [gen : Generations, target : Targets, at : Nat, client : Generations]
      /\ discovery'.gen = discovery.gen /\ discovery'.target = discovery.target
      /\ discovery'.at = 1 /\ discovery'.client = c /\ discovery' # NoDiscovery
  BY <1>1, <1>2 DEF NoDiscovery
<1>4. trusted = TRUE /\ clients[c] = "starting" /\ helper = 0 /\ c \in Generations
  BY <1>1, <1>2 DEF RuntimeInv, RuntimeType, RefreshOnCourse, HelperOwned
<1> HIDE DEF c
<1>5. \A k \in Generations : clients'[k] = IF k = c THEN "live" ELSE clients[k]
  BY <1>1, <1>2
<1>6. \A k \in Generations : clients[k] \in {"live", "starting"} => k = c
  <2>1. 0 \notin Generations
    BY BoundsAssumption DEF Generations
  <2> QED
    BY <1>4, <2>1 DEF RuntimeInv, HelperOwned, c
<1>7. RuntimeType'
  <2>1. clients' \in [Generations -> {"none", "starting", "live", "closed"}]
    BY <1>1, <1>2
  <2> QED
    BY <1>1, <1>3, <1>4, <2>1 DEF RuntimeInv, RuntimeType
<1>8. NewestQueued' <=> NewestQueued
  BY <1>1, <1>3 DEF NewestQueued, Stale
<1>9. NewestWins'
  <2>1. ReadyForTarget(newest)' <=> ReadyForTarget(newest)
    BY <1>1 DEF ReadyForTarget
  <2> QED
    BY <1>1, <1>3, <1>8, <2>1 DEF RuntimeInv, NewestWins
<1>10. phase \in {"loading", "idle", "untrusted", "unsupported"}
  BY <1>1 DEF RuntimeInv, RefreshOnCourse
<1>11. HelperOwned'
  BY <1>1, <1>4, <1>5, <1>6, <1>10 DEF HelperOwned
<1>12. RefreshOnCourse'
  <2>1. Discovering' /\ (Stale' <=> Stale)
    BY <1>1, <1>3 DEF Discovering, Stale
  <2>2. 1 <= Len(discovery.target.candidates)
    BY <1>2, TargetsAssumption
  <2>3. \A k \in Generations : clients'[k] # "starting"
    BY <1>5, <1>6
  <2>4. discovery.gen <= generation /\ (~Stale => discovery.target = newest)
    BY <1>1 DEF RuntimeInv, RefreshOnCourse
  <2>5. waiting # NoRefresh =>
          waiting.gen <= generation /\ (waiting.gen = generation => waiting.target = newest)
    BY DEF RuntimeInv, RefreshOnCourse
  <2> QED
    BY <1>1, <1>3, <1>4, <1>10, <2>1, <2>2, <2>3, <2>4, <2>5 DEF RefreshOnCourse
<1>13. Told
  BY <1>1 DEF Told
<1> QED
  BY <1>7, <1>9, <1>11, <1>12, <1>13 DEF RuntimeInv

LEMMA FailsToStartFits ==
  ASSUME RuntimeInv, HelperFailsToStart
  PROVE  RuntimeInv' /\ Told
<1> DEFINE c == discovery.client
<1>1. discovery # NoDiscovery /\ ~Discovering /\ Throw(Closed(clients, c))
  BY DEF HelperFailsToStart
<1>2. /\ c \in Generations /\ clients[c] = "starting" /\ helper = 0
      /\ clients \in [Generations -> {"none", "starting", "live", "closed"}]
      /\ 0 \notin Generations
  BY <1>1, BoundsAssumption
     DEF RuntimeInv, RuntimeType, RefreshOnCourse, HelperOwned, Generations
<1>3. Closed(clients, c) = [clients EXCEPT ![c] = "closed"]
  BY <1>2 DEF Closed
<1>4. \A k \in Generations : clients[k] \notin {"live", "starting"} \/ k = c
  BY <1>2 DEF RuntimeInv, HelperOwned
<1> HIDE DEF c
<1>5. \A k \in Generations : Closed(clients, c)[k] = IF k = c THEN "closed" ELSE clients[k]
  BY <1>2, <1>3
<1>6. Settled(Closed(clients, c), helper)
  <2>1. Closed(clients, c) \in [Generations -> {"none", "starting", "live", "closed"}]
    BY <1>2, <1>3
  <2>2. \A k \in Generations : Closed(clients, c)[k] \notin {"live", "starting"}
    BY <1>4, <1>5
  <2> QED
    BY <1>2, <2>1, <2>2 DEF Settled
<1> QED
  BY <1>1, <1>6, ThrowFits

(* While a discovery goes through its candidates no client starts. *)
LEMMA DiscoveringSettled ==
  ASSUME RuntimeInv, Discovering
  PROVE  Settled(clients, helper) /\ discovery # NoDiscovery
<1>1. discovery # NoDiscovery
  BY DEF Discovering, NoDiscovery
<1> QED
  BY <1>1 DEF RuntimeInv, RuntimeType, HelperOwned, RefreshOnCourse, Settled

LEMMA NextCandidateFits ==
  ASSUME RuntimeInv, Discovering, ~LastCandidate, NextCandidate
  PROVE  RuntimeInv' /\ Told
<1>1. /\ discovery' = [discovery EXCEPT !.at = @ + 1]
      /\ UNCHANGED <<trusted, generation, newest, waiting, helper, clients, phase, root,
                     candidate, viewVars>>
  BY DEF NextCandidate
<1>2. /\ discovery # NoDiscovery
      /\ discovery \in [gen : Generations, target : Targets, at : Nat, client : Generations]
  BY DiscoveringSettled DEF RuntimeInv, RuntimeType
<1>3. /\ discovery' \in [gen : Generations, target : Targets, at : Nat, client : Generations]
      /\ discovery'.gen = discovery.gen /\ discovery'.target = discovery.target
      /\ discovery'.at = discovery.at + 1 /\ discovery'.client = discovery.client
  BY <1>1, <1>2
<1>4. Discovering' /\ (Stale' <=> Stale) /\ discovery' # NoDiscovery
  BY <1>1, <1>2, <1>3 DEF Discovering, Stale, NoDiscovery
<1>5. discovery'.at <= Len(discovery.target.candidates)
  <2>1. Len(discovery.target.candidates) \in Nat
    BY <1>2, TargetsAssumption
  <2>2. discovery.at <= Len(discovery.target.candidates)
        /\ discovery.at # Len(discovery.target.candidates)
    BY <1>2 DEF RuntimeInv, RefreshOnCourse, LastCandidate
  <2> QED
    BY <1>2, <1>3, <2>1, <2>2
<1>6. RuntimeType'
  BY <1>1, <1>3 DEF RuntimeInv, RuntimeType
<1>7. NewestWins'
  <2>1. NewestQueued' <=> NewestQueued
    BY <1>1, <1>2, <1>3, <1>4 DEF NewestQueued
  <2>2. ReadyForTarget(newest)' <=> ReadyForTarget(newest)
    BY <1>1 DEF ReadyForTarget
  <2> QED
    BY <1>1, <1>3, <2>1, <2>2 DEF RuntimeInv, NewestWins
<1>8. HelperOwned'
  BY <1>1, <1>2, <1>3 DEF RuntimeInv, HelperOwned
<1>9. RefreshOnCourse'
  <2>1. /\ trusted /\ phase \in {"loading", "idle", "untrusted", "unsupported"}
        /\ discovery.gen <= generation
        /\ ~Stale => discovery.target = newest /\ helper = discovery.client
        /\ \A c \in Generations : clients[c] # "starting"
        /\ waiting # NoRefresh =>
             waiting.gen <= generation /\ (waiting.gen = generation => waiting.target = newest)
    BY <1>2 DEF RuntimeInv, RefreshOnCourse
  <2> QED
    BY <1>1, <1>3, <1>4, <1>5, <2>1 DEF RefreshOnCourse
<1>10. Told
  BY <1>1 DEF Told
<1> QED
  BY <1>6, <1>7, <1>8, <1>9, <1>10 DEF RuntimeInv

LEMMA RejectsFits ==
  ASSUME RuntimeInv, DiscoverRejects
  PROVE  RuntimeInv' /\ Told
<1>1. Discovering /\ ((~LastCandidate /\ NextCandidate) \/ Throw(clients))
  BY DEF DiscoverRejects
<1>2. CASE ~LastCandidate /\ NextCandidate
  BY <1>1, <1>2, NextCandidateFits
<1>3. CASE Throw(clients)
  BY <1>1, <1>3, DiscoveringSettled, ThrowFits
<1> QED
  BY <1>1, <1>2, <1>3

LEMMA ResolvesFits ==
  ASSUME RuntimeInv, NEW r \in Roots, DiscoverResolves(r)
  PROVE  RuntimeInv' /\ Told
<1> DEFINE c == discovery.client
           t == discovery.target
           idle == phase \in {"idle", "untrusted", "unsupported"}
           h == IF idle /\ helper = c THEN 0 ELSE helper
           cs == IF idle THEN Closed(clients, c) ELSE clients
<1>1. /\ Discovering /\ clients[c] = "live"
      /\ \/ Stale /\ EndStale(h, cs)
         \/ ~Stale /\ IF LastCandidate THEN Throw(clients) ELSE NextCandidate
         \/ /\ ~Stale /\ t.expected \in {None, r} /\ EndCurrent
            /\ candidate' = t.candidates[discovery.at]
            /\ SetState("ready", r) /\ UNCHANGED <<helper, clients>>
  BY DEF DiscoverResolves
<1>2. /\ discovery # NoDiscovery /\ Settled(clients, helper)
      /\ discovery \in [gen : Generations, target : Targets, at : Nat, client : Generations]
  BY <1>1, DiscoveringSettled DEF RuntimeInv, RuntimeType
<1>3. c \in Generations /\ helper = c /\ c # 0
  BY <1>1, <1>2, BoundsAssumption DEF Settled, Generations
<1>4. CASE Stale /\ EndStale(h, cs)
  <2>1. Settled(cs, h)
    <3>1. CASE idle
      <4>1. cs = [clients EXCEPT ![c] = "closed"] /\ h = 0
        BY <1>3, <3>1 DEF Closed
      <4> HIDE DEF c, cs, h
      <4>2. \A k \in Generations : cs[k] = IF k = c THEN "closed" ELSE clients[k]
        BY <1>2, <4>1 DEF Settled
      <4>3. cs \in [Generations -> {"none", "starting", "live", "closed"}]
        BY <1>2, <4>1 DEF Settled
      <4> QED
        BY <1>2, <1>3, <4>1, <4>2, <4>3 DEF Settled
    <3>2. CASE ~idle
      BY <1>2, <3>2
    <3> QED
      BY <3>1, <3>2
  <2> HIDE DEF h, cs
  <2> QED
    BY <1>2, <1>4, <2>1, EndStaleFits
<1>5. CASE ~Stale /\ IF LastCandidate THEN Throw(clients) ELSE NextCandidate
  BY <1>1, <1>2, <1>5, ThrowFits, NextCandidateFits
<1>6. CASE /\ ~Stale /\ t.expected \in {None, r} /\ EndCurrent
           /\ candidate' = t.candidates[discovery.at]
           /\ SetState("ready", r) /\ UNCHANGED <<helper, clients>>
  <2>1. /\ discovery' = NoDiscovery /\ UNCHANGED <<trusted, generation, newest, waiting>>
        /\ phase' = "ready" /\ root' = r
    BY <1>6 DEF EndCurrent, SetState
  <2>2. t = newest /\ t \in Targets /\ trusted = TRUE
    BY <1>2, <1>6 DEF RuntimeInv, RuntimeType, RefreshOnCourse
  <2>3. discovery.at \in 1..Len(t.candidates)
    <3>1. Len(t.candidates) \in Nat /\ discovery.at \in Nat /\ discovery.at > 0
      BY <1>1, <1>2, TargetsAssumption DEF Discovering
    <3>2. discovery.at <= Len(t.candidates)
      BY <1>2 DEF RuntimeInv, RefreshOnCourse
    <3> QED
      BY <3>1, <3>2
  <2>4. candidate' \in Candidates
    BY <1>6, <2>2, <2>3 DEF Candidates
  <2>5. RuntimeType'
    BY <1>6, <2>1, <2>4 DEF RuntimeInv, RuntimeType, Phases
  <2>6. NewestWins'
    <3>1. newest' # None /\ t # None
      BY <2>1, <2>2, TargetsAssumption
    <3>2. ReadyForTarget(newest)'
      BY <1>6, <2>1, <2>2, <2>3 DEF ReadyForTarget
    <3> QED
      BY <2>1, <3>1, <3>2 DEF NewestWins
  <2>7. HelperOwned'
    BY <1>2, <1>3, <1>6, <2>1, <2>2 DEF HelperOwned, Settled
  <2>8. RefreshOnCourse'
    BY <1>2, <1>6, <2>1, <2>2 DEF RuntimeInv, RefreshOnCourse, Settled
  <2>9. Told
    BY <1>6 DEF Told, Phases
  <2> QED
    BY <2>5, <2>6, <2>7, <2>8, <2>9 DEF RuntimeInv
<1> QED
  BY <1>1, <1>4, <1>5, <1>6

LEMMA CrashFits ==
  ASSUME RuntimeInv, NEW c \in Generations, HelperCrashes(c)
  PROVE  RuntimeInv' /\ Told
<1>1. /\ clients[c] = "live" /\ clients' = [clients EXCEPT ![c] = "closed"]
      /\ UNCHANGED <<trusted, generation, newest, waiting, discovery, helper, phase, root,
                     candidate, viewVars>>
  BY DEF HelperCrashes
<1>2. clients \in [Generations -> {"none", "starting", "live", "closed"}]
  BY DEF RuntimeInv, RuntimeType
<1>3. /\ clients' \in [Generations -> {"none", "starting", "live", "closed"}]
      /\ \A k \in Generations : clients'[k] = IF k = c THEN "closed" ELSE clients[k]
  BY <1>1, <1>2
<1>4. RuntimeType'
  BY <1>1, <1>3 DEF RuntimeInv, RuntimeType
<1>5. NewestWins'
  <2>1. NewestQueued' <=> NewestQueued
    BY <1>1 DEF NewestQueued, Stale
  <2>2. ReadyForTarget(newest)' <=> ReadyForTarget(newest)
    BY <1>1 DEF ReadyForTarget
  <2> QED
    BY <1>1, <2>1, <2>2 DEF RuntimeInv, NewestWins
<1>6. HelperOwned'
  BY <1>1, <1>3 DEF RuntimeInv, HelperOwned
<1>7. RefreshOnCourse'
  <2>1. (Discovering' <=> Discovering) /\ (Stale' <=> Stale)
    BY <1>1 DEF Discovering, Stale
  <2>2. discovery # NoDiscovery => discovery.client \in Generations
    BY DEF RuntimeInv, RuntimeType
  <2> QED
    BY <1>1, <1>3, <2>1, <2>2 DEF RuntimeInv, RefreshOnCourse
<1>8. Told
  BY <1>1 DEF Told
<1> QED
  BY <1>4, <1>5, <1>6, <1>7, <1>8 DEF RuntimeInv

(* The commands of the view leave the runtime alone. *)
LEMMA RuntimeStays ==
  ASSUME RuntimeInv, UNCHANGED runtimeVars
  PROVE  RuntimeInv'
<1>1. UNCHANGED <<trusted, generation, newest, waiting, discovery, helper, clients, phase,
                  root, candidate>>
  BY DEF runtimeVars
<1>2. RuntimeType'
  BY <1>1 DEF RuntimeInv, RuntimeType
<1>3. NewestWins'
  <2>1. NewestQueued' <=> NewestQueued
    BY <1>1 DEF NewestQueued, Stale
  <2>2. ReadyForTarget(newest)' <=> ReadyForTarget(newest)
    BY <1>1 DEF ReadyForTarget
  <2> QED
    BY <1>1, <2>1, <2>2 DEF RuntimeInv, NewestWins
<1>4. HelperOwned'
  BY <1>1 DEF RuntimeInv, HelperOwned
<1>5. RefreshOnCourse'
  <2>1. (Discovering' <=> Discovering) /\ (Stale' <=> Stale)
    BY <1>1 DEF Discovering, Stale
  <2> QED
    BY <1>1, <2>1 DEF RuntimeInv, RefreshOnCourse
<1> QED
  BY <1>2, <1>3, <1>4, <1>5 DEF RuntimeInv

-----------------------------------------------------------------------------

LEMMA InitFits ==
  ASSUME Init
  PROVE  RuntimeInv /\ ViewInv
<1>1. RuntimeType
  BY BoundsAssumption DEF Init, RuntimeType, Phases
<1>2. NewestWins
  BY DEF Init, NewestWins
<1>3. HelperOwned
  BY DEF Init, HelperOwned
<1>4. RefreshOnCourse
  BY DEF Init, RefreshOnCourse
<1>5. PICK d \in Drafts : view = Fresh(d)
  BY DEF Init
<1>6. Consistent(view, viewRoot) /\ view.active = 0 /\ view.results = NoResults
  BY <1>5, FreshFits
<1>7. NoSearch \in Calls /\ NoSearch.stage = "none"
  BY DEF NoSearch, Calls
<1>8. searches \in [Requests -> Calls] /\ \A i \in Requests : searches[i].stage = "none"
  BY <1>7 DEF Init
<1>9. ViewType
  BY <1>6, <1>8, BoundsAssumption DEF Init, ViewType, Consistent, Result
<1>10. Follows
  BY <1>6 DEF Init, Follows
<1>11. SupersededIsCancelled
  <2>1. 0 \notin Requests
    BY BoundsAssumption DEF Requests
  <2> QED
    BY <1>6, <1>8, <2>1 DEF Init, SupersededIsCancelled
<1>12. SearchesKnown
  BY <1>8 DEF SearchesKnown
<1> QED
  BY <1>1, <1>2, <1>3, <1>4, <1>6, <1>9, <1>10, <1>11, <1>12 DEF RuntimeInv, ViewInv

LEMMA NextFits ==
  ASSUME RuntimeInv, ViewInv, [Next]_vars
  PROVE  RuntimeInv' /\ ViewInv'
<1>1. CASE UNCHANGED vars
  <2>1. UNCHANGED runtimeVars /\ UNCHANGED <<phase, root, viewVars>>
    BY <1>1 DEF vars, runtimeVars
  <2> QED
    BY <2>1, RuntimeStays, ViewStays
<1>2. CASE UserRefreshes \/ GrantTrust
  <2>1. PICK force \in BOOLEAN : Refresh(force) /\ trusted' \in BOOLEAN /\ (trusted => trusted')
    BY <1>2 DEF UserRefreshes, GrantTrust, RuntimeInv, RuntimeType
  <2> QED
    BY <2>1, RefreshFits, ToldFits
<1>3. CASE Start
  BY <1>3, StartsFits, FailsToStartFits, ToldFits DEF Start
<1>4. CASE Discover
  BY <1>4, RejectsFits, ResolvesFits, ToldFits DEF Discover
<1>5. CASE \E c \in Generations : HelperCrashes(c)
  BY <1>5, CrashFits, ToldFits
<1>6. ASSUME NEW d \in Drafts, Edit(d) \/ RefuseSearch(d) \/ StartSearch(d)
      PROVE  RuntimeInv' /\ ViewInv'
  <2>1. UNCHANGED runtimeVars
    BY <1>6 DEF Edit, RefuseSearch, StartSearch
  <2>2. (phase = "ready" => root \in Roots) /\ helper \in Generations \cup {0}
    BY DEF RuntimeInv, RuntimeType, RefreshOnCourse
  <2> QED
    BY <1>6, <2>1, <2>2, RuntimeStays, EditStep, RefuseStep, StartStep
<1>7. CASE CancelSearch \/ ClearSearch
  <2>1. UNCHANGED runtimeVars
    BY <1>7 DEF CancelSearch, ClearSearch
  <2> QED
    BY <1>7, <2>1, RuntimeStays, CancelStep, ClearStep
<1>8. ASSUME NEW i \in Requests, Answer(i)
      PROVE  RuntimeInv' /\ ViewInv'
  <2>1. UNCHANGED runtimeVars
    BY <1>8 DEF Answer, SearchSucceeds, SearchFails, Settles
  <2> QED
    BY <1>8, <2>1, RuntimeStays, SucceedStep, FailStep DEF Answer
<1> QED
  BY <1>1, <1>2, <1>3, <1>4, <1>5, <1>6, <1>7, <1>8 DEF Next

(* The repository on show is one the newest refresh asked for; no helper process is
   lost or doubled; the results on show belong to the session and to the draft the
   view names; and a search that was superseded has been cancelled. *)
THEOREM SessionIsConsistent == FairSpec => []IInv
<1>1. Init => RuntimeInv /\ ViewInv
  BY InitFits
<1>2. RuntimeInv /\ ViewInv /\ [Next]_vars => (RuntimeInv /\ ViewInv)'
  BY NextFits
<1>3. RuntimeInv /\ ViewInv => IInv
  BY Parts
<1> QED
  BY <1>1, <1>2, <1>3, PTL DEF Spec, FairSpec

-----------------------------------------------------------------------------
(* When the session changes (EditorSession relies on it).                   *)

\* The repository of runtime.repository.
Session == IF phase = "ready" THEN root ELSE None

\* A refresh that begins, or a discovery that no refresh has overtaken, changes
\* the session, and nothing else does.
ChangesInTurn == Session' # Session => generation' # generation \/ (discovery # NoDiscovery /\ ~Stale)

LEMMA ThrowInTurn ==
  ASSUME RuntimeInv, discovery # NoDiscovery, NEW cs, Throw(cs)
  PROVE  ChangesInTurn
<1>1. CASE Stale
  <2>1. PICK h, ds : EndStale(h, ds)
    BY <1>1 DEF Throw
  <2>2. phase # "ready"
    BY DEF RuntimeInv, RefreshOnCourse
  <2>3. UNCHANGED <<phase, root>> \/ phase' = "loading"
    BY <2>1 DEF EndStale, Begin, SetState
  <2> QED
    BY <2>2, <2>3 DEF ChangesInTurn, Session
<1>2. CASE ~Stale
  BY <1>2 DEF ChangesInTurn
<1> QED
  BY <1>1, <1>2

LEMMA StepInTurn ==
  ASSUME RuntimeInv, Next
  PROVE  ChangesInTurn
<1>0. Discovering => discovery # NoDiscovery
  BY DEF Discovering, NoDiscovery
<1>1. CASE UserRefreshes \/ GrantTrust
  <2>1. generation \in Int
    BY BoundsAssumption DEF RuntimeInv, RuntimeType
  <2>2. generation' = generation + 1
    BY <1>1 DEF UserRefreshes, GrantTrust, Refresh
  <2>3. generation' # generation
    BY <2>1, <2>2
  <2> QED
    BY <2>3 DEF ChangesInTurn
<1>2. CASE HelperStarts
  BY <1>2 DEF HelperStarts, ChangesInTurn, Session
<1>3. CASE HelperFailsToStart
  BY <1>3, ThrowInTurn DEF HelperFailsToStart
<1>4. CASE DiscoverRejects
  <2>1. CASE NextCandidate
    BY <2>1 DEF NextCandidate, ChangesInTurn, Session
  <2>2. CASE Throw(clients)
    BY <1>0, <1>4, <2>2, ThrowInTurn DEF DiscoverRejects
  <2> QED
    BY <1>4, <2>1, <2>2 DEF DiscoverRejects
<1>5. ASSUME NEW r \in Roots, DiscoverResolves(r)
      PROVE  ChangesInTurn
  <2>1. CASE ~Stale
    BY <1>0, <1>5, <2>1 DEF DiscoverResolves, ChangesInTurn
  <2>2. CASE Stale
    <3>1. discovery # NoDiscovery
      BY <1>0, <1>5 DEF DiscoverResolves
    <3>2. PICK h, ds : EndStale(h, ds)
      BY <1>5, <2>2 DEF DiscoverResolves
    <3>3. phase # "ready"
      BY <3>1 DEF RuntimeInv, RefreshOnCourse
    <3>4. UNCHANGED <<phase, root>> \/ phase' = "loading"
      BY <3>2 DEF EndStale, Begin, SetState
    <3> QED
      BY <3>3, <3>4 DEF ChangesInTurn, Session
  <2> QED
    BY <2>1, <2>2
<1>6. ASSUME NEW c \in Generations, HelperCrashes(c)
      PROVE  ChangesInTurn
  BY <1>6 DEF HelperCrashes, ChangesInTurn, Session
<1>7. CASE UNCHANGED runtimeVars
  BY <1>7 DEF runtimeVars, ChangesInTurn, Session
<1>8. ASSUME NEW d \in Drafts, Edit(d) \/ RefuseSearch(d) \/ StartSearch(d)
      PROVE  ChangesInTurn
  BY <1>7, <1>8 DEF Edit, RefuseSearch, StartSearch
<1>9. CASE CancelSearch \/ ClearSearch
  BY <1>7, <1>9 DEF CancelSearch, ClearSearch
<1>10. ASSUME NEW i \in Requests, Answer(i)
       PROVE  ChangesInTurn
  BY <1>7, <1>10 DEF Answer, SearchSucceeds, SearchFails, Settles
<1> QED
  BY <1>1, <1>2, <1>3, <1>4, <1>5, <1>6, <1>8, <1>9, <1>10 DEF Next, Start, Discover

(* The session has its repository from the newest refresh: one that begins and
   finds the workspace blocked or the target gone, or one that runs and has not been
   overtaken.  An older discovery, a crashed helper or a search never changes it
   (GitGitRuntime.refresh), which is all that EditorSession assumes of the runtime. *)
THEOREM SessionChangesInTurn == FairSpec => [][ChangesInTurn]_vars
<1>1. Init => RuntimeInv /\ ViewInv
  BY InitFits
<1>2. RuntimeInv /\ ViewInv /\ [Next]_vars => (RuntimeInv /\ ViewInv)'
  BY NextFits
<1>3. RuntimeInv /\ ViewInv /\ [Next]_vars => [ChangesInTurn]_vars
  BY StepInTurn
<1> QED
  BY <1>1, <1>2, <1>3, PTL DEF Spec, FairSpec

-----------------------------------------------------------------------------
(* EditorSession.                                                           *)


(* What the highlight can be. *)
Loads == [of : Selections, root : Roots,
          stage : {"diff", "content", "preimage", "opening", "showing", "restoring"}]
UpdateCalls == [doc : Documents, column : Columns, selection : Selections, prepared : BOOLEAN,
                stage : {"content", "diff"}]
Highlights ==
  [selection : Selections \cup {None}, root : Roots \cup {None}, prepared : Selections \cup {None},
   suppressed : Selections \cup {None}, load : Loads \cup {NoLoad}, upd : UpdateCalls \cup {NoCall},
   marks : [Columns -> Selections \cup {None}]]

Blames == [text : Contents, window : Windows, root : Roots]

(* The types of what is on the screen and of the blame. *)
ScreenType ==
  /\ shown \in [Columns -> Documents \cup {None}]
  /\ active \in {c \in Columns : shown[c] # None} \cup {None}
  /\ content \in [Files -> Contents]
  /\ window \in Windows \cup {None}
  /\ session \in Roots \cup {None}
  /\ refreshing \in BOOLEAN
  /\ events \in 0..MaxEvents
  /\ timer \in BOOLEAN
  /\ asked \in [doc : Files, column : Columns, text : Contents, window : Windows, root : Roots]
               \cup {NoCall}
  /\ blamed \in [Columns -> Blames \cup {None}]

(* A highlight that was suppressed is clear. *)
Silent(h) ==
  h.suppressed # None =>
    /\ h.selection = None
    /\ h.load = NoLoad
    /\ h.upd = NoCall
    /\ \A c \in Columns : h.marks[c] = None

(* A highlight that has just been updated for a document in a column. *)
UpToDate(h, doc, column, r) ==
  \/ h.upd = NoCall /\ \A c \in Columns : h.marks[c] = None
  \/ /\ doc \in Documents /\ column \in Columns
     /\ h.selection \in Selections /\ h.root = r /\ Root[doc] = r
     /\ doc \in {h.selection, Path[h.selection]}
     /\ \/ h.upd = NoCall /\ doc = h.selection /\ h.marks[column] = doc
        \/ /\ h.upd # NoCall /\ h.upd.doc = doc /\ h.upd.column = column
           /\ h.upd.selection = h.selection
           /\ h.upd.stage = IF doc \in Files THEN "content" ELSE "diff"

BlameInv == BlameOnCourse /\ BlameAtRest
HighlightInv ==
  /\ shows \subseteq Selections
  /\ highlight \in Highlights
  /\ Silent(highlight)
  /\ HighlightOnCourse

LEMMA EditorParts == EditorInv /\ BlameAtRest <=> ScreenType /\ BlameInv /\ HighlightInv
<1>1. EditorTypeOK <=> ScreenType /\ shows \subseteq Selections /\ highlight \in Highlights
  BY DEF EditorTypeOK, ScreenType, Highlights, Loads, UpdateCalls, Blames
<1>2. SuppressedIsClear <=> Silent(highlight)
  BY DEF SuppressedIsClear, Silent, Load, Upd
<1> QED
  BY <1>1, <1>2 DEF EditorInv, BlameInv, HighlightInv

(* A column, a document and a repository are something. *)
LEMMA NothingElse ==
  /\ None \notin Columns /\ None \notin Documents /\ None \notin Roots /\ None \notin Selections
  /\ \A s \in Selections : s \notin Files /\ Path[s] \in Files /\ Path[s] # s
  /\ NoCall \notin UpdateCalls /\ NoLoad \notin Loads
BY EditorAssumption DEF Documents, NoCall, NoLoad, UpdateCalls, Loads

-----------------------------------------------------------------------------
(* What the methods of CommitHighlightController make of a highlight.       *)

LEMMA ClearDecorationsFits ==
  ASSUME NEW h \in Highlights
  PROVE  LET w == clearDecorations(h) IN
         /\ w \in Highlights
         /\ \A c \in Columns : w.marks[c] = None
         /\ w.selection = h.selection /\ w.root = h.root /\ w.prepared = h.prepared
         /\ w.suppressed = h.suppressed /\ w.load = h.load /\ w.upd = h.upd
BY DEF clearDecorations, Highlights

LEMMA ClearFits ==
  ASSUME NEW h \in Highlights
  PROVE  LET w == clear(h) IN
         /\ w \in Highlights
         /\ \A c \in Columns : w.marks[c] = None
         /\ w.selection = None /\ w.suppressed = h.suppressed
         /\ w.load = NoLoad /\ w.upd = NoCall
<1> DEFINE w == [h EXCEPT !.selection = None, !.root = None, !.prepared = None,
                          !.load = NoLoad, !.upd = NoCall]
<1>1. /\ w \in Highlights /\ w.selection = None /\ w.suppressed = h.suppressed
      /\ w.load = NoLoad /\ w.upd = NoCall
  BY DEF Highlights
<1>2. clear(h) = clearDecorations(w)
  BY DEF clear
<1> HIDE DEF w
<1> QED
  BY <1>1, <1>2, ClearDecorationsFits

LEMMA ApplyFits ==
  ASSUME NEW h \in Highlights, NEW c \in Columns, NEW s \in Selections
  PROVE  LET w == applyDecorations(h, c, s) IN
         /\ w \in Highlights /\ w.upd = NoCall
         /\ w.marks[c] = s /\ \A b \in Columns \ {c} : w.marks[b] = h.marks[b]
         /\ w.selection = h.selection /\ w.root = h.root /\ w.prepared = h.prepared
         /\ w.suppressed = h.suppressed /\ w.load = h.load
<1> DEFINE marks == [h.marks EXCEPT ![c] = s]
<1>1. /\ marks \in [Columns -> Selections \cup {None}]
      /\ marks[c] = s /\ \A b \in Columns \ {c} : marks[b] = h.marks[b]
  BY DEF Highlights
<1>2. applyDecorations(h, c, s) = [h EXCEPT !.marks = marks, !.upd = NoCall]
  BY DEF applyDecorations
<1> HIDE DEF marks
<1> QED
  BY <1>1, <1>2 DEF Highlights

(* An update that is abandoned, or that failed. *)
LEMMA AbandonFits ==
  ASSUME NEW h \in Highlights
  PROVE  LET w == [h EXCEPT !.upd = NoCall] IN
         /\ w \in Highlights /\ w.upd = NoCall /\ w.marks = h.marks
         /\ w.selection = h.selection /\ w.root = h.root /\ w.prepared = h.prepared
         /\ w.suppressed = h.suppressed /\ w.load = h.load
BY DEF Highlights

LEMMA UpdateFits ==
  ASSUME NEW h \in Highlights, Silent(h), NEW doc \in Documents \cup {None},
         NEW column, doc # None => column \in Columns, NEW r \in Roots \cup {None}
  PROVE  LET w == update(h, doc, column, r) IN
         w \in Highlights /\ Silent(w) /\ UpToDate(w, doc, column, r)
<1> DEFINE idle == [h EXCEPT !.upd = NoCall]
           asks == [doc |-> doc, column |-> column, selection |-> h.selection,
                    prepared |-> h.prepared # None,
                    stage |-> IF doc \in Files THEN "content" ELSE "diff"]
           w == update(h, doc, column, r)
<1>1. CASE None \in {doc, r, h.selection}
  <2>1. w = clearDecorations(idle)
    BY <1>1 DEF update
  <2>2. /\ idle \in Highlights /\ idle.upd = NoCall /\ idle.selection = h.selection
        /\ idle.suppressed = h.suppressed /\ idle.load = h.load
    BY AbandonFits
  <2> HIDE DEF idle
  <2>3. w \in Highlights /\ w.upd = NoCall /\ \A c \in Columns : w.marks[c] = None
    BY <2>1, <2>2, ClearDecorationsFits
  <2>4. w.suppressed = h.suppressed /\ w.selection = h.selection /\ w.load = h.load
    BY <2>1, <2>2, ClearDecorationsFits
  <2> QED
    BY <2>3, <2>4 DEF Silent, UpToDate
<1>2. CASE None \notin {doc, r, h.selection} /\ h.root # r
  <2>1. w = clear(h)
    BY <1>2 DEF update
  <2>2. /\ w \in Highlights /\ w.upd = NoCall /\ w.selection = None /\ w.load = NoLoad
        /\ \A c \in Columns : w.marks[c] = None
    BY <2>1, ClearFits
  <2> QED
    BY <2>2 DEF Silent, UpToDate
<1>3. CASE None \notin {doc, r, h.selection} /\ h.root = r
  <2>0. /\ doc \in Documents /\ column \in Columns /\ r \in Roots /\ h.selection \in Selections
        /\ h.suppressed = None
    BY <1>3 DEF Silent, Highlights
  <2>1. w = IF Root[doc] # r \/ doc \notin {h.selection, Path[h.selection]} THEN clearDecorations(idle)
            ELSE IF doc = h.selection /\ h.prepared # None THEN applyDecorations(h, column, h.selection)
            ELSE [h EXCEPT !.upd = asks]
    BY <1>3 DEF update
  <2>2. CASE Root[doc] # r \/ doc \notin {h.selection, Path[h.selection]}
    <3>1. w = clearDecorations(idle)
      BY <2>1, <2>2
    <3>2. idle \in Highlights /\ idle.upd = NoCall /\ idle.suppressed = None
      BY <2>0, AbandonFits
    <3> HIDE DEF idle
    <3>3. /\ w \in Highlights /\ w.upd = NoCall /\ w.suppressed = None
          /\ \A c \in Columns : w.marks[c] = None
      BY <3>1, <3>2, ClearDecorationsFits
    <3> QED
      BY <3>3 DEF Silent, UpToDate
  <2>3. CASE /\ Root[doc] = r /\ doc = h.selection /\ h.prepared # None
    <3>1. w = applyDecorations(h, column, h.selection)
      BY <2>1, <2>3
    <3>2. /\ w \in Highlights /\ w.upd = NoCall /\ w.marks[column] = h.selection
          /\ w.selection = h.selection /\ w.root = h.root /\ w.suppressed = None
      BY <2>0, <3>1, ApplyFits
    <3> QED
      BY <1>3, <2>0, <2>3, <3>2 DEF Silent, UpToDate
  <2>4. CASE /\ Root[doc] = r /\ doc \in {h.selection, Path[h.selection]}
             /\ ~(doc = h.selection /\ h.prepared # None)
    <3>1. w = [h EXCEPT !.upd = asks]
      BY <2>1, <2>4
    <3>2. asks \in UpdateCalls
      BY <2>0 DEF UpdateCalls
    <3>3. /\ asks # NoCall /\ asks.doc = doc /\ asks.column = column
          /\ asks.selection = h.selection
          /\ asks.stage = IF doc \in Files THEN "content" ELSE "diff"
      BY <3>2, NothingElse
    <3> HIDE DEF asks
    <3>4. /\ w \in Highlights /\ w.upd = asks /\ w.suppressed = None
          /\ w.selection = h.selection /\ w.root = h.root
      BY <2>0, <3>1, <3>2 DEF Highlights
    <3> QED
      BY <1>3, <2>0, <2>4, <3>3, <3>4 DEF Silent, UpToDate
  <2> QED
    BY <2>2, <2>3, <2>4
<1> QED
  BY <1>1, <1>2, <1>3

-----------------------------------------------------------------------------
(* What follows for the invariants.                                         *)

LEMMA UpToDateFits ==
  ASSUME ScreenType', shows' \subseteq Selections, highlight' \in Highlights, Silent(highlight'),
         UpToDate(highlight', Document(shown', active'), active', session')
  PROVE  HighlightInv'
<1>0. Load' = highlight'.load /\ Upd' = highlight'.upd
  BY DEF Load, Upd
<1>1. CASE highlight'.upd = NoCall /\ \A c \in Columns : highlight'.marks[c] = None
  <2>1. active' # None => active' \in Columns
    BY DEF ScreenType
  <2>2. HighlightOnCourse'
    BY <1>0, <1>1, <2>1 DEF HighlightOnCourse
  <2> QED
    BY <2>2 DEF HighlightInv, Silent
<1>2. CASE ~(highlight'.upd = NoCall /\ \A c \in Columns : highlight'.marks[c] = None)
  <2> DEFINE doc == Document(shown', active')
  <2>1. /\ doc \in Documents /\ active' \in Columns
        /\ highlight'.selection \in Selections /\ highlight'.root = session' /\ Root[doc] = session'
        /\ doc \in {highlight'.selection, Path[highlight'.selection]}
    BY <1>2 DEF UpToDate
  <2>2. active' # None /\ doc = shown'[active']
    BY <2>1, NothingElse DEF Document
  <2>3. Fits(shown[active], highlight.selection)'
    BY <2>1, <2>2 DEF Fits
  <2>4. CASE highlight'.upd = NoCall /\ doc = highlight'.selection /\ highlight'.marks[active'] = doc
    <3>1. HighlightOnCourse'
      BY <1>0, <2>1, <2>2, <2>3, <2>4 DEF HighlightOnCourse
    <3> QED
      BY <3>1 DEF HighlightInv, Silent
  <2>5. CASE /\ highlight'.upd # NoCall /\ highlight'.upd.doc = doc
             /\ highlight'.upd.column = active' /\ highlight'.upd.selection = highlight'.selection
             /\ highlight'.upd.stage = IF doc \in Files THEN "content" ELSE "diff"
    <3>1. doc \in Files => highlight'.upd.stage = "content"
      BY <2>5
    <3>2. doc \notin Files => doc = highlight'.selection
      BY <2>1, NothingElse
    <3>3. Fits(Upd.doc, Upd.selection)' /\ Upd'.doc = shown'[active']
      BY <1>0, <2>2, <2>3, <2>5 DEF Fits
    <3> HIDE DEF doc
    <3>4. HighlightOnCourse'
      BY <1>0, <2>1, <2>2, <2>5, <3>1, <3>2, <3>3 DEF HighlightOnCourse
    <3> QED
      BY <3>4 DEF HighlightInv, Silent
  <2> QED
    BY <1>2, <2>4, <2>5 DEF UpToDate
<1> QED
  BY <1>1, <1>2

(* A highlight whose load still ends with an update. *)
LEMMA LoadingFits ==
  ASSUME HighlightInv, UNCHANGED <<shown, active>>, shows' \subseteq Selections,
         highlight' \in Highlights, Silent(highlight'), highlight'.upd = highlight.upd, Updates'
  PROVE  HighlightInv'
<1>1. Upd' = Upd
  BY DEF Upd
<1>2. HighlightOnCourse'
  BY <1>1 DEF HighlightInv, HighlightOnCourse
<1> QED
  BY <1>2 DEF HighlightInv, Silent

(* A highlight that stays as it is in the active editor. *)
LEMMA HighlightKept ==
  ASSUME ScreenType, HighlightInv, active' = active, shows' \subseteq Selections,
         active # None => shown'[active] = shown[active],
         highlight.selection # None /\ active # None =>
           \A f \in Files : f = shown[active] => content'[f] = content[f],
         ~refreshing' => ~refreshing /\ session' = session,
         highlight' \in Highlights, Silent(highlight'),
         highlight'.upd = highlight.upd, highlight'.selection = highlight.selection,
         highlight'.root = highlight.root,
         active # None => highlight'.marks[active] = highlight.marks[active],
         Updates => Updates'
  PROVE  HighlightInv'
<1>1. Upd' = Upd /\ highlight \in Highlights /\ HighlightOnCourse
  BY DEF Upd, HighlightInv
<1>2. CASE Updates'
  <2>1. HighlightOnCourse'
    <3>1. Upd # NoCall => active # None
      BY <1>1, NothingElse DEF HighlightOnCourse, Highlights, UpdateCalls, Upd
    <3> QED
      BY <1>1, <1>2, <3>1 DEF HighlightOnCourse
  <2> QED
    BY <2>1 DEF HighlightInv, Silent
<1>3. CASE ~Updates'
  <2>1. ~Updates
    BY <1>3
  <2>2. Upd # NoCall => active # None /\ active = Upd.column /\ shown[active] = Upd.doc
    BY <1>1, NothingElse DEF HighlightOnCourse, Highlights, UpdateCalls, Upd
  <2>3. \A doc, s : Fits(doc, s)' <=> Fits(doc, s)
    BY DEF Fits
  <2>4. Upd # NoCall => highlight.selection # None
    BY <1>1, <2>1, NothingElse DEF HighlightOnCourse, Highlights, UpdateCalls, Upd
  <2>5. CASE Upd # NoCall
    <3>1. /\ Upd.selection = highlight.selection /\ Fits(Upd.doc, Upd.selection)
          /\ Upd.stage = "content" => Upd.doc \in Files
          /\ Upd.stage = "diff" /\ Upd.doc # Upd.selection =>
               content[Upd.doc] = Blob[Upd.selection]
          /\ ~refreshing => highlight.root = session
      BY <1>1, <2>1, <2>5 DEF HighlightOnCourse
    <3>2. Upd.doc # Upd.selection => Upd.doc \in Files
      <4>1. Upd.doc \in {Upd.selection, Path[Upd.selection]}
        BY <3>1 DEF Fits
      <4>2. Upd.selection \in Selections
        BY <1>1, <2>5 DEF Upd, Highlights, UpdateCalls
      <4> QED
        BY <4>1, <4>2, NothingElse
    <3>3. Upd.doc # Upd.selection => content'[Upd.doc] = content[Upd.doc]
      BY <2>2, <2>4, <2>5, <3>2
    <3>4. HighlightOnCourse'
      BY <1>1, <2>2, <2>3, <2>5, <3>1, <3>3 DEF HighlightOnCourse
    <3> QED
      BY <3>4 DEF HighlightInv, Silent
  <2>6. CASE Upd = NoCall
    <3> DEFINE mark == highlight.marks[active]
    <3>1. active # None /\ mark # None =>
            /\ mark = highlight.selection /\ Fits(shown[active], mark)
            /\ shown[active] # mark => content[shown[active]] = Blob[mark]
            /\ ~refreshing => highlight.root = session
      BY <1>1, <2>1, <2>6 DEF HighlightOnCourse
    <3>2. active # None /\ mark # None => highlight.selection # None
      BY <3>1
    <3>3. active # None /\ mark # None /\ shown[active] # mark => shown[active] \in Files
      <4>1. active # None /\ mark # None => shown[active] \in {mark, Path[mark]}
        BY <3>1 DEF Fits
      <4>2. active # None /\ mark # None => mark \in Selections
        BY <1>1, <3>1 DEF Highlights
      <4> QED
        BY <4>1, <4>2, NothingElse
    <3>4. active # None /\ mark # None /\ shown[active] # mark =>
            content'[shown[active]] = content[shown[active]]
      BY <3>2, <3>3
    <3>5. active # None => highlight'.marks[active] = mark /\ shown'[active] = shown[active]
      OBVIOUS
    <3> HIDE DEF mark
    <3>6. ASSUME active # None, highlight'.marks[active] # None
          PROVE  /\ highlight'.marks[active] = highlight'.selection
                 /\ Fits(shown[active], highlight.marks[active])'
                 /\ shown'[active] # highlight'.marks[active] =>
                      content'[shown'[active]] = Blob[highlight'.marks[active]]
                 /\ ~refreshing' => highlight'.root = session'
      <4>1. highlight'.marks[active] = mark /\ shown'[active] = shown[active] /\ mark # None
        BY <3>5, <3>6
      <4>2. Fits(shown[active], highlight.marks[active])'
        BY <3>1, <3>6, <4>1 DEF Fits
      <4> QED
        BY <3>1, <3>4, <3>6, <4>1, <4>2
    <3>7. HighlightOnCourse'
      BY <1>1, <2>6, <3>6 DEF HighlightOnCourse
    <3> QED
      BY <3>7 DEF HighlightInv, Silent
  <2> QED
    BY <2>5, <2>6
<1> QED
  BY <1>2, <1>3

(* A blame of which nothing changes. *)
LEMMA BlameKept ==
  ASSUME BlameInv, UNCHANGED <<shown, active, content, window, blameVars>>,
         ~refreshing' => ~refreshing /\ session' = session
  PROVE  BlameInv'
<1>1. UNCHANGED <<shown, active, content, window, timer, asked, blamed>>
  BY DEF blameVars
<1>2. BlameOnCourse'
  BY <1>1 DEF BlameInv, BlameOnCourse
<1>3. BlameAtRest'
  BY <1>1 DEF BlameInv, BlameAtRest
<1> QED
  BY <1>2, <1>3 DEF BlameInv

(* A blame that will be updated. *)
LEMMA BlameScheduled ==
  ASSUME timer' = TRUE, \A c \in Columns : blamed'[c] # None => c = active'
  PROVE  BlameInv'
BY DEF BlameInv, BlameOnCourse, BlameAtRest

LEMMA QuietFits ==
  ASSUME ScreenType, BlameInv, Quiet
  PROVE  ScreenType' /\ BlameInv'
         /\ UNCHANGED <<shown, active, content, session, refreshing>>
<1>1. UNCHANGED <<shown, active, content, window, session, refreshing, events, timer, asked, blamed>>
  BY DEF Quiet, blameVars
<1>2. ScreenType'
  BY <1>1 DEF ScreenType
<1>3. BlameInv'
  BY <1>1, BlameKept DEF blameVars
<1> QED
  BY <1>1, <1>2, <1>3

-----------------------------------------------------------------------------
(* The events of VS Code.                                                   *)

EditorsInv == ScreenType /\ BlameInv /\ HighlightInv

(* Decorations that are left are decorations. *)
LEMMA LeftFits ==
  ASSUME NEW T, NEW marks \in [Columns -> T \cup {None}], NEW s
  PROVE  /\ Left(marks, s) \in [Columns -> T \cup {None}]
         /\ \A c \in Columns : Left(marks, s)[c] \in {marks[c], None}
         /\ \A c \in Columns : s[c] = shown[c] => Left(marks, s)[c] = marks[c]
BY DEF Left

LEMMA MarksLeft ==
  ASSUME HighlightInv, NEW s
  PROVE  LET w == [highlight EXCEPT !.marks = Left(@, s)] IN
         /\ w \in Highlights /\ Silent(w)
         /\ w.upd = highlight.upd /\ w.selection = highlight.selection
         /\ w.root = highlight.root /\ w.load = highlight.load
         /\ w.marks = Left(highlight.marks, s)
<1> DEFINE marks == Left(highlight.marks, s)
           w == [highlight EXCEPT !.marks = marks]
<1>1. highlight \in Highlights /\ Silent(highlight)
  BY DEF HighlightInv
<1>2. /\ marks \in [Columns -> Selections \cup {None}]
      /\ \A c \in Columns : marks[c] \in {highlight.marks[c], None}
  BY <1>1, LeftFits DEF Highlights
<1>3. w = [highlight EXCEPT !.marks = Left(@, s)]
  OBVIOUS
<1> HIDE DEF marks
<1>4. /\ w \in Highlights /\ w.marks = marks /\ w.upd = highlight.upd
      /\ w.selection = highlight.selection /\ w.root = highlight.root
      /\ w.load = highlight.load /\ w.suppressed = highlight.suppressed
  BY <1>1, <1>2 DEF Highlights
<1> HIDE DEF w
<1>5. Silent(w)
  BY <1>1, <1>2, <1>4 DEF Silent
<1> QED
  BY <1>3, <1>4, <1>5 DEF marks

(* Another active editor: both controllers begin anew. *)
LEMMA FocusFits ==
  ASSUME EditorsInv, NEW s \in [Columns -> Documents \cup {None}],
         NEW a \in {c \in Columns : s[c] # None} \cup {None}, Focus(s, a),
         shows' \subseteq Selections, events' \in 0..MaxEvents
  PROVE  EditorsInv'
<1> DEFINE h == [highlight EXCEPT !.marks = Left(@, s)]
           doc == Document(s, a)
<1>1. /\ shown' = s /\ active' = a /\ refreshing' = TRUE /\ timer' = TRUE
      /\ blamed' = [c \in Columns |-> IF c = a THEN Left(blamed, s)[c] ELSE None]
      /\ highlight' = update(h, doc, a, session)
      /\ UNCHANGED <<content, window, session, asked>>
  BY DEF Focus
<1>2. ScreenType'
  <2>1. Left(blamed, s) \in [Columns -> Blames \cup {None}]
    BY LeftFits DEF EditorsInv, ScreenType
  <2>2. blamed' \in [Columns -> Blames \cup {None}]
    BY <1>1, <2>1
  <2> QED
    BY <1>1, <2>2 DEF EditorsInv, ScreenType
<1>3. BlameInv'
  BY <1>1, BlameScheduled
<1>4. h \in Highlights /\ Silent(h)
  BY MarksLeft DEF EditorsInv
<1>5. /\ doc \in Documents \cup {None} /\ (doc # None => a \in Columns)
      /\ session \in Roots \cup {None} /\ doc = Document(shown', active')
  BY <1>1, NothingElse DEF Document, EditorsInv, ScreenType
<1> HIDE DEF h, doc
<1>6. highlight' \in Highlights /\ Silent(highlight') /\ UpToDate(highlight', doc, a, session)
  BY <1>1, <1>4, <1>5, UpdateFits
<1>7. HighlightInv'
  BY <1>1, <1>2, <1>5, <1>6, UpToDateFits
<1> QED
  BY <1>2, <1>3, <1>7 DEF EditorsInv

LEMMA HappensFits ==
  ASSUME ScreenType, Happens
  PROVE  events' \in 0..MaxEvents
BY EditorAssumption DEF ScreenType, Happens

LEMMA ActivateStep ==
  ASSUME EditorsInv, NEW c \in Columns, NEW d \in Documents, Activate(c, d)
  PROVE  EditorsInv'
<1> DEFINE s == [shown EXCEPT ![c] = d]
<1>1. s \in [Columns -> Documents \cup {None}] /\ s[c] = d /\ d # None
  BY NothingElse DEF EditorsInv, ScreenType
<1>2. Focus(s, c) /\ UNCHANGED shows /\ Happens
  BY DEF Activate
<1>3. shows' \subseteq Selections /\ events' \in 0..MaxEvents
  BY <1>2, HappensFits DEF EditorsInv, HighlightInv
<1> HIDE DEF s
<1> QED
  BY <1>1, <1>2, <1>3, FocusFits

LEMMA CloseStep ==
  ASSUME EditorsInv, NEW c \in Columns, Close(c)
  PROVE  EditorsInv'
<1> DEFINE closed == [shown EXCEPT ![c] = None]
<1>1. closed \in [Columns -> Documents \cup {None}]
  BY DEF EditorsInv, ScreenType
<1>2. shows' = shows /\ shows' \subseteq Selections /\ events' \in 0..MaxEvents
  BY HappensFits DEF Close, EditorsInv, HighlightInv
<1>3. CASE active = c
  <2>1. PICK a \in {b \in Columns : closed[b] # None} \cup {None} : Focus(closed, a)
    BY <1>3 DEF Close
  <2> HIDE DEF closed
  <2> QED
    BY <1>1, <1>2, <2>1, FocusFits
<1>4. CASE active # c
  <2> DEFINE w == [highlight EXCEPT !.marks = Left(@, closed)]
  <2>1. /\ shown' = closed /\ blamed' = Left(blamed, closed) /\ highlight' = w
        /\ UNCHANGED <<active, content, window, session, refreshing, timer, asked>>
    BY <1>4 DEF Close
  <2>2. \A b \in Columns : b # c => closed[b] = shown[b]
    BY DEF EditorsInv, ScreenType
  <2>3. active # None => active \in Columns /\ closed[active] = shown[active]
    BY <1>4, <2>2 DEF EditorsInv, ScreenType
  <2>b. /\ blamed \in [Columns -> Blames \cup {None}]
        /\ blamed' \in [Columns -> Blames \cup {None}]
        /\ \A b \in Columns : blamed'[b] \in {blamed[b], None}
    BY <2>1, LeftFits DEF EditorsInv, ScreenType
  <2>4. ScreenType'
    <3>1. active \in {b \in Columns : closed[b] # None} \cup {None}
      BY <2>3 DEF EditorsInv, ScreenType
    <3> HIDE DEF closed
    <3> QED
      BY <1>1, <1>2, <2>1, <2>b, <3>1 DEF EditorsInv, ScreenType
  <2>5. BlameInv'
    <3>1. BlameOnCourse /\ BlameAtRest
      BY DEF EditorsInv, BlameInv
    <3>2. asked # NoCall => asked.column \in Columns
      BY DEF EditorsInv, ScreenType
    <3> HIDE DEF closed
    <3>3. BlameOnCourse'
      BY <2>1, <2>3, <2>b, <3>1, <3>2, NothingElse DEF BlameOnCourse
    <3>4. BlameAtRest'
      <4> SUFFICES ASSUME ~timer', asked' = NoCall, ~refreshing', NEW b \in Columns, blamed'[b] # None
                   PROVE  /\ b = active' /\ shown'[b] \in Files /\ Root[shown'[b]] = session'
                          /\ blamed'[b] = [text |-> content'[shown'[b]], window |-> window',
                                           root |-> session']
        BY DEF BlameAtRest
      <4>1. blamed'[b] = blamed[b]
        BY <2>b
      <4>2. /\ b = active /\ shown[b] \in Files /\ Root[shown[b]] = session
            /\ blamed[b] = [text |-> content[shown[b]], window |-> window, root |-> session]
        BY <2>1, <3>1, <4>1 DEF BlameAtRest
      <4>3. shown'[b] = shown[b]
        BY <2>1, <2>3, <4>2, NothingElse
      <4> QED
        BY <2>1, <4>1, <4>2, <4>3
    <3> QED
      BY <3>3, <3>4 DEF BlameInv
  <2>6. HighlightInv'
    <3>1. /\ w \in Highlights /\ Silent(w) /\ w.upd = highlight.upd
          /\ w.selection = highlight.selection /\ w.root = highlight.root
          /\ w.load = highlight.load /\ w.marks = Left(highlight.marks, closed)
      BY MarksLeft DEF EditorsInv
    <3> HIDE DEF w, closed
    <3>2. active # None => highlight'.marks[active] = highlight.marks[active]
      <4>1. highlight.marks \in [Columns -> Selections \cup {None}]
        BY DEF EditorsInv, HighlightInv, Highlights
      <4> QED
        BY <2>1, <2>3, <3>1, <4>1, LeftFits
    <3>3. Updates => Updates'
      BY <1>2, <2>1, <2>3, <3>1 DEF Updates, Load, Document
    <3> QED
      BY <1>2, <2>1, <2>3, <3>1, <3>2, <3>3, HighlightKept DEF EditorsInv
  <2> QED
    BY <2>4, <2>5, <2>6 DEF EditorsInv
<1> QED
  BY <1>3, <1>4

LEMMA EditTextStep ==
  ASSUME EditorsInv, NEW f \in Files, NEW text \in Contents, EditText(f, text)
  PROVE  EditorsInv'
<1>1. /\ content' = [content EXCEPT ![f] = text]
      /\ UNCHANGED <<shown, active, window, session, refreshing, shows, asked, blamed>>
      /\ events' \in 0..MaxEvents
      /\ IF Document(shown, active) = f
           THEN /\ timer' = TRUE
                /\ highlight' = IF highlight.selection = None THEN highlight ELSE clear(highlight)
           ELSE UNCHANGED <<timer, highlight>>
  BY HappensFits DEF EditText, EditorsInv
<1>2. /\ content' \in [Files -> Contents]
      /\ \A g \in Files : g # f => content'[g] = content[g]
  BY <1>1 DEF EditorsInv, ScreenType
<1>t. timer' \in BOOLEAN /\ (timer => timer' = TRUE)
  BY <1>1 DEF EditorsInv, ScreenType
<1>3. ScreenType'
  BY <1>1, <1>2, <1>t DEF EditorsInv, ScreenType
<1>h. highlight \in Highlights /\ Silent(highlight) /\ shows' \subseteq Selections
  BY <1>1 DEF EditorsInv, HighlightInv
<1>4. CASE Document(shown, active) = f
  <2>1. BlameInv'
    BY <1>1, <1>4, BlameScheduled DEF EditorsInv, BlameInv, BlameOnCourse
  <2>2. HighlightInv'
    <3>1. CASE highlight.selection = None
      <4>1. highlight' = highlight
        BY <1>1, <1>4, <3>1
      <4>2. Updates => Updates'
        BY <1>1, <4>1 DEF Updates, Load
      <4> QED
        BY <1>1, <1>h, <3>1, <4>1, <4>2, HighlightKept DEF EditorsInv
    <3>2. CASE highlight.selection # None
      <4>1. highlight' = clear(highlight)
        BY <1>1, <1>4, <3>2
      <4>2. /\ highlight' \in Highlights /\ highlight'.selection = None /\ highlight'.load = NoLoad
            /\ highlight'.upd = NoCall /\ \A c \in Columns : highlight'.marks[c] = None
        BY <1>h, <4>1, ClearFits
      <4>3. Silent(highlight') /\ UpToDate(highlight', Document(shown', active'), active', session')
        BY <4>2 DEF Silent, UpToDate
      <4> QED
        BY <1>3, <1>h, <4>2, <4>3, UpToDateFits
    <3> QED
      BY <3>1, <3>2
  <2> QED
    BY <1>3, <2>1, <2>2 DEF EditorsInv
<1>5. CASE Document(shown, active) # f
  <2>1. active # None => shown[active] # f
    BY <1>5 DEF Document
  <2>2. UNCHANGED <<timer, highlight>>
    BY <1>1, <1>5
  <2>3. BlameInv'
    <3>1. BlameOnCourse /\ BlameAtRest
      BY DEF EditorsInv, BlameInv
    <3>2. asked # NoCall => asked.doc \in Files /\ asked.column \in Columns
      BY DEF EditorsInv, ScreenType
    <3>3. BlameOnCourse'
      BY <1>1, <1>2, <2>1, <2>2, <3>1, <3>2, NothingElse DEF BlameOnCourse
    <3>4. BlameAtRest'
      <4> SUFFICES ASSUME ~timer', asked' = NoCall, ~refreshing', NEW b \in Columns, blamed'[b] # None
                   PROVE  /\ b = active' /\ shown'[b] \in Files /\ Root[shown'[b]] = session'
                          /\ blamed'[b] = [text |-> content'[shown'[b]], window |-> window',
                                           root |-> session']
        BY DEF BlameAtRest
      <4>1. /\ b = active /\ shown[b] \in Files /\ Root[shown[b]] = session
            /\ blamed[b] = [text |-> content[shown[b]], window |-> window, root |-> session]
        BY <1>1, <2>2, <3>1 DEF BlameAtRest
      <4>2. content'[shown[b]] = content[shown[b]]
        BY <1>2, <2>1, <4>1, NothingElse
      <4> QED
        BY <1>1, <4>1, <4>2
    <3> QED
      BY <3>3, <3>4 DEF BlameInv
  <2>4. HighlightInv'
    <3>1. Updates => Updates'
      BY <1>1, <2>2 DEF Updates, Load
    <3> QED
      BY <1>1, <1>2, <1>h, <2>1, <2>2, <3>1, HighlightKept DEF EditorsInv
  <2> QED
    BY <1>3, <2>3, <2>4 DEF EditorsInv
<1> QED
  BY <1>4, <1>5

(* A step that leaves the highlight alone. *)
LEMMA HighlightSame ==
  ASSUME EditorsInv, UNCHANGED <<shown, active, content, shows, highlight>>,
         ~refreshing' => ~refreshing /\ session' = session
  PROVE  HighlightInv'
<1>1. highlight \in Highlights /\ Silent(highlight) /\ shows' \subseteq Selections
  BY DEF EditorsInv, HighlightInv
<1>2. Updates => Updates'
  BY DEF Updates, Load
<1> QED
  BY <1>1, <1>2, HighlightKept DEF EditorsInv

LEMMA MoveStep ==
  ASSUME EditorsInv, NEW w \in Windows \cup {None}, Move(w)
  PROVE  EditorsInv'
<1>1. /\ window' = w /\ timer' = TRUE /\ events' \in 0..MaxEvents
      /\ UNCHANGED <<shown, active, content, session, refreshing, shows, asked, blamed, highlight>>
  BY HappensFits DEF Move, EditorsInv
<1>2. ScreenType'
  BY <1>1 DEF EditorsInv, ScreenType
<1>3. BlameInv'
  BY <1>1, BlameScheduled DEF EditorsInv, BlameInv, BlameOnCourse
<1>4. HighlightInv'
  BY <1>1, HighlightSame
<1> QED
  BY <1>2, <1>3, <1>4 DEF EditorsInv

LEMMA RefreshStep ==
  ASSUME EditorsInv, RefreshAgain
  PROVE  EditorsInv'
<1>1. /\ refreshing' = TRUE /\ events' \in 0..MaxEvents
      /\ UNCHANGED <<shown, active, content, window, session, shows, blameVars, highlight>>
  BY HappensFits DEF RefreshAgain, EditorsInv
<1>2. ScreenType'
  BY <1>1 DEF EditorsInv, ScreenType, blameVars
<1>3. BlameInv'
  BY <1>1, BlameKept DEF EditorsInv
<1>4. HighlightInv'
  BY <1>1, HighlightSame
<1> QED
  BY <1>2, <1>3, <1>4 DEF EditorsInv

LEMMA SessionStep ==
  ASSUME EditorsInv, SessionChanges
  PROVE  EditorsInv'
<1>1. /\ refreshing = TRUE /\ session' \in Roots \cup {None}
      /\ UNCHANGED <<shown, active, content, window, refreshing, shows, events, blameVars, highlight>>
  BY DEF SessionChanges, EditorsInv, ScreenType
<1>2. ScreenType'
  BY <1>1 DEF EditorsInv, ScreenType, blameVars
<1>3. BlameInv'
  BY <1>1, BlameKept DEF EditorsInv
<1>4. HighlightInv'
  BY <1>1, HighlightSame
<1> QED
  BY <1>2, <1>3, <1>4 DEF EditorsInv

(* What a load that has begun leaves of a highlight. *)
Begun(h, s, r, load) ==
  clearDecorations([h EXCEPT !.suppressed = None, !.selection = s, !.root = r,
                             !.prepared = None, !.load = load])

LEMMA LoadBegins ==
  ASSUME NEW h \in Highlights, NEW load \in Loads, NEW s \in Selections \cup {None},
         NEW r \in Roots \cup {None}
  PROVE  LET w == Begun(h, s, r, load) IN
         w \in Highlights /\ Silent(w) /\ w.load = load /\ w.upd = h.upd
<1> DEFINE v == [h EXCEPT !.suppressed = None, !.selection = s, !.root = r,
                          !.prepared = None, !.load = load]
           w == Begun(h, s, r, load)
<1>1. v \in Highlights /\ v.suppressed = None /\ v.load = load /\ v.upd = h.upd
  BY DEF Highlights
<1>2. w = clearDecorations(v)
  BY DEF Begun
<1> HIDE DEF v
<1>3. w \in Highlights /\ w.suppressed = None /\ w.load = load /\ w.upd = h.upd
  BY <1>1, <1>2, ClearDecorationsFits
<1> HIDE DEF w
<1>4. Silent(w)
  BY <1>3 DEF Silent
<1> QED
  BY <1>3, <1>4 DEF w

LEMMA SelectStep ==
  ASSUME EditorsInv, NEW s \in Selections, Select(s)
  PROVE  EditorsInv'
<1>1. /\ highlight' = select(highlight, s, session) /\ events' \in 0..MaxEvents
      /\ UNCHANGED <<shown, active, content, window, session, refreshing, shows, blameVars>>
  BY HappensFits DEF Select, EditorsInv
<1>2. /\ highlight \in Highlights /\ shows' \subseteq Selections
      /\ session \in Roots \cup {None}
  BY <1>1 DEF EditorsInv, HighlightInv, ScreenType
<1>3. ScreenType'
  BY <1>1 DEF EditorsInv, ScreenType, blameVars
<1>4. BlameInv'
  BY <1>1, BlameKept DEF EditorsInv
<1>5. HighlightInv'
  <2> DEFINE started == [highlight EXCEPT !.suppressed = None, !.load = NoLoad]
             load == [of |-> s, root |-> session, stage |-> "diff"]
  <2>1. CASE session = None
    <3>1. started \in Highlights
      BY <1>2 DEF Highlights
    <3>2. highlight' = clear(started)
      BY <1>1, <2>1 DEF select
    <3> HIDE DEF started
    <3>3. /\ highlight' \in Highlights /\ highlight'.selection = None /\ highlight'.load = NoLoad
          /\ highlight'.upd = NoCall /\ \A c \in Columns : highlight'.marks[c] = None
      BY <3>1, <3>2, ClearFits
    <3>4. Silent(highlight') /\ UpToDate(highlight', Document(shown', active'), active', session')
      BY <3>3 DEF Silent, UpToDate
    <3> QED
      BY <1>2, <1>3, <3>3, <3>4, UpToDateFits
  <2>2. CASE session # None
    <3>1. load \in Loads
      BY <1>2, <2>2 DEF Loads
    <3>2. highlight' = Begun(highlight, None, None, load)
      <4>1. [started EXCEPT !.selection = None, !.root = None, !.prepared = None, !.load = load]
              = [highlight EXCEPT !.suppressed = None, !.selection = None,
                                  !.root = None, !.prepared = None, !.load = load]
        BY <1>2 DEF Highlights
      <4> QED
        BY <1>1, <2>2, <4>1 DEF select, Begun
    <3>3. load.stage = "diff"
      OBVIOUS
    <3> HIDE DEF load
    <3>n. None \in Selections \cup {None} /\ None \in Roots \cup {None}
      OBVIOUS
    <3>4. /\ highlight' \in Highlights /\ Silent(highlight') /\ highlight'.load = load
          /\ highlight'.upd = highlight.upd
      BY <1>2, <3>1, <3>2, <3>n, LoadBegins
    <3>5. Updates'
      BY <3>1, <3>3, <3>4, NothingElse DEF Updates, Load
    <3> QED
      BY <1>1, <1>2, <3>4, <3>5, LoadingFits DEF EditorsInv
  <2> QED
    BY <2>1, <2>2
<1> QED
  BY <1>3, <1>4, <1>5 DEF EditorsInv

LEMMA ClearByUserStep ==
  ASSUME EditorsInv, ClearByUser
  PROVE  EditorsInv'
<1> DEFINE doc == Document(shown, active)
           uri == IF doc \in Selections THEN doc ELSE highlight.prepared
           w == clear(highlight)
<1>1. /\ highlight' = [w EXCEPT !.suppressed = uri] /\ events' \in 0..MaxEvents
      /\ UNCHANGED <<shown, active, content, window, session, refreshing, shows, blameVars>>
  BY HappensFits DEF ClearByUser, EditorsInv
<1>2. highlight \in Highlights /\ shows' \subseteq Selections
  BY <1>1 DEF EditorsInv, HighlightInv
<1>3. uri \in Selections \cup {None}
  BY <1>2 DEF Highlights
<1>4. /\ w \in Highlights /\ w.selection = None /\ w.load = NoLoad /\ w.upd = NoCall
      /\ \A c \in Columns : w.marks[c] = None
  BY <1>2, ClearFits
<1> HIDE DEF uri, w
<1>5. /\ highlight' \in Highlights /\ highlight'.selection = None /\ highlight'.load = NoLoad
      /\ highlight'.upd = NoCall /\ \A c \in Columns : highlight'.marks[c] = None
  BY <1>1, <1>3, <1>4 DEF Highlights
<1>6. Silent(highlight') /\ UpToDate(highlight', Document(shown', active'), active', session')
  BY <1>5 DEF Silent, UpToDate
<1>7. ScreenType'
  BY <1>1 DEF EditorsInv, ScreenType, blameVars
<1>8. BlameInv'
  BY <1>1, BlameKept DEF EditorsInv
<1>9. HighlightInv'
  BY <1>2, <1>5, <1>6, <1>7, UpToDateFits
<1> QED
  BY <1>7, <1>8, <1>9 DEF EditorsInv

LEMMA RestoreFits ==
  ASSUME NEW h \in Highlights, Silent(h), NEW s \in Selections, NEW column \in Columns,
         NEW r \in Roots
  PROVE  LET w == restore(h, s, column, r) IN
         /\ w \in Highlights /\ Silent(w)
         /\ \/ UpToDate(w, s, column, r)
            \/ w.load \in Loads /\ w.load.of = s /\ w.upd = h.upd
<1> DEFINE allowed == [h EXCEPT !.suppressed = None]
           load == [of |-> s, root |-> r, stage |-> "restoring"]
           w == restore(h, s, column, r)
<1>1. CASE h.suppressed = s
  <2>1. w = clearDecorations(h)
    BY <1>1 DEF restore
  <2>2. h.suppressed # None
    BY <1>1, NothingElse
  <2>3. /\ w \in Highlights /\ w.upd = NoCall /\ w.load = NoLoad /\ w.selection = None
        /\ \A c \in Columns : w.marks[c] = None
    BY <2>1, <2>2, ClearDecorationsFits DEF Silent
  <2> QED
    BY <2>3 DEF Silent, UpToDate
<1>2. CASE h.suppressed # s /\ h.prepared = s /\ h.root = r /\ h.selection = s
  <2>1. w = update(allowed, s, column, r)
    BY <1>2 DEF restore
  <2>2. allowed \in Highlights /\ allowed.suppressed = None
    BY DEF Highlights
  <2> HIDE DEF allowed
  <2>3. Silent(allowed) /\ s \in Documents
    BY <2>2 DEF Silent, Documents
  <2> QED
    BY <2>1, <2>2, <2>3, UpdateFits
<1>3. CASE h.suppressed # s /\ ~(h.prepared = s /\ h.root = r /\ h.selection = s)
  <2>1. w = Begun(h, s, r, load)
    <3>1. [allowed EXCEPT !.selection = s, !.root = r, !.prepared = None, !.load = load]
            = [h EXCEPT !.suppressed = None, !.selection = s, !.root = r,
                        !.prepared = None, !.load = load]
      BY DEF Highlights
    <3> QED
      BY <1>3, <3>1 DEF restore, Begun
  <2>2. load \in Loads /\ load.of = s
    BY DEF Loads
  <2> HIDE DEF load
  <2> QED
    BY <2>1, <2>2, LoadBegins
<1> QED
  BY <1>1, <1>2, <1>3

LEMMA ContinueStep ==
  ASSUME EditorsInv, RefreshContinues
  PROVE  EditorsInv'
<1> DEFINE doc == Document(shown, active)
<1>1. /\ refreshing' = FALSE
      /\ UNCHANGED <<shown, active, content, window, session, shows, events>>
      /\ \/ /\ session = None /\ asked' = NoCall /\ blamed' = [c \in Columns |-> None]
            /\ highlight' = clear(highlight) /\ UNCHANGED timer
         \/ /\ session # None /\ timer' = TRUE /\ UNCHANGED <<asked, blamed>>
            /\ highlight' = IF doc \in Selections /\ Root[doc] = session
                              THEN restore(highlight, doc, active, session)
                              ELSE update(highlight, doc, active, session)
  BY DEF RefreshContinues
<1>2. /\ highlight \in Highlights /\ Silent(highlight) /\ shows' \subseteq Selections
      /\ session \in Roots \cup {None}
  BY <1>1 DEF EditorsInv, HighlightInv, ScreenType
<1>3. /\ doc \in Documents \cup {None} /\ (doc # None => active \in Columns)
      /\ doc = Document(shown', active')
  BY <1>1, NothingElse DEF Document, EditorsInv, ScreenType
<1>4. ScreenType'
  <2>1. asked' \in [doc : Files, column : Columns, text : Contents, window : Windows, root : Roots]
                     \cup {NoCall}
    BY <1>1 DEF EditorsInv, ScreenType
  <2>2. blamed' \in [Columns -> Blames \cup {None}]
    BY <1>1 DEF EditorsInv, ScreenType
  <2>3. timer' \in BOOLEAN
    BY <1>1 DEF EditorsInv, ScreenType
  <2> QED
    BY <1>1, <2>1, <2>2, <2>3 DEF EditorsInv, ScreenType
<1> HIDE DEF doc
<1>5. CASE session = None
  <2>1. BlameInv'
    BY <1>1, <1>5 DEF BlameInv, BlameOnCourse, BlameAtRest
  <2>2. /\ highlight' \in Highlights /\ highlight'.selection = None /\ highlight'.load = NoLoad
        /\ highlight'.upd = NoCall /\ \A c \in Columns : highlight'.marks[c] = None
    BY <1>1, <1>2, <1>5, ClearFits
  <2>3. Silent(highlight') /\ UpToDate(highlight', Document(shown', active'), active', session')
    BY <2>2 DEF Silent, UpToDate
  <2>4. HighlightInv'
    BY <1>2, <1>4, <2>2, <2>3, UpToDateFits
  <2> QED
    BY <1>4, <2>1, <2>4 DEF EditorsInv
<1>6. CASE session # None
  <2>1. BlameInv'
    BY <1>1, <1>6, BlameScheduled DEF EditorsInv, BlameInv, BlameOnCourse
  <2>2. CASE doc \in Selections /\ Root[doc] = session
    <3>1. highlight' = restore(highlight, doc, active, session)
      BY <1>1, <1>6, <2>2
    <3>2. active \in Columns /\ session \in Roots
      BY <1>2, <1>3, <1>6, <2>2, NothingElse
    <3>3. /\ highlight' \in Highlights /\ Silent(highlight')
          /\ \/ UpToDate(highlight', doc, active, session)
             \/ /\ highlight'.load \in Loads /\ highlight'.load.of = doc
                /\ highlight'.upd = highlight.upd
      BY <1>2, <2>2, <3>1, <3>2, RestoreFits
    <3>4. CASE UpToDate(highlight', doc, active, session)
      <4>1. HighlightInv'
        BY <1>1, <1>2, <1>3, <1>4, <3>3, <3>4, UpToDateFits
      <4> QED
        BY <1>4, <2>1, <4>1 DEF EditorsInv
    <3>5. CASE /\ highlight'.load \in Loads /\ highlight'.load.of = doc
               /\ highlight'.upd = highlight.upd
      <4>1. Updates'
        BY <1>3, <3>5, NothingElse DEF Updates, Load
      <4>2. HighlightInv'
        BY <1>1, <1>2, <3>3, <3>5, <4>1, LoadingFits DEF EditorsInv
      <4> QED
        BY <1>4, <2>1, <4>2 DEF EditorsInv
    <3> QED
      BY <3>3, <3>4, <3>5
  <2>3. CASE ~(doc \in Selections /\ Root[doc] = session)
    <3>1. highlight' = update(highlight, doc, active, session)
      BY <1>1, <1>6, <2>3
    <3>2. /\ highlight' \in Highlights /\ Silent(highlight')
          /\ UpToDate(highlight', doc, active, session)
      BY <1>2, <1>3, <3>1, UpdateFits
    <3>3. HighlightInv'
      BY <1>1, <1>2, <1>3, <1>4, <3>2, UpToDateFits
    <3> QED
      BY <1>4, <2>1, <3>3 DEF EditorsInv
  <2> QED
    BY <2>2, <2>3
<1> QED
  BY <1>5, <1>6

-----------------------------------------------------------------------------
(* LineBlameController.                                                     *)

(* A step of it, which is none of the highlight's. *)
LEMMA BlameOnly ==
  ASSUME EditorsInv, UNCHANGED <<editorVars, highlight>>, timer' \in BOOLEAN,
         asked' \in [doc : Files, column : Columns, text : Contents, window : Windows, root : Roots]
                    \cup {NoCall},
         blamed' \in [Columns -> Blames \cup {None}], BlameInv'
  PROVE  EditorsInv'
<1>1. UNCHANGED <<shown, active, content, window, session, refreshing, shows, events, highlight>>
  BY DEF editorVars
<1>2. ScreenType'
  BY <1>1 DEF EditorsInv, ScreenType
<1>3. HighlightInv'
  BY <1>1, HighlightSame
<1> QED
  BY <1>2, <1>3 DEF EditorsInv

LEMMA BlameUpdateStep ==
  ASSUME EditorsInv, BlameUpdate
  PROVE  EditorsInv'
<1> DEFINE doc == Document(shown, active)
           call == [doc |-> doc, column |-> active, text |-> content[doc], window |-> window,
                    root |-> session]
<1>1. /\ UNCHANGED <<editorVars, highlight>> /\ timer' = FALSE
      /\ UNCHANGED <<shown, active, content, window, session, refreshing>>
  BY DEF BlameUpdate, editorVars
<1>2. /\ blamed \in [Columns -> Blames \cup {None}]
      /\ \A c \in Columns : blamed[c] # None => c = active
      /\ active \in Columns \cup {None}
  BY DEF EditorsInv, BlameInv, BlameOnCourse, ScreenType
<1>3. CASE doc \in Files /\ session # None /\ Root[doc] = session /\ window # None
  <2>1. asked' = call /\ blamed' = blamed
    BY <1>3 DEF BlameUpdate
  <2>2. active # None /\ doc = shown[active]
    BY <1>3, NothingElse DEF Document, Documents
  <2>3. call \in [doc : Files, column : Columns, text : Contents, window : Windows, root : Roots]
    BY <1>2, <1>3, <2>2 DEF EditorsInv, ScreenType
  <2>4. call # NoCall
    BY <1>3, NothingElse DEF NoCall, Documents
  <2>5. BlameInv'
    BY <1>1, <1>2, <1>3, <2>1, <2>2, <2>4 DEF BlameInv, BlameOnCourse, BlameAtRest
  <2> HIDE DEF call
  <2> QED
    BY <1>1, <1>2, <2>1, <2>3, <2>5, BlameOnly
<1>4. CASE ~(doc \in Files /\ session # None /\ Root[doc] = session /\ window # None)
  <2>1. /\ asked' = NoCall
        /\ blamed' = IF active = None THEN blamed ELSE [blamed EXCEPT ![active] = None]
    BY <1>4 DEF BlameUpdate
  <2>2. blamed' \in [Columns -> Blames \cup {None}] /\ \A c \in Columns : blamed'[c] = None
    BY <1>2, <2>1, NothingElse
  <2>3. BlameInv'
    BY <2>1, <2>2 DEF BlameInv, BlameOnCourse, BlameAtRest
  <2> QED
    BY <1>1, <2>1, <2>2, <2>3, BlameOnly
<1> QED
  BY <1>3, <1>4

LEMMA BlameAnswersStep ==
  ASSUME EditorsInv, BlameAnswers
  PROVE  EditorsInv'
<1>1. /\ UNCHANGED <<editorVars, timer, highlight>> /\ asked # NoCall /\ asked' = NoCall
      /\ UNCHANGED <<shown, active, content, window, session, refreshing>>
  BY DEF BlameAnswers, editorVars
<1>2. /\ blamed \in [Columns -> Blames \cup {None}] /\ timer' \in BOOLEAN
      /\ \A c \in Columns : blamed[c] # None => c = active
      /\ asked.doc \in Files /\ asked.column \in Columns /\ asked.text \in Contents
      /\ asked.window \in Windows /\ asked.root \in Roots
      /\ content[asked.doc] \in Contents
  BY <1>1 DEF EditorsInv, BlameInv, BlameOnCourse, ScreenType
<1>3. ~timer => /\ active = asked.column /\ shown[active] = asked.doc
                /\ asked.text = content[asked.doc] /\ asked.window = window
                /\ Root[asked.doc] = asked.root
                /\ ~refreshing => asked.root = session
  BY <1>1 DEF EditorsInv, BlameInv, BlameOnCourse
<1>4. CASE active = asked.column /\ shown[active] = asked.doc
  <2>1. PICK text \in {asked.text, content[asked.doc]} :
          blamed' = [blamed EXCEPT ![active] =
                       [text |-> text, window |-> asked.window, root |-> asked.root]]
    BY <1>4 DEF BlameAnswers
  <2> DEFINE b == [text |-> text, window |-> asked.window, root |-> asked.root]
  <2>2. b \in Blames
    BY <1>2, <2>1 DEF Blames
  <2>3. /\ b.text = text /\ b.window = asked.window /\ b.root = asked.root
        /\ blamed' = [blamed EXCEPT ![active] = b]
    BY <2>1
  <2>e. ~timer /\ ~refreshing => b = [text |-> content[asked.doc], window |-> window, root |-> session]
    BY <1>3, <2>1
  <2> HIDE DEF b
  <2>4. /\ blamed' \in [Columns -> Blames \cup {None}] /\ blamed'[active] = b
        /\ \A c \in Columns : c # active => blamed'[c] = None
    BY <1>2, <1>4, <2>2, <2>3
  <2>5. BlameOnCourse'
    BY <1>1, <2>4 DEF BlameOnCourse
  <2>6. BlameAtRest'
    BY <1>1, <1>2, <1>3, <1>4, <2>4, <2>e DEF BlameAtRest
  <2> QED
    BY <1>1, <1>2, <2>4, <2>5, <2>6, BlameOnly DEF BlameInv
<1>5. CASE ~(active = asked.column /\ shown[active] = asked.doc)
  <2>1. blamed' = blamed /\ timer' = TRUE
    BY <1>1, <1>3, <1>5 DEF BlameAnswers, EditorsInv, ScreenType
  <2>2. BlameInv'
    BY <1>1, <1>2, <2>1, BlameScheduled
  <2> QED
    BY <1>1, <1>2, <2>1, <2>2, BlameOnly
<1> QED
  BY <1>4, <1>5

LEMMA BlameFailsStep ==
  ASSUME EditorsInv, BlameFails
  PROVE  EditorsInv'
<1>1. /\ UNCHANGED <<editorVars, timer, highlight>> /\ asked # NoCall /\ asked' = NoCall
      /\ UNCHANGED <<shown, active, content, window, session, refreshing>>
      /\ blamed' = [blamed EXCEPT ![asked.column] = IF shown[asked.column] = asked.doc THEN None ELSE @]
  BY DEF BlameFails, editorVars
<1>2. /\ blamed \in [Columns -> Blames \cup {None}] /\ timer' \in BOOLEAN
      /\ \A c \in Columns : blamed[c] # None => c = active
      /\ asked.column \in Columns
  BY <1>1 DEF EditorsInv, BlameInv, BlameOnCourse, ScreenType
<1>3. /\ blamed' \in [Columns -> Blames \cup {None}]
      /\ \A c \in Columns : blamed'[c] # None => c = active
  BY <1>1, <1>2
<1>4. ~timer => active = asked.column /\ shown[active] = asked.doc
  BY <1>1 DEF EditorsInv, BlameInv, BlameOnCourse
<1>5. ~timer => \A c \in Columns : blamed'[c] = None
  BY <1>1, <1>2, <1>4
<1>6. BlameInv'
  BY <1>1, <1>3, <1>5 DEF BlameInv, BlameOnCourse, BlameAtRest
<1> QED
  BY <1>1, <1>2, <1>3, <1>6, BlameOnly

-----------------------------------------------------------------------------
(* CommitHighlightController, after its awaits.                             *)

(* A load that goes on. *)
LEMMA StageFits ==
  ASSUME HighlightInv, Load # NoLoad, NEW stage,
         stage \in {"diff", "content", "preimage", "opening", "showing", "restoring"},
         NEW w, w = [highlight EXCEPT !.load.stage = stage]
  PROVE  /\ w \in Highlights /\ Silent(w) /\ w.upd = highlight.upd
         /\ w.load # NoLoad /\ w.load.stage = stage /\ w.load.of = Load.of
         /\ w.suppressed = None
<1>1. highlight \in Highlights /\ highlight.suppressed = None /\ highlight.load \in Loads
  BY DEF HighlightInv, Silent, Load, Highlights
<1> DEFINE load == [highlight.load EXCEPT !.stage = stage]
<1>2. load \in Loads /\ load.stage = stage /\ load.of = Load.of
  BY <1>1 DEF Loads, Load
<1>3. w = [highlight EXCEPT !.load = load]
  BY <1>1 DEF Highlights
<1> HIDE DEF load
<1>4. w \in Highlights /\ w.load = load /\ w.upd = highlight.upd /\ w.suppressed = None
  BY <1>1, <1>2, <1>3 DEF Highlights
<1> QED
  BY <1>2, <1>4, NothingElse DEF Silent

LEMMA DiffLoadedStep ==
  ASSUME EditorsInv, DiffLoaded
  PROVE  EditorsInv'
<1> DEFINE stage == IF Load.of \in Deleted THEN "preimage" ELSE "content"
<1>1. /\ Load # NoLoad /\ shows' = shows /\ Quiet
      /\ highlight' = [highlight EXCEPT !.load.stage = stage]
  BY DEF DiffLoaded, Loading
<1>2. stage \in {"preimage", "content"}
  OBVIOUS
<1> HIDE DEF stage
<1>3. /\ ScreenType' /\ BlameInv' /\ UNCHANGED <<shown, active>> /\ shows' \subseteq Selections
  BY <1>1, QuietFits DEF EditorsInv, HighlightInv
<1>4. /\ highlight' \in Highlights /\ Silent(highlight') /\ highlight'.upd = highlight.upd
      /\ highlight'.load # NoLoad /\ highlight'.load.stage = stage
  BY <1>1, <1>2, StageFits DEF EditorsInv
<1>5. Updates'
  BY <1>2, <1>4 DEF Updates, Load
<1>6. HighlightInv'
  BY <1>3, <1>4, <1>5, LoadingFits DEF EditorsInv
<1> QED
  BY <1>3, <1>6 DEF EditorsInv

LEMMA ContentLoadedStep ==
  ASSUME EditorsInv, ContentLoaded
  PROVE  EditorsInv'
<1> DEFINE w == [highlight EXCEPT !.load.stage = "opening"]
<1>1. Load # NoLoad /\ shows' = shows /\ Quiet
  BY DEF ContentLoaded, Loading
<1>2. /\ ScreenType' /\ BlameInv' /\ UNCHANGED <<shown, active>> /\ shows' \subseteq Selections
  BY <1>1, QuietFits DEF EditorsInv, HighlightInv
<1>3. Load.of \in Selections /\ Load.root \in Roots /\ highlight \in Highlights
  BY <1>1 DEF EditorsInv, HighlightInv, Highlights, Load, Loads
<1>4. /\ w \in Highlights /\ w.upd = highlight.upd /\ w.suppressed = None
      /\ w.load # NoLoad /\ w.load.stage = "opening"
  BY <1>1, StageFits DEF EditorsInv
<1>5. highlight' = [w EXCEPT !.selection = Load.of, !.root = Load.root, !.prepared = Load.of]
  BY <1>3 DEF ContentLoaded, Highlights
<1> HIDE DEF w
<1>6. /\ highlight' \in Highlights /\ highlight'.upd = highlight.upd /\ highlight'.suppressed = None
      /\ highlight'.load # NoLoad /\ highlight'.load.stage = "opening"
  BY <1>3, <1>4, <1>5 DEF Highlights
<1>7. Silent(highlight') /\ Updates'
  BY <1>6 DEF Silent, Updates, Load
<1>8. HighlightInv'
  BY <1>2, <1>6, <1>7, LoadingFits DEF EditorsInv
<1> QED
  BY <1>2, <1>8 DEF EditorsInv

LEMMA DocumentOpenedStep ==
  ASSUME EditorsInv, DocumentOpened
  PROVE  EditorsInv'
<1>1. /\ Load # NoLoad /\ shows' = shows \cup {Load.of} /\ Quiet
      /\ highlight' = [highlight EXCEPT !.load.stage = "showing"]
  BY DEF DocumentOpened, Loading
<1>2. Load.of \in Selections
  BY <1>1 DEF EditorsInv, HighlightInv, Highlights, Load, Loads
<1>3. /\ ScreenType' /\ BlameInv' /\ UNCHANGED <<shown, active>> /\ shows' \subseteq Selections
  BY <1>1, <1>2, QuietFits DEF EditorsInv, HighlightInv
<1>4. /\ highlight' \in Highlights /\ Silent(highlight') /\ highlight'.upd = highlight.upd
      /\ highlight'.load # NoLoad /\ highlight'.load.stage = "showing" /\ highlight'.load.of = Load.of
  BY <1>1, StageFits DEF EditorsInv
<1>5. Updates'
  BY <1>1, <1>4 DEF Updates, Load
<1>6. HighlightInv'
  BY <1>3, <1>4, <1>5, LoadingFits DEF EditorsInv
<1> QED
  BY <1>3, <1>6 DEF EditorsInv

LEMMA DocumentShownStep ==
  ASSUME EditorsInv, NEW s \in Selections, NEW c \in Columns, DocumentShown(s, c)
  PROVE  EditorsInv'
<1>1. events' = events /\ shows' = shows \ {s}
  BY DEF DocumentShown
<1>2. shows' \subseteq Selections /\ events' \in 0..MaxEvents
  BY <1>1 DEF EditorsInv, HighlightInv, ScreenType
<1>3. CASE Document(shown, active) = s
  <2>1. UNCHANGED <<shown, active, refreshing, content, window, session, blameVars, highlight>>
    BY <1>3 DEF DocumentShown
  <2>2. ScreenType'
    BY <1>1, <2>1 DEF EditorsInv, ScreenType, blameVars
  <2>3. BlameInv'
    BY <2>1, BlameKept DEF EditorsInv
  <2>4. Updates => Updates'
    BY <1>1, <1>3, <2>1 DEF Updates, Load
  <2>5. highlight \in Highlights /\ Silent(highlight)
    BY DEF EditorsInv, HighlightInv
  <2>6. HighlightInv'
    BY <1>2, <2>1, <2>4, <2>5, HighlightKept DEF EditorsInv
  <2> QED
    BY <2>2, <2>3, <2>6 DEF EditorsInv
<1>4. CASE Document(shown, active) # s
  <2> DEFINE columns == [shown EXCEPT ![c] = s]
  <2>1. Focus(columns, c)
    BY <1>4 DEF DocumentShown
  <2>2. columns \in [Columns -> Documents \cup {None}] /\ columns[c] = s /\ s # None
    BY NothingElse DEF EditorsInv, ScreenType, Documents
  <2> HIDE DEF columns
  <2> QED
    BY <1>2, <2>1, <2>2, FocusFits
<1> QED
  BY <1>3, <1>4

(* A load that has ended. *)
LEMMA DoneFits ==
  ASSUME HighlightInv
  PROVE  LET w == [highlight EXCEPT !.load = NoLoad] IN
         /\ w \in Highlights /\ Silent(w)
         /\ w.upd = highlight.upd /\ w.selection = highlight.selection
         /\ w.root = highlight.root /\ w.marks = highlight.marks
         /\ w.suppressed = highlight.suppressed
<1> DEFINE w == [highlight EXCEPT !.load = NoLoad]
<1>1. /\ w \in Highlights /\ w.load = NoLoad
      /\ w.upd = highlight.upd /\ w.selection = highlight.selection
      /\ w.root = highlight.root /\ w.marks = highlight.marks
      /\ w.suppressed = highlight.suppressed
  BY DEF HighlightInv, Highlights
<1>2. Silent(highlight)
  BY DEF HighlightInv
<1> HIDE DEF w
<1>3. Silent(w)
  BY <1>1, <1>2 DEF Silent
<1> QED
  BY <1>1, <1>3 DEF w

(* A load ends with an update of the document it has shown, or with nothing. *)
LEMMA EndFits ==
  ASSUME EditorsInv, Quiet, shows' = shows, ~Updates \/ Document(shown, active) = Load.of,
         Load # NoLoad, NEW h \in Highlights, Silent(h),
         highlight' = IF Document(shown, active) = Load.of
                        THEN update(h, Load.of, active, session)
                        ELSE [highlight EXCEPT !.load = NoLoad]
  PROVE  EditorsInv'
<1>1. /\ ScreenType' /\ BlameInv' /\ UNCHANGED <<shown, active, content, session, refreshing>>
      /\ shows' \subseteq Selections
  BY QuietFits DEF EditorsInv, HighlightInv
<1>2. CASE Document(shown, active) = Load.of
  <2>1. Load.of \in Documents /\ session \in Roots \cup {None}
    BY DEF EditorsInv, HighlightInv, ScreenType, Highlights, Load, Loads, Documents
  <2>2. active \in Columns
    BY <1>2, <2>1, NothingElse DEF Document, EditorsInv, ScreenType
  <2>3. /\ highlight' \in Highlights /\ Silent(highlight')
        /\ UpToDate(highlight', Load.of, active, session)
    BY <1>2, <2>1, <2>2, UpdateFits
  <2>4. Document(shown', active') = Load.of /\ active' = active /\ session' = session
    BY <1>1, <1>2
  <2>5. HighlightInv'
    BY <1>1, <2>3, <2>4, UpToDateFits
  <2> QED
    BY <1>1, <2>5 DEF EditorsInv
<1>3. CASE Document(shown, active) # Load.of
  <2>1. highlight' = [highlight EXCEPT !.load = NoLoad] /\ ~Updates
    BY <1>3
  <2>2. /\ highlight' \in Highlights /\ Silent(highlight')
        /\ highlight'.upd = highlight.upd /\ highlight'.selection = highlight.selection
        /\ highlight'.root = highlight.root /\ highlight'.marks = highlight.marks
    BY <2>1, DoneFits DEF EditorsInv
  <2>3. HighlightInv'
    BY <1>1, <2>1, <2>2, HighlightKept DEF EditorsInv
  <2> QED
    BY <1>1, <2>3 DEF EditorsInv
<1> QED
  BY <1>2, <1>3

LEMMA ShowReturnsStep ==
  ASSUME EditorsInv, ShowReturns
  PROVE  EditorsInv'
<1> DEFINE done == [highlight EXCEPT !.load = NoLoad]
<1>1. /\ Load # NoLoad /\ Load.stage = "showing" /\ Load.of \notin shows
      /\ shows' = shows /\ Quiet
      /\ highlight' = IF Document(shown, active) = Load.of
                        THEN update(done, Load.of, active, session) ELSE done
  BY DEF ShowReturns, Loading
<1>2. ~Updates \/ Document(shown, active) = Load.of
  BY <1>1 DEF Updates
<1>3. done \in Highlights /\ Silent(done)
  BY DoneFits DEF EditorsInv
<1> QED
  BY <1>1, <1>2, <1>3, EndFits

LEMMA RestoredStep ==
  ASSUME EditorsInv, Restored
  PROVE  EditorsInv'
<1> DEFINE done == [highlight EXCEPT !.load = NoLoad]
           w == [done EXCEPT !.prepared = Load.of]
<1>1. /\ Load # NoLoad /\ Load.stage = "restoring" /\ shows' = shows /\ Quiet
      /\ highlight' = IF Document(shown, active) = Load.of
                        THEN update(w, Load.of, active, session) ELSE done
  BY DEF Restored, Loading
<1>2. ~Updates \/ Document(shown, active) = Load.of
  BY <1>1 DEF Updates
<1>3. Load.of \in Selections /\ highlight.suppressed = None
  BY <1>1 DEF EditorsInv, HighlightInv, Highlights, Silent, Load, Loads
<1>4. done \in Highlights /\ done.suppressed = None
  BY <1>3, DoneFits DEF EditorsInv
<1>5. w \in Highlights /\ Silent(w)
  <2> HIDE DEF done
  <2>1. w \in Highlights /\ w.suppressed = None
    BY <1>3, <1>4 DEF Highlights
  <2> QED
    BY <2>1 DEF Silent
<1> HIDE DEF w
<1> QED
  BY <1>1, <1>2, <1>5, EndFits

(* A highlight that has been cleared, or that shows nothing. *)
LEMMA BlankFits ==
  ASSUME EditorsInv, Quiet, shows' \subseteq Selections, highlight' \in Highlights,
         Silent(highlight'), highlight'.upd = NoCall, \A c \in Columns : highlight'.marks[c] = None
  PROVE  EditorsInv'
<1>1. ScreenType' /\ BlameInv'
  BY QuietFits DEF EditorsInv
<1>2. UpToDate(highlight', Document(shown', active'), active', session')
  BY DEF UpToDate
<1>3. HighlightInv'
  BY <1>1, <1>2, UpToDateFits
<1> QED
  BY <1>1, <1>3 DEF EditorsInv

LEMMA LoadFailsStep ==
  ASSUME EditorsInv, LoadFails
  PROVE  EditorsInv'
<1>1. /\ highlight' = clear(highlight) /\ Quiet
      /\ shows' = IF Load.stage = "showing" THEN shows \ {Load.of} ELSE shows
  BY DEF LoadFails
<1>2. highlight \in Highlights /\ shows' \subseteq Selections
  BY <1>1 DEF EditorsInv, HighlightInv
<1>3. /\ highlight' \in Highlights /\ highlight'.selection = None /\ highlight'.load = NoLoad
      /\ highlight'.upd = NoCall /\ \A c \in Columns : highlight'.marks[c] = None
  BY <1>1, <1>2, ClearFits
<1>4. Silent(highlight')
  BY <1>3 DEF Silent
<1> QED
  BY <1>1, <1>2, <1>3, <1>4, BlankFits

(* What is known while an update is awaited. *)
LEMMA UpdatingFits ==
  ASSUME EditorsInv, Upd # NoCall
  PROVE  /\ ~Elsewhere /\ Upd = highlight.upd /\ highlight \in Highlights
         /\ Upd \in UpdateCalls /\ Upd.column \in Columns /\ Upd.selection \in Selections
         /\ highlight.suppressed = None
BY DEF EditorsInv, HighlightInv, HighlightOnCourse, Highlights, UpdateCalls, Upd, Elsewhere, Silent

(* An update that fails, or that finds another text. *)
LEMMA AbandonedStep ==
  ASSUME EditorsInv, Upd # NoCall, Quiet, shows' = shows,
         highlight' = clearDecorations(Abandoned)
  PROVE  EditorsInv'
<1>1. highlight \in Highlights /\ highlight.suppressed = None /\ shows' \subseteq Selections
  BY UpdatingFits DEF EditorsInv, HighlightInv
<1>2. Abandoned \in Highlights /\ Abandoned.upd = NoCall /\ Abandoned.suppressed = None
  BY <1>1, AbandonFits DEF Abandoned
<1>3. /\ highlight' \in Highlights /\ highlight'.upd = NoCall /\ highlight'.suppressed = None
      /\ \A c \in Columns : highlight'.marks[c] = None
  BY <1>2, ClearDecorationsFits
<1>4. Silent(highlight')
  BY <1>3 DEF Silent
<1> QED
  BY <1>1, <1>3, <1>4, BlankFits

(* An update that ends with a highlight. *)
LEMMA AppliedStep ==
  ASSUME EditorsInv, Upd # NoCall, Quiet, shows' = shows,
         ~Updates /\ Upd.doc # Upd.selection => content[Upd.doc] = Blob[Upd.selection],
         highlight' = applyDecorations(highlight, Upd.column, Upd.selection)
  PROVE  EditorsInv'
<1>1. /\ ScreenType' /\ BlameInv' /\ UNCHANGED <<shown, active, content, session, refreshing>>
      /\ shows' \subseteq Selections
  BY QuietFits DEF EditorsInv, HighlightInv
<1>2. /\ highlight \in Highlights /\ Upd.column \in Columns /\ Upd.selection \in Selections
      /\ highlight.suppressed = None /\ active = Upd.column /\ shown[active] = Upd.doc
  BY UpdatingFits DEF Elsewhere
<1>3. /\ highlight' \in Highlights /\ highlight'.upd = NoCall
      /\ highlight'.marks[active] = Upd.selection
      /\ highlight'.selection = highlight.selection /\ highlight'.root = highlight.root
      /\ highlight'.suppressed = None /\ highlight'.load = highlight.load
  BY <1>2, ApplyFits
<1>4. Silent(highlight') /\ Upd' = NoCall /\ (Updates' <=> Updates)
  BY <1>1, <1>3 DEF Silent, Upd, Updates, Load
<1>5. ~Updates => /\ Upd.selection = highlight.selection /\ Fits(Upd.doc, Upd.selection)
                  /\ ~refreshing => highlight.root = session
  BY DEF EditorsInv, HighlightInv, HighlightOnCourse
<1>6. ~Updates => Fits(shown[active], highlight.marks[active])'
  BY <1>1, <1>2, <1>3, <1>5 DEF Fits
<1>7. HighlightOnCourse'
  BY <1>1, <1>2, <1>3, <1>4, <1>5, <1>6 DEF HighlightOnCourse
<1> QED
  BY <1>1, <1>3, <1>4, <1>7 DEF EditorsInv, HighlightInv

(* An update that goes on with the diff of the file. *)
LEMMA ComparedStep ==
  ASSUME EditorsInv, Upd # NoCall, Quiet, shows' = shows,
         content[Upd.doc] = Blob[Upd.selection],
         highlight' = [highlight EXCEPT !.upd.stage = "diff"]
  PROVE  EditorsInv'
<1>1. /\ ScreenType' /\ BlameInv' /\ UNCHANGED <<shown, active, content, session, refreshing>>
      /\ shows' \subseteq Selections
  BY QuietFits DEF EditorsInv, HighlightInv
<1>2. /\ highlight \in Highlights /\ Upd \in UpdateCalls /\ Upd = highlight.upd
      /\ highlight.suppressed = None /\ active = Upd.column /\ shown[active] = Upd.doc
  BY UpdatingFits DEF Elsewhere
<1> DEFINE upd == [highlight.upd EXCEPT !.stage = "diff"]
<1>3. /\ upd \in UpdateCalls /\ upd.stage = "diff" /\ upd.doc = Upd.doc
      /\ upd.column = Upd.column /\ upd.selection = Upd.selection
  BY <1>2 DEF UpdateCalls
<1>4. highlight' = [highlight EXCEPT !.upd = upd]
  BY <1>2 DEF Highlights
<1> HIDE DEF upd
<1>5. /\ highlight' \in Highlights /\ highlight'.upd = upd /\ highlight'.suppressed = None
      /\ highlight'.selection = highlight.selection /\ highlight'.root = highlight.root
      /\ highlight'.load = highlight.load
  BY <1>2, <1>3, <1>4 DEF Highlights
<1>6. Silent(highlight') /\ Upd' = upd /\ upd # NoCall /\ (Updates' <=> Updates)
  BY <1>1, <1>3, <1>5, NothingElse DEF Silent, Upd, Updates, Load
<1>7. ~Updates => /\ Upd.selection = highlight.selection /\ Fits(Upd.doc, Upd.selection)
                  /\ ~refreshing => highlight.root = session
  BY DEF EditorsInv, HighlightInv, HighlightOnCourse
<1>8. ~Updates => Fits(Upd.doc, Upd.selection)'
  BY <1>3, <1>5, <1>6, <1>7 DEF Fits
<1>9. HighlightOnCourse'
  BY <1>1, <1>2, <1>3, <1>5, <1>6, <1>7, <1>8 DEF HighlightOnCourse
<1> QED
  BY <1>1, <1>5, <1>6, <1>9 DEF EditorsInv, HighlightInv

LEMMA ContentComparedStep ==
  ASSUME EditorsInv, ContentCompared
  PROVE  EditorsInv'
<1>1. /\ Upd # NoCall /\ shows' = shows /\ Quiet
      /\ highlight' = IF Elsewhere THEN Abandoned
                      ELSE IF content[Upd.doc] # Blob[Upd.selection] THEN clearDecorations(Abandoned)
                      ELSE IF Upd.prepared THEN applyDecorations(highlight, Upd.column, Upd.selection)
                      ELSE [highlight EXCEPT !.upd.stage = "diff"]
  BY DEF ContentCompared, Updating
<1>2. ~Elsewhere
  BY <1>1, UpdatingFits
<1>3. CASE content[Upd.doc] # Blob[Upd.selection]
  BY <1>1, <1>2, <1>3, AbandonedStep
<1>4. CASE content[Upd.doc] = Blob[Upd.selection] /\ Upd.prepared
  BY <1>1, <1>2, <1>4, AppliedStep
<1>5. CASE content[Upd.doc] = Blob[Upd.selection] /\ ~Upd.prepared
  BY <1>1, <1>2, <1>5, ComparedStep
<1> QED
  BY <1>3, <1>4, <1>5

LEMMA DiffAnswersStep ==
  ASSUME EditorsInv, DiffAnswers
  PROVE  EditorsInv'
<1>1. /\ Upd # NoCall /\ Upd.stage = "diff" /\ shows' = shows /\ Quiet
      /\ highlight' = IF Elsewhere THEN Abandoned
                      ELSE applyDecorations(highlight, Upd.column, Upd.selection)
  BY DEF DiffAnswers, Updating
<1>2. ~Elsewhere
  BY <1>1, UpdatingFits
<1>3. ~Updates /\ Upd.doc # Upd.selection => content[Upd.doc] = Blob[Upd.selection]
  BY <1>1 DEF EditorsInv, HighlightInv, HighlightOnCourse
<1> QED
  BY <1>1, <1>2, <1>3, AppliedStep

LEMMA UpdateFailsStep ==
  ASSUME EditorsInv, UpdateFails
  PROVE  EditorsInv'
BY AbandonedStep DEF UpdateFails

-----------------------------------------------------------------------------
(* The theorems.                                                            *)

LEMMA EditorInitFits ==
  ASSUME EditorInit
  PROVE  EditorsInv
<1>1. highlight \in Highlights /\ Silent(highlight)
  <2> DEFINE marks == [c \in Columns |-> None]
  <2>1. marks \in [Columns -> Selections \cup {None}]
    OBVIOUS
  <2>2. highlight = [selection |-> None, root |-> None, prepared |-> None, suppressed |-> None,
                     load |-> NoLoad, upd |-> NoCall, marks |-> marks]
    BY DEF EditorInit
  <2> HIDE DEF marks
  <2> QED
    BY <2>1, <2>2 DEF Highlights, Silent
<1>2. ScreenType
  <2>1. shown \in [Columns -> Documents \cup {None}] /\ blamed \in [Columns -> Blames \cup {None}]
    BY DEF EditorInit
  <2>2. content \in [Files -> Contents] /\ events \in 0..MaxEvents
    BY EditorAssumption DEF EditorInit
  <2> QED
    BY <2>1, <2>2 DEF EditorInit, ScreenType
<1>3. BlameInv
  BY DEF EditorInit, BlameInv, BlameOnCourse, BlameAtRest
<1>4. HighlightOnCourse /\ shows \subseteq Selections
  BY DEF EditorInit, HighlightOnCourse, Upd
<1> QED
  BY <1>1, <1>2, <1>3, <1>4 DEF EditorsInv, HighlightInv

LEMMA EditorNextFits ==
  ASSUME EditorsInv, [EditorNext]_allEditorVars
  PROVE  EditorsInv'
<1>1. CASE UNCHANGED allEditorVars
  <2>1. /\ UNCHANGED <<shown, active, content, window, session, refreshing, shows, events, highlight>>
        /\ UNCHANGED blameVars
    BY <1>1 DEF allEditorVars, editorVars
  <2>2. ScreenType'
    BY <2>1 DEF EditorsInv, ScreenType, blameVars
  <2>3. BlameInv'
    BY <2>1, BlameKept DEF EditorsInv
  <2>4. HighlightInv'
    BY <2>1, HighlightSame
  <2> QED
    BY <2>2, <2>3, <2>4 DEF EditorsInv
<1>2. ASSUME NEW c \in Columns, Close(c) PROVE EditorsInv'
  BY <1>2, CloseStep
<1>3. ASSUME NEW c \in Columns, NEW d \in Documents, Activate(c, d) PROVE EditorsInv'
  BY <1>3, ActivateStep
<1>4. ASSUME NEW f \in Files, NEW text \in Contents, EditText(f, text) PROVE EditorsInv'
  BY <1>4, EditTextStep
<1>5. ASSUME NEW w \in Windows \cup {None}, Move(w) PROVE EditorsInv'
  BY <1>5, MoveStep
<1>6. ASSUME NEW s \in Selections, Select(s) PROVE EditorsInv'
  BY <1>6, SelectStep
<1>7. ASSUME NEW s \in Selections, NEW c \in Columns, DocumentShown(s, c) PROVE EditorsInv'
  BY <1>7, DocumentShownStep
<1>8. CASE RefreshAgain \/ SessionChanges \/ RefreshContinues \/ ClearByUser
  BY <1>8, RefreshStep, SessionStep, ContinueStep, ClearByUserStep
<1>9. CASE BlameUpdate \/ BlameAnswers \/ BlameFails
  BY <1>9, BlameUpdateStep, BlameAnswersStep, BlameFailsStep
<1>10. CASE DiffLoaded \/ ContentLoaded \/ DocumentOpened \/ ShowReturns \/ Restored \/ LoadFails
  BY <1>10, DiffLoadedStep, ContentLoadedStep, DocumentOpenedStep, ShowReturnsStep, RestoredStep,
     LoadFailsStep
<1>11. CASE ContentCompared \/ DiffAnswers \/ UpdateFails
  BY <1>11, ContentComparedStep, DiffAnswersStep, UpdateFailsStep
<1> QED
  BY <1>1, <1>2, <1>3, <1>4, <1>5, <1>6, <1>7, <1>8, <1>9, <1>10, <1>11 DEF EditorNext

LEMMA EditorsAlways == EditorSpec => []EditorsInv
<1>1. EditorInit => EditorsInv
  BY EditorInitFits
<1>2. EditorsInv /\ [EditorNext]_allEditorVars => EditorsInv'
  BY EditorNextFits
<1> QED
  BY <1>1, <1>2, PTL DEF EditorSpec

(* What is shown in the editors keeps to its type, a highlight that the user has
   cleared stays clear whatever is still awaited, and every call of the two
   controllers that can still do something is of the active editor, of the
   selected commit and, but for a refresh on its way, of the repository of the
   session (controllers.ts, LineBlameController and CommitHighlightController). *)
THEOREM EditorsAreOnCourse == EditorSpec => []EditorInv
<1>1. EditorsInv => EditorInv
  BY EditorParts DEF EditorsInv
<1> QED
  BY <1>1, EditorsAlways, PTL

(* Once nothing is scheduled or awaited, the blame in the active editor is of its
   text, its lines and the repository of the session, and there is no other: of
   whatever columns, files, repositories and texts there are. *)
THEOREM BlameSettles == EditorSpec => []BlameAtRest
<1>1. EditorsInv => BlameAtRest
  BY DEF EditorsInv, BlameInv
<1> QED
  BY <1>1, EditorsAlways, PTL

(* Once nothing is awaited, the active editor is highlighted for the selected
   commit of the session's repository, whose text it shows, or not at all. *)
THEOREM MarksSettle == EditorSpec => []MarksAtRest
<1>1. EditorsInv => MarksAtRest
  <2> SUFFICES ASSUME EditorsInv, Load = NoLoad, Upd = NoCall, ~refreshing, active # None,
                      highlight.marks[active] # None
               PROVE  /\ highlight.marks[active] = highlight.selection
                      /\ highlight.root = session /\ Root[shown[active]] = session
                      /\ shown[active] # highlight.marks[active] =>
                           /\ shown[active] = Path[highlight.marks[active]]
                           /\ content[shown[active]] = Blob[highlight.marks[active]]
    BY DEF MarksAtRest
  <2>1. ~Updates /\ HighlightOnCourse
    BY DEF Updates, EditorsInv, HighlightInv
  <2> QED
    BY <2>1 DEF HighlightOnCourse, Fits
<1> QED
  BY <1>1, EditorsAlways, PTL
===============================================================================
