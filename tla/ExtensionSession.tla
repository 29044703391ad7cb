-------------------------- MODULE ExtensionSession --------------------------
(***************************************************************************)
(* The VS Code extension between its user and the helper client: the       *)
(* repository session of GitGitRuntime (extension.ts) and the search view  *)
(* (search/view.ts, search/model.ts) that listens to it.                   *)
(*                                                                         *)
(* Everything runs in the extension host's event loop: a step is what one  *)
(* event does up to its next await.  Refreshes overlap, since each waits   *)
(* for a helper to start and for a repository to be discovered; searches   *)
(* overlap with them and with each other.                                  *)
(***************************************************************************)
EXTENDS Repositories, Integers, Sequences

CONSTANTS
  Targets,        \* RuntimeRefreshTarget: candidate directories, an expected root
  Drafts,         \* SearchDraft
  Invalid,        \* the drafts validateSearchDraft rejects
  MaxRefreshes,   \* bound: refreshGeneration
  MaxSearches     \* bound: nextRequestId

ASSUME BoundsAssumption == MaxRefreshes \in Nat /\ MaxSearches \in Nat
ASSUME DraftsAssumption == Invalid \subseteq Drafts /\ None \notin Drafts \cup Roots
ASSUME TargetsAssumption ==
  /\ None \notin Targets
  /\ \A t \in Targets : /\ Len(t.candidates) \in Nat \ {0}
                        /\ t.expected \in Roots \cup {None}

\* A refresh starts at most one helper client, which is known by its generation.
Generations == 1..MaxRefreshes
Requests == 1..MaxSearches

VARIABLES
  trusted,      \* vscode.workspace.isTrusted
  generation,   \* refreshGeneration
  newest,       \* the target of the newest refresh, None if it had none, a history
  waiting,      \* the newest refresh that waits for `starting`
  discovery,    \* the refreshTrusted that runs, `starting`
  helper,       \* GitGitRuntime.helper: a client, or 0
  clients,      \* [Generations -> what became of that helper client]
  phase, root, candidate,   \* RuntimeState.phase, its repository's root, candidate
  view,         \* SearchViewState
  cancellation, \* the request whose token source the view holds, or 0
  nextRequestId,
  searches,     \* [Requests -> the search call]
  viewRoot,     \* SearchViewProvider.repositoryRoot
  nodes         \* the results the tree shows

runtimeVars == <<trusted, generation, newest, waiting, discovery, helper, clients,
                 phase, root, candidate>>
viewVars == <<view, cancellation, nextRequestId, searches, viewRoot, nodes>>
vars == <<runtimeVars, viewVars>>

NoRefresh == [gen |-> 0, target |-> None]
NoDiscovery == [gen |-> 0, target |-> None, at |-> 0, client |-> 0]
NoResults == [root |-> None, draft |-> None]
NoSearch == [stage |-> "none", cancelled |-> FALSE, root |-> None, draft |-> None, client |-> 0]

\* initialSearchState, with the draft that is kept.
Fresh(draft) == [draft |-> draft, executed |-> None, active |-> 0, phase |-> "idle",
                 results |-> NoResults]

Init ==
  /\ trusted \in BOOLEAN
  /\ generation = 0
  /\ newest = None
  /\ waiting = NoRefresh
  /\ discovery = NoDiscovery
  /\ helper = 0
  /\ clients = [g \in Generations |-> "none"]
  /\ phase \in (IF trusted THEN {"idle", "unsupported"} ELSE {"untrusted"})
  /\ root = None
  /\ candidate = None
  /\ \E d \in Drafts : view = Fresh(d)
  /\ cancellation = 0
  /\ nextRequestId = 1
  /\ searches = [i \in Requests |-> NoSearch]
  /\ viewRoot = None
  /\ nodes = NoResults

-----------------------------------------------------------------------------
(* reduceSearchState.                                                       *)

SettledPhase(v, draft) ==
  IF v.executed = None THEN "idle" ELSE IF v.executed = draft THEN "ready" ELSE "stale"

ReduceEdit(v, draft) ==
  [v EXCEPT !.draft = draft,
            !.phase = IF v.active = 0 THEN SettledPhase(v, draft) ELSE "running"]

ReduceStart(v, i) == [v EXCEPT !.active = i, !.phase = "running"]

ReduceSuccess(v, i, results) ==
  IF v.active # i THEN v
  ELSE [v EXCEPT !.active = 0,
                 !.executed = results.draft,
                 !.phase = IF results.draft = v.draft THEN "ready" ELSE "stale",
                 !.results = results]

ReduceFailure(v, i) ==
  IF v.active # i THEN v ELSE [v EXCEPT !.active = 0, !.phase = "error"]

ReduceCancel(v, i) ==
  IF v.active # i THEN v
  ELSE [v EXCEPT !.active = 0, !.phase = SettledPhase(v, v.draft)]

-----------------------------------------------------------------------------
(* SearchViewProvider.                                                      *)

\* cancelActiveSearch: what it leaves of the view and of the search calls.
Inactive == IF view.active = 0 THEN view ELSE ReduceCancel(view, view.active)
TokenCancelled ==
  IF cancellation = 0 THEN searches ELSE [searches EXCEPT ![cancellation].cancelled = TRUE]

ResetView ==
  /\ view' = Fresh(view.draft)
  /\ searches' = TokenCancelled
  /\ cancellation' = 0
  /\ nodes' = NoResults

\* runtimeChanged, called by setState with the runtime's new state.
RuntimeChanged(newPhase, newRoot) ==
  LET switched == newPhase = "ready" /\ viewRoot \notin {None, newRoot}
      lost == newPhase \notin {"ready", "loading"} IN
  /\ IF switched \/ lost THEN ResetView
                         ELSE UNCHANGED <<view, searches, cancellation, nodes>>
  /\ viewRoot' = IF newPhase = "ready" THEN newRoot
                 ELSE IF newPhase = "loading" THEN viewRoot ELSE None
  /\ UNCHANGED nextRequestId

Edit(draft) ==
  /\ view' = ReduceEdit(view, draft)
  /\ UNCHANGED <<runtimeVars, cancellation, nextRequestId, searches, viewRoot, nodes>>

\* search: the attempt replaces the running one even when it is refused.
RefuseSearch(draft) ==
  /\ draft \in Invalid \/ phase # "ready"
  /\ view' = [ReduceEdit(Inactive, draft) EXCEPT !.phase = "error"]
  /\ searches' = TokenCancelled
  /\ cancellation' = 0
  /\ UNCHANGED <<runtimeVars, nextRequestId, viewRoot, nodes>>

StartSearch(draft) ==
  /\ draft \notin Invalid
  /\ phase = "ready"
  /\ nextRequestId \in Requests
  /\ view' = ReduceStart(ReduceEdit(Inactive, draft), nextRequestId)
  /\ searches' = [TokenCancelled EXCEPT ![nextRequestId] =
       [stage |-> "running", cancelled |-> FALSE, root |-> root, draft |-> draft,
        client |-> helper]]
  /\ cancellation' = nextRequestId
  /\ nextRequestId' = nextRequestId + 1
  /\ UNCHANGED <<runtimeVars, viewRoot, nodes>>

CancelSearch ==
  /\ view.active # 0
  /\ view' = ReduceCancel(view, view.active)
  /\ searches' = TokenCancelled
  /\ cancellation' = 0
  /\ UNCHANGED <<runtimeVars, nextRequestId, viewRoot, nodes>>

ClearSearch ==
  /\ ResetView
  /\ UNCHANGED <<runtimeVars, nextRequestId, viewRoot>>

\* The search call settles; the finally block.
Settles(i) ==
  /\ searches[i].stage = "running"
  /\ searches' = [searches EXCEPT ![i].stage = "settled"]
  /\ cancellation' = IF cancellation = i THEN 0 ELSE cancellation
  /\ UNCHANGED <<runtimeVars, nextRequestId, viewRoot>>

\* A response may be on its way to the view when its search is cancelled.
SearchSucceeds(i) ==
  /\ Settles(i)
  /\ clients[searches[i].client] = "live"
  /\ view' = ReduceSuccess(view, i, [root |-> searches[i].root, draft |-> searches[i].draft])
  /\ nodes' = view'.results

SearchFails(i) ==
  /\ Settles(i)
  /\ view' = IF searches[i].cancelled THEN view ELSE ReduceFailure(view, i)
  /\ UNCHANGED nodes

-----------------------------------------------------------------------------
(* GitGitRuntime.refresh and refreshTrusted.                                *)

ReadyForTarget(t) ==
  /\ phase = "ready"
  /\ t.expected \in {None, root}
  /\ \E k \in 1..Len(t.candidates) : t.candidates[k] \in {candidate, root}

SetState(newPhase, newRoot) ==
  /\ phase' = newPhase
  /\ root' = newRoot
  /\ RuntimeChanged(newPhase, newRoot)

\* helper?.dispose() closes the client, if there is one.
Closed(cs, h) == IF h = 0 THEN cs ELSE [cs EXCEPT ![h] = "closed"]

\* refreshTrusted up to its first await, with helper h and clients cs so far: a
\* helper is started unless there is one.
Begin(g, t, h, cs) ==
  /\ SetState("loading", None)
  /\ discovery' = [gen |-> g, target |-> t, at |-> IF h = 0 THEN 0 ELSE 1,
                   client |-> IF h = 0 THEN g ELSE h]
  /\ helper' = h
  /\ clients' = IF h = 0 THEN [cs EXCEPT ![g] = "starting"] ELSE cs

\* A blocked workspace, or no target: the helper goes at once.
RefreshNothing(newPhase) ==
  /\ newest' = None
  /\ clients' = Closed(clients, helper)
  /\ helper' = 0
  /\ candidate' = None
  /\ SetState(newPhase, None)
  /\ UNCHANGED <<waiting, discovery>>

RefreshTarget(t, force) ==
  /\ newest' = t
  /\ \/ /\ ~force
        /\ ReadyForTarget(t)
        /\ UNCHANGED <<waiting, discovery, helper, clients, phase, root, viewVars>>
     \/ /\ force \/ ~ReadyForTarget(t)
        /\ discovery # NoDiscovery
        /\ waiting' = [gen |-> generation + 1, target |-> t]
        /\ UNCHANGED <<discovery, helper, clients, phase, root, viewVars>>
     \/ /\ force \/ ~ReadyForTarget(t)
        /\ discovery = NoDiscovery
        /\ Begin(generation + 1, t, helper, clients)
        /\ UNCHANGED waiting
  /\ UNCHANGED candidate

Refresh(force) ==
  /\ generation < MaxRefreshes
  /\ generation' = generation + 1
  /\ \/ /\ ~trusted'
        /\ RefreshNothing("untrusted")
     \/ /\ trusted'
        /\ \/ RefreshNothing("unsupported")
           \/ RefreshNothing("idle")
           \/ \E t \in Targets : RefreshTarget(t, force)

\* The Refresh command forces a discovery; a change of editor does not.
UserRefreshes == UNCHANGED trusted /\ \E force \in BOOLEAN : Refresh(force)
GrantTrust == ~trusted /\ trusted' = TRUE /\ Refresh(TRUE)

NeverStale == FALSE   \* mutant: a discovery does not look at refreshGeneration

Discovering == discovery.at > 0
Stale == discovery.gen # generation

\* HelperClient.start: the client is live, or is closed and the promise rejects.
HelperStarts ==
  /\ discovery # NoDiscovery
  /\ ~Discovering
  /\ helper' = discovery.client
  /\ clients' = [clients EXCEPT ![discovery.client] = "live"]
  /\ discovery' = [discovery EXCEPT !.at = 1]
  /\ UNCHANGED <<trusted, generation, newest, waiting, phase, root, candidate, viewVars>>

EndSilently(h, cs) ==   \* mutant: a refresh that waits is not resumed
  /\ discovery' = NoDiscovery
  /\ helper' = h
  /\ clients' = cs
  /\ UNCHANGED <<trusted, generation, newest, waiting, phase, root, candidate, viewVars>>

\* The operation ends when a newer refresh has overtaken it.  Of those that wait
\* only the newest goes on, at once; nothing else runs in between.
EndStale(h, cs) ==
  /\ waiting' = NoRefresh
  /\ \/ /\ waiting.gen = generation
        /\ Begin(waiting.gen, waiting.target, h, cs)
     \/ /\ waiting.gen # generation
        /\ discovery' = NoDiscovery
        /\ helper' = h
        /\ clients' = cs
        /\ UNCHANGED <<phase, root, viewVars>>
  /\ UNCHANGED <<trusted, generation, newest, candidate>>

EndCurrent ==
  /\ discovery' = NoDiscovery
  /\ UNCHANGED <<trusted, generation, newest, waiting>>

\* refreshTrusted's catch.
Throw(cs) ==
  \/ /\ Stale
     /\ EndStale(helper, cs)
  \/ /\ ~Stale
     /\ EndCurrent
     /\ clients' = Closed(cs, helper)
     /\ helper' = 0
     /\ candidate' = None
     /\ SetState("error", None)

HelperFailsToStart ==
  /\ discovery # NoDiscovery
  /\ ~Discovering
  /\ Throw(Closed(clients, discovery.client))

\* The loop over the candidates of a revision's target goes on to the next one.
NextCandidate ==
  /\ discovery' = [discovery EXCEPT !.at = @ + 1]
  /\ UNCHANGED <<trusted, generation, newest, waiting, helper, clients, phase, root,
                 candidate, viewVars>>

LastCandidate == discovery.at = Len(discovery.target.candidates)

\* A discovery that failed; without an expected root it is the only one.
DiscoverRejects ==
  /\ Discovering
  /\ \/ /\ discovery.target.expected # None
        /\ ~LastCandidate
        /\ NextCandidate
     \/ /\ discovery.target.expected = None \/ LastCandidate
        /\ Throw(clients)

DiscoverResolves(r) ==
  LET c == discovery.client
      t == discovery.target
      idle == phase \in {"idle", "untrusted", "unsupported"}
      wrong == t.expected \notin {None, r} IN
  /\ Discovering
  /\ clients[c] = "live"
  /\ \/ /\ Stale
        /\ EndStale(IF idle /\ helper = c THEN 0 ELSE helper,
                    IF idle THEN Closed(clients, c) ELSE clients)
     \/ /\ ~Stale
        /\ wrong
        /\ IF LastCandidate THEN Throw(clients) ELSE NextCandidate
     \/ /\ ~Stale
        /\ ~wrong
        /\ EndCurrent
        /\ candidate' = t.candidates[discovery.at]
        /\ SetState("ready", r)
        /\ UNCHANGED <<helper, clients>>

\* The helper process exits, or its client gives up on it: the client is closed,
\* and the runtime is not told.
HelperCrashes(c) ==
  /\ clients[c] = "live"
  /\ clients' = [clients EXCEPT ![c] = "closed"]
  /\ UNCHANGED <<trusted, generation, newest, waiting, discovery, helper, phase, root,
                 candidate, viewVars>>

-----------------------------------------------------------------------------
Start == HelperStarts \/ HelperFailsToStart
Discover == DiscoverRejects \/ \E r \in Roots : DiscoverResolves(r)
Answer(i) == SearchSucceeds(i) \/ SearchFails(i)

Next ==
  \/ UserRefreshes
  \/ GrantTrust
  \/ Start
  \/ Discover
  \/ \E c \in Generations : HelperCrashes(c)
  \/ \E d \in Drafts : Edit(d) \/ RefuseSearch(d) \/ StartSearch(d)
  \/ CancelSearch
  \/ ClearSearch
  \/ \E i \in Requests : Answer(i)

\* Every call of the helper client is settled (HelperProtocol, EverySettles) and
\* starting it is limited by a timer.
Fairness ==
  /\ WF_vars(Start)
  /\ WF_vars(Discover)
  /\ \A i \in Requests : WF_vars(Answer(i))

Spec == Init /\ [][Next]_vars
FairSpec == Spec /\ Fairness

-----------------------------------------------------------------------------
Phases == {"untrusted", "unsupported", "idle", "loading", "ready", "error"}
Candidates == UNION {{t.candidates[k] : k \in 1..Len(t.candidates)} : t \in Targets}
Result == [root : Roots, draft : Drafts] \cup {NoResults}

\* The shape of every variable.
TypeOK ==
  /\ trusted \in BOOLEAN
  /\ generation \in 0..MaxRefreshes
  /\ newest \in Targets \cup {None}
  /\ waiting \in [gen : Generations, target : Targets] \cup {NoRefresh}
  /\ discovery \in [gen : Generations, target : Targets, at : Nat, client : Generations]
                    \cup {NoDiscovery}
  /\ helper \in Generations \cup {0}
  /\ clients \in [Generations -> {"none", "starting", "live", "closed"}]
  /\ phase \in Phases
  /\ root \in Roots \cup {None}
  /\ candidate \in Candidates \cup {None}
  /\ view \in [draft : Drafts, executed : Drafts \cup {None}, active : Requests \cup {0},
               phase : {"idle", "running", "ready", "stale", "error"}, results : Result]
  /\ cancellation \in Requests \cup {0}
  /\ nextRequestId \in 1..(MaxSearches + 1)
  /\ searches \in [Requests -> [stage : {"none", "running", "settled"}, cancelled : BOOLEAN,
                                root : Roots \cup {None}, draft : Drafts \cup {None},
                                client : Generations \cup {0}]]
  /\ viewRoot \in Roots \cup {None}
  /\ nodes \in Result

\* "Only the newest candidate may start the next discovery; otherwise two queued
\* continuations can race and let an older repository win last" (extension.ts): the
\* repository on show is one the newest refresh asked for, a refresh without a
\* target leaves none, and until then a discovery runs for the newest refresh, or
\* the newest refresh waits for one that is overtaken.
NewestQueued ==
  /\ discovery # NoDiscovery
  /\ Stale
  /\ waiting = [gen |-> generation, target |-> newest]
NewestWins ==
  /\ phase = "ready" => newest # None /\ ReadyForTarget(newest)
  /\ phase \in {"untrusted", "unsupported", "idle"} => newest = None \/ NewestQueued
  /\ phase = "loading" =>
       (discovery.gen = generation /\ discovery.target = newest) \/ NewestQueued

\* No helper process is lost: one that runs is the runtime's, or is starting for the
\* discovery that will hand it over, and there is one at most.  None is started in
\* an untrusted workspace, an error leaves none behind, and a ready session has one.
HelperOwned ==
  /\ \A c \in Generations :
       /\ clients[c] = "live" => helper = c
       /\ clients[c] = "starting" => helper = 0 /\ discovery.client = c
       /\ ~trusted => clients[c] = "none"
  /\ phase = "error" => helper = 0
  /\ phase = "ready" => helper # 0 /\ discovery = NoDiscovery

\* The results on show belong to the repository of the session and to the draft the
\* view says they do, whatever order refreshes and late answers come in, and the
\* view never claims that results of another draft are current.
ResultsBelong ==
  /\ nodes = view.results
  /\ view.results # NoResults => view.results = [root |-> viewRoot, draft |-> view.executed]
  /\ view.executed = None <=> view.results = NoResults
  /\ phase = "ready" => viewRoot = root
  /\ phase \notin {"ready", "loading"} => view.active = 0 /\ view.results = NoResults
  /\ view.phase = "running" <=> view.active # 0
  /\ view.phase \in {"idle", "ready", "stale"} => view.phase = SettledPhase(view, view.draft)

\* A search that has been replaced, cleared or has lost its repository has been
\* cancelled in the helper, the one that has not is the active one of the session's
\* repository, and an active search always has a call to settle it.
SupersededIsCancelled ==
  /\ cancellation = view.active
  /\ \A i \in Requests :
       /\ searches[i].stage = "running" /\ ~searches[i].cancelled => view.active = i
       /\ view.active = i => /\ searches[i].stage = "running"
                             /\ ~searches[i].cancelled
                             /\ searches[i].root = viewRoot

\* Loading ends: no refresh waits for one that will not let it go on.
LoadingEnds == phase = "loading" ~> phase # "loading"

\* What a refresh relies on: a discovery is started by a refresh of a trusted
\* workspace, with a client that starts until there is one, and it keeps to its
\* candidates; if it has not been overtaken, its target and its client are those of
\* the newest refresh, and so is the target of the newest refresh that waits.
RefreshOnCourse ==
  /\ discovery # NoDiscovery =>
       /\ trusted
       /\ phase \in {"loading", "idle", "untrusted", "unsupported"}
       /\ discovery.gen <= generation
       /\ discovery.at <= Len(discovery.target.candidates)
       /\ ~Discovering => clients[discovery.client] = "starting"
       /\ ~Stale => discovery.target = newest
       /\ ~Stale /\ Discovering => helper = discovery.client
  /\ \A c \in Generations : clients[c] = "starting" => discovery # NoDiscovery /\ ~Discovering
  /\ waiting # NoRefresh =>
       waiting.gen <= generation /\ (waiting.gen = generation => waiting.target = newest)
  /\ ~trusted => helper = 0
  /\ phase = "ready" => root \in Roots

\* A search belongs to a repository and a draft.
SearchesKnown ==
  \A i \in Requests : searches[i].stage # "none" =>
    searches[i].root \in Roots /\ searches[i].draft \in Drafts

\* What the steps preserve, for the proofs.
IInv ==
  /\ TypeOK
  /\ NewestWins
  /\ HelperOwned
  /\ ResultsBelong
  /\ SupersededIsCancelled
  /\ RefreshOnCourse
  /\ SearchesKnown
=============================================================================
