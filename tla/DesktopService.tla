----------------------------- MODULE DesktopService -----------------------------
(***************************************************************************)
(* The coordination core of the desktop backend (internal/desktop): how    *)
(* API calls, each in a goroutine of its own, register a cancellable       *)
(* operation, read the active repository, take over a read surface or the  *)
(* search slot, change the repository under rewriteMu, and how Open        *)
(* replaces the active repository.                                         *)
(*                                                                         *)
(* One action is one critical section of Service.mu (or one Git command),  *)
(* so calls interleave between any two of them.  A call runs once: a       *)
(* repeated request is another element of Calls.  The operation id of the  *)
(* source (nextOperationID, never reused) is the call itself.              *)
(***************************************************************************)
EXTENDS Naturals

CONSTANTS
  Opens,       \* calls of Open
  Reads,       \* Current, History, CommitDetail, RepositoryTree, ...
  Searches,    \* calls of SearchWithProgress
  Mutations,   \* SyncRemotes, Pull, RewriteCommits, worktree changes
  Closes,      \* calls of CancelOperations
  Stops,       \* calls of CancelSearch
  Repos,       \* repositories that can be opened
  NoRepo,      \* Service.repository == nil
  NoCall,      \* no call: a free mutex, an empty search slot or surface
  Surfaces,    \* keys given to beginLatestOperation
  NoSurface,   \* the empty key of beginOperation
  Surface      \* Surface[c] is the key c begins its operation with

Calls   == Opens \cup Reads \cup Searches \cup Mutations \cup Closes \cup Stops
Workers == Reads \cup Searches \cup Mutations

ASSUME CallKindsAreDisjoint ==
  /\ Opens \cap (Workers \cup Closes \cup Stops) = {}
  /\ Reads \cap (Searches \cup Mutations \cup Closes \cup Stops) = {}
  /\ Searches \cap (Mutations \cup Closes \cup Stops) = {}
  /\ Mutations \cap (Closes \cup Stops) = {}
  /\ Closes \cap Stops = {}
ASSUME NoValuesAreNew ==
  /\ NoCall \notin Calls
  /\ NoRepo \notin Repos
  /\ NoSurface \notin Surfaces
ASSUME OnlyReadsHaveSurfaces ==
  /\ Surface \in [Calls -> Surfaces \cup {NoSurface}]
  /\ \A c \in Calls \ Reads : Surface[c] = NoSurface

VARIABLES
  repository,   \* Service.repository
  switching,    \* Service.switchingRepository
  generation,   \* Service.repositoryGeneration
  operations,   \* domain of Service.operations
  latest,       \* Service.latestOperations
  searchSlot,   \* the search whose cancel is Service.searchCancel
  searchID,     \* Service.searchID
  rewriteMu,    \* holder of Service.rewriteMu
  cancelled,    \* contexts whose cancel function has been called
  doomed,       \* doomed[c]: contexts c collected under mu, still to cancel
  pc,           \* where each call is
  handle,       \* the repository a call has read, or an Open has opened
  reserved,     \* the generation an Open reserved
  ticket        \* the searchID a search registered with

vars == <<repository, switching, generation, operations, latest, searchSlot,
          searchID, rewriteMu, cancelled, doomed, pc, handle, reserved, ticket>>

--------------------------------------------------------------------------------
(* Contexts: every call but Close and CancelSearch derives one from its     *)
(* parent, and a registered search a second one from its operation's.       *)

Op(c)     == <<"operation", c>>
Lookup(c) == <<"search", c>>
Contexts  == {"operation", "search"} \X Calls

\* Cancelling the operation's context cancels the search's, derived from it.
Cancelled(c) == Op(c) \in cancelled \/ Lookup(c) \in cancelled

\* Some goroutine has taken the cancel function away to call it.
Condemned(x) == x \in cancelled \/ \E c \in Calls : x \in doomed[c]

Lost(c) == Condemned(Op(c)) \/ Condemned(Lookup(c))

\* The cancel function in the search slot, if there is one.
SlotContext == {Lookup(c) : c \in {searchSlot} \ {NoCall}}

\* What Open and CancelOperations collect under mu, to cancel after it.
SweptSearch == SlotContext   \* mutant: the operations are forgotten
Swept == {Op(d) : d \in operations} \cup SlotContext

Locations == {"idle", "lock", "attach", "work", "register", "searching",
              "release", "install", "installed", "finish", "fail", "done"}

\* A worker between beginOperation and its deferred finish.
Begun(c) == pc[c] \in {"attach", "work", "register", "searching", "release", "finish"}

\* A worker that holds the repository it read.
Using(c) == pc[c] \in {"work", "register", "searching"}

Goto(c, l) == pc' = [pc EXCEPT ![c] = l]

Init ==
  /\ repository = NoRepo
  /\ switching = FALSE
  /\ generation = 0
  /\ operations = {}
  /\ latest = [k \in Surfaces |-> NoCall]
  /\ searchSlot = NoCall
  /\ searchID = 0
  /\ rewriteMu = NoCall
  /\ cancelled = {}
  /\ doomed = [c \in Calls |-> {}]
  /\ pc = [c \in Calls |-> "idle"]
  /\ handle = [c \in Calls |-> NoRepo]
  /\ reserved = [c \in Calls |-> 0]
  /\ ticket = [c \in Calls |-> 0]

--------------------------------------------------------------------------------
(* beginOperation, beginLatestOperation and currentRepository                *)

\* A mutation is requested, and queues for rewriteMu.
RequestMutation(m) ==
  /\ pc[m] = "idle"
  /\ Goto(m, "lock")
  /\ UNCHANGED <<repository, switching, generation, operations, latest, searchSlot,
                 searchID, rewriteMu, cancelled, doomed, handle, reserved, ticket>>

EnteredUnlocked(c) ==   \* mutant: a mutation begins without rewriteMu
  pc[c] = (IF c \in Mutations THEN "lock" ELSE "idle") /\ UNCHANGED rewriteMu

\* A mutation gets rewriteMu before it begins its operation.
Entered(c) ==
  IF c \in Mutations
  THEN pc[c] = "lock" /\ rewriteMu = NoCall /\ rewriteMu' = c
  ELSE pc[c] = "idle" /\ UNCHANGED rewriteMu

ReplacedNone(c) == {}   \* mutant: the older request of the surface lives on

\* The operation of c's surface that c replaces, if one is registered.
Replaced(c) ==
  {d \in operations : Surface[c] \in Surfaces /\ latest[Surface[c]] = d}

BeginOperation(c) ==
  /\ Entered(c)
  /\ operations' = (operations \ Replaced(c)) \cup {c}
  /\ latest' = [k \in Surfaces |-> IF k = Surface[c] THEN c ELSE latest[k]]
  /\ doomed' = [doomed EXCEPT ![c] = {Op(d) : d \in Replaced(c)}]
  /\ Goto(c, "attach")
  /\ UNCHANGED <<repository, switching, generation, searchSlot, searchID,
                 cancelled, handle, reserved, ticket>>

\* One of the cancel functions collected under mu is called, without mu.
CallCancel(c) ==
  /\ \E x \in doomed[c] :
        /\ cancelled' = cancelled \cup {x}
        /\ doomed' = [doomed EXCEPT ![c] = @ \ {x}]
  /\ UNCHANGED <<repository, switching, generation, operations, latest, searchSlot,
                 searchID, rewriteMu, pc, handle, reserved, ticket>>

OnlyNoneOpen == repository = NoRepo   \* mutant: switchingRepository is ignored

\* currentRepository refuses.
Refuses == switching \/ repository = NoRepo

\* currentRepository answers only when one is open and none is being opened.
ReadRepository(c) ==
  /\ pc[c] = "attach"
  /\ doomed[c] = {}
  /\ IF Refuses
     THEN Goto(c, "finish") /\ UNCHANGED handle
     ELSE /\ handle' = [handle EXCEPT ![c] = repository]
          /\ Goto(c, IF c \in Searches THEN "register" ELSE "work")
  /\ UNCHANGED <<repository, switching, generation, operations, latest, searchSlot,
                 searchID, rewriteMu, cancelled, doomed, reserved, ticket>>

\* The Git commands of a read or mutation end, with an answer or an error.
Work(c) ==
  /\ pc[c] = "work"
  /\ Goto(c, "finish")
  /\ UNCHANGED <<repository, switching, generation, operations, latest, searchSlot,
                 searchID, rewriteMu, cancelled, doomed, handle, reserved, ticket>>

\* The deferred finish of an operation, then of rewriteMu where c holds it.
FinishOperation(c) ==
  /\ pc[c] = "finish"
  /\ cancelled' = cancelled \cup {Op(c)}
  /\ operations' = operations \ {c}
  /\ latest' = [k \in Surfaces |->
                  IF k = Surface[c] /\ latest[k] = c THEN NoCall ELSE latest[k]]
  /\ rewriteMu' = IF rewriteMu = c THEN NoCall ELSE rewriteMu
  /\ Goto(c, "done")
  /\ UNCHANGED <<repository, switching, generation, searchSlot, searchID, doomed,
                 handle, reserved, ticket>>

--------------------------------------------------------------------------------
(* The search slot: SearchWithProgress, CancelSearch, CancelOperations       *)

\* searchOptions refuses the request: the search never takes the slot.
RefuseSearch(s) ==
  /\ pc[s] = "register"
  /\ Goto(s, "finish")
  /\ UNCHANGED <<repository, switching, generation, operations, latest, searchSlot,
                 searchID, rewriteMu, cancelled, doomed, handle, reserved, ticket>>

NextTicket == searchID + 1

\* The search cancels the one in the slot, under mu, and takes its place.
RegisterSearch(s) ==
  /\ pc[s] = "register"
  /\ cancelled' = cancelled \cup SlotContext
  /\ searchID' = NextTicket
  /\ ticket' = [ticket EXCEPT ![s] = NextTicket]
  /\ searchSlot' = s
  /\ Goto(s, "searching")
  /\ UNCHANGED <<repository, switching, generation, operations, latest, rewriteMu,
                 doomed, handle, reserved>>

\* The scan ends: complete, failed, or cancelled between two commands.
EndSearch(s) ==
  /\ pc[s] = "searching"
  /\ Goto(s, "release")
  /\ UNCHANGED <<repository, switching, generation, operations, latest, searchSlot,
                 searchID, rewriteMu, cancelled, doomed, handle, reserved, ticket>>

AnySlot(s) == TRUE   \* mutant: cleanup empties the slot of a later search
OwnSlot(s) == searchID = ticket[s]

\* The slot is emptied only if no later search or cancellation has renamed it.
ReleaseSearch(s) ==
  /\ pc[s] = "release"
  /\ cancelled' = cancelled \cup {Lookup(s)}
  /\ searchSlot' = IF OwnSlot(s) THEN NoCall ELSE searchSlot
  /\ Goto(s, "finish")
  /\ UNCHANGED <<repository, switching, generation, operations, latest, searchID,
                 rewriteMu, doomed, handle, reserved, ticket>>

CancelSearch(c) ==
  /\ pc[c] = "idle"
  /\ cancelled' = cancelled \cup SlotContext
  /\ searchSlot' = NoCall
  /\ searchID' = searchID + 1
  /\ Goto(c, "done")
  /\ UNCHANGED <<repository, switching, generation, operations, latest, rewriteMu,
                 doomed, handle, reserved, ticket>>

\* CancelOperations empties every table under mu; the cancels follow.
CancelOperations(c) ==
  /\ pc[c] = "idle"
  /\ doomed' = [doomed EXCEPT ![c] = Swept]
  /\ operations' = {}
  /\ latest' = [k \in Surfaces |-> NoCall]
  /\ searchSlot' = NoCall
  /\ searchID' = searchID + 1
  /\ Goto(c, "done")
  /\ UNCHANGED <<repository, switching, generation, rewriteMu, cancelled, handle,
                 reserved, ticket>>

--------------------------------------------------------------------------------
(* Open                                                                      *)

ReserveSwitch(o) ==
  /\ pc[o] = "idle"
  /\ generation' = generation + 1
  /\ reserved' = [reserved EXCEPT ![o] = generation + 1]
  /\ Goto(o, "lock")
  /\ UNCHANGED <<repository, switching, operations, latest, searchSlot, searchID,
                 rewriteMu, cancelled, doomed, handle, ticket>>

DropHolding(o) ==   \* mutant: the early return keeps rewriteMu
  /\ pc[o] = "lock" /\ rewriteMu = NoCall /\ reserved[o] # generation
  /\ rewriteMu' = o
  /\ Goto(o, "done")
  /\ UNCHANGED <<repository, switching, generation, operations, latest, searchSlot,
                 searchID, cancelled, doomed, handle, reserved, ticket>>

\* rewriteMu is acquired, but a later Open has reserved: answer Canceled.
DropSwitch(o) ==
  /\ pc[o] = "lock"
  /\ rewriteMu = NoCall
  /\ reserved[o] # generation
  /\ Goto(o, "done")
  /\ UNCHANGED <<repository, switching, generation, operations, latest, searchSlot,
                 searchID, rewriteMu, cancelled, doomed, handle, reserved, ticket>>

\* rewriteMu is acquired: every operation and the search are condemned.
BeginSwitch(o) ==
  /\ pc[o] = "lock"
  /\ rewriteMu = NoCall
  /\ reserved[o] = generation
  /\ rewriteMu' = o
  /\ doomed' = [doomed EXCEPT ![o] = Swept]
  /\ operations' = {o}
  /\ latest' = [k \in Surfaces |-> NoCall]
  /\ searchSlot' = NoCall
  /\ searchID' = searchID + 1
  /\ switching' = TRUE
  /\ Goto(o, "work")
  /\ UNCHANGED <<repository, generation, cancelled, handle, reserved, ticket>>

\* OpenRepository and snapshot succeed, which a cancelled context prevents.
OpenRepository(o) ==
  /\ pc[o] = "work"
  /\ doomed[o] = {}
  /\ Op(o) \notin cancelled
  /\ \E r \in Repos : handle' = [handle EXCEPT ![o] = r]
  /\ Goto(o, "install")
  /\ UNCHANGED <<repository, switching, generation, operations, latest, searchSlot,
                 searchID, rewriteMu, cancelled, doomed, reserved, ticket>>

\* One of them fails, or is cancelled.
FailOpen(o) ==
  /\ pc[o] = "work"
  /\ doomed[o] = {}
  /\ Goto(o, "finish")
  /\ UNCHANGED <<repository, switching, generation, operations, latest, searchSlot,
                 searchID, rewriteMu, cancelled, doomed, handle, reserved, ticket>>

\* completeRepositorySwitch installs only under the generation it reserved.
CompleteSwitch(o) ==
  /\ pc[o] = "install"
  /\ IF reserved[o] = generation
     THEN repository' = handle[o] /\ switching' = FALSE /\ Goto(o, "installed")
     ELSE UNCHANGED <<repository, switching>> /\ Goto(o, "finish")
  /\ UNCHANGED <<generation, operations, latest, searchSlot, searchID, rewriteMu,
                 cancelled, doomed, handle, reserved, ticket>>

\* finish of a switch; rewriteMu follows at once only if it has completed.
FinishSwitch(o) ==
  /\ pc[o] \in {"finish", "installed"}
  /\ cancelled' = cancelled \cup {Op(o)}
  /\ operations' = operations \ {o}
  /\ IF pc[o] = "installed"
     THEN Goto(o, "done") /\ rewriteMu' = NoCall
     ELSE Goto(o, "fail") /\ UNCHANGED rewriteMu
  /\ UNCHANGED <<repository, switching, generation, latest, searchSlot, searchID,
                 doomed, handle, reserved, ticket>>

FailSilently(o) ==   \* mutant: a failed Open leaves switchingRepository set
  /\ pc[o] = "fail"
  /\ rewriteMu' = NoCall
  /\ Goto(o, "done")
  /\ UNCHANGED <<repository, switching, generation, operations, latest, searchSlot,
                 searchID, cancelled, doomed, handle, reserved, ticket>>

\* failRepositorySwitch, then rewriteMu.
FailSwitch(o) ==
  /\ pc[o] = "fail"
  /\ switching' = (switching /\ reserved[o] # generation)
  /\ rewriteMu' = NoCall
  /\ Goto(o, "done")
  /\ UNCHANGED <<repository, generation, operations, latest, searchSlot, searchID,
                 cancelled, doomed, handle, reserved, ticket>>

--------------------------------------------------------------------------------
WorkerStep(c) ==
  \/ BeginOperation(c)
  \/ ReadRepository(c)
  \/ Work(c)
  \/ FinishOperation(c)

SearchStep(s) ==
  \/ RefuseSearch(s)
  \/ RegisterSearch(s)
  \/ EndSearch(s)
  \/ ReleaseSearch(s)

SwitchStep(o) ==
  \/ ReserveSwitch(o)
  \/ DropSwitch(o)
  \/ BeginSwitch(o)
  \/ OpenRepository(o)
  \/ FailOpen(o)
  \/ CompleteSwitch(o)
  \/ FinishSwitch(o)
  \/ FailSwitch(o)

\* Every call has returned: the service waits for the next request.
Quiescent == \A c \in Calls : pc[c] = "done" /\ doomed[c] = {}

Next ==
  \/ \E m \in Mutations : RequestMutation(m)
  \/ \E c \in Workers : WorkerStep(c)
  \/ \E s \in Searches : SearchStep(s)
  \/ \E o \in Opens : SwitchStep(o)
  \/ \E c \in Closes : CancelOperations(c)
  \/ \E c \in Stops : CancelSearch(c)
  \/ \E c \in Calls : CallCancel(c)
  \/ Quiescent /\ UNCHANGED vars

Spec == Init /\ [][Next]_vars

(***************************************************************************)
(* A call that has been made goes on: the Go scheduler runs its goroutine  *)
(* and its Git commands end.  rewriteMu, when free, goes to one of its     *)
(* waiters, no matter which.  That a call is made at all is nobody's       *)
(* promise.                                                                *)
(***************************************************************************)
Proceed(c) ==
  \/ c \in Reads \cup Searches /\ pc[c] # "idle" /\ (WorkerStep(c) \/ SearchStep(c))
  \/ c \in Mutations /\ pc[c] \notin {"idle", "lock"} /\ WorkerStep(c)
  \/ c \in Opens /\ pc[c] \notin {"idle", "lock"} /\ SwitchStep(c)
  \/ CallCancel(c)

Acquire(c) ==
  \/ c \in Mutations /\ BeginOperation(c)
  \/ c \in Opens /\ (DropSwitch(c) \/ BeginSwitch(c))

Fairness ==
  /\ \A c \in Calls : WF_vars(Proceed(c))
  /\ WF_vars(\E c \in Calls : Acquire(c))

FairSpec == Spec /\ Fairness

--------------------------------------------------------------------------------
TypeOK ==
  /\ repository \in Repos \cup {NoRepo}
  /\ switching \in BOOLEAN
  /\ generation \in Nat
  /\ operations \subseteq Opens \cup Workers
  /\ latest \in [Surfaces -> Reads \cup {NoCall}]
  /\ searchSlot \in Searches \cup {NoCall}
  /\ searchID \in Nat
  /\ rewriteMu \in Opens \cup Mutations \cup {NoCall}
  /\ cancelled \subseteq Contexts
  /\ doomed \in [Calls -> SUBSET Contexts]
  /\ pc \in [Calls -> Locations]
  /\ handle \in [Calls -> Repos \cup {NoRepo}]
  /\ reserved \in [Calls -> Nat]
  /\ ticket \in [Calls -> Nat]

\* A worker that still counts (nobody has condemned it) works on the active
\* repository: a switch leaves no live history, tree, search or mutation
\* behind on the repository it replaces (operations.go, Open).
LiveWorkIsCurrent ==
  \A c \in Workers : Using(c) /\ ~Lost(c) => handle[c] = repository

\* A mutation runs on the active repository to its end, cancelled or not: Open
\* waits for rewriteMu, so it never replaces the repository under a rewrite.
MutationsStayCurrent ==
  \A m \in Mutations : pc[m] = "work" => handle[m] = repository /\ rewriteMu = m

\* beginLatestOperation: of the reads on one surface at most one still counts.
LatestWins ==
  \A c, d \in Reads :
    Surface[c] \in Surfaces /\ Surface[c] = Surface[d]
      /\ Begun(c) /\ Begun(d) /\ ~Lost(c) /\ ~Lost(d) => c = d

\* Whatever search, cancellation, switch or cleanup came between, a running
\* search nobody has condemned is the one in the slot: there is at most one,
\* and CancelSearch and a switch reach it.
RunningSearchIsReachable ==
  \A s \in Searches : pc[s] = "searching" /\ ~Lost(s) => searchSlot = s

\* currentRepository refuses exactly while a switch is unsettled: between two
\* holders of rewriteMu it may refuse only because a later Open is waiting.
SwitchingIsOwned ==
  switching => \E o \in Opens : \/ rewriteMu = o
                                \/ pc[o] = "lock" /\ reserved[o] = generation

\* No call waits for ever, on rewriteMu or on its own cancellation.
CallsReturn == \A c \in Calls : pc[c] # "idle" ~> pc[c] = "done" /\ doomed[c] = {}

--------------------------------------------------------------------------------
(* The inductive invariant behind these properties (DesktopService_proofs).  *)

KindInv ==
  /\ \A c \in Reads : pc[c] \in {"idle", "attach", "work", "finish", "done"}
  /\ \A c \in Searches : pc[c] \in {"idle", "attach", "register", "searching",
                                  "release", "finish", "done"}
  /\ \A c \in Mutations : pc[c] \in {"idle", "lock", "attach", "work", "finish", "done"}
  /\ \A c \in Opens : pc[c] \in {"idle", "lock", "work", "install", "installed",
                               "finish", "fail", "done"}
  /\ \A c \in Closes \cup Stops : pc[c] \in {"idle", "done"}

\* rewriteMu is held from the lock's acquisition to the return.
LockInv ==
  \A c \in Opens \cup Mutations :
    rewriteMu = c <=> pc[c] \in {"attach", "work", "install", "installed", "finish", "fail"}

\* Nothing is condemned by a call that has not started.
FreshInv == \A c \in Calls : pc[c] \in {"idle", "lock"} => doomed[c] = {}

\* An operation leaves the tables only by its end or to be cancelled.
TablesInv ==
  \A c \in Workers : Begun(c) /\ ~Condemned(Op(c)) =>
    /\ c \in operations
    /\ Surface[c] \in Surfaces => latest[Surface[c]] = c

\* While an Open looks for its repository nobody can attach to the old one,
\* and those attached are condemned.
SwitchInv ==
  \A o \in Opens : pc[o] \in {"work", "install"} =>
    /\ switching
    /\ \A c \in Workers : Using(c) => Lost(c)

\* The latest reservation is still to be settled.
ReservationInv ==
  /\ \A o \in Opens : /\ reserved[o] <= generation
                      /\ pc[o] = "install" => handle[o] \in Repos
  /\ switching => \E o \in Opens : /\ reserved[o] = generation
                                   /\ pc[o] \in {"lock", "work", "install", "finish", "fail"}

\* The search in the slot is the one that holds the latest ticket.
SlotInv ==
  /\ \A s \in Searches : pc[s] \in {"searching", "release"} => ticket[s] <= searchID
  /\ \A s, t \in Searches :
        pc[s] \in {"searching", "release"} /\ pc[t] \in {"searching", "release"}
          /\ ticket[s] = ticket[t] => s = t
  /\ searchSlot # NoCall => /\ ticket[searchSlot] = searchID
                            /\ pc[searchSlot] \in {"searching", "release"}

IInv ==
  /\ TypeOK
  /\ KindInv
  /\ LockInv
  /\ FreshInv
  /\ TablesInv
  /\ SwitchInv
  /\ ReservationInv
  /\ SlotInv
  /\ LiveWorkIsCurrent
  /\ MutationsStayCurrent
  /\ RunningSearchIsReachable

--------------------------------------------------------------------------------
\* The promise of RepositorySession, of the workers that still count.
Session == INSTANCE RepositorySession WITH
  Calls <- Workers,
  current <- repository,
  attached <- [c \in Workers |->
                 IF Using(c) /\ ~Lost(c) THEN handle[c] ELSE NoRepo]

SessionSpec == Session!SessionSpec
================================================================================
