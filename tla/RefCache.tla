-------------------------------- MODULE RefCache --------------------------------
(***************************************************************************)
(* The desktop service's caches of Git reads: the bounded in-memory cache  *)
(* of each repository (internal/desktop/cache.go), the Pebble store behind *)
(* it (persistent_cache.go), and the reads that go through both: History,  *)
(* HistoryBranches and CommitDetail (service.go).                          *)
(*                                                                         *)
(* refLog records every state the refs of a repository were ever in.  Git  *)
(* is read without a lock, so what a read finds is abstracted to the       *)
(* position in refLog at which it ran.  One action is one critical section *)
(* of cacheMu, or one Git command.                                         *)
(***************************************************************************)
EXTENDS Naturals, Sequences, FiniteSets, SequencesExt

CONSTANTS
  Reads,        \* calls of the service that use the caches
  Repos,        \* common directories of repositories
  RefStates,    \* what for-each-ref can answer, up to its digest
  Keys,         \* cache keys, in whatever namespace
  Methods,      \* what a read looks up: stages of a namespace and its keys
  Maximum,      \* Maximum[n] bounds the entries of namespace n in memory
  MaxRepos,     \* maximumCachedRepositories
  None,         \* no repository
  NoFingerprint,
  MaxLog,       \* bound: states of the refs of each repository
  MaxRestarts   \* bound: restarts of the process

RefScoped  == {"history", "history-scope", "branches"}   \* refScopedNamespaces
Namespaces == RefScoped \cup {"detail"}

ASSUME BoundsAreNatural ==
  /\ MaxRepos \in Nat \ {0}
  /\ MaxLog \in [Repos -> Nat \ {0}]
  /\ MaxRestarts \in Nat
  /\ Maximum \in [Namespaces -> Nat \ {0}]
ASSUME MethodsAreStages == Methods \subseteq Seq([space : Namespaces, keys : SUBSET Keys]) \ {<<>>}
ASSUME NothingIsNew == NoFingerprint \notin RefStates /\ None \notin Repos

VARIABLES
  refLog,      \* the states of each repository's refs so far, the last is now
  caches,      \* Service.caches: the repositoryCache of some repositories
  cacheRoots,  \* Service.cacheRoots: in the order they were added
  store,       \* the Pebble database
  durable,     \* what of it survives a crash: writes are not synced
  restarts,
  pc,          \* where each read is
  reading,     \* its local variables
  answer       \* what it has found: [space, key, at]

cached == <<caches, cacheRoots>>
vars   == <<refLog, cached, store, durable, restarts, pc, reading, answer>>

Now(R) == Len(refLog[R])

\* A namespace in memory: the map, and its keys in the order of insertion.
NoEntries == [k \in {} |-> 0]
Empty == [keys |-> <<>>, values |-> NoEntries]
NewCache == [fingerprint |-> NoFingerprint, kept |-> [n \in Namespaces |-> Empty]]

\* A repository in the database: a fingerprint, and an unbounded map each.
NewStore == [fingerprint |-> NoFingerprint, values |-> [n \in Namespaces |-> NoEntries]]

Set(f, k, v) == [x \in DOMAIN f \cup {k} |-> IF x = k THEN v ELSE f[x]]

NoReading == [repository |-> None, fingerprint |-> NoFingerprint, start |-> 0,
              stages |-> <<>>, todo |-> {}, missing |-> {}, results |-> {}]

Init ==
  /\ refLog \in [Repos -> {<<s>> : s \in RefStates}]
  /\ caches = [R \in {} |-> NewCache]
  /\ cacheRoots = <<>>
  /\ store = [R \in Repos |-> NewStore]
  /\ durable = store
  /\ restarts = 0
  /\ pc = [r \in Reads |-> "idle"]
  /\ reading = [r \in Reads |-> NoReading]
  /\ answer = [r \in Reads |-> {}]

--------------------------------------------------------------------------------
(* The in-memory cache                                                       *)

\* cacheForRepositoryLocked: the oldest repository makes room for a new one.
RootsWith(R) ==
  IF R \in DOMAIN caches THEN cacheRoots
  ELSE Append(IF Len(cacheRoots) >= MaxRepos THEN Tail(cacheRoots) ELSE cacheRoots, R)

CacheOf(R) == IF R \in DOMAIN caches THEN caches[R] ELSE NewCache

Unscoped(c) == c   \* mutant: the fingerprint is recorded and nothing is dropped

\* The ref-scoped maps of a cache, emptied.
DropRefScoped(c) ==
  [c EXCEPT !.kept = [n \in Namespaces |-> IF n \in RefScoped THEN Empty ELSE c.kept[n]]]

\* refreshRefCacheLocked; a detail is looked up without a fingerprint.
Refresh(c, space, f) ==
  IF space \notin RefScoped \/ c.fingerprint = f THEN c
  ELSE [DropRefScoped(c) EXCEPT !.fingerprint = f]

\* An entry is written, and trimCache drops the oldest beyond the maximum.
Put(kept, k, at, maximum) ==
  IF k \in DOMAIN kept.values
  THEN [kept EXCEPT !.values = Set(kept.values, k, at)]
  ELSE LET keys  == Append(kept.keys, k)
           trim  == Len(keys) > maximum
           keys2 == IF trim THEN Tail(keys) ELSE keys
           all   == Set(kept.values, k, at)
       IN [keys |-> keys2,
           values |-> IF trim THEN [x \in DOMAIN all \ {Head(keys)} |-> all[x]] ELSE all]

PutIn(c, space, k, at) ==
  [c EXCEPT !.kept = [c.kept EXCEPT ![space] = Put(c.kept[space], k, at, Maximum[space])]]

Remember(R, c) ==
  /\ cacheRoots' = RootsWith(R)
  /\ caches' = [Q \in ToSet(RootsWith(R)) |-> IF Q = R THEN c ELSE caches[Q]]

--------------------------------------------------------------------------------
(* The database                                                              *)

OneForgotten(s, f) ==   \* mutant: a namespace is missing from refScopedNamespaces
  IF s.fingerprint = f THEN s
  ELSE [fingerprint |-> f,
        values |-> [n \in Namespaces |->
                      IF n \in RefScoped \ {"history-scope"} THEN NoEntries ELSE s.values[n]]]

\* ensureFingerprintLocked: one batch drops the ref-scoped namespaces.
EnsureFingerprint(s, f) ==
  IF s.fingerprint = f THEN s
  ELSE [fingerprint |-> f,
        values |-> [n \in Namespaces |-> IF n \in RefScoped THEN NoEntries ELSE s.values[n]]]

Ensured(s, space, f) == IF space \in RefScoped THEN EnsureFingerprint(s, f) ELSE s

\* loadValue or loadRefValue; a missing database or an error is a miss.
Loaded(R, space, f) == {store[R], Ensured(store[R], space, f)}

\* storeValue or storeRefValue: nothing, the invalidation alone, or both.
Stored(R, space, f, k, at) ==
  LET s == Ensured(store[R], space, f)
  IN {store[R], s, [s EXCEPT !.values = [s.values EXCEPT ![space] = Set(s.values[space], k, at)]]}

--------------------------------------------------------------------------------
(* Reads                                                                     *)

Space(r) == Head(reading[r].stages).space
Entry(space, k, at) == [space |-> space, key |-> k, at |-> at]

\* A call on the current repository begins with repositoryFingerprint.
Fingerprint(r) ==
  /\ pc[r] = "idle"
  /\ \E R \in Repos, stages \in Methods :
        reading' = [reading EXCEPT ![r] =
                      [repository |-> R, fingerprint |-> Last(refLog[R]), start |-> Now(R),
                       stages |-> stages, todo |-> Head(stages).keys,
                       missing |-> {}, results |-> {}]]
  /\ pc' = [pc EXCEPT ![r] = "lookup"]
  /\ UNCHANGED <<refLog, cached, store, durable, restarts, answer>>

\* cachedHistoryScope, cachedHistory, cachedBranches, cachedDetail: memory, then
\* the database, whose entry is kept in memory.
Lookup(r) ==
  LET R == reading[r].repository
      n == Space(r)
      f == reading[r].fingerprint
      c == Refresh(CacheOf(R), n, f)
  IN /\ pc[r] = "lookup"
     /\ \E k \in reading[r].todo :
          LET miss == reading' = [reading EXCEPT ![r].todo = @ \ {k}, ![r].missing = @ \cup {k}]
                      /\ UNCHANGED answer
              hit(at) == reading' = [reading EXCEPT ![r].todo = @ \ {k}]
                         /\ answer' = [answer EXCEPT ![r] = @ \cup {Entry(n, k, at)}]
          IN \/ /\ k \in DOMAIN c.kept[n].values
                /\ Remember(R, c)
                /\ hit(c.kept[n].values[k])
                /\ UNCHANGED store
             \/ /\ k \notin DOMAIN c.kept[n].values
                /\ \E s \in Loaded(R, n, f) :
                     /\ store' = [store EXCEPT ![R] = s]
                     /\ \/ /\ Remember(R, c)
                           /\ miss
                        \/ /\ s.fingerprint = f \/ n \notin RefScoped
                           /\ k \in DOMAIN s.values[n]
                           /\ Remember(R, PutIn(c, n, k, s.values[n][k]))
                           /\ hit(s.values[n][k])
     /\ UNCHANGED <<refLog, durable, restarts, pc>>

\* The Git commands that compute a missing value; HistoryBranches runs several.
Read(r) ==
  /\ pc[r] = "lookup"
  /\ reading[r].todo = {}
  /\ \E k \in reading[r].missing :
       reading' = [reading EXCEPT ![r].missing = @ \ {k},
                                  ![r].results = @ \cup {<<k, Now(reading[r].repository)>>}]
  /\ UNCHANGED <<refLog, cached, store, durable, restarts, pc, answer>>

\* storeHistoryScope, storeHistory, storeBranches, storeDetail.
Store(r) ==
  LET R == reading[r].repository
      n == Space(r)
      f == reading[r].fingerprint
  IN /\ pc[r] = "lookup"
     /\ \E v \in reading[r].results :
          /\ Remember(R, PutIn(Refresh(CacheOf(R), n, f), n, v[1], v[2]))
          /\ \E s \in Stored(R, n, f, v[1], v[2]) : store' = [store EXCEPT ![R] = s]
          /\ reading' = [reading EXCEPT ![r].results = @ \ {v}]
          /\ answer' = [answer EXCEPT ![r] = @ \cup {Entry(n, v[1], v[2])}]
     /\ UNCHANGED <<refLog, durable, restarts, pc>>

\* Everything of this stage is found: the next one, or the response.
Proceed(r) ==
  /\ pc[r] = "lookup"
  /\ reading[r].todo = {} /\ reading[r].missing = {} /\ reading[r].results = {}
  /\ LET later == Tail(reading[r].stages)
     IN IF later = <<>>
        THEN pc' = [pc EXCEPT ![r] = "answered"] /\ UNCHANGED reading
        ELSE /\ reading' = [reading EXCEPT ![r].stages = later, ![r].todo = Head(later).keys]
             /\ UNCHANGED pc
  /\ UNCHANGED <<refLog, cached, store, durable, restarts, answer>>

\* These reads end without a response, and leave the caches alone.
EndUnanswered(reads) ==
  /\ pc' = [r \in Reads |-> IF r \in reads THEN "failed" ELSE pc[r]]
  /\ reading' = [r \in Reads |-> IF r \in reads THEN NoReading ELSE reading[r]]
  /\ answer' = [r \in Reads |-> IF r \in reads THEN {} ELSE answer[r]]

\* A Git command fails, or the call is cancelled.
Fail(r) ==
  /\ pc[r] = "lookup"
  /\ EndUnanswered({r})
  /\ UNCHANGED <<refLog, cached, store, durable, restarts>>

--------------------------------------------------------------------------------
(* The environment                                                           *)

\* Somebody moves a ref: GitGit itself, or Git on the command line.
RefsMove(R) ==
  /\ Now(R) < MaxLog[R]
  /\ \E s \in RefStates \ {Last(refLog[R])} : refLog' = [refLog EXCEPT ![R] = Append(@, s)]
  /\ UNCHANGED <<cached, store, durable, restarts, pc, reading, answer>>

\* Pebble writes its log to disk; its writes are durable in their order.
Flush ==
  /\ restarts < MaxRestarts   \* bound: later it makes no difference
  /\ durable # store
  /\ durable' = store
  /\ UNCHANGED <<refLog, cached, store, restarts, pc, reading, answer>>

\* The process ends and starts again.
Restart ==
  /\ restarts < MaxRestarts
  /\ restarts' = restarts + 1
  /\ caches' = [R \in {} |-> NewCache]
  /\ cacheRoots' = <<>>
  /\ store' = durable
  /\ EndUnanswered({r \in Reads : pc[r] = "lookup"})
  /\ UNCHANGED <<refLog, durable>>

ReadStep(r) == Fingerprint(r) \/ Lookup(r) \/ Read(r) \/ Store(r) \/ Proceed(r) \/ Fail(r)

Next ==
  \/ \E r \in Reads : ReadStep(r)
  \/ \E R \in Repos : RefsMove(R)
  \/ Flush
  \/ Restart

Spec == Init /\ [][Next]_vars

--------------------------------------------------------------------------------
(* Properties                                                                *)

Fingerprints == RefStates \cup {NoFingerprint}

IsMap(f) == DOMAIN f \subseteq Keys /\ f \in [DOMAIN f -> Nat]

TypeOK ==
  /\ refLog \in [Repos -> Seq(RefStates) \ {<<>>}]
  /\ DOMAIN caches \subseteq Repos
  /\ \A R \in DOMAIN caches :
        /\ caches[R].fingerprint \in Fingerprints
        /\ \A n \in Namespaces : /\ caches[R].kept[n].keys \in Seq(Keys)
                                 /\ IsMap(caches[R].kept[n].values)
  /\ cacheRoots \in Seq(Repos)
  /\ \A s \in {store, durable} : \A R \in Repos :
        s[R].fingerprint \in Fingerprints /\ \A n \in Namespaces : IsMap(s[R].values[n])
  /\ restarts \in Nat
  /\ pc \in [Reads -> {"idle", "lookup", "answered", "failed"}]

\* The refs were in state f at or before position at: what was read there was
\* not read before f was first seen.
Seen(R, f, at) == \E q \in 1 .. at : refLog[R][q] = f

\* Entries of the ref-scoped namespaces are not older than their fingerprint.
Filed(R, f, maps) ==
  \A n \in RefScoped : \A k \in DOMAIN maps[n] :
    maps[n][k] \in 1 .. Now(R) /\ Seen(R, f, maps[n][k])

\* The FIFO of a namespace lists exactly the keys of its map, once each, and
\* neither grows beyond its maximum; so does the list of repositories.
WithinMaximum ==
  /\ IsInjective(cacheRoots) /\ ToSet(cacheRoots) = DOMAIN caches
  /\ Len(cacheRoots) <= MaxRepos
  /\ \A R \in DOMAIN caches, n \in Namespaces :
        LET kept == caches[R].kept[n]
        IN IsInjective(kept.keys) /\ ToSet(kept.keys) = DOMAIN kept.values
           /\ Len(kept.keys) <= Maximum[n]

\* Nothing in memory, in the database, or on disk is older than the refs it is
\* filed under, whichever reads with older fingerprints file things in between.
FiledUnderRefs ==
  /\ \A R \in DOMAIN caches :
        Filed(R, caches[R].fingerprint, [n \in Namespaces |-> caches[R].kept[n].values])
  /\ \A R \in Repos : /\ Filed(R, store[R].fingerprint, store[R].values)
                      /\ Filed(R, durable[R].fingerprint, durable[R].values)

\* A read began when refs were in the state it computed, and reads Git later.
ReadsFollowRefs ==
  \A r \in Reads :
    LET R == reading[r].repository
    IN pc[r] = "lookup" =>
         /\ reading[r].start \in 1 .. Now(R)
         /\ refLog[R][reading[r].start] = reading[r].fingerprint
         /\ \A v \in reading[r].results : v[2] \in reading[r].start .. Now(R)

IInv == TypeOK /\ WithinMaximum /\ FiledUnderRefs /\ ReadsFollowRefs

\* History and HistoryBranches answer with nothing older than the refs at the
\* request, unless the refs had been in that very state before: then the entry
\* may have been computed after they first were (cache.go:252, and
\* persistent_cache.go:196 across restarts and crashes).
NeverOlder ==
  \A r \in Reads : \A e \in answer[r] :
    e.space \in RefScoped =>
      e.at >= reading[r].start \/ Seen(reading[r].repository, reading[r].fingerprint, e.at)

\* The documentation promises that what depends on refs is invalidated by the
\* fingerprint at the boundary of a request (docs/overview.md:127).  A commit's
\* detail contains its ref decorations.
DetailsFollowRefs ==
  \A r \in Reads : \A e \in answer[r] :
    e.space = "detail" =>
      e.at >= reading[r].start \/ Seen(reading[r].repository, refLog[reading[r].repository][reading[r].start], e.at)
================================================================================
