----------------------------- MODULE RefCache_proofs -----------------------------
(***************************************************************************)
(* What a read of the history or of the branches answers is never older    *)
(* than the refs it began with (RefCache, NeverOlder), for any number of   *)
(* reads, repositories, keys, states of the refs and restarts.             *)
(***************************************************************************)
EXTENDS RefCache, TLAPS

(***************************************************************************)
(* Every value is judged by the log of its repository: it is fresh under a *)
(* fingerprint if the refs had been in that state when it was read.        *)
(***************************************************************************)
Fresh(log, f, at) == at \in 1 .. Len(log) /\ \E q \in 1 .. at : log[q] = f

Logs == Seq(RefStates) \ {<<>>}

MapType   == UNION {[K -> Nat] : K \in SUBSET Keys}
KeptType  == [keys : Seq(Keys), values : MapType]
CacheType == [fingerprint : Fingerprints, kept : [Namespaces -> KeptType]]
StoreType == [fingerprint : Fingerprints, values : [Namespaces -> MapType]]
StageType == [space : Namespaces, keys : SUBSET Keys]
ReadType  == [repository : Repos \cup {None}, fingerprint : Fingerprints, start : Nat,
              stages : Seq(StageType), todo : SUBSET Keys, missing : SUBSET Keys,
              results : SUBSET (Keys \X Nat)]
EntryType == [space : Namespaces, key : Keys, at : Nat]

GoodCache(log, c) ==
  /\ c \in CacheType
  /\ \A n \in RefScoped : \A k \in DOMAIN c.kept[n].values :
       Fresh(log, c.fingerprint, c.kept[n].values[k])

GoodStore(log, s) ==
  /\ s \in StoreType
  /\ \A n \in RefScoped : \A k \in DOMAIN s.values[n] :
       Fresh(log, s.fingerprint, s.values[n][k])

\* A read that is under way: what it computed, it computed after it began.
GoodRead(log, x) ==
  /\ x.repository \in Repos
  /\ x.fingerprint \in RefStates
  /\ x.start \in 1 .. Len(log)
  /\ log[x.start] = x.fingerprint
  /\ x.stages # <<>>
  /\ \A v \in x.results : v[2] \in x.start .. Len(log)

GoodAnswer(log, x, entries) ==
  \A e \in entries : e.space \in RefScoped =>
    /\ e.at \in 1 .. Len(log)
    /\ e.at >= x.start \/ \E q \in 1 .. e.at : log[q] = x.fingerprint

TypeInv ==
  /\ refLog \in [Repos -> Logs]
  /\ DOMAIN caches \subseteq Repos
  /\ caches = [R \in DOMAIN caches |-> caches[R]]
  /\ cacheRoots \in Seq(Repos)
  /\ \A i \in 1 .. Len(cacheRoots) : cacheRoots[i] \in DOMAIN caches
  /\ store \in [Repos -> StoreType]
  /\ durable \in [Repos -> StoreType]
  /\ pc \in [Reads -> {"idle", "lookup", "answered", "failed"}]
  /\ reading \in [Reads -> ReadType]
  /\ answer \in [Reads -> SUBSET EntryType]

CachesInv == \A R \in DOMAIN caches : GoodCache(refLog[R], caches[R])
StoresInv == \A R \in Repos : GoodStore(refLog[R], store[R]) /\ GoodStore(refLog[R], durable[R])
ReadsInv ==
  \A r \in Reads :
    /\ pc[r] = "lookup" => GoodRead(refLog[reading[r].repository], reading[r])
    /\ pc[r] = "idle" => answer[r] = {}
    /\ GoodAnswer(refLog[reading[r].repository], reading[r], answer[r])

FreshInv == TypeInv /\ CachesInv /\ StoresInv /\ ReadsInv

--------------------------------------------------------------------------------
(* Maps, and the two caches.                                                 *)

LEMMA MapIs ==
  ASSUME NEW g
  PROVE  g \in MapType <=>
           /\ DOMAIN g \subseteq Keys
           /\ g = [x \in DOMAIN g |-> g[x]]
           /\ \A x \in DOMAIN g : g[x] \in Nat
BY DEF MapType

LEMMA SetMap ==
  ASSUME NEW g \in MapType, NEW k \in Keys, NEW v \in Nat
  PROVE  /\ Set(g, k, v) \in MapType
         /\ DOMAIN Set(g, k, v) = DOMAIN g \cup {k}
         /\ \A x \in DOMAIN Set(g, k, v) :
              (x = k /\ Set(g, k, v)[x] = v) \/ (x \in DOMAIN g /\ Set(g, k, v)[x] = g[x])
<1>1. DOMAIN g \subseteq Keys /\ \A x \in DOMAIN g : g[x] \in Nat
  BY MapIs
<1>2. DOMAIN Set(g, k, v) = DOMAIN g \cup {k}
  BY DEF Set
<1>3. \A x \in DOMAIN Set(g, k, v) :
        (x = k /\ Set(g, k, v)[x] = v) \/ (x \in DOMAIN g /\ Set(g, k, v)[x] = g[x])
  BY DEF Set
<1>4. Set(g, k, v) = [x \in DOMAIN Set(g, k, v) |-> Set(g, k, v)[x]]
  BY DEF Set
<1>5. Set(g, k, v) \in MapType
  BY <1>1, <1>2, <1>3, <1>4, MapIs
<1> QED
  BY <1>2, <1>3, <1>5

LEMMA NoMap == NoEntries \in MapType /\ DOMAIN NoEntries = {} /\ Empty \in KeptType
<1>1. DOMAIN NoEntries = {} /\ NoEntries = [x \in DOMAIN NoEntries |-> NoEntries[x]]
  BY DEF NoEntries
<1>2. NoEntries \in MapType
  BY <1>1, MapIs
<1> QED
  BY <1>1, <1>2 DEF Empty, KeptType

\* An entry of a namespace is the one that was put, or was there.
LEMMA PutKept ==
  ASSUME NEW kept \in KeptType, NEW k \in Keys, NEW v \in Nat, NEW maximum \in Nat \ {0}
  PROVE  /\ Put(kept, k, v, maximum) \in KeptType
         /\ \A x \in DOMAIN Put(kept, k, v, maximum).values :
              \/ Put(kept, k, v, maximum).values[x] = v
              \/ /\ x \in DOMAIN kept.values
                 /\ Put(kept, k, v, maximum).values[x] = kept.values[x]
<1>0. kept.values \in MapType /\ kept.keys \in Seq(Keys)
  BY DEF KeptType
<1> DEFINE all == Set(kept.values, k, v)
           keys == Append(kept.keys, k)
           rest == [x \in DOMAIN all \ {Head(keys)} |-> all[x]]
<1>1. /\ all \in MapType
      /\ \A x \in DOMAIN all :
           (x = k /\ all[x] = v) \/ (x \in DOMAIN kept.values /\ all[x] = kept.values[x])
  BY <1>0, SetMap
<1>2. keys \in Seq(Keys) /\ keys # <<>> /\ Tail(keys) \in Seq(Keys)
  BY <1>0
<1>3. /\ DOMAIN all \subseteq Keys
      /\ \A x \in DOMAIN all : all[x] \in Nat
  BY <1>1, MapIs
<1>4. DOMAIN rest = DOMAIN all \ {Head(keys)} /\ \A x \in DOMAIN rest : rest[x] = all[x]
  OBVIOUS
<1>5. rest \in MapType
  <2>1. rest = [x \in DOMAIN rest |-> rest[x]]
    OBVIOUS
  <2> HIDE DEF rest
  <2> QED
    BY <1>3, <1>4, <2>1, MapIs
<1> HIDE DEF all, rest, keys
<1>6. CASE k \in DOMAIN kept.values
  <2>1. Put(kept, k, v, maximum) = [kept EXCEPT !.values = all]
    BY <1>6 DEF Put, all
  <2>2. [kept EXCEPT !.values = all] \in KeptType /\ [kept EXCEPT !.values = all].values = all
    BY <1>0, <1>1 DEF KeptType
  <2> QED
    BY <1>1, <2>1, <2>2
<1>7. CASE k \notin DOMAIN kept.values /\ Len(keys) > maximum
  <2>1. Put(kept, k, v, maximum) = [keys |-> Tail(keys), values |-> rest]
    BY <1>7 DEF Put, all, keys, rest
  <2>2. [keys |-> Tail(keys), values |-> rest] \in KeptType
    BY <1>2, <1>5 DEF KeptType
  <2> QED
    BY <1>1, <1>4, <2>1, <2>2
<1>8. CASE k \notin DOMAIN kept.values /\ ~(Len(keys) > maximum)
  <2>1. Put(kept, k, v, maximum) = [keys |-> keys, values |-> all]
    BY <1>8 DEF Put, all, keys
  <2>2. [keys |-> keys, values |-> all] \in KeptType
    BY <1>2, <1>1 DEF KeptType
  <2> QED
    BY <1>1, <2>1, <2>2
<1> QED
  BY <1>6, <1>7, <1>8

LEMMA NewCacheGood ==
  ASSUME NEW log
  PROVE  GoodCache(log, NewCache) /\ GoodStore(log, NewStore)
<1>1. NewCache \in CacheType /\ NewStore \in StoreType
  BY NoMap DEF NewCache, NewStore, CacheType, StoreType, Fingerprints
<1>2. \A n \in RefScoped : DOMAIN NewCache.kept[n].values = {} /\ DOMAIN NewStore.values[n] = {}
  BY NoMap DEF NewCache, NewStore, Empty, RefScoped, Namespaces
<1> QED
  BY <1>1, <1>2 DEF GoodCache, GoodStore

\* A cache that is refreshed is filed under the fingerprint of the read.
LEMMA RefreshGood ==
  ASSUME NEW log, NEW c, GoodCache(log, c), NEW n \in Namespaces, NEW f \in Fingerprints
  PROVE  /\ GoodCache(log, Refresh(c, n, f))
         /\ n \in RefScoped => Refresh(c, n, f).fingerprint = f
<1>1. CASE n \notin RefScoped \/ c.fingerprint = f
  BY <1>1 DEF Refresh
<1>2. CASE n \in RefScoped /\ c.fingerprint # f
  <2> DEFINE kept == [m \in Namespaces |-> IF m \in RefScoped THEN Empty ELSE c.kept[m]]
  <2>1. c \in CacheType
    BY DEF GoodCache
  <2>2. kept \in [Namespaces -> KeptType]
    BY <2>1, NoMap DEF CacheType
  <2>3. Refresh(c, n, f) = [fingerprint |-> f, kept |-> kept]
    BY <1>2, <2>1 DEF Refresh, DropRefScoped, CacheType
  <2>4. \A m \in RefScoped : DOMAIN kept[m].values = {}
    BY NoMap DEF Empty, RefScoped, Namespaces
  <2> HIDE DEF kept
  <2>5. [fingerprint |-> f, kept |-> kept] \in CacheType
    BY <2>2 DEF CacheType
  <2> QED
    BY <2>3, <2>4, <2>5 DEF GoodCache
<1> QED
  BY <1>1, <1>2

LEMMA PutGood ==
  ASSUME NEW log, NEW c, GoodCache(log, c), NEW n \in Namespaces, NEW k \in Keys, NEW v \in Nat,
         n \in RefScoped => Fresh(log, c.fingerprint, v)
  PROVE  GoodCache(log, PutIn(c, n, k, v))
<1> DEFINE put == Put(c.kept[n], k, v, Maximum[n])
           kept == [c.kept EXCEPT ![n] = put]
<1>1. c \in CacheType /\ c.kept \in [Namespaces -> KeptType] /\ c.kept[n] \in KeptType
  BY DEF GoodCache, CacheType
<1>2. Maximum[n] \in Nat \ {0}
  BY BoundsAreNatural
<1>3. /\ put \in KeptType
      /\ \A x \in DOMAIN put.values :
           put.values[x] = v \/ (x \in DOMAIN c.kept[n].values /\ put.values[x] = c.kept[n].values[x])
  BY <1>1, <1>2, PutKept
<1>4. PutIn(c, n, k, v) = [fingerprint |-> c.fingerprint, kept |-> kept]
  BY <1>1 DEF PutIn, CacheType
<1> HIDE DEF put
<1>5. kept \in [Namespaces -> KeptType] /\ kept[n] = put /\ \A m \in Namespaces \ {n} : kept[m] = c.kept[m]
  BY <1>1, <1>3
<1>6. [fingerprint |-> c.fingerprint, kept |-> kept] \in CacheType
  BY <1>1, <1>5 DEF CacheType
<1>7. \A m \in RefScoped : \A x \in DOMAIN kept[m].values : Fresh(log, c.fingerprint, kept[m].values[x])
  <2> SUFFICES ASSUME NEW m \in RefScoped, NEW x \in DOMAIN kept[m].values
               PROVE  Fresh(log, c.fingerprint, kept[m].values[x])
    OBVIOUS
  <2>1. m \in Namespaces
    BY DEF Namespaces
  <2>2. CASE m = n
    BY <1>3, <1>5, <2>2 DEF GoodCache
  <2>3. CASE m # n
    BY <1>5, <2>1, <2>3 DEF GoodCache
  <2> QED
    BY <2>2, <2>3
<1> HIDE DEF kept
<1> QED
  BY <1>4, <1>6, <1>7 DEF GoodCache

LEMMA EnsureGood ==
  ASSUME NEW log, NEW s, GoodStore(log, s), NEW n \in Namespaces, NEW f \in Fingerprints
  PROVE  /\ GoodStore(log, Ensured(s, n, f))
         /\ n \in RefScoped => Ensured(s, n, f).fingerprint = f
<1>1. CASE n \notin RefScoped \/ s.fingerprint = f
  BY <1>1 DEF Ensured, EnsureFingerprint
<1>2. CASE n \in RefScoped /\ s.fingerprint # f
  <2> DEFINE values == [m \in Namespaces |-> IF m \in RefScoped THEN NoEntries ELSE s.values[m]]
  <2>1. s \in StoreType
    BY DEF GoodStore
  <2>2. values \in [Namespaces -> MapType]
    BY <2>1, NoMap DEF StoreType
  <2>3. Ensured(s, n, f) = [fingerprint |-> f, values |-> values]
    BY <1>2 DEF Ensured, EnsureFingerprint
  <2>4. \A m \in RefScoped : DOMAIN values[m] = {}
    BY NoMap DEF RefScoped, Namespaces
  <2> HIDE DEF values
  <2>5. [fingerprint |-> f, values |-> values] \in StoreType
    BY <2>2 DEF StoreType
  <2> QED
    BY <2>3, <2>4, <2>5 DEF GoodStore
<1> QED
  BY <1>1, <1>2

LEMMA WriteGood ==
  ASSUME NEW log, NEW s, GoodStore(log, s), NEW n \in Namespaces, NEW k \in Keys, NEW v \in Nat,
         n \in RefScoped => Fresh(log, s.fingerprint, v)
  PROVE  GoodStore(log, [s EXCEPT !.values = [s.values EXCEPT ![n] = Set(s.values[n], k, v)]])
<1> DEFINE written == Set(s.values[n], k, v)
           values == [s.values EXCEPT ![n] = written]
<1>1. s \in StoreType /\ s.values \in [Namespaces -> MapType] /\ s.values[n] \in MapType
  BY DEF GoodStore, StoreType
<1>2. /\ written \in MapType
      /\ \A x \in DOMAIN written :
           written[x] = v \/ (x \in DOMAIN s.values[n] /\ written[x] = s.values[n][x])
  BY <1>1, SetMap
<1> HIDE DEF written
<1>3. values \in [Namespaces -> MapType] /\ values[n] = written /\ \A m \in Namespaces \ {n} : values[m] = s.values[m]
  BY <1>1, <1>2
<1>4. \A m \in RefScoped : \A x \in DOMAIN values[m] : Fresh(log, s.fingerprint, values[m][x])
  <2> SUFFICES ASSUME NEW m \in RefScoped, NEW x \in DOMAIN values[m]
               PROVE  Fresh(log, s.fingerprint, values[m][x])
    OBVIOUS
  <2>1. m \in Namespaces
    BY DEF Namespaces
  <2>2. CASE m = n
    BY <1>2, <1>3, <2>2 DEF GoodStore
  <2>3. CASE m # n
    BY <1>3, <2>1, <2>3 DEF GoodStore
  <2> QED
    BY <2>2, <2>3
<1> HIDE DEF values
<1>5. [s EXCEPT !.values = values] = [fingerprint |-> s.fingerprint, values |-> values]
  BY <1>1 DEF StoreType
<1>6. [fingerprint |-> s.fingerprint, values |-> values] \in StoreType
  BY <1>1, <1>3 DEF StoreType
<1>7. GoodStore(log, [s EXCEPT !.values = values])
  BY <1>4, <1>5, <1>6 DEF GoodStore
<1> QED
  BY <1>7 DEF values, written

\* Whatever the refs do next, what is fresh stays so.
LEMMA GrowGood ==
  ASSUME NEW log \in Logs, NEW f \in RefStates
  PROVE  /\ Append(log, f) \in Logs
         /\ \A g, v : Fresh(log, g, v) => Fresh(Append(log, f), g, v)
         /\ \A c : GoodCache(log, c) => GoodCache(Append(log, f), c)
         /\ \A s : GoodStore(log, s) => GoodStore(Append(log, f), s)
         /\ \A x : GoodRead(log, x) => GoodRead(Append(log, f), x)
         /\ \A x, es : GoodAnswer(log, x, es) => GoodAnswer(Append(log, f), x, es)
<1>1. /\ Append(log, f) \in Logs
      /\ Len(log) \in Nat
      /\ Len(Append(log, f)) = Len(log) + 1
      /\ \A i \in 1 .. Len(log) : Append(log, f)[i] = log[i]
  BY DEF Logs
<1>2. \A g, v : Fresh(log, g, v) => Fresh(Append(log, f), g, v)
  BY <1>1 DEF Fresh
<1>3. ASSUME NEW x, GoodRead(log, x) PROVE GoodRead(Append(log, f), x)
  BY <1>1, <1>3 DEF GoodRead
<1>4. ASSUME NEW x, NEW es, GoodAnswer(log, x, es) PROVE GoodAnswer(Append(log, f), x, es)
  BY <1>1, <1>4 DEF GoodAnswer
<1> QED
  BY <1>1, <1>2, <1>3, <1>4 DEF GoodCache, GoodStore

--------------------------------------------------------------------------------
(* The steps.                                                                *)

\* The repository that is remembered takes the place of the oldest one.
LEMMA RememberGood ==
  ASSUME TypeInv, CachesInv, NEW R \in Repos, NEW c, GoodCache(refLog[R], c),
         Remember(R, c), UNCHANGED refLog
  PROVE  /\ DOMAIN caches' \subseteq Repos
         /\ caches' = [Q \in DOMAIN caches' |-> caches'[Q]]
         /\ cacheRoots' \in Seq(Repos)
         /\ \A i \in 1 .. Len(cacheRoots') : cacheRoots'[i] \in DOMAIN caches'
         /\ CachesInv'
<1> DEFINE roots == RootsWith(R)
<1>1. cacheRoots \in Seq(Repos)
  BY DEF TypeInv
<1>2. /\ roots \in Seq(Repos)
      /\ \A i \in 1 .. Len(roots) : roots[i] = R \/ roots[i] \in DOMAIN caches
  <2>1. CASE R \in DOMAIN caches
    BY <2>1 DEF RootsWith, TypeInv
  <2>2. CASE R \notin DOMAIN caches /\ Len(cacheRoots) >= MaxRepos
    <3>1. Len(cacheRoots) > 0
      BY <1>1, <2>2, BoundsAreNatural
    <3>2. /\ Tail(cacheRoots) \in Seq(Repos)
          /\ Len(Tail(cacheRoots)) = Len(cacheRoots) - 1
          /\ \A i \in 1 .. Len(cacheRoots) - 1 : Tail(cacheRoots)[i] = cacheRoots[i + 1]
      BY <1>1, <3>1
    <3>3. roots = Append(Tail(cacheRoots), R)
      BY <2>2 DEF RootsWith
    <3> QED
      BY <1>1, <3>1, <3>2, <3>3 DEF TypeInv
  <2>3. CASE R \notin DOMAIN caches /\ ~(Len(cacheRoots) >= MaxRepos)
    <3>1. roots = Append(cacheRoots, R)
      BY <2>3 DEF RootsWith
    <3> QED
      BY <1>1, <3>1 DEF TypeInv
  <2> QED
    BY <2>1, <2>2, <2>3
<1> HIDE DEF roots
<1>3. /\ cacheRoots' = roots
      /\ caches' = [Q \in ToSet(roots) |-> IF Q = R THEN c ELSE caches[Q]]
  BY DEF Remember, roots
<1>4. \A Q \in ToSet(roots) : Q \in Repos /\ (Q = R \/ Q \in DOMAIN caches)
  BY <1>2 DEF ToSet
<1>5. \A i \in 1 .. Len(roots) : roots[i] \in ToSet(roots)
  BY <1>2 DEF ToSet
<1>6. DOMAIN caches' = ToSet(roots)
  BY <1>3
<1>7. \A Q \in DOMAIN caches' : GoodCache(refLog[Q], caches'[Q])
  BY <1>3, <1>4, <1>6 DEF CachesInv
<1> QED
  BY <1>2, <1>3, <1>4, <1>5, <1>6, <1>7 DEF CachesInv

\* What is found in a cache is good, or new.
LEMMA CacheOfGood ==
  ASSUME CachesInv, NEW R \in Repos
  PROVE  GoodCache(refLog[R], CacheOf(R))
BY NewCacheGood DEF CachesInv, CacheOf

LEMMA InitGood == Init => FreshInv
<1> SUFFICES ASSUME Init PROVE FreshInv
  OBVIOUS
<1>1. \A R \in Repos : GoodStore(refLog[R], NewStore)
  BY NewCacheGood
<1>2. NewStore \in StoreType
  BY NoMap DEF NewStore, StoreType, Fingerprints
<1>3. StoresInv
  BY <1>1 DEF Init, StoresInv
<1>4. NoReading \in ReadType
  BY DEF NoReading, ReadType, Fingerprints
<1>5. refLog \in [Repos -> Logs]
  <2>1. \A s \in RefStates : <<s>> \in Logs
    BY DEF Logs
  <2>2. {<<s>> : s \in RefStates} \subseteq Logs
    BY <2>1
  <2> QED
    BY <2>2 DEF Init
<1>6. TypeInv
  BY <1>2, <1>4, <1>5 DEF Init, TypeInv
<1>7. CachesInv
  BY DEF Init, CachesInv
<1>8. ReadsInv
  BY DEF Init, ReadsInv, GoodAnswer
<1> QED
  BY <1>3, <1>6, <1>7, <1>8 DEF FreshInv

\* A read goes from one state to the next, and the rest stays.
LEMMA ReadGood ==
  ASSUME TypeInv, ReadsInv, UNCHANGED refLog,
         NEW r \in Reads, NEW p \in {"idle", "lookup", "answered", "failed"},
         NEW x \in ReadType, NEW es \in SUBSET EntryType,
         pc' = [pc EXCEPT ![r] = p],
         reading' = [reading EXCEPT ![r] = x],
         answer' = [answer EXCEPT ![r] = es],
         p = "lookup" => GoodRead(refLog[x.repository], x),
         p = "idle" => es = {},
         GoodAnswer(refLog[x.repository], x, es)
  PROVE  /\ pc' \in [Reads -> {"idle", "lookup", "answered", "failed"}]
         /\ reading' \in [Reads -> ReadType]
         /\ answer' \in [Reads -> SUBSET EntryType]
         /\ ReadsInv'
<1>1. /\ pc' \in [Reads -> {"idle", "lookup", "answered", "failed"}]
      /\ reading' \in [Reads -> ReadType]
      /\ answer' \in [Reads -> SUBSET EntryType]
  BY DEF TypeInv
<1>2. ASSUME NEW q \in Reads
      PROVE  /\ pc'[q] = "lookup" => GoodRead(refLog'[reading'[q].repository], reading'[q])
             /\ pc'[q] = "idle" => answer'[q] = {}
             /\ GoodAnswer(refLog'[reading'[q].repository], reading'[q], answer'[q])
  <2>1. CASE q = r
    <3>1. pc'[q] = p /\ reading'[q] = x /\ answer'[q] = es
      BY <2>1 DEF TypeInv
    <3> QED
      BY <3>1
  <2>2. CASE q # r
    <3>1. pc'[q] = pc[q] /\ reading'[q] = reading[q] /\ answer'[q] = answer[q]
      BY <2>2 DEF TypeInv
    <3> QED
      BY <3>1 DEF ReadsInv
  <2> QED
    BY <2>1, <2>2
<1> QED
  BY <1>1, <1>2 DEF ReadsInv

\* What a read leaves of its parameters when it goes on.
With(x, stages, todo, missing, results) ==
  [repository |-> x.repository, fingerprint |-> x.fingerprint, start |-> x.start,
   stages |-> stages, todo |-> todo, missing |-> missing, results |-> results]

LEMMA WithGood ==
  ASSUME NEW x \in ReadType, NEW log, GoodRead(log, x),
         NEW stages \in Seq(StageType), stages # <<>>,
         NEW todo \in SUBSET Keys, NEW missing \in SUBSET Keys,
         NEW results \in SUBSET (Keys \X Nat),
         \A v \in results : v[2] \in x.start .. Len(log)
  PROVE  /\ With(x, stages, todo, missing, results) \in ReadType
         /\ With(x, stages, todo, missing, results).repository = x.repository
         /\ GoodRead(log, With(x, stages, todo, missing, results))
         /\ \A es : GoodAnswer(log, x, es) =>
                    GoodAnswer(log, With(x, stages, todo, missing, results), es)
BY DEF With, ReadType, GoodRead, GoodAnswer

LEMMA WithIs ==
  ASSUME NEW x \in ReadType, NEW todo, NEW missing, NEW results
  PROVE  /\ [x EXCEPT !.todo = todo] = With(x, x.stages, todo, x.missing, x.results)
         /\ [x EXCEPT !.todo = todo, !.missing = missing] =
              With(x, x.stages, todo, missing, x.results)
         /\ [x EXCEPT !.results = results] = With(x, x.stages, x.todo, x.missing, results)
<1>1. [x EXCEPT !.todo = todo] = With(x, x.stages, todo, x.missing, x.results)
  BY DEF With, ReadType
<1>2. [x EXCEPT !.results = results] = With(x, x.stages, x.todo, x.missing, results)
  BY DEF With, ReadType
<1>3. [x EXCEPT !.todo = todo, !.missing = missing] =
        With(x, x.stages, todo, missing, x.results)
  <2> DEFINE y == [x EXCEPT !.todo = todo]
  <2>1. [x EXCEPT !.todo = todo, !.missing = missing] = [y EXCEPT !.missing = missing]
    OBVIOUS
  <2> HIDE DEF y
  <2>2. y = With(x, x.stages, todo, x.missing, x.results)
    BY <1>1 DEF y
  <2>3. [y EXCEPT !.missing = missing] = With(x, x.stages, todo, missing, x.results)
    BY <2>2 DEF With
  <2> QED
    BY <2>1, <2>3
<1> QED
  BY <1>1, <1>2, <1>3

LEMMA FingerprintGood ==
  ASSUME FreshInv, NEW r \in Reads, Fingerprint(r)
  PROVE  FreshInv'
<1>1. PICK R \in Repos, stages \in Methods :
        reading' = [reading EXCEPT ![r] =
                      [repository |-> R, fingerprint |-> Last(refLog[R]), start |-> Now(R),
                       stages |-> stages, todo |-> Head(stages).keys,
                       missing |-> {}, results |-> {}]]
  BY DEF Fingerprint
<1> DEFINE x == [repository |-> R, fingerprint |-> Last(refLog[R]), start |-> Now(R),
                 stages |-> stages, todo |-> Head(stages).keys, missing |-> {}, results |-> {}]
<1>2. stages \in Seq(StageType) /\ stages # <<>>
  BY MethodsAreStages DEF StageType
<1>3. Head(stages) \in StageType
  BY <1>2
<1>4. Head(stages).keys \in SUBSET Keys
  BY <1>3 DEF StageType
<1>5. refLog[R] \in Seq(RefStates) /\ Now(R) \in 1 .. Len(refLog[R]) /\ refLog[R][Now(R)] \in RefStates
  BY DEF FreshInv, TypeInv, Logs, Now
<1>6. x \in ReadType
  BY <1>2, <1>4, <1>5 DEF ReadType, Last, Now, Fingerprints
<1>7. GoodRead(refLog[R], x)
  BY <1>2, <1>5 DEF GoodRead, Last, Now
<1>8. /\ reading' = [reading EXCEPT ![r] = x]
      /\ x.repository = R
      /\ pc' = [pc EXCEPT ![r] = "lookup"]
      /\ answer[r] = {}
      /\ answer' = [answer EXCEPT ![r] = {}]
  BY <1>1 DEF Fingerprint, FreshInv, TypeInv, ReadsInv
<1>9. GoodAnswer(refLog[R], x, {})
  BY DEF GoodAnswer
<1> HIDE DEF x
<1>10. UNCHANGED <<refLog, cached, store, durable>>
  BY DEF Fingerprint
<1>11. /\ pc' \in [Reads -> {"idle", "lookup", "answered", "failed"}]
       /\ reading' \in [Reads -> ReadType]
       /\ answer' \in [Reads -> SUBSET EntryType]
       /\ ReadsInv'
  BY <1>6, <1>7, <1>8, <1>9, <1>10, ReadGood DEF FreshInv
<1> QED
  BY <1>10, <1>11 DEF FreshInv, TypeInv, CachesInv, StoresInv, cached

\* Where a read that is under way is.
LEMMA Under ==
  ASSUME FreshInv, NEW r \in Reads, pc[r] = "lookup"
  PROVE  /\ reading[r] \in ReadType
         /\ reading[r].repository \in Repos
         /\ reading[r].fingerprint \in RefStates
         /\ reading[r].fingerprint \in Fingerprints
         /\ reading[r].stages \in Seq(StageType) \ {<<>>}
         /\ Space(r) \in Namespaces
         /\ reading[r].todo \in SUBSET Keys
         /\ reading[r].missing \in SUBSET Keys
         /\ reading[r].results \in SUBSET (Keys \X Nat)
         /\ GoodRead(refLog[reading[r].repository], reading[r])
         /\ GoodAnswer(refLog[reading[r].repository], reading[r], answer[r])
         /\ answer[r] \in SUBSET EntryType
<1>1. /\ reading[r] \in ReadType
      /\ GoodRead(refLog[reading[r].repository], reading[r])
      /\ GoodAnswer(refLog[reading[r].repository], reading[r], answer[r])
      /\ answer[r] \in SUBSET EntryType
  BY DEF FreshInv, TypeInv, ReadsInv
<1>2. reading[r].stages \in Seq(StageType) \ {<<>>}
  BY <1>1 DEF ReadType, GoodRead
<1>3. Space(r) \in Namespaces
  <2>1. Head(reading[r].stages) \in StageType
    BY <1>2
  <2> QED
    BY <2>1 DEF Space, StageType
<1> QED
  BY <1>1, <1>2, <1>3 DEF ReadType, GoodRead, Fingerprints

\* What is fresh under the fingerprint of a read may be answered.
LEMMA AnswerGood ==
  ASSUME NEW log, NEW x, NEW es, GoodAnswer(log, x, es), es \in SUBSET EntryType,
         NEW n \in Namespaces, NEW k \in Keys, NEW at \in Nat,
         n \in RefScoped => /\ at \in 1 .. Len(log)
                            /\ at >= x.start \/ Fresh(log, x.fingerprint, at)
  PROVE  /\ GoodAnswer(log, x, es \cup {Entry(n, k, at)})
         /\ es \cup {Entry(n, k, at)} \in SUBSET EntryType
<1>1. Entry(n, k, at) \in EntryType /\ Entry(n, k, at).space = n /\ Entry(n, k, at).at = at
  BY DEF Entry, EntryType
<1>2. ASSUME NEW e \in es \cup {Entry(n, k, at)}, e.space \in RefScoped
      PROVE  /\ e.at \in 1 .. Len(log)
             /\ e.at >= x.start \/ \E q \in 1 .. e.at : log[q] = x.fingerprint
  <2>1. CASE e \in es
    BY <1>2, <2>1 DEF GoodAnswer
  <2>2. CASE e = Entry(n, k, at)
    BY <1>1, <1>2, <2>2 DEF Fresh
  <2> QED
    BY <2>1, <2>2
<1> QED
  BY <1>1, <1>2 DEF GoodAnswer

\* A step of read r that leaves the log and the disk: caches, database and read.
LEMMA StepGood ==
  ASSUME FreshInv, NEW r \in Reads, UNCHANGED <<refLog, durable>>,
         DOMAIN caches' \subseteq Repos,
         caches' = [Q \in DOMAIN caches' |-> caches'[Q]],
         cacheRoots' \in Seq(Repos),
         \A i \in 1 .. Len(cacheRoots') : cacheRoots'[i] \in DOMAIN caches',
         CachesInv',
         NEW R \in Repos, NEW s, GoodStore(refLog[R], s), store' = [store EXCEPT ![R] = s],
         NEW x \in ReadType, NEW es \in SUBSET EntryType,
         UNCHANGED pc,
         pc[r] = "lookup",
         reading' = [reading EXCEPT ![r] = x],
         answer' = [answer EXCEPT ![r] = es],
         GoodRead(refLog[x.repository], x),
         GoodAnswer(refLog[x.repository], x, es)
  PROVE  FreshInv'
<1>1. TypeInv /\ ReadsInv /\ StoresInv
  BY DEF FreshInv
<1>2. pc' = [pc EXCEPT ![r] = "lookup"]
  BY <1>1 DEF TypeInv
<1>3. /\ pc' \in [Reads -> {"idle", "lookup", "answered", "failed"}]
      /\ reading' \in [Reads -> ReadType]
      /\ answer' \in [Reads -> SUBSET EntryType]
      /\ ReadsInv'
  BY <1>1, <1>2, ReadGood
<1>4. s \in StoreType
  BY DEF GoodStore
<1>5. store' \in [Repos -> StoreType]
  BY <1>1, <1>4 DEF TypeInv
<1>6. StoresInv'
  BY <1>1 DEF StoresInv, TypeInv
<1> QED
  BY <1>1, <1>3, <1>5, <1>6 DEF FreshInv, TypeInv

LEMMA LookupGood ==
  ASSUME FreshInv, NEW r \in Reads, Lookup(r)
  PROVE  FreshInv'
<1> DEFINE R == reading[r].repository
           n == Space(r)
           f == reading[r].fingerprint
           c == Refresh(CacheOf(R), n, f)
           log == refLog[R]
<1>1. pc[r] = "lookup" /\ UNCHANGED <<refLog, durable, pc>>
  BY DEF Lookup
<1>2. /\ R \in Repos /\ n \in Namespaces /\ f \in Fingerprints
      /\ reading[r] \in ReadType
      /\ reading[r].stages \in Seq(StageType) /\ reading[r].stages # <<>>
      /\ reading[r].todo \in SUBSET Keys
      /\ reading[r].missing \in SUBSET Keys
      /\ reading[r].results \in SUBSET (Keys \X Nat)
      /\ GoodRead(log, reading[r])
      /\ GoodAnswer(log, reading[r], answer[r])
      /\ answer[r] \in SUBSET EntryType
  BY <1>1, Under
<1>3. /\ GoodCache(log, c)
      /\ n \in RefScoped => c.fingerprint = f
  <2>1. GoodCache(log, CacheOf(R))
    BY <1>2, CacheOfGood DEF FreshInv
  <2> QED
    BY <1>2, <2>1, RefreshGood
<1>4. \A s \in Loaded(R, n, f) : GoodStore(log, s)
  <2>1. GoodStore(log, store[R])
    BY <1>2 DEF FreshInv, StoresInv
  <2>2. GoodStore(log, Ensured(store[R], n, f))
    BY <1>2, <2>1, EnsureGood
  <2> QED
    BY <2>1, <2>2 DEF Loaded
<1> DEFINE miss(k) ==
             /\ reading' = [reading EXCEPT ![r].todo = @ \ {k}, ![r].missing = @ \cup {k}]
             /\ UNCHANGED answer
           hit(k, at) ==
             /\ reading' = [reading EXCEPT ![r].todo = @ \ {k}]
             /\ answer' = [answer EXCEPT ![r] = @ \cup {Entry(n, k, at)}]
<1>5. PICK k \in reading[r].todo :
        \/ /\ k \in DOMAIN c.kept[n].values
           /\ Remember(R, c)
           /\ hit(k, c.kept[n].values[k])
           /\ UNCHANGED store
        \/ /\ k \notin DOMAIN c.kept[n].values
           /\ \E s \in Loaded(R, n, f) :
                /\ store' = [store EXCEPT ![R] = s]
                /\ \/ /\ Remember(R, c)
                      /\ miss(k)
                   \/ /\ s.fingerprint = f \/ n \notin RefScoped
                      /\ k \in DOMAIN s.values[n]
                      /\ Remember(R, PutIn(c, n, k, s.values[n][k]))
                      /\ hit(k, s.values[n][k])
  BY DEF Lookup
<1>6. k \in Keys
  BY <1>2
<1> DEFINE found == With(reading[r], reading[r].stages, reading[r].todo \ {k},
                         reading[r].missing, reading[r].results)
           lost == With(reading[r], reading[r].stages, reading[r].todo \ {k},
                        reading[r].missing \cup {k}, reading[r].results)
<1>7. \A v \in reading[r].results : v[2] \in reading[r].start .. Len(log)
  BY <1>2 DEF GoodRead
<1> HIDE DEF R, n, f, c, log
<1> DEFINE now == reading[r]
           todo == reading[r].todo \ {k}
           missing == reading[r].missing \cup {k}
<1>8. /\ found \in ReadType /\ found.repository = R
      /\ GoodRead(log, found)
      /\ \A es : GoodAnswer(log, reading[r], es) => GoodAnswer(log, found, es)
  <2>1. todo \in SUBSET Keys
    BY <1>2
  <2> HIDE DEF todo
  <2>2. /\ With(now, now.stages, todo, now.missing, now.results) \in ReadType
        /\ With(now, now.stages, todo, now.missing, now.results).repository = now.repository
        /\ GoodRead(log, With(now, now.stages, todo, now.missing, now.results))
        /\ \A es : GoodAnswer(log, now, es) =>
                   GoodAnswer(log, With(now, now.stages, todo, now.missing, now.results), es)
    <3> HIDE DEF found, lost, hit, miss
    <3>1. /\ now \in ReadType /\ GoodRead(log, now)
          /\ now.stages \in Seq(StageType) /\ now.stages # <<>>
          /\ now.missing \in SUBSET Keys
          /\ now.results \in SUBSET (Keys \X Nat)
          /\ \A v \in now.results : v[2] \in now.start .. Len(log)
      BY <1>2, <1>7
    <3> HIDE DEF now
    <3> QED
      BY <2>1, <3>1, WithGood
  <2> QED
    BY <2>2 DEF R, todo
<1>9. /\ lost \in ReadType /\ lost.repository = R
      /\ GoodRead(log, lost)
      /\ \A es : GoodAnswer(log, reading[r], es) => GoodAnswer(log, lost, es)
  <2>1. todo \in SUBSET Keys /\ missing \in SUBSET Keys
    BY <1>2, <1>6
  <2> HIDE DEF todo, missing
  <2>2. /\ With(now, now.stages, todo, missing, now.results) \in ReadType
        /\ With(now, now.stages, todo, missing, now.results).repository = now.repository
        /\ GoodRead(log, With(now, now.stages, todo, missing, now.results))
        /\ \A es : GoodAnswer(log, now, es) =>
                   GoodAnswer(log, With(now, now.stages, todo, missing, now.results), es)
    <3> HIDE DEF found, lost, hit, miss
    <3>1. /\ now \in ReadType /\ GoodRead(log, now)
          /\ now.stages \in Seq(StageType) /\ now.stages # <<>>
          /\ now.results \in SUBSET (Keys \X Nat)
          /\ \A v \in now.results : v[2] \in now.start .. Len(log)
      BY <1>2, <1>7
    <3> HIDE DEF now
    <3> QED
      BY <2>1, <3>1, WithGood
  <2> QED
    BY <2>2 DEF R, todo, missing
<1>10. reading \in [Reads -> ReadType] /\ answer \in [Reads -> SUBSET EntryType] /\ store \in [Repos -> StoreType]
  BY DEF FreshInv, TypeInv
<1>11. ASSUME NEW at, hit(k, at)
       PROVE  /\ reading' = [reading EXCEPT ![r] = found]
              /\ answer' = [answer EXCEPT ![r] = answer[r] \cup {Entry(n, k, at)}]
  <2>1. [reading[r] EXCEPT !.todo = @ \ {k}] = found
    BY <1>2, WithIs
  <2> QED
    BY <1>10, <1>11, <2>1
<1>12. ASSUME miss(k)
       PROVE  /\ reading' = [reading EXCEPT ![r] = lost]
              /\ answer' = [answer EXCEPT ![r] = answer[r]]
  <2>1. [reading[r] EXCEPT !.todo = @ \ {k}, !.missing = @ \cup {k}] = lost
    BY <1>2, WithIs
  <2> QED
    BY <1>10, <1>12, <2>1
<1>13. ASSUME NEW d, GoodCache(log, d), Remember(R, d)
       PROVE  /\ DOMAIN caches' \subseteq Repos
              /\ caches' = [Q \in DOMAIN caches' |-> caches'[Q]]
              /\ cacheRoots' \in Seq(Repos)
              /\ \A i \in 1 .. Len(cacheRoots') : cacheRoots'[i] \in DOMAIN caches'
              /\ CachesInv'
  BY <1>1, <1>2, <1>13, RememberGood DEF FreshInv, log
<1> HIDE DEF found, lost, hit, miss
<1>14. CASE /\ k \in DOMAIN c.kept[n].values
            /\ Remember(R, c)
            /\ hit(k, c.kept[n].values[k])
            /\ UNCHANGED store
  <2> DEFINE at == c.kept[n].values[k]
             es == answer[r] \cup {Entry(n, k, at)}
  <2>1. c.kept[n].values \in MapType
    BY <1>2, <1>3 DEF GoodCache, CacheType, KeptType
  <2>2. at \in Nat
    BY <1>14, <2>1, MapIs
  <2>3. n \in RefScoped => Fresh(log, f, at)
    BY <1>3, <1>14 DEF GoodCache
  <2>4. GoodAnswer(log, reading[r], es) /\ es \in SUBSET EntryType
    <3>1. n \in RefScoped => /\ at \in 1 .. Len(log)
                             /\ at >= reading[r].start \/ Fresh(log, reading[r].fingerprint, at)
      BY <2>3 DEF f, Fresh
    <3> HIDE DEF at
    <3> QED
      BY <1>2, <1>6, <2>2, <3>1, AnswerGood
  <2>5. GoodAnswer(log, found, es)
    BY <1>8, <2>4
  <2>6. reading' = [reading EXCEPT ![r] = found] /\ answer' = [answer EXCEPT ![r] = es]
    BY <1>11, <1>14
  <2>7. GoodStore(refLog[R], store[R]) /\ store' = [store EXCEPT ![R] = store[R]]
    BY <1>2, <1>10, <1>14 DEF FreshInv, StoresInv
  <2>8. refLog[found.repository] = log
    BY <1>8 DEF log
  <2> HIDE DEF at, es
  <2> QED
    BY <1>1, <1>2, <1>3, <1>8, <1>13, <1>14, <2>4, <2>5, <2>6, <2>7, <2>8, StepGood
<1>15. ASSUME NEW s \in Loaded(R, n, f), store' = [store EXCEPT ![R] = s],
              Remember(R, c), miss(k)
       PROVE  FreshInv'
  <2>1. reading' = [reading EXCEPT ![r] = lost] /\ answer' = [answer EXCEPT ![r] = answer[r]]
    BY <1>12, <1>15
  <2>2. GoodAnswer(log, lost, answer[r])
    BY <1>2, <1>9
  <2>3. refLog[lost.repository] = log /\ GoodStore(refLog[R], s)
    BY <1>4, <1>9, <1>15 DEF log
  <2>4. R \in Repos /\ lost \in ReadType /\ answer[r] \in SUBSET EntryType
    BY <1>2, <1>9
  <2> QED
    BY <1>1, <1>3, <1>9, <1>13, <1>15, <2>1, <2>2, <2>3, <2>4, StepGood
<1>16. ASSUME NEW s \in Loaded(R, n, f), store' = [store EXCEPT ![R] = s],
              s.fingerprint = f \/ n \notin RefScoped,
              k \in DOMAIN s.values[n],
              Remember(R, PutIn(c, n, k, s.values[n][k])),
              hit(k, s.values[n][k])
       PROVE  FreshInv'
  <2> DEFINE at == s.values[n][k]
             es == answer[r] \cup {Entry(n, k, at)}
  <2>1. GoodStore(log, s) /\ s.values[n] \in MapType
    BY <1>2, <1>4 DEF GoodStore, StoreType
  <2>2. at \in Nat
    BY <1>16, <2>1, MapIs
  <2>3. n \in RefScoped => Fresh(log, f, at)
    BY <1>16, <2>1 DEF GoodStore
  <2>4. GoodCache(log, PutIn(c, n, k, at))
    BY <1>2, <1>3, <1>6, <2>2, <2>3, PutGood
  <2>5. GoodAnswer(log, reading[r], es) /\ es \in SUBSET EntryType
    <3>1. n \in RefScoped => /\ at \in 1 .. Len(log)
                             /\ at >= reading[r].start \/ Fresh(log, reading[r].fingerprint, at)
      BY <2>3 DEF f, Fresh
    <3> HIDE DEF at
    <3> QED
      BY <1>2, <1>6, <2>2, <3>1, AnswerGood
  <2>6. GoodAnswer(log, found, es)
    BY <1>8, <2>5
  <2>7. reading' = [reading EXCEPT ![r] = found] /\ answer' = [answer EXCEPT ![r] = es]
    BY <1>11, <1>16
  <2>8. refLog[found.repository] = log /\ GoodStore(refLog[R], s)
    BY <1>8, <2>1 DEF log
  <2>9. Remember(R, PutIn(c, n, k, at))
    BY <1>16
  <2>10. R \in Repos /\ found \in ReadType /\ es \in SUBSET EntryType
    BY <1>2, <1>8, <2>5
  <2> HIDE DEF at, es
  <2> QED
    BY <1>1, <1>8, <1>13, <1>16, <2>4, <2>6, <2>7, <2>8, <2>9, <2>10, StepGood
<1> QED
  BY <1>5, <1>14, <1>15, <1>16

\* A step of read r that leaves the caches, the database and the answer.
LEMMA QuietGood ==
  ASSUME FreshInv, NEW r \in Reads, pc[r] = "lookup",
         UNCHANGED <<refLog, cached, store, durable, answer>>,
         NEW p \in {"lookup", "answered"}, pc' = [pc EXCEPT ![r] = p],
         NEW x \in ReadType, reading' = [reading EXCEPT ![r] = x],
         x.repository = reading[r].repository,
         p = "lookup" => GoodRead(refLog[reading[r].repository], x),
         GoodAnswer(refLog[reading[r].repository], x, answer[r])
  PROVE  FreshInv'
<1>1. TypeInv /\ ReadsInv /\ answer[r] \in SUBSET EntryType /\ answer' = [answer EXCEPT ![r] = answer[r]]
  BY DEF FreshInv, TypeInv
<1>2. UNCHANGED refLog
  OBVIOUS
<1>3. /\ pc' \in [Reads -> {"idle", "lookup", "answered", "failed"}]
      /\ reading' \in [Reads -> ReadType]
      /\ answer' \in [Reads -> SUBSET EntryType]
      /\ ReadsInv'
  BY <1>1, <1>2, ReadGood
<1> QED
  BY <1>3 DEF FreshInv, TypeInv, CachesInv, StoresInv, cached

LEMMA ReadStepGood ==
  ASSUME FreshInv, NEW r \in Reads, Read(r)
  PROVE  FreshInv'
<1> DEFINE now == reading[r]
           log == refLog[reading[r].repository]
<1>1. /\ pc[r] = "lookup"
      /\ UNCHANGED <<refLog, cached, store, durable, pc, answer>>
  BY DEF Read
<1>2. PICK k \in now.missing :
        reading' = [reading EXCEPT ![r].missing = @ \ {k},
                                   ![r].results = @ \cup {<<k, Now(reading[r].repository)>>}]
  BY DEF Read
<1> DEFINE missing == now.missing \ {k}
           results == now.results \cup {<<k, Len(log)>>}
           after == With(now, now.stages, now.todo, missing, results)
<1>3. /\ now \in ReadType /\ now.repository \in Repos /\ GoodRead(log, now)
      /\ now.stages \in Seq(StageType) /\ now.stages # <<>>
      /\ now.todo \in SUBSET Keys /\ now.missing \in SUBSET Keys
      /\ now.results \in SUBSET (Keys \X Nat)
      /\ GoodAnswer(log, now, answer[r])
  BY <1>1, Under
<1>4. Len(log) \in Nat /\ now.start \in 1 .. Len(log)
  BY <1>3 DEF FreshInv, TypeInv, Logs, GoodRead
<1>5. [now EXCEPT !.missing = missing, !.results = results] = after
  <2>1. now \in ReadType
    BY <1>3
  <2>2. [now EXCEPT !.missing = missing, !.results = results] =
          With(now, now.stages, now.todo, missing, results)
    <3> DEFINE half == [now EXCEPT !.missing = missing]
    <3>1. [now EXCEPT !.missing = missing, !.results = results] = [half EXCEPT !.results = results]
      OBVIOUS
    <3>2. half = With(now, now.stages, now.todo, missing, now.results)
      <4> HIDE DEF now, missing
      <4> QED
        BY <2>1 DEF With, ReadType
    <3> HIDE DEF half, now, missing, results
    <3>3. [half EXCEPT !.results = results] = With(now, now.stages, now.todo, missing, results)
      BY <3>2 DEF With
    <3> QED
      BY <3>1, <3>3
  <2> QED
    BY <2>2
<1>6. reading \in [Reads -> ReadType] /\ pc \in [Reads -> {"idle", "lookup", "answered", "failed"}]
  BY DEF FreshInv, TypeInv
<1>7. reading' = [reading EXCEPT ![r] = after]
  <2>1. reading' = [reading EXCEPT ![r] = [now EXCEPT !.missing = missing, !.results = results]]
    BY <1>2, <1>6 DEF Now
  <2> HIDE DEF after, missing, results, now
  <2> QED
    BY <1>5, <2>1
<1>8. missing \in SUBSET Keys /\ results \in SUBSET (Keys \X Nat)
  BY <1>3, <1>4
<1>9. \A v \in results : v[2] \in now.start .. Len(log)
  BY <1>3, <1>4 DEF GoodRead
<1>10. after \in ReadType /\ after.repository = now.repository /\ GoodRead(log, after) /\ GoodAnswer(log, after, answer[r])
  <2>1. /\ now \in ReadType /\ GoodRead(log, now)
        /\ now.stages \in Seq(StageType) /\ now.stages # <<>>
        /\ now.todo \in SUBSET Keys
    BY <1>3
  <2> HIDE DEF after
  <2>2. /\ With(now, now.stages, now.todo, missing, results) \in ReadType
        /\ With(now, now.stages, now.todo, missing, results).repository = now.repository
        /\ GoodRead(log, With(now, now.stages, now.todo, missing, results))
        /\ \A all : GoodAnswer(log, now, all) =>
                    GoodAnswer(log, With(now, now.stages, now.todo, missing, results), all)
    <3> HIDE DEF missing, results, now, log
    <3> QED
      BY <1>8, <1>9, <2>1, WithGood
  <2> QED
    BY <1>3, <2>2 DEF after
<1>11. pc' = [pc EXCEPT ![r] = "lookup"]
  BY <1>1, <1>6
<1> HIDE DEF after
<1> QED
  BY <1>1, <1>7, <1>10, <1>11, QuietGood

LEMMA StoreStepGood ==
  ASSUME FreshInv, NEW r \in Reads, Store(r)
  PROVE  FreshInv'
<1> DEFINE now == reading[r]
           R == reading[r].repository
           n == Space(r)
           f == reading[r].fingerprint
           c == Refresh(CacheOf(R), n, f)
           log == refLog[R]
<1>1. pc[r] = "lookup" /\ UNCHANGED <<refLog, durable, pc>>
  BY DEF Store
<1>2. /\ R \in Repos /\ n \in Namespaces /\ f \in Fingerprints
      /\ now \in ReadType
      /\ now.stages \in Seq(StageType) /\ now.stages # <<>>
      /\ now.todo \in SUBSET Keys /\ now.missing \in SUBSET Keys
      /\ now.results \in SUBSET (Keys \X Nat)
      /\ GoodRead(log, now)
      /\ GoodAnswer(log, now, answer[r])
      /\ answer[r] \in SUBSET EntryType
  BY <1>1, Under
<1>3. /\ GoodCache(log, c)
      /\ n \in RefScoped => c.fingerprint = f
  <2>1. GoodCache(log, CacheOf(R))
    BY <1>2, CacheOfGood DEF FreshInv
  <2> QED
    BY <1>2, <2>1, RefreshGood
<1>4. PICK v \in now.results :
        /\ Remember(R, PutIn(c, n, v[1], v[2]))
        /\ \E s \in Stored(R, n, f, v[1], v[2]) : store' = [store EXCEPT ![R] = s]
        /\ reading' = [reading EXCEPT ![r].results = @ \ {v}]
        /\ answer' = [answer EXCEPT ![r] = @ \cup {Entry(n, v[1], v[2])}]
  BY DEF Store
<1>5. /\ v[1] \in Keys /\ v[2] \in Nat
      /\ Len(log) \in Nat
      /\ now.start \in 1 .. Len(log) /\ log[now.start] = f
      /\ v[2] \in now.start .. Len(log)
  BY <1>2 DEF FreshInv, TypeInv, Logs, GoodRead
<1>6. Fresh(log, f, v[2]) /\ v[2] \in 1 .. Len(log) /\ v[2] >= now.start
  BY <1>5 DEF Fresh
<1> DEFINE k == v[1]
           at == v[2]
           results == now.results \ {v}
           after == With(now, now.stages, now.todo, now.missing, results)
           told == answer[r] \cup {Entry(n, k, at)}
<1>7. PICK s \in Stored(R, n, f, k, at) : store' = [store EXCEPT ![R] = s]
  BY <1>4
<1>8. reading' = [reading EXCEPT ![r] = after] /\ answer' = [answer EXCEPT ![r] = told]
  <2>1. [now EXCEPT !.results = results] = after
    BY <1>2, WithIs
  <2>2. reading \in [Reads -> ReadType] /\ answer \in [Reads -> SUBSET EntryType]
    BY DEF FreshInv, TypeInv
  <2>3. reading' = [reading EXCEPT ![r] = [now EXCEPT !.results = results]]
    BY <1>4, <2>2
  <2> QED
    BY <1>4, <2>1, <2>2, <2>3
<1>9. results \in SUBSET (Keys \X Nat) /\ \A w \in results : w[2] \in now.start .. Len(log)
  BY <1>2 DEF GoodRead
<1>10. after \in ReadType /\ after.repository = R /\ GoodRead(log, after) /\ \A all : GoodAnswer(log, now, all) => GoodAnswer(log, after, all)
  <2>1. after \in ReadType /\ after.repository = now.repository /\ GoodRead(log, after) /\ \A all : GoodAnswer(log, now, all) => GoodAnswer(log, after, all)
    <3>1. /\ now \in ReadType /\ GoodRead(log, now)
          /\ now.stages \in Seq(StageType) /\ now.stages # <<>>
          /\ now.todo \in SUBSET Keys /\ now.missing \in SUBSET Keys
      BY <1>2
    <3> HIDE DEF after
    <3>2. /\ With(now, now.stages, now.todo, now.missing, results) \in ReadType
          /\ With(now, now.stages, now.todo, now.missing, results).repository = now.repository
          /\ GoodRead(log, With(now, now.stages, now.todo, now.missing, results))
          /\ \A all : GoodAnswer(log, now, all) =>
                      GoodAnswer(log, With(now, now.stages, now.todo, now.missing, results), all)
      <4> HIDE DEF results, now, log, told, k, at, R, f, c, n
      <4> QED
        BY <1>9, <3>1, WithGood
    <3> QED
      BY <3>2 DEF after
  <2> HIDE DEF after
  <2> QED
    BY <2>1
<1>11. GoodCache(log, PutIn(c, n, k, at))
  <2>1. n \in RefScoped => Fresh(log, c.fingerprint, at)
    BY <1>3, <1>6
  <2> HIDE DEF c, n, log, k, at
  <2> QED
    BY <1>2, <1>3, <1>5, <2>1, PutGood DEF k, at
<1>12. GoodStore(log, s)
  <2>1. GoodStore(log, store[R])
    BY <1>2 DEF FreshInv, StoresInv
  <2>2. /\ GoodStore(log, Ensured(store[R], n, f))
        /\ n \in RefScoped => Ensured(store[R], n, f).fingerprint = f
    BY <1>2, <2>1, EnsureGood
  <2> DEFINE e == Ensured(store[R], n, f)
  <2>3. s \in {store[R], e, [e EXCEPT !.values = [e.values EXCEPT ![n] = Set(e.values[n], k, at)]]}
    BY <1>7 DEF Stored
  <2>4. n \in RefScoped => Fresh(log, e.fingerprint, at)
    BY <1>6, <2>2
  <2> HIDE DEF e, k, at, n, log
  <2>5. GoodStore(log, [e EXCEPT !.values = [e.values EXCEPT ![n] = Set(e.values[n], k, at)]])
    BY <1>2, <1>5, <2>2, <2>4, WriteGood DEF e, k, at
  <2> QED
    BY <2>1, <2>2, <2>3, <2>5 DEF e
<1>13. GoodAnswer(log, now, told) /\ told \in SUBSET EntryType
  <2>1. /\ GoodAnswer(log, now, answer[r]) /\ answer[r] \in SUBSET EntryType
        /\ n \in Namespaces /\ k \in Keys /\ at \in Nat
        /\ at \in 1 .. Len(log) /\ at >= now.start
    BY <1>2, <1>5, <1>6
  <2> HIDE DEF now, log, n, k, at
  <2> QED
    BY <2>1, AnswerGood
<1>14. /\ DOMAIN caches' \subseteq Repos
       /\ caches' = [Q \in DOMAIN caches' |-> caches'[Q]]
       /\ cacheRoots' \in Seq(Repos)
       /\ \A i \in 1 .. Len(cacheRoots') : cacheRoots'[i] \in DOMAIN caches'
       /\ CachesInv'
  <2>1. Remember(R, PutIn(c, n, k, at))
    BY <1>4
  <2> HIDE DEF c, n, k, at, R
  <2> QED
    BY <1>1, <1>2, <1>11, <2>1, RememberGood DEF FreshInv, log
<1>15. GoodAnswer(log, after, told)
  BY <1>10, <1>13
<1>16. /\ R \in Repos /\ after \in ReadType /\ told \in SUBSET EntryType
       /\ GoodStore(refLog[R], s)
       /\ GoodRead(refLog[after.repository], after) /\ GoodAnswer(refLog[after.repository], after, told)
  BY <1>2, <1>10, <1>12, <1>13, <1>15
<1> HIDE DEF after, told, R
<1> QED
  BY <1>1, <1>7, <1>8, <1>14, <1>16, StepGood

LEMMA ProceedGood ==
  ASSUME FreshInv, NEW r \in Reads, Proceed(r)
  PROVE  FreshInv'
<1> DEFINE now == reading[r]
           log == refLog[reading[r].repository]
           later == Tail(reading[r].stages)
<1>1. pc[r] = "lookup" /\ UNCHANGED <<refLog, cached, store, durable, answer>>
  BY DEF Proceed
<1>2. /\ now \in ReadType /\ GoodRead(log, now)
      /\ now.stages \in Seq(StageType) /\ now.stages # <<>>
      /\ now.missing \in SUBSET Keys
      /\ now.results \in SUBSET (Keys \X Nat)
      /\ GoodAnswer(log, now, answer[r])
  BY <1>1, Under
<1>3. reading \in [Reads -> ReadType] /\ pc \in [Reads -> {"idle", "lookup", "answered", "failed"}]
  BY DEF FreshInv, TypeInv
<1>4. CASE later = <<>>
  <2>1. pc' = [pc EXCEPT ![r] = "answered"] /\ reading' = [reading EXCEPT ![r] = now]
    BY <1>3, <1>4 DEF Proceed
  <2> QED
    BY <1>1, <1>2, <2>1, QuietGood
<1>5. CASE later # <<>>
  <2> DEFINE todo == Head(later).keys
             after == With(now, later, todo, now.missing, now.results)
  <2>1. later \in Seq(StageType)
    BY <1>2
  <2>2. todo \in SUBSET Keys
    <3>1. Head(later) \in StageType
      BY <1>5, <2>1
    <3> QED
      BY <3>1 DEF StageType
  <2>3. reading' = [reading EXCEPT ![r].stages = later, ![r].todo = todo]
    BY <1>5 DEF Proceed
  <2>4. [now EXCEPT !.stages = later, !.todo = todo] = after
    <3> DEFINE half == [now EXCEPT !.stages = later]
    <3>1. [now EXCEPT !.stages = later, !.todo = todo] = [half EXCEPT !.todo = todo]
      OBVIOUS
    <3>2. half = With(now, later, now.todo, now.missing, now.results)
      <4>1. now \in ReadType
        BY <1>2
      <4> HIDE DEF now, later
      <4> QED
        BY <4>1 DEF With, ReadType
    <3> HIDE DEF half, todo, later, now
    <3>3. [half EXCEPT !.todo = todo] = after
      BY <3>2 DEF With
    <3> QED
      BY <3>1, <3>3
  <2>5. reading' = [reading EXCEPT ![r] = after]
    <3>1. reading' = [reading EXCEPT ![r] = [now EXCEPT !.stages = later, !.todo = todo]]
      BY <1>3, <2>3
    <3> HIDE DEF after, todo, later, now
    <3> QED
      BY <2>4, <3>1
  <2>6. after \in ReadType /\ after.repository = now.repository /\ GoodRead(log, after) /\ GoodAnswer(log, after, answer[r])
    <3>1. \A v \in now.results : v[2] \in now.start .. Len(log)
      BY <1>2 DEF GoodRead
    <3>2. /\ now \in ReadType /\ GoodRead(log, now)
          /\ now.missing \in SUBSET Keys /\ now.results \in SUBSET (Keys \X Nat)
      BY <1>2
    <3> HIDE DEF after
    <3>3. /\ With(now, later, todo, now.missing, now.results) \in ReadType
          /\ With(now, later, todo, now.missing, now.results).repository = now.repository
          /\ GoodRead(log, With(now, later, todo, now.missing, now.results))
          /\ \A all : GoodAnswer(log, now, all) =>
                      GoodAnswer(log, With(now, later, todo, now.missing, now.results), all)
      <4> HIDE DEF now, log, later, todo
      <4> QED
        BY <1>5, <2>1, <2>2, <3>1, <3>2, WithGood
    <3> QED
      BY <1>2, <3>3 DEF after
  <2>7. pc' = [pc EXCEPT ![r] = "lookup"]
    BY <1>1, <1>3, <1>5 DEF Proceed
  <2> HIDE DEF after
  <2> QED
    BY <1>1, <2>5, <2>6, <2>7, QuietGood
<1> QED
  BY <1>4, <1>5

\* Reads that end without a response.
LEMMA DropGood ==
  ASSUME FreshInv, NEW reads \in SUBSET Reads, EndUnanswered(reads), UNCHANGED refLog
  PROVE  /\ pc' \in [Reads -> {"idle", "lookup", "answered", "failed"}]
         /\ reading' \in [Reads -> ReadType]
         /\ answer' \in [Reads -> SUBSET EntryType]
         /\ ReadsInv'
<1>1. NoReading \in ReadType
  BY DEF NoReading, ReadType, Fingerprints
<1>2. /\ pc' \in [Reads -> {"idle", "lookup", "answered", "failed"}]
      /\ reading' \in [Reads -> ReadType]
      /\ answer' \in [Reads -> SUBSET EntryType]
  BY <1>1 DEF EndUnanswered, FreshInv, TypeInv
<1>3. ASSUME NEW q \in Reads
      PROVE  /\ pc'[q] = "lookup" => GoodRead(refLog'[reading'[q].repository], reading'[q])
             /\ pc'[q] = "idle" => answer'[q] = {}
             /\ GoodAnswer(refLog'[reading'[q].repository], reading'[q], answer'[q])
  <2>1. CASE q \in reads
    <3>1. pc'[q] = "failed" /\ answer'[q] = {}
      BY <2>1 DEF EndUnanswered
    <3> QED
      BY <3>1 DEF GoodAnswer
  <2>2. CASE q \notin reads
    <3>1. pc'[q] = pc[q] /\ reading'[q] = reading[q] /\ answer'[q] = answer[q]
      BY <2>2 DEF EndUnanswered
    <3> QED
      BY <3>1 DEF FreshInv, ReadsInv
  <2> QED
    BY <2>1, <2>2
<1> QED
  BY <1>2, <1>3 DEF ReadsInv

LEMMA FailGood ==
  ASSUME FreshInv, NEW r \in Reads, Fail(r)
  PROVE  FreshInv'
<1>1. EndUnanswered({r}) /\ UNCHANGED <<refLog, cached, store, durable>>
  BY DEF Fail
<1>2. /\ pc' \in [Reads -> {"idle", "lookup", "answered", "failed"}]
      /\ reading' \in [Reads -> ReadType]
      /\ answer' \in [Reads -> SUBSET EntryType]
      /\ ReadsInv'
  <2>1. {r} \in SUBSET Reads
    OBVIOUS
  <2> QED
    BY <1>1, <2>1, DropGood
<1> QED
  BY <1>1, <1>2 DEF FreshInv, TypeInv, CachesInv, StoresInv, cached

\* A log that grows keeps everything fresh that was.
LEMMA RefsMoveGood ==
  ASSUME FreshInv, NEW R \in Repos, RefsMove(R)
  PROVE  FreshInv'
<1>1. PICK f \in RefStates : refLog' = [refLog EXCEPT ![R] = Append(@, f)]
  BY DEF RefsMove
<1>2. UNCHANGED <<caches, cacheRoots, store, durable, pc, reading, answer>>
  BY DEF RefsMove, cached
<1>3. refLog \in [Repos -> Logs]
  BY DEF FreshInv, TypeInv
<1>4. /\ refLog'[R] = Append(refLog[R], f)
      /\ \A Q \in Repos \ {R} : refLog'[Q] = refLog[Q]
      /\ refLog[R] \in Logs
  BY <1>1, <1>3
<1>5. Append(refLog[R], f) \in Logs
  BY <1>4, GrowGood
<1>6. refLog' \in [Repos -> Logs]
  BY <1>1, <1>3, <1>5
<1>7. TypeInv'
  BY <1>2, <1>6 DEF FreshInv, TypeInv
<1>8. CachesInv'
  <2> SUFFICES ASSUME NEW Q \in DOMAIN caches PROVE GoodCache(refLog'[Q], caches[Q])
    BY <1>2 DEF CachesInv
  <2>1. GoodCache(refLog[Q], caches[Q]) /\ Q \in Repos
    BY DEF FreshInv, CachesInv, TypeInv
  <2> QED
    BY <1>4, <2>1, GrowGood
<1>9. StoresInv'
  <2> SUFFICES ASSUME NEW Q \in Repos
               PROVE  GoodStore(refLog'[Q], store[Q]) /\ GoodStore(refLog'[Q], durable[Q])
    BY <1>2 DEF StoresInv
  <2>1. GoodStore(refLog[Q], store[Q]) /\ GoodStore(refLog[Q], durable[Q])
    BY DEF FreshInv, StoresInv
  <2> QED
    BY <1>4, <2>1, GrowGood
<1>10. ReadsInv'
  <2> SUFFICES ASSUME NEW q \in Reads
               PROVE  /\ pc[q] = "lookup" => GoodRead(refLog'[reading[q].repository], reading[q])
                      /\ pc[q] = "idle" => answer[q] = {}
                      /\ GoodAnswer(refLog'[reading[q].repository], reading[q], answer[q])
    BY <1>2 DEF ReadsInv
  <2>1. /\ pc[q] = "lookup" => GoodRead(refLog[reading[q].repository], reading[q])
        /\ pc[q] = "idle" => answer[q] = {}
        /\ GoodAnswer(refLog[reading[q].repository], reading[q], answer[q])
    BY DEF FreshInv, ReadsInv
  <2>2. CASE reading[q].repository = R
    <3>1. /\ pc[q] = "lookup" => GoodRead(refLog[R], reading[q])
          /\ GoodAnswer(refLog[R], reading[q], answer[q])
      BY <2>1, <2>2
    <3>2. /\ pc[q] = "lookup" => GoodRead(Append(refLog[R], f), reading[q])
          /\ GoodAnswer(Append(refLog[R], f), reading[q], answer[q])
      BY <1>4, <3>1, GrowGood
    <3>3. refLog'[reading[q].repository] = Append(refLog[R], f)
      BY <1>4, <2>2
    <3> QED
      BY <2>1, <3>2, <3>3
  <2>3. CASE reading[q].repository # R
    <3>1. refLog'[reading[q].repository] = refLog[reading[q].repository]
      <4>1. reading[q].repository \in Repos \cup {None}
        BY DEF FreshInv, TypeInv, ReadType
      <4>2. CASE reading[q].repository \in Repos
        BY <1>4, <2>3, <4>2
      <4>3. CASE reading[q].repository = None
        BY <1>1, <1>3, <2>3, <4>3, NothingIsNew
      <4> QED
        BY <4>1, <4>2, <4>3
    <3> QED
      BY <2>1, <3>1
  <2> QED
    BY <2>2, <2>3
<1> QED
  BY <1>7, <1>8, <1>9, <1>10 DEF FreshInv

LEMMA FlushGood == FreshInv /\ Flush => FreshInv'
<1> SUFFICES ASSUME FreshInv, Flush PROVE FreshInv'
  OBVIOUS
<1>1. durable' = store /\ UNCHANGED <<refLog, cached, store, pc, reading, answer>>
  BY DEF Flush
<1> QED
  BY <1>1 DEF FreshInv, TypeInv, CachesInv, StoresInv, ReadsInv, cached

LEMMA RestartGood == FreshInv /\ Restart => FreshInv'
<1> SUFFICES ASSUME FreshInv, Restart PROVE FreshInv'
  OBVIOUS
<1> DEFINE reads == {r \in Reads : pc[r] = "lookup"}
<1>1. /\ caches' = [R \in {} |-> NewCache] /\ cacheRoots' = <<>>
      /\ store' = durable /\ EndUnanswered(reads) /\ UNCHANGED <<refLog, durable>>
  BY DEF Restart
<1>2. /\ pc' \in [Reads -> {"idle", "lookup", "answered", "failed"}]
      /\ reading' \in [Reads -> ReadType]
      /\ answer' \in [Reads -> SUBSET EntryType]
      /\ ReadsInv'
  BY <1>1, DropGood
<1>3. DOMAIN caches' = {} /\ caches' = [R \in DOMAIN caches' |-> caches'[R]]
  BY <1>1
<1>4. TypeInv'
  BY <1>1, <1>2, <1>3 DEF FreshInv, TypeInv
<1>5. CachesInv' /\ StoresInv'
  BY <1>1, <1>3 DEF FreshInv, CachesInv, StoresInv
<1> QED
  BY <1>2, <1>4, <1>5 DEF FreshInv

LEMMA Inductive == FreshInv /\ [Next]_vars => FreshInv'
<1> SUFFICES ASSUME FreshInv, [Next]_vars PROVE FreshInv'
  OBVIOUS
<1>1. ASSUME NEW r \in Reads, ReadStep(r) PROVE FreshInv'
  BY <1>1, FingerprintGood, LookupGood, ReadStepGood, StoreStepGood, ProceedGood, FailGood DEF ReadStep
<1>2. ASSUME NEW R \in Repos, RefsMove(R) PROVE FreshInv'
  BY <1>2, RefsMoveGood
<1>3. CASE Flush
  BY <1>3, FlushGood
<1>4. CASE Restart
  BY <1>4, RestartGood
<1>5. CASE UNCHANGED vars
  BY <1>5 DEF FreshInv, TypeInv, CachesInv, StoresInv, ReadsInv, vars, cached
<1> QED
  BY <1>1, <1>2, <1>3, <1>4, <1>5 DEF Next

--------------------------------------------------------------------------------
(* Theorems.                                                                 *)

\* Whatever is kept or answered was read while the refs were, or had been, in the
\* state it is filed under: the strengthening that Lookup and Store preserve.
THEOREM Freshness == Spec => []FreshInv
<1>1. Init => FreshInv
  BY InitGood
<1>2. FreshInv /\ [Next]_vars => FreshInv'
  BY Inductive
<1> QED
  BY <1>1, <1>2, PTL DEF Spec

\* Nothing in memory, in the database or on disk is older than the refs it is
\* filed under, through evictions, restarts and lost writes.
THEOREM FiledFresh == Spec => []FiledUnderRefs
<1>1. FreshInv => FiledUnderRefs
  <2> SUFFICES ASSUME FreshInv PROVE FiledUnderRefs
    OBVIOUS
  <2>1. RefScoped \subseteq Namespaces
    BY DEF Namespaces
  <2>2. ASSUME NEW R \in DOMAIN caches
        PROVE  Filed(R, caches[R].fingerprint, [n \in Namespaces |-> caches[R].kept[n].values])
    <3>1. GoodCache(refLog[R], caches[R])
      BY DEF FreshInv, CachesInv
    <3> QED
      BY <2>1, <3>1 DEF GoodCache, Filed, Fresh, Seen, Now
  <2>3. ASSUME NEW R \in Repos
        PROVE  /\ Filed(R, store[R].fingerprint, store[R].values)
               /\ Filed(R, durable[R].fingerprint, durable[R].values)
    BY DEF FreshInv, StoresInv, GoodStore, Filed, Fresh, Seen, Now
  <2> QED
    BY <2>2, <2>3 DEF FiledUnderRefs
<1> QED
  BY <1>1, Freshness, PTL

\* History and HistoryBranches answer with nothing older than the refs at the
\* request, or than the first time the refs were in that very state.
THEOREM AnswersNeverOlder == Spec => []NeverOlder
<1>1. FreshInv => NeverOlder
  BY DEF FreshInv, ReadsInv, GoodAnswer, NeverOlder, Seen
<1> QED
  BY <1>1, Freshness, PTL

--------------------------------------------------------------------------------
(* The bounds: a FIFO lists the keys of its map, once each.                  *)

LEMMA AppendNew ==
  ASSUME NEW S, NEW seq \in Seq(S), NEW e \in S, IsInjective(seq), e \notin ToSet(seq)
  PROVE  /\ Append(seq, e) \in Seq(S)
         /\ IsInjective(Append(seq, e))
         /\ ToSet(Append(seq, e)) = ToSet(seq) \cup {e}
         /\ Len(Append(seq, e)) = Len(seq) + 1
<1>1. /\ Append(seq, e) \in Seq(S)
      /\ Len(Append(seq, e)) = Len(seq) + 1
      /\ DOMAIN Append(seq, e) = 1 .. Len(seq) + 1
      /\ DOMAIN seq = 1 .. Len(seq)
      /\ Len(seq) \in Nat
      /\ \A i \in 1 .. Len(seq) : Append(seq, e)[i] = seq[i]
      /\ Append(seq, e)[Len(seq) + 1] = e
  OBVIOUS
<1>2. \A i \in 1 .. Len(seq) : seq[i] # e
  BY <1>1 DEF ToSet
<1>3. IsInjective(Append(seq, e))
  BY <1>1, <1>2 DEF IsInjective
<1>4. ToSet(Append(seq, e)) = ToSet(seq) \cup {e}
  <2>1. ASSUME NEW y \in ToSet(Append(seq, e)) PROVE y \in ToSet(seq) \cup {e}
    BY <1>1 DEF ToSet
  <2>2. ASSUME NEW y \in ToSet(seq) PROVE y \in ToSet(Append(seq, e))
    BY <1>1 DEF ToSet
  <2>3. e \in ToSet(Append(seq, e))
    BY <1>1 DEF ToSet
  <2> QED
    BY <2>1, <2>2, <2>3
<1> QED
  BY <1>1, <1>3, <1>4

LEMMA TailOf ==
  ASSUME NEW S, NEW seq \in Seq(S), seq # <<>>, IsInjective(seq)
  PROVE  /\ Tail(seq) \in Seq(S)
         /\ IsInjective(Tail(seq))
         /\ ToSet(Tail(seq)) = ToSet(seq) \ {Head(seq)}
         /\ Len(Tail(seq)) = Len(seq) - 1
<1>1. /\ Tail(seq) \in Seq(S)
      /\ Len(Tail(seq)) = Len(seq) - 1
      /\ Len(seq) \in Nat /\ Len(seq) > 0
      /\ DOMAIN Tail(seq) = 1 .. Len(seq) - 1
      /\ DOMAIN seq = 1 .. Len(seq)
      /\ \A i \in 1 .. Len(seq) - 1 : Tail(seq)[i] = seq[i + 1]
      /\ Head(seq) = seq[1]
  OBVIOUS
<1>2. IsInjective(Tail(seq))
  <2> SUFFICES ASSUME NEW i \in 1 .. Len(seq) - 1, NEW j \in 1 .. Len(seq) - 1,
                      Tail(seq)[i] = Tail(seq)[j]
               PROVE  i = j
    BY <1>1 DEF IsInjective
  <2>1. seq[i + 1] = seq[j + 1] /\ i + 1 \in 1 .. Len(seq) /\ j + 1 \in 1 .. Len(seq)
    BY <1>1
  <2>2. i + 1 = j + 1
    BY <1>1, <2>1 DEF IsInjective
  <2> QED
    BY <2>2
<1>3. ToSet(Tail(seq)) = ToSet(seq) \ {Head(seq)}
  <2>1. ASSUME NEW y \in ToSet(Tail(seq)) PROVE y \in ToSet(seq) \ {Head(seq)}
    <3>1. PICK i \in 1 .. Len(seq) - 1 : y = Tail(seq)[i]
      BY <1>1 DEF ToSet
    <3>2. y = seq[i + 1] /\ i + 1 \in 1 .. Len(seq) /\ i + 1 # 1
      BY <1>1, <3>1
    <3>3. y # seq[1]
      BY <1>1, <3>2 DEF IsInjective
    <3> QED
      BY <1>1, <3>2, <3>3 DEF ToSet
  <2>2. ASSUME NEW y \in ToSet(seq) \ {Head(seq)} PROVE y \in ToSet(Tail(seq))
    <3>1. PICK i \in 1 .. Len(seq) : y = seq[i]
      BY <1>1 DEF ToSet
    <3>2. i - 1 \in 1 .. Len(seq) - 1 /\ y = Tail(seq)[i - 1]
      BY <1>1, <2>2, <3>1
    <3> QED
      BY <1>1, <3>2 DEF ToSet
  <2> QED
    BY <2>1, <2>2
<1> QED
  BY <1>1, <1>2, <1>3

Exact(kept, maximum) ==
  /\ IsInjective(kept.keys)
  /\ ToSet(kept.keys) = DOMAIN kept.values
  /\ Len(kept.keys) <= maximum

Bounded(c) == \A n \in Namespaces : Exact(c.kept[n], Maximum[n])

LEMMA NewBounded == Bounded(NewCache) /\ \A maximum \in Nat : Exact(Empty, maximum)
<1>1. ToSet(<<>>) = {} /\ IsInjective(<<>>)
  BY DEF ToSet, IsInjective
<1>2. \A maximum \in Nat : Exact(Empty, maximum)
  BY <1>1, NoMap DEF Exact, Empty
<1>3. \A n \in Namespaces : Maximum[n] \in Nat /\ NewCache.kept[n] = Empty
  BY BoundsAreNatural DEF NewCache
<1> QED
  BY <1>2, <1>3 DEF Bounded

\* One more key, and at the maximum one less: the oldest, in both.
LEMMA PutExact ==
  ASSUME NEW maximum \in Nat \ {0}, NEW kept \in KeptType, Exact(kept, maximum),
         NEW k \in Keys, NEW v \in Nat
  PROVE  Exact(Put(kept, k, v, maximum), maximum)
<1> DEFINE all == Set(kept.values, k, v)
           keys == Append(kept.keys, k)
           rest == [w \in DOMAIN all \ {Head(keys)} |-> all[w]]
<1>1. kept.keys \in Seq(Keys) /\ kept.values \in MapType
  BY DEF KeptType
<1>2. DOMAIN all = DOMAIN kept.values \cup {k}
  BY <1>1, SetMap
<1>3. DOMAIN rest = DOMAIN all \ {Head(keys)}
  OBVIOUS
<1>4. CASE k \in DOMAIN kept.values
  <2>1. Put(kept, k, v, maximum) = [kept EXCEPT !.values = all]
    BY <1>4 DEF Put, all
  <2> HIDE DEF all
  <2>2. /\ [kept EXCEPT !.values = all].values = all
        /\ [kept EXCEPT !.values = all].keys = kept.keys
    BY DEF KeptType
  <2> QED
    BY <1>2, <1>4, <2>1, <2>2 DEF Exact
<1>5. CASE k \notin DOMAIN kept.values
  <2>1. /\ keys \in Seq(Keys) /\ IsInjective(keys)
        /\ ToSet(keys) = DOMAIN kept.values \cup {k}
        /\ Len(keys) = Len(kept.keys) + 1
        /\ Len(kept.keys) \in Nat /\ Len(kept.keys) <= maximum
        /\ keys # <<>>
    BY <1>1, <1>5, AppendNew DEF Exact
  <2> HIDE DEF keys, all
  <2>2. CASE Len(keys) > maximum
    <3>1. Put(kept, k, v, maximum) = [keys |-> Tail(keys), values |-> rest]
      BY <1>5, <2>2 DEF Put, all, keys
    <3>2. /\ IsInjective(Tail(keys)) /\ ToSet(Tail(keys)) = ToSet(keys) \ {Head(keys)}
          /\ Len(Tail(keys)) = Len(keys) - 1
      BY <2>1, TailOf
    <3> HIDE DEF rest
    <3> QED
      BY <1>2, <1>3, <2>1, <2>2, <3>1, <3>2 DEF Exact
  <2>3. CASE ~(Len(keys) > maximum)
    <3>1. Put(kept, k, v, maximum) = [keys |-> keys, values |-> all]
      BY <1>5, <2>3 DEF Put, all, keys
    <3> QED
      BY <1>2, <2>1, <2>3, <3>1 DEF Exact
  <2> QED
    BY <2>2, <2>3
<1> QED
  BY <1>4, <1>5

LEMMA RefreshBounded ==
  ASSUME NEW c \in CacheType, Bounded(c), NEW n \in Namespaces, NEW f \in Fingerprints
  PROVE  Bounded(Refresh(c, n, f))
<1>1. CASE n \notin RefScoped \/ c.fingerprint = f
  BY <1>1 DEF Refresh
<1>2. CASE n \in RefScoped /\ c.fingerprint # f
  <2> DEFINE kept == [m \in Namespaces |-> IF m \in RefScoped THEN Empty ELSE c.kept[m]]
  <2>1. Refresh(c, n, f) = [fingerprint |-> f, kept |-> kept]
    BY <1>2 DEF Refresh, DropRefScoped, CacheType
  <2>2. \A m \in Namespaces : Exact(kept[m], Maximum[m])
    BY NewBounded, BoundsAreNatural DEF Bounded
  <2> HIDE DEF kept
  <2> QED
    BY <2>1, <2>2 DEF Bounded
<1> QED
  BY <1>1, <1>2

LEMMA PutBounded ==
  ASSUME NEW c \in CacheType, Bounded(c), NEW n \in Namespaces, NEW k \in Keys, NEW v \in Nat
  PROVE  Bounded(PutIn(c, n, k, v))
<1> DEFINE put == Put(c.kept[n], k, v, Maximum[n])
           kept == [c.kept EXCEPT ![n] = put]
<1>1. c.kept \in [Namespaces -> KeptType] /\ c.kept[n] \in KeptType /\ Maximum[n] \in Nat \ {0}
  BY BoundsAreNatural DEF CacheType
<1>2. Exact(put, Maximum[n])
  BY <1>1, PutExact DEF Bounded
<1>3. PutIn(c, n, k, v).kept = kept
  BY DEF PutIn, CacheType
<1> HIDE DEF put
<1>4. \A m \in Namespaces : Exact(kept[m], Maximum[m])
  BY <1>1, <1>2 DEF Bounded
<1> HIDE DEF kept
<1> QED
  BY <1>3, <1>4 DEF Bounded

WithinInv ==
  /\ IsInjective(cacheRoots) /\ ToSet(cacheRoots) = DOMAIN caches
  /\ Len(cacheRoots) <= MaxRepos
  /\ \A R \in DOMAIN caches : Bounded(caches[R])

\* A repository more, and at the maximum one less: the oldest, in both.
LEMMA RememberBounded ==
  ASSUME TypeInv, WithinInv, NEW R \in Repos, NEW c, Bounded(c), Remember(R, c)
  PROVE  WithinInv'
<1> DEFINE roots == RootsWith(R)
<1>1. cacheRoots \in Seq(Repos) /\ MaxRepos \in Nat \ {0}
  BY BoundsAreNatural DEF TypeInv
<1>2. /\ IsInjective(roots) /\ Len(roots) <= MaxRepos
      /\ ToSet(roots) \subseteq DOMAIN caches \cup {R}
  <2>1. CASE R \in DOMAIN caches
    BY <2>1 DEF RootsWith, WithinInv
  <2>2. CASE R \notin DOMAIN caches /\ Len(cacheRoots) >= MaxRepos
    <3>1. roots = Append(Tail(cacheRoots), R)
      BY <2>2 DEF RootsWith
    <3>2. /\ Tail(cacheRoots) \in Seq(Repos) /\ IsInjective(Tail(cacheRoots))
          /\ ToSet(Tail(cacheRoots)) \subseteq DOMAIN caches
          /\ Len(Tail(cacheRoots)) = Len(cacheRoots) - 1
      <4>1. cacheRoots # <<>>
        BY <1>1, <2>2
      <4> QED
        BY <1>1, <4>1, TailOf DEF WithinInv
    <3>3. R \notin ToSet(Tail(cacheRoots))
      BY <2>2, <3>2
    <3> HIDE DEF roots
    <3>4. /\ IsInjective(roots) /\ ToSet(roots) = ToSet(Tail(cacheRoots)) \cup {R}
          /\ Len(roots) = Len(Tail(cacheRoots)) + 1
      BY <3>1, <3>2, <3>3, AppendNew
    <3> QED
      BY <1>1, <3>2, <3>4 DEF WithinInv
  <2>3. CASE R \notin DOMAIN caches /\ ~(Len(cacheRoots) >= MaxRepos)
    <3>1. roots = Append(cacheRoots, R)
      BY <2>3 DEF RootsWith
    <3>2. R \notin ToSet(cacheRoots) /\ IsInjective(cacheRoots)
      BY <2>3 DEF WithinInv
    <3> HIDE DEF roots
    <3>3. /\ IsInjective(roots) /\ ToSet(roots) = ToSet(cacheRoots) \cup {R}
          /\ Len(roots) = Len(cacheRoots) + 1
      BY <1>1, <3>1, <3>2, AppendNew
    <3> QED
      BY <1>1, <2>3, <3>3 DEF WithinInv
  <2> QED
    BY <2>1, <2>2, <2>3
<1> HIDE DEF roots
<1>3. /\ cacheRoots' = roots
      /\ caches' = [Q \in ToSet(roots) |-> IF Q = R THEN c ELSE caches[Q]]
  BY DEF Remember, roots
<1>4. DOMAIN caches' = ToSet(roots)
  BY <1>3
<1>5. \A Q \in DOMAIN caches' : Bounded(caches'[Q])
  BY <1>2, <1>3, <1>4 DEF WithinInv
<1> QED
  BY <1>2, <1>3, <1>4, <1>5 DEF WithinInv

LEMMA CacheOfBounded ==
  ASSUME CachesInv, WithinInv, NEW R \in Repos
  PROVE  CacheOf(R) \in CacheType /\ Bounded(CacheOf(R))
BY CacheOfGood, NewBounded DEF WithinInv, CacheOf, GoodCache

LEMMA WithinStep == FreshInv /\ WithinInv /\ [Next]_vars => WithinInv'
<1> SUFFICES ASSUME FreshInv, WithinInv, [Next]_vars PROVE WithinInv'
  OBVIOUS
<1>0. ASSUME UNCHANGED cached PROVE WithinInv'
  BY <1>0 DEF WithinInv, cached
<1>1. ASSUME NEW r \in Reads, pc[r] = "lookup"
      PROVE  LET R == reading[r].repository
                 c == Refresh(CacheOf(R), Space(r), reading[r].fingerprint)
             IN  /\ R \in Repos /\ c \in CacheType /\ Bounded(c)
                 /\ \A k \in Keys, v \in Nat : Bounded(PutIn(c, Space(r), k, v))
  <2> DEFINE R == reading[r].repository
             n == Space(r)
             f == reading[r].fingerprint
             c == Refresh(CacheOf(R), n, f)
  <2>1. R \in Repos /\ n \in Namespaces /\ f \in Fingerprints
    BY <1>1, Under
  <2>2. /\ CacheOf(R) \in CacheType /\ Bounded(CacheOf(R))
        /\ GoodCache(refLog[R], CacheOf(R))
    BY <2>1, CacheOfBounded, CacheOfGood DEF FreshInv
  <2>3. c \in CacheType
    BY <2>1, <2>2, RefreshGood DEF GoodCache
  <2>4. Bounded(c)
    BY <2>1, <2>2, RefreshBounded
  <2>5. \A k \in Keys, v \in Nat : Bounded(PutIn(c, n, k, v))
    <3> HIDE DEF c, n
    <3> QED
      BY <2>1, <2>3, <2>4, PutBounded
  <2> QED
    BY <2>1, <2>3, <2>4, <2>5
<1>2. ASSUME NEW r \in Reads, Lookup(r) PROVE WithinInv'
  <2> DEFINE R == reading[r].repository
             n == Space(r)
             f == reading[r].fingerprint
             c == Refresh(CacheOf(R), n, f)
  <2>1. /\ R \in Repos /\ n \in Namespaces /\ f \in Fingerprints
        /\ c \in CacheType /\ Bounded(c)
        /\ \A k \in Keys, v \in Nat : Bounded(PutIn(c, n, k, v))
        /\ reading[r].todo \in SUBSET Keys
    <3>1. pc[r] = "lookup"
      BY <1>2 DEF Lookup
    <3> QED
      BY <1>1, <3>1, Under
  <2>2. \A s \in Loaded(R, n, f) : GoodStore(refLog[R], s)
    <3>1. GoodStore(refLog[R], store[R])
      BY <2>1 DEF FreshInv, StoresInv
    <3>2. GoodStore(refLog[R], Ensured(store[R], n, f))
      BY <2>1, <3>1, EnsureGood
    <3> QED
      BY <3>1, <3>2 DEF Loaded
  <2>3. \/ Remember(R, c)
        \/ \E k \in Keys, s \in Loaded(R, n, f) :
             k \in DOMAIN s.values[n] /\ Remember(R, PutIn(c, n, k, s.values[n][k]))
    BY <1>2, <2>1 DEF Lookup
  <2>4. CASE Remember(R, c)
    BY <2>1, <2>4, RememberBounded DEF FreshInv
  <2>5. ASSUME NEW k \in Keys, NEW s \in Loaded(R, n, f),
               k \in DOMAIN s.values[n], Remember(R, PutIn(c, n, k, s.values[n][k]))
        PROVE  WithinInv'
    <3>1. s.values[n] \in MapType
      BY <2>1, <2>2 DEF GoodStore, StoreType
    <3>2. s.values[n][k] \in Nat
      BY <2>5, <3>1, MapIs
    <3>3. Bounded(PutIn(c, n, k, s.values[n][k]))
      BY <2>1, <3>2
    <3> HIDE DEF c, n, R, f
    <3> QED
      BY <2>1, <2>5, <3>3, RememberBounded DEF FreshInv
  <2> QED
    BY <2>3, <2>4, <2>5
<1>3. ASSUME NEW r \in Reads, Store(r) PROVE WithinInv'
  <2> DEFINE R == reading[r].repository
             n == Space(r)
             f == reading[r].fingerprint
             c == Refresh(CacheOf(R), n, f)
  <2>1. /\ R \in Repos
        /\ \A k \in Keys, v \in Nat : Bounded(PutIn(c, n, k, v))
        /\ reading[r].results \in SUBSET (Keys \X Nat)
    <3>1. pc[r] = "lookup"
      BY <1>3 DEF Store
    <3> QED
      BY <1>1, <3>1, Under
  <2>2. PICK v \in reading[r].results : Remember(R, PutIn(c, n, v[1], v[2]))
    BY <1>3 DEF Store
  <2>3. Bounded(PutIn(c, n, v[1], v[2]))
    BY <2>1
  <2> HIDE DEF c, n, R, f
  <2> QED
    BY <2>1, <2>2, <2>3, RememberBounded DEF FreshInv
<1>4. ASSUME NEW r \in Reads, ReadStep(r) PROVE WithinInv'
  BY <1>0, <1>2, <1>3, <1>4 DEF ReadStep, Fingerprint, Read, Proceed, Fail
<1>5. ASSUME NEW R \in Repos, RefsMove(R) PROVE WithinInv'
  BY <1>0, <1>5 DEF RefsMove
<1>6. CASE Flush
  BY <1>0, <1>6 DEF Flush
<1>7. CASE Restart
  <2>1. /\ caches' = [R \in {} |-> NewCache] /\ cacheRoots' = <<>>
        /\ DOMAIN caches' = {} /\ ToSet(<<>>) = {} /\ IsInjective(<<>>)
    BY <1>7 DEF Restart, ToSet, IsInjective
  <2> QED
    BY <2>1, BoundsAreNatural DEF WithinInv
<1>8. CASE UNCHANGED vars
  BY <1>0, <1>8 DEF vars
<1> QED
  BY <1>4, <1>5, <1>6, <1>7, <1>8 DEF Next

LEMMA WithinInit == Init => WithinInv
<1> SUFFICES ASSUME Init PROVE WithinInv
  OBVIOUS
<1>1. /\ caches = [R \in {} |-> NewCache] /\ cacheRoots = <<>>
      /\ DOMAIN caches = {} /\ ToSet(<<>>) = {} /\ IsInjective(<<>>)
  BY DEF Init, ToSet, IsInjective
<1> QED
  BY <1>1, BoundsAreNatural DEF WithinInv

\* The order lists forget what the maps forget, at every maximum.
THEOREM BoundsHold == Spec => []WithinMaximum
<1>1. Init => FreshInv /\ WithinInv
  BY InitGood, WithinInit
<1>2. (FreshInv /\ WithinInv) /\ [Next]_vars => (FreshInv /\ WithinInv)'
  BY Inductive, WithinStep
<1>3. WithinInv => WithinMaximum
  BY DEF WithinInv, WithinMaximum, Bounded, Exact
<1> QED
  BY <1>1, <1>2, <1>3, PTL DEF Spec

Counted == restarts \in Nat

\* The invariant of the runs: types, bounds, freshness, and reads that follow the
\* refs they began with.
THEOREM Invariance == Spec => []IInv
<1>1. Init => Counted
  BY DEF Init, Counted
<1>2. Counted /\ [Next]_vars => Counted'
  <2> SUFFICES ASSUME restarts \in Nat, [Next]_vars PROVE restarts' \in Nat
    BY DEF Counted
  <2>1. CASE UNCHANGED restarts
    BY <2>1
  <2>2. CASE Restart
    BY <2>2 DEF Restart
  <2>3. ASSUME NEW r \in Reads, ReadStep(r) PROVE UNCHANGED restarts
    BY <2>3 DEF ReadStep, Fingerprint, Lookup, Read, Store, Proceed, Fail
  <2>4. ASSUME NEW R \in Repos, RefsMove(R) PROVE UNCHANGED restarts
    BY <2>4 DEF RefsMove
  <2> QED
    BY <2>1, <2>2, <2>3, <2>4 DEF Next, Flush, vars
<1>3. FreshInv /\ Counted => TypeOK
  <2> SUFFICES ASSUME FreshInv, restarts \in Nat PROVE TypeOK
    BY DEF Counted
  <2>1. ASSUME NEW g \in MapType PROVE IsMap(g)
    BY <2>1, MapIs DEF IsMap
  <2>2. ASSUME NEW R \in DOMAIN caches
        PROVE  /\ caches[R].fingerprint \in Fingerprints
               /\ \A n \in Namespaces : /\ caches[R].kept[n].keys \in Seq(Keys)
                                        /\ IsMap(caches[R].kept[n].values)
    BY <2>1 DEF FreshInv, CachesInv, GoodCache, CacheType, KeptType
  <2>3. ASSUME NEW s \in {store, durable}, NEW R \in Repos
        PROVE  /\ s[R].fingerprint \in Fingerprints
               /\ \A n \in Namespaces : IsMap(s[R].values[n])
    BY <2>1 DEF FreshInv, TypeInv, StoreType
  <2> QED
    BY <2>2, <2>3 DEF FreshInv, TypeInv, TypeOK, Logs
<1>4. FreshInv => ReadsFollowRefs
  BY DEF FreshInv, ReadsInv, GoodRead, ReadsFollowRefs, Now
<1>5. Spec => []Counted
  BY <1>1, <1>2, PTL DEF Spec
<1> QED
  BY <1>3, <1>4, <1>5, Freshness, FiledFresh, BoundsHold, PTL DEF IInv
================================================================================
