-------------------------- MODULE HelperReads_proofs --------------------------
(***************************************************************************)
(* The requests that read the repository, proved for histories of any      *)
(* length, any number of moves of the name, any saves, any batch size and  *)
(* any bounds on what may be asked for: first a search alone (IInv is      *)
(* inductive, whatever Scan makes of a commit), the expression it          *)
(* evaluates and what its answer tells, then the ranges of a diff and a    *)
(* file request alone, then whichever of them the helper is given.         *)
(***************************************************************************)
EXTENDS HelperReads, FiniteSetTheorems, SequenceTheorems, WellFoundedInduction, TLAPS

-----------------------------------------------------------------------------
(* A search.                                                                *)

(* A set of positions is finite and made of natural numbers. *)
LEMMA PositionsAreNaturals ==
  ASSUME history \in Seq(ToSet(history))
  PROVE  /\ Positions \subseteq Nat
         /\ \A S \in SUBSET Positions : IsFiniteSet(S)
<1>1. Positions = 1..Len(history) /\ Len(history) \in Nat
  BY DEF Positions
<1>2. IsFiniteSet(Positions)
  BY <1>1, FS_Interval
<1>3. ASSUME NEW S \in SUBSET Positions
      PROVE  IsFiniteSet(S)
  BY <1>2, FS_Subset
<1> QED
  BY <1>1, <1>3

(* The newest of some commits exists. *)
LEMMA NewestIsLeast ==
  ASSUME NEW S \in SUBSET Nat, S # {}
  PROVE  Newest(S) \in S /\ \A q \in S : Newest(S) <= q
<1>1. PICK p \in S : \A q \in S : ~(<<q, p>> \in OpToRel(<, Nat))
  BY NatLessThanWellFounded, WFMin
<1>2. \A q \in S : ~(q < p)
  BY <1>1 DEF OpToRel
<1>3. \A q \in S : p <= q
  BY <1>2
<1> QED
  BY <1>3 DEF Newest

(* A batch is newer than what is left after it. *)
LEMMA BatchIsNewest ==
  ASSUME IInv
  PROVE  \A p \in NextBatch, q \in left \ NextBatch : p < q
<1>1. left \subseteq Nat /\ \A S \in SUBSET left : IsFiniteSet(S) /\ Cardinality(S) \in Nat
  BY PositionsAreNaturals, FS_CardinalityType DEF IInv, TypeOK
<1> DEFINE Before(p) == {r \in left : r < p}
<1> SUFFICES ASSUME NEW p \in NextBatch, NEW q \in left, q \notin NextBatch, ~(p < q)
             PROVE  FALSE
  OBVIOUS
<1>2. p \in left /\ Cardinality(Before(p)) < BatchSize /\ ~(Cardinality(Before(q)) < BatchSize)
  BY DEF NextBatch
<1>3. Before(q) \subseteq Before(p)
  <2>1. p \in Nat /\ q \in Nat
    BY <1>1, <1>2
  <2>2. \A r \in Nat : r < q => r < p
    BY <2>1
  <2> QED
    BY <1>1, <2>2
<1>4. Cardinality(Before(q)) <= Cardinality(Before(p))
  BY <1>1, <1>3, FS_Subset
<1>5. Cardinality(Before(q)) \in Nat /\ Cardinality(Before(p)) \in Nat
  BY <1>1
<1>6. \A a, b \in Nat : a <= b /\ b < BatchSize => a < BatchSize
  BY SearchAssumption
<1> QED
  BY <1>2, <1>4, <1>5, <1>6, Zenon

(* A sequence is one over its own elements, and stays one. *)
LEMMA OverItself ==
  ASSUME NEW S, NEW s \in Seq(S)
  PROVE  s \in Seq(ToSet(s))
<1>1. Len(s) \in Nat /\ DOMAIN s = 1..Len(s) /\ s = [i \in 1..Len(s) |-> s[i]]
  OBVIOUS
<1>2. \A i \in 1..Len(s) : s[i] \in ToSet(s)
  BY <1>1 DEF ToSet
<1>3. s \in [1..Len(s) -> ToSet(s)]
  BY <1>1, <1>2
<1> QED
  BY <1>1, <1>3, SeqDef

(* The same of a sequence that is appended to. *)
LEMMA AppendOverItself ==
  ASSUME NEW s, s \in Seq(ToSet(s)), NEW e
  PROVE  Append(s, e) \in Seq(ToSet(Append(s, e)))
<1>1. s \in Seq(ToSet(s) \cup {e})
  BY SeqDef
<1>2. Append(s, e) \in Seq(ToSet(s) \cup {e})
  BY <1>1
<1> QED
  BY <1>2, OverItself

(* A page has room for a commit unless a negative limit is asked for, which
   Begin refuses. *)
LEMMA LimitIsPositive ==
  ASSUME request.limit \in Int, request.limit >= 0
  PROVE  Limit \in Nat \ {0}
BY SearchAssumption DEF Limit

(* The initial state. *)
LEMMA InitIInv ==
  ASSUME HistoryInit, SearchInit, request.method = "search.run"
  PROVE  IInv /\ request.limit \in Int
<1>1. history \in Seq(ToSet(history)) /\ request.limit \in Int
  BY CasesAssumption, SearchAssumption DEF HistoryInit
<1>2. TypeOK
  <2>1. results \in Seq(ToSet(results))
    BY DEF SearchInit
  <2>2. moves \in 0..MaxMoves
    BY MaxMovesAssumption DEF HistoryInit
  <2>3. cancelled \in BOOLEAN /\ hasMore \in BOOLEAN
    BY DEF HistoryInit, SearchInit
  <2>4. tip \in Positions /\ seen \subseteq Positions
    BY DEF HistoryInit
  <2>5. eligible \subseteq Positions /\ commits \subseteq Positions
        /\ left \subseteq commits /\ batch \subseteq commits
    BY DEF SearchInit
  <2> QED
    BY <1>1, <2>1, <2>2, <2>3, <2>4, <2>5, Zenon DEF TypeOK
<1>3. WalkInOrder
  BY DEF WalkInOrder, SearchInit
<1>4. ResultsInOrder
  BY DEF ResultsInOrder, HistoryInit, SearchInit
<1> QED
  BY <1>1, <1>2, <1>3, <1>4 DEF IInv

(* Only the steps of a search touch what IInv relates, and they leave the    *)
(* history and the request alone. *)
LEMMA NextIInv ==
  ASSUME IInv, request.limit \in Int, [SearchNext]_<<environmentVars, stage, searchVars>>
  PROVE  IInv' /\ request'.limit \in Int
<1> USE DEF IInv
<1>1. TypeOK /\ WalkInOrder /\ ResultsInOrder /\ left \subseteq commits /\ batch \subseteq commits
  BY DEF TypeOK
<1>2. Positions \subseteq Nat
  BY PositionsAreNaturals DEF TypeOK
<1>n. commits \subseteq Nat /\ left \subseteq Nat /\ batch \subseteq Nat
  BY <1>2 DEF TypeOK
<1> DEFINE Quiet ==
             /\ UNCHANGED <<history, request, eligible, commits, left, batch, results, hasMore>>
             /\ moves' \in 0..MaxMoves /\ tip' \in Positions /\ seen' \subseteq Positions
             /\ cancelled' \in BOOLEAN
             /\ stage' \in {"listing", "listing traversal", "walking"} => request'.limit >= 0
             /\ stage' \in {stage, "found"} \cup Ended
               \/ (results = << >> /\ batch = {} /\ ~hasMore)
<1>3. CASE Quiet
  <2>1. TypeOK'
    BY <1>1, <1>3, Zenon DEF TypeOK, Positions
  <2>2. WalkInOrder'
    BY <1>1, <1>3 DEF WalkInOrder, Ended
  <2>3. Limit' = Limit
    BY <1>3 DEF Limit
  <2>4. ResultsInOrder'
    BY <1>1, <1>3, <2>3 DEF ResultsInOrder, Ended
  <2> QED
    BY <1>3, <2>1, <2>2, <2>4
<1> HIDE DEF Quiet
<1>4. CASE UNCHANGED <<environmentVars, stage, searchVars>>
  <2>1. UNCHANGED <<history, request, tip, seen, moves, cancelled, stage, eligible, commits,
                    left, batch, results, hasMore>>
    BY <1>4 DEF environmentVars, searchVars
  <2>2. stage' \in {"listing", "listing traversal", "walking"} => request'.limit >= 0
    BY <1>1, <2>1 DEF ResultsInOrder
  <2>3. /\ moves' \in 0..MaxMoves /\ tip' \in Positions /\ seen' \subseteq Positions
        /\ cancelled' \in BOOLEAN
    BY <1>1, <2>1 DEF TypeOK
  <2>4. Quiet
    <3>1. stage' \in {stage, "found"} \cup Ended
      BY <2>1
    <3> QED
      BY <2>1, <2>2, <2>3, <3>1, Zenon DEF Quiet
  <2> QED
    BY <1>3, <2>4
<1>5. CASE (RefsMove \/ Cancel) /\ UNCHANGED searchVars
  <2>1. moves' \in 0..MaxMoves
    BY <1>1, <1>5, MaxMovesAssumption DEF RefsMove, Cancel, TypeOK
  <2>2. tip' \in Positions /\ seen' \subseteq Positions /\ cancelled' \in BOOLEAN
    BY <1>1, <1>5 DEF RefsMove, Cancel, TypeOK
  <2>3. UNCHANGED <<history, request, stage>>
    BY <1>5 DEF RefsMove, Cancel
  <2>4. stage' \in {"listing", "listing traversal", "walking"} => request'.limit >= 0
    BY <1>1, <2>3 DEF ResultsInOrder
  <2>5. UNCHANGED <<eligible, commits, left, batch, results, hasMore>>
    BY <1>5 DEF searchVars
  <2>6. Quiet
    <3>1. stage' \in {stage, "found"} \cup Ended
      BY <2>3
    <3> QED
      BY <2>1, <2>2, <2>3, <2>4, <2>5, <3>1, Zenon DEF Quiet
  <2> QED
    BY <1>3, <2>6
<1>6. CASE SearchStep /\ UNCHANGED environmentVars
  <2>e. /\ UNCHANGED <<history, request, tip, seen, moves, cancelled>>
        /\ moves' \in 0..MaxMoves /\ tip' \in Positions /\ seen' \subseteq Positions
        /\ cancelled' \in BOOLEAN
    BY <1>1, <1>6 DEF environmentVars, TypeOK
  <2>t. Positions' = Positions /\ Limit' = Limit /\ history' \in Seq(ToSet(history'))
    BY <2>e, <1>1 DEF Positions, Limit, TypeOK
  <2>1. CASE Begin
    <3>1. /\ results = << >> /\ batch = {} /\ ~hasMore
          /\ stage' = "listing" => request.limit >= 0
          /\ stage' \in {"listing", "refused"}
      BY <1>1, <2>1 DEF Begin, Valid, WalkInOrder, ResultsInOrder, TypeOK, Ended
    <3>2. Quiet
      BY <2>1, <2>e, <3>1 DEF Begin, Quiet
    <3> QED
      BY <1>3, <3>2
  <2>2. CASE Finish \/ Fail \/ Deliver
    <3>1. stage' \in {"found"} \cup Ended
      BY <2>2 DEF Finish, Fail, Deliver, Ended
    <3>2. Quiet
      <4>1. stage' \in {"listing", "listing traversal", "walking"} => request'.limit >= 0
        BY <3>1 DEF Ended
      <4>2. UNCHANGED <<eligible, commits, left, batch, results, hasMore>>
        BY <2>2 DEF Finish, Fail, Deliver
      <4> QED
        <5>1. stage' \in {stage, "found"} \cup Ended
          BY <3>1
        <5> QED
          BY <2>e, <4>1, <4>2, <5>1, Zenon DEF Quiet
    <3> QED
      BY <1>3, <3>2
  <2>3. CASE List \/ ListTraversal
    <3>1. /\ results = << >> /\ batch = {} /\ ~hasMore
          /\ UNCHANGED <<batch, results, hasMore>>
          /\ request.limit >= 0
      BY <1>1, <2>3 DEF List, ListTraversal, WalkInOrder, ResultsInOrder, TypeOK, Ended
    <3>2. /\ eligible' \subseteq Positions /\ commits' \subseteq Positions /\ left' = commits'
      BY <1>1, <2>3 DEF List, ListTraversal, Listing, TypeOK
    <3>3. TypeOK'
      BY <1>1, <2>e, <2>t, <3>1, <3>2, Zenon DEF TypeOK
    <3>4. WalkInOrder'
      BY <3>1, <3>2 DEF WalkInOrder
    <3>5. ResultsInOrder'
      <4>1. results' = << >> /\ ~hasMore' /\ request'.limit >= 0
        BY <2>e, <3>1
      <4>2. DOMAIN results' = {}
        BY <4>1
      <4> QED
        BY <4>1, <4>2 DEF ResultsInOrder
    <3> QED
      BY <2>e, <3>3, <3>4, <3>5
  <2>4. CASE ReadBatch
    <3>1. /\ batch = {} /\ batch' = NextBatch /\ left' = left \ NextBatch
          /\ UNCHANGED <<stage, eligible, commits, results, hasMore>>
          /\ stage = "walking"
      BY <2>4 DEF ReadBatch
    <3>2. NextBatch \subseteq left
      BY DEF NextBatch
    <3>3. TypeOK'
      <4>1. left' \subseteq commits' /\ batch' \subseteq commits'
        BY <1>1, <3>1, <3>2
      <4> QED
        BY <1>1, <2>e, <2>t, <3>1, <4>1, Zenon DEF TypeOK
    <3>4. WalkInOrder'
      <4>1. \A p \in batch', q \in left' : p < q
        BY <3>1, BatchIsNewest
      <4>2. batch' \cup left' = batch \cup left
        BY <3>1, <3>2
      <4> QED
        BY <1>1, <3>1, <4>1, <4>2 DEF WalkInOrder
    <3>5. ResultsInOrder'
      <4>1. batch' \cup left' = batch \cup left
        BY <3>1, <3>2
      <4> QED
        BY <1>1, <2>e, <2>t, <3>1, <4>1 DEF ResultsInOrder
    <3> QED
      BY <2>e, <3>3, <3>4, <3>5
  <2>5. CASE Visit
    <3> DEFINE c == Newest(batch)
               new == Result(c, Scan(c))
    <3>1. /\ stage = "walking" /\ batch # {} /\ batch' = batch \ {c}
          /\ UNCHANGED <<eligible, commits, left>>
      BY <2>5 DEF Visit
    <3>2. c \in batch /\ \A q \in batch : c <= q
      BY <1>n, <3>1, NewestIsLeast
    <3>3. /\ ~hasMore /\ Len(results) \in Nat
          /\ request.limit >= 0 /\ Limit \in Nat \ {0}
      BY <1>1, <3>1, LimitIsPositive DEF ResultsInOrder, TypeOK, Ended
    <3>4. \/ /\ Len(results) >= Limit /\ results' = results
             /\ hasMore' = TRUE /\ stage' = "found"
          \/ /\ results' = results
             /\ UNCHANGED <<hasMore, stage>>
          \/ /\ c \in eligible /\ ~(Len(results) >= Limit)
             /\ results' = Append(results, new)
             /\ UNCHANGED <<hasMore, stage>>
      BY <2>5 DEF Visit
    <3>5. new.commit = c
      BY DEF Result
    <3>6. results' \in Seq(ToSet(results'))
      <4>1. results \in Seq(ToSet(results))
        BY <1>1 DEF TypeOK
      <4>2. Append(results, new) \in Seq(ToSet(Append(results, new)))
        BY <4>1, AppendOverItself
      <4> QED
        BY <3>4, <4>1, <4>2
    <3>7. TypeOK'
      <4>1. left' \subseteq commits' /\ batch' \subseteq commits'
        BY <1>1, <3>1
      <4>2. hasMore' \in BOOLEAN
        BY <1>1, <3>4 DEF TypeOK
      <4> QED
        BY <1>1, <2>e, <2>t, <3>1, <3>6, <4>1, <4>2, Zenon DEF TypeOK
    <3>8. WalkInOrder'
      <4>1. \A p \in batch', q \in left' : p < q
        BY <1>1, <3>1 DEF WalkInOrder
      <4>2. ASSUME NEW p \in batch' \cup left', NEW q \in commits' \ (batch' \cup left')
            PROVE  q < p
        <5>1. CASE q = c
          BY <1>1, <1>n, <3>1, <3>2, <4>2, <5>1 DEF WalkInOrder
        <5>2. CASE q # c
          BY <1>1, <3>1, <4>2, <5>2 DEF WalkInOrder
        <5> QED
          BY <5>1, <5>2
      <4>3. stage' \notin {"opening", "listing", "listing traversal"}
        BY <3>1, <3>4
      <4> QED
        BY <4>1, <4>2, <4>3 DEF WalkInOrder
    <3>9. ResultsInOrder'
      <4>1. /\ \A k \in DOMAIN results : k <= Limit
            /\ \A j, k \in DOMAIN results : j < k => results[j].commit < results[k].commit
            /\ \A k \in DOMAIN results :
                 results[k].commit \in (commits \cap eligible) \ (batch \cup left)
            /\ DOMAIN results = 1..Len(results)
        <5>1. results \in Seq(ToSet(results))
          BY <1>1 DEF TypeOK
        <5>2. DOMAIN results = 1..Len(results)
          BY <5>1
        <5> QED
          BY <1>1, <5>2 DEF ResultsInOrder
      <4>2. c \in commits /\ c \notin batch' \cup left'
        <5>1. c \notin left
          <6>1. c \in Nat /\ (c \in left => c < c)
            BY <1>1, <1>n, <3>2 DEF WalkInOrder
          <6> QED
            BY <6>1
        <5> QED
          BY <1>1, <3>1, <3>2, <5>1
      <4>3. batch' \cup left' \subseteq batch \cup left
        BY <3>1
      <4>4. CASE results' = results /\ UNCHANGED <<hasMore, stage>>
        BY <2>e, <2>t, <3>1, <3>3, <4>1, <4>3, <4>4 DEF ResultsInOrder
      <4>5. CASE Len(results) >= Limit /\ results' = results /\ stage' = "found"
        <5>1. Len(results) = Limit
          <6>1. CASE Len(results) = 0
            BY <3>3, <4>5, <6>1
          <6>2. CASE Len(results) # 0
            <7>1. Len(results) \in DOMAIN results
              BY <3>3, <4>1, <6>2
            <7> QED
              <8>1. Len(results) <= Limit
                BY <4>1, <7>1
              <8> QED
                BY <3>3, <4>5, <8>1
          <6> QED
            BY <6>1, <6>2
        <5> QED
          BY <2>e, <2>t, <3>1, <4>1, <4>3, <4>5, <5>1 DEF ResultsInOrder
      <4>6. CASE c \in eligible /\ ~(Len(results) >= Limit) /\ results' = Append(results, new)
                 /\ UNCHANGED <<hasMore, stage>>
        <5>1. /\ DOMAIN results' = 1..(Len(results) + 1)
              /\ \A k \in DOMAIN results : results'[k] = results[k]
              /\ results'[Len(results) + 1].commit = c
          <6>1. results \in Seq(ToSet(results))
            BY <1>1 DEF TypeOK
          <6>2. \A k \in 1..Len(results) : Append(results, new)[k] = results[k]
            BY <6>1
          <6>3. Append(results, new)[Len(results) + 1] = new
            BY <6>1
          <6>4. DOMAIN Append(results, new) = 1..(Len(results) + 1)
            BY <6>1
          <6> QED
            BY <3>5, <4>1, <4>6, <6>2, <6>3, <6>4
        <5>2. \A k \in DOMAIN results : results[k].commit < c
          BY <1>1, <3>2, <4>1 DEF WalkInOrder
        <5>3. \A k \in DOMAIN results' : k <= Limit'
          BY <2>t, <3>3, <4>6, <5>1
        <5>4. \A j, k \in DOMAIN results' : j < k => results'[j].commit < results'[k].commit
          BY <3>3, <4>1, <5>1, <5>2
        <5>5. \A k \in DOMAIN results' :
                results'[k].commit \in (commits' \cap eligible') \ (batch' \cup left')
          BY <3>1, <3>3, <4>1, <4>2, <4>3, <4>6, <5>1
        <5> QED
          BY <2>e, <3>3, <4>6, <5>3, <5>4, <5>5 DEF ResultsInOrder
      <4> QED
        BY <3>4, <4>4, <4>5, <4>6
    <3> QED
      BY <2>e, <3>7, <3>8, <3>9
  <2> QED
    BY <1>6, <2>1, <2>2, <2>3, <2>4, <2>5 DEF SearchStep
<1> QED
  BY <1>4, <1>5, <1>6 DEF SearchNext

-----------------------------------------------------------------------------

(* A search visits every listed commit once, from the newest to the oldest, and
   its results are in that order, one of each commit, never more than asked for;
   it promises more only when they are as many. *)
THEOREM WalkIsOrderly == SearchSpec => []IInv
<1> DEFINE Inv == IInv /\ request.limit \in Int
<1>1. HistoryInit /\ request.method = "search.run" /\ SearchInit => Inv
  BY InitIInv
<1>2. Inv /\ [SearchNext]_<<environmentVars, stage, searchVars>> => Inv'
  BY NextIInv
<1>3. Inv => IInv
  OBVIOUS
<1> HIDE DEF Inv
<1> QED
  BY <1>1, <1>2, <1>3, PTL DEF SearchSpec

-----------------------------------------------------------------------------
(* The expression of a search.                                              *)

\* A set of naturals with a member has a least one.
LEMMA LeastOf ==
  ASSUME NEW T \in SUBSET Nat, T # {}
  PROVE  \E t \in T : \A u \in T : t <= u
<1> DEFINE Below == OpToRel(<, Nat)
<1>1. IsWellFoundedOn(Below, Nat)
  BY NatLessThanWellFounded DEF Below
<1>2. \A x, y \in Nat : <<x, y>> \in Below <=> x < y
  BY DEF OpToRel, Below
<1> HIDE DEF Below
<1>3. PICK t \in T : \A u \in T : ~(<<u, t>> \in Below)
  <2>1. IsWellFoundedOn(Below, Nat) /\ T \subseteq Nat /\ T # {}
    BY <1>1
  <2> QED
    BY ONLY <2>1, WFMin
<1>4. ASSUME NEW m \in T PROVE t <= m
  <2>1. m \in Nat /\ t \in Nat
    OBVIOUS
  <2>2. ~(m < t)
    BY <1>2, <1>3, <2>1
  <2> QED
    BY <2>1, <2>2
<1> QED BY <1>4

-----------------------------------------------------------------------------
(* An expression for the proof: of the joins before its predicates 2..n the *)
(* depth D, the operator J and the rank R, and the meaning V of its parts.  *)

Combined(join, a, b) == IF join = "and" THEN a /\ b ELSE a \/ b
Parts(n) == {r \in (1..n) \X (1..n) : r[1] <= r[2]}

Lowest(R, lo, hi, i) == i \in lo + 1..hi /\ \A j \in lo + 1..hi : R[i] <= R[j]
SplitAt(J, V, lo, hi, i) == V[<<lo, hi>>] = Combined(J[i], V[<<lo, i - 1>>], V[<<i, hi>>])

Ranked(n, D, J, R) ==
  /\ n \in Nat \ {0}
  /\ D \in [2..n -> Nat]
  /\ J \in [2..n -> Joins]
  /\ R \in [2..n -> Nat]
  /\ \A j \in 2..n : /\ J[j] = "and" => R[j] = 2 * D[j] + 2
                     /\ J[j] = "or" => R[j] = 2 * D[j] + 1

\* A meaning splits a part at one of the lowest joins.
SplitsSomewhere(n, J, R, V) ==
  /\ V \in [Parts(n) -> BOOLEAN]
  /\ \A lo, hi \in 1..n : lo < hi => \E i \in 2..n : Lowest(R, lo, hi, i) /\ SplitAt(J, V, lo, hi, i)

SplitsWithin(n, J, R, V, width) ==
  \A lo, hi \in 1..n : lo < hi /\ hi - lo <= width =>
    \A i \in 2..n : Lowest(R, lo, hi, i) => SplitAt(J, V, lo, hi, i)

\* Joins of a rank are the same operator.
LEMMA RankTells ==
  ASSUME NEW n, NEW D, NEW J, NEW R, Ranked(n, D, J, R), NEW i \in 2..n, NEW j \in 2..n, R[i] = R[j]
  PROVE  J[i] = J[j] /\ D[i] = D[j]
<1>1. /\ J[i] = "and" => R[i] = 2 * D[i] + 2
      /\ J[j] = "and" => R[j] = 2 * D[j] + 2
      /\ J[i] = "or" => R[i] = 2 * D[i] + 1
      /\ J[j] = "or" => R[j] = 2 * D[j] + 1
      /\ D[i] \in Nat /\ D[j] \in Nat
  BY DEF Ranked
<1>2. J[i] \in {"and", "or"} /\ J[j] \in {"and", "or"}
  BY DEF Ranked, Joins
<1>3. CASE J[i] = "and" /\ J[j] = "and"
  <2>1. R[i] = 2 * D[i] + 2 /\ R[j] = 2 * D[j] + 2
    BY <1>1, <1>3
  <2>2. \A a, b \in Nat : 2 * a + 2 = 2 * b + 2 => a = b
    OBVIOUS
  <2> QED BY <1>1, <1>3, <2>1, <2>2
<1>4. CASE J[i] = "or" /\ J[j] = "or"
  BY <1>1, <1>4
<1>5. CASE J[i] = "and" /\ J[j] = "or"
  BY <1>1, <1>5
<1>6. CASE J[i] = "or" /\ J[j] = "and"
  BY <1>1, <1>6
<1> QED BY <1>2, <1>3, <1>4, <1>5, <1>6

\* Combining is associative, so it does not matter which of two joins comes first.
LEMMA CombinedAssociates ==
  ASSUME NEW join, NEW a \in BOOLEAN, NEW b \in BOOLEAN, NEW c \in BOOLEAN
  PROVE  Combined(join, Combined(join, a, b), c) = Combined(join, a, Combined(join, b, c))
BY DEF Combined

\* Splits of expressions one pattern wider are the value too: a lowest join other
\* than the one chosen splits one of the two sides, and the combination associates.
LEMMA SplitStep ==
  ASSUME NEW n, NEW D, NEW J, NEW R, NEW V, Ranked(n, D, J, R), SplitsSomewhere(n, J, R, V),
         NEW width \in Nat, SplitsWithin(n, J, R, V, width)
  PROVE  SplitsWithin(n, J, R, V, width + 1)
<1> SUFFICES ASSUME NEW lo \in 1..n, NEW hi \in 1..n, lo < hi, hi - lo <= width + 1,
                    NEW i \in 2..n, Lowest(R, lo, hi, i)
             PROVE  SplitAt(J, V, lo, hi, i)
  BY DEF SplitsWithin
<1>n. n \in Nat \ {0} /\ R \in [2..n -> Nat]
  BY DEF Ranked
<1>1. PICK s \in 2..n : Lowest(R, lo, hi, s) /\ SplitAt(J, V, lo, hi, s)
  BY DEF SplitsSomewhere
<1>i. /\ i \in lo + 1..hi /\ s \in lo + 1..hi
      /\ \A j \in lo + 1..hi : R[i] <= R[j] /\ R[s] <= R[j]
  BY <1>1 DEF Lowest
<1>r. R[i] = R[s]
  BY <1>i, <1>n
<1>j. J[i] = J[s]
  BY <1>r, RankTells
<1>v. \A a, b \in 1..n : a <= b => V[<<a, b>>] \in BOOLEAN
  BY DEF SplitsSomewhere, Parts
<1>2. CASE s = i
  BY <1>2, <1>1
<1>3. CASE s < i
  <2>1. Lowest(R, s, hi, i) /\ Lowest(R, lo, i - 1, s)
    BY <1>3, <1>i, <1>n DEF Lowest
  <2>2. V[<<s, hi>>] = Combined(J[i], V[<<s, i - 1>>], V[<<i, hi>>])
    <3>1. s \in 1..n /\ s < hi /\ hi - s <= width
      BY <1>i, <1>3, <1>n
    <3> QED BY <3>1, <2>1 DEF SplitsWithin, SplitAt
  <2>3. V[<<lo, i - 1>>] = Combined(J[s], V[<<lo, s - 1>>], V[<<s, i - 1>>])
    <3>1. i - 1 \in 1..n /\ lo < i - 1 /\ (i - 1) - lo <= width
      BY <1>i, <1>3, <1>n
    <3> QED BY <3>1, <2>1 DEF SplitsWithin, SplitAt
  <2>4. V[<<lo, s - 1>>] \in BOOLEAN /\ V[<<s, i - 1>>] \in BOOLEAN /\ V[<<i, hi>>] \in BOOLEAN
    BY <1>v, <1>i, <1>3, <1>n
  <2>5. V[<<lo, hi>>] = Combined(J[s], V[<<lo, s - 1>>], V[<<s, hi>>])
    BY <1>1 DEF SplitAt
  <2> QED BY <2>2, <2>3, <2>4, <2>5, <1>j, CombinedAssociates DEF SplitAt
<1>4. CASE i < s
  <2>1. Lowest(R, i, hi, s) /\ Lowest(R, lo, s - 1, i)
    BY <1>4, <1>i, <1>n DEF Lowest
  <2>2. V[<<i, hi>>] = Combined(J[s], V[<<i, s - 1>>], V[<<s, hi>>])
    <3>1. i \in 1..n /\ i < hi /\ hi - i <= width
      BY <1>i, <1>4, <1>n
    <3> QED BY <3>1, <2>1 DEF SplitsWithin, SplitAt
  <2>3. V[<<lo, s - 1>>] = Combined(J[i], V[<<lo, i - 1>>], V[<<i, s - 1>>])
    <3>1. s - 1 \in 1..n /\ lo < s - 1 /\ (s - 1) - lo <= width
      BY <1>i, <1>4, <1>n
    <3> QED BY <3>1, <2>1 DEF SplitsWithin, SplitAt
  <2>4. V[<<lo, i - 1>>] \in BOOLEAN /\ V[<<i, s - 1>>] \in BOOLEAN /\ V[<<s, hi>>] \in BOOLEAN
    BY <1>v, <1>i, <1>4, <1>n
  <2>5. V[<<lo, hi>>] = Combined(J[s], V[<<lo, s - 1>>], V[<<s, hi>>])
    BY <1>1 DEF SplitAt
  <2> QED BY <2>2, <2>3, <2>4, <2>5, <1>j, CombinedAssociates DEF SplitAt
<1> QED BY <1>2, <1>3, <1>4, <1>i

\* A meaning splits a part at any of its lowest joins.
LEMMA SplitsAnywhere ==
  ASSUME NEW n, NEW D, NEW J, NEW R, NEW V, Ranked(n, D, J, R), SplitsSomewhere(n, J, R, V)
  PROVE  \A width \in Nat : SplitsWithin(n, J, R, V, width)
<1> DEFINE T == {w \in Nat : ~SplitsWithin(n, J, R, V, w)}
<1> SUFFICES ASSUME T # {} PROVE FALSE
  OBVIOUS
<1>1. PICK t \in T : \A u \in T : t <= u
  <2>1. T \in SUBSET Nat
    OBVIOUS
  <2> HIDE DEF T
  <2> QED BY <2>1, LeastOf
<1>2. SplitsWithin(n, J, R, V, 0)
  BY DEF SplitsWithin, Ranked
<1>3. t \in Nat \ {0} /\ t - 1 \in Nat
  BY <1>1, <1>2
<1>4. SplitsWithin(n, J, R, V, t - 1)
  BY <1>1, <1>3
<1>5. SplitsWithin(n, J, R, V, (t - 1) + 1)
  BY <1>3, <1>4, SplitStep
<1> QED BY <1>1, <1>3, <1>5

-----------------------------------------------------------------------------
(* The stacks after the first i predicates, with d groups open: the values  *)
(* are those of the parts that begin at the cuts c, and the operators are   *)
(* the joins at these cuts among the d parentheses.                         *)

Symbols == {"and", "or", "("}
Machine == [values : Seq(BOOLEAN), operators : Seq(Symbols), ok : BOOLEAN]

Until(c, k, i) == IF k < Len(c) THEN c[k + 1] - 1 ELSE i

Cuts(n, D, R, c, i, d) ==
  /\ c \in Seq(1..n)
  /\ c # << >>
  /\ i \in 1..n
  /\ d \in Nat
  /\ c[1] = 1
  /\ c[Len(c)] <= i
  /\ \A k, l \in 1..Len(c) : k < l => c[k] < c[l]
  /\ \A k, l \in 2..Len(c) : k < l => R[c[k]] < R[c[l]]
  /\ \A k \in 2..Len(c) : D[c[k]] <= d

\* The joins within a part bind at least as tightly as those at its ends.
Inside(R, c, i) ==
  /\ \A k \in 2..Len(c) : \A j \in c[k] + 1..Until(c, k, i) : R[c[k]] <= R[j]
  /\ \A k \in 1..Len(c) - 1 : \A j \in c[k] + 1..c[k + 1] - 1 : R[c[k + 1]] <= R[j]

\* The joins within the last part are of rank r or more.
Low(R, c, i, r) == \A j \in c[Len(c)] + 1..i : r <= R[j]

Values(V, c, i, values) ==
  /\ values \in Seq(BOOLEAN)
  /\ Len(values) = Len(c)
  /\ \A k \in 1..Len(c) : values[k] = V[<<c[k], Until(c, k, i)>>]

Place(D, c, k) == k - 1 + D[c[k]]

Operators(D, J, c, d, operators) ==
  /\ operators \in Seq(Symbols)
  /\ Len(operators) = Len(c) - 1 + d
  /\ \A k \in 2..Len(c) : operators[Place(D, c, k)] = J[c[k]]
  /\ \A p \in 1..Len(operators) : (\A k \in 2..Len(c) : p # Place(D, c, k)) => operators[p] = "("

Stacked(n, D, J, R, V, s, c, i, d) ==
  /\ Cuts(n, D, R, c, i, d)
  /\ Inside(R, c, i)
  /\ s \in Machine
  /\ s.ok
  /\ Values(V, c, i, s.values)
  /\ Operators(D, J, c, d, s.operators)

Shorter(n, c, b) ==
  /\ b \in Seq(1..n)
  /\ Len(b) = Len(c) - 1
  /\ Len(b) >= 1
  /\ \A k \in 1..Len(b) : b[k] = c[k]

\* The facts about cuts that a proof uses, as numbers.
LEMMA CutsAreJoins ==
  ASSUME NEW n, NEW D, NEW J, NEW R, Ranked(n, D, J, R), NEW c, NEW i, NEW d, Cuts(n, D, R, c, i, d)
  PROVE  /\ n \in Nat \ {0}
         /\ i \in 1..n /\ d \in Nat
         /\ Len(c) \in Nat \ {0}
         /\ \A k \in 1..Len(c) : c[k] \in 1..n /\ c[k] <= i
         /\ \A k \in 2..Len(c) : /\ c[k] \in 2..n
                                 /\ c[k - 1] < c[k]
                                 /\ D[c[k]] \in 0..d
                                 /\ R[c[k]] \in Nat
                                 /\ J[c[k]] \in Joins
         /\ \A j \in 2..n : R[j] \in Nat /\ D[j] \in Nat /\ J[j] \in Joins
<1>1. n \in Nat \ {0} /\ i \in 1..n /\ d \in Nat /\ c \in Seq(1..n) /\ c # << >>
  BY DEF Ranked, Cuts
<1>2. Len(c) \in Nat \ {0} /\ \A k \in 1..Len(c) : c[k] \in 1..n
  BY <1>1
<1>3. \A j \in 2..n : R[j] \in Nat /\ D[j] \in Nat /\ J[j] \in Joins
  BY DEF Ranked
<1>4. c[1] = 1 /\ c[Len(c)] <= i /\ \A k, l \in 1..Len(c) : k < l => c[k] < c[l]
  BY DEF Cuts
<1>5. \A k \in 2..Len(c) : D[c[k]] <= d
  BY DEF Cuts
<1>6. \A k \in 1..Len(c) : c[k] <= i
  <2> TAKE k \in 1..Len(c)
  <2>1. CASE k = Len(c)
    BY <2>1, <1>4
  <2>2. CASE k < Len(c)
    <3>1. c[k] < c[Len(c)]
      BY <2>2, <1>2, <1>4
    <3> QED BY <3>1, <1>1, <1>2, <1>4
  <2> QED BY <2>1, <2>2, <1>2
<1>7. \A k \in 2..Len(c) : c[k] \in 2..n /\ c[k - 1] < c[k]
  <2> TAKE k \in 2..Len(c)
  <2>1. c[1] < c[k] /\ c[k - 1] < c[k]
    BY <1>2, <1>4
  <2> QED BY <2>1, <1>2, <1>4
<1>8. \A k \in 2..Len(c) : D[c[k]] \in 0..d /\ R[c[k]] \in Nat /\ J[c[k]] \in Joins
  <2> TAKE k \in 2..Len(c)
  <2>1. c[k] \in 2..n
    BY <1>7
  <2>2. D[c[k]] \in Nat /\ R[c[k]] \in Nat /\ J[c[k]] \in Joins
    BY <2>1, <1>3
  <2>3. D[c[k]] <= d
    BY <1>5
  <2> QED BY <2>2, <2>3, <1>1
<1>9. \A k \in 1..Len(c) : c[k] \in 1..n /\ c[k] <= i
  BY <1>2, <1>6
<1>10. \A k \in 2..Len(c) : /\ c[k] \in 2..n
                           /\ c[k - 1] < c[k]
                           /\ D[c[k]] \in 0..d
                           /\ R[c[k]] \in Nat
                           /\ J[c[k]] \in Joins
  BY <1>7, <1>8
<1> QED BY ONLY <1>1, <1>2, <1>3, <1>9, <1>10

\* Giving up the last cut leaves cuts.
LEMMA PopCuts ==
  ASSUME NEW n, NEW D, NEW J, NEW R, Ranked(n, D, J, R), NEW c, NEW i, NEW d, Cuts(n, D, R, c, i, d),
         NEW b, Shorter(n, c, b)
  PROVE  Cuts(n, D, R, b, i, d)
<1>1. Len(c) \in Nat \ {0} /\ \A k \in 1..Len(c) : c[k] \in 1..n /\ c[k] <= i
  BY CutsAreJoins
<1>2. /\ b \in Seq(1..n) /\ Len(b) = Len(c) - 1 /\ Len(b) >= 1
      /\ \A k \in 1..Len(b) : b[k] = c[k]
  BY DEF Shorter
<1>3. /\ i \in 1..n /\ d \in Nat /\ c[1] = 1
      /\ \A k, l \in 1..Len(c) : k < l => c[k] < c[l]
      /\ \A k, l \in 2..Len(c) : k < l => R[c[k]] < R[c[l]]
      /\ \A k \in 2..Len(c) : D[c[k]] <= d
  BY DEF Cuts
<1>4. b # << >> /\ b[1] = 1 /\ b[Len(b)] <= i
  BY <1>1, <1>2, <1>3
<1>5. \A k, l \in 1..Len(b) : k < l => b[k] < b[l]
  <2> TAKE k, l \in 1..Len(b)
  <2>1. k \in 1..Len(c) /\ l \in 1..Len(c) /\ b[k] = c[k] /\ b[l] = c[l]
    BY <1>1, <1>2
  <2> QED BY <2>1, <1>3
<1>6. \A k, l \in 2..Len(b) : k < l => R[b[k]] < R[b[l]]
  <2> TAKE k, l \in 2..Len(b)
  <2>1. k \in 2..Len(c) /\ l \in 2..Len(c) /\ b[k] = c[k] /\ b[l] = c[l]
    BY <1>1, <1>2
  <2> QED BY <2>1, <1>3
<1>7. \A k \in 2..Len(b) : D[b[k]] <= d
  BY <1>1, <1>2, <1>3
<1> QED BY <1>2, <1>3, <1>4, <1>5, <1>6, <1>7 DEF Cuts

\* Of the joins within the last two parts, and the one between them.
LEMMA LastJoins ==
  ASSUME NEW n, NEW D, NEW J, NEW R, Ranked(n, D, J, R), NEW c, NEW i, NEW d, Cuts(n, D, R, c, i, d),
         Inside(R, c, i), Len(c) >= 2
  PROVE  \A j \in c[Len(c) - 1] + 1..i : /\ j \in 2..n
                                         /\ R[c[Len(c)]] <= R[j]
                                         /\ Len(c) > 2 => R[c[Len(c) - 1]] <= R[j]
<1> DEFINE m == Len(c)
<1>1. /\ n \in Nat \ {0} /\ i \in 1..n /\ m \in Nat \ {0}
      /\ \A k \in 1..m : c[k] \in 1..n /\ c[k] <= i
      /\ \A k \in 2..m : c[k] \in 2..n /\ c[k - 1] < c[k] /\ R[c[k]] \in Nat
      /\ \A j \in 2..n : R[j] \in Nat
  BY CutsAreJoins
<1>2. m > 2 => R[c[m - 1]] < R[c[m]]
  <2>1. m > 2 => m - 1 \in 2..m /\ m \in 2..m /\ m - 1 < m
    BY <1>1
  <2>2. \A k, l \in 2..m : k < l => R[c[k]] < R[c[l]]
    BY DEF Cuts
  <2> HIDE DEF m
  <2> QED BY <2>1, <2>2
<1>3. Until(c, m, i) = i /\ Until(c, m - 1, i) = c[m] - 1
  BY <1>1 DEF Until
<1>4. \A j \in c[m] + 1..i : R[c[m]] <= R[j]
  BY <1>1, <1>3 DEF Inside
<1>5. \A j \in c[m - 1] + 1..c[m] - 1 : R[c[m]] <= R[j]
  <2>1. m - 1 \in 1..m - 1 /\ (m - 1) + 1 = m
    BY <1>1
  <2> QED BY <2>1 DEF Inside
<1>6. m > 2 => \A j \in c[m - 1] + 1..c[m] - 1 : R[c[m - 1]] <= R[j]
  <2>1. m > 2 => m - 1 \in 2..m
    BY <1>1
  <2> QED BY <2>1, <1>3 DEF Inside
<1> SUFFICES ASSUME NEW j \in c[m - 1] + 1..i
             PROVE  j \in 2..n /\ R[c[m]] <= R[j] /\ (m > 2 => R[c[m - 1]] <= R[j])
  OBVIOUS
<1>7. c[m - 1] \in 1..n /\ c[m] \in 2..n /\ j \in Int /\ m \in 2..m /\ m - 1 \in 1..m
  BY <1>1
<1>8. j \in 2..n /\ R[j] \in Nat /\ R[c[m]] \in Nat
  BY <1>1, <1>7
<1>9. m > 2 => R[c[m - 1]] \in Nat
  BY <1>1
<1> HIDE DEF m
<1>10. CASE j > c[m]
  <2>1. R[c[m]] <= R[j]
    BY <1>10, <1>1, <1>4, <1>7
  <2> QED BY <2>1, <1>2, <1>8, <1>9
<1>11. CASE j = c[m]
  BY <1>11, <1>2, <1>8, <1>9
<1>12. CASE j < c[m]
  BY <1>12, <1>5, <1>6, <1>7, <1>8
<1> QED BY <1>7, <1>10, <1>11, <1>12

\* The part that gives up its last cut takes in the part that ended there, whose
\* joins rank no lower.
LEMMA PopInside ==
  ASSUME NEW n, NEW D, NEW J, NEW R, Ranked(n, D, J, R), NEW c, NEW i, NEW d, Cuts(n, D, R, c, i, d),
         Inside(R, c, i), NEW b, Shorter(n, c, b)
  PROVE  Inside(R, b, i)
<1>1. /\ Len(c) \in Nat /\ Len(b) = Len(c) - 1 /\ Len(b) >= 1 /\ Len(c) >= 2
      /\ \A k \in 1..Len(b) : b[k] = c[k]
  BY CutsAreJoins DEF Shorter
<1>2. \A k \in 2..Len(b) : \A j \in b[k] + 1..Until(b, k, i) : R[b[k]] <= R[j]
  <2> TAKE k \in 2..Len(b)
  <2>1. CASE k < Len(b)
    <3>1. Until(b, k, i) = Until(c, k, i) /\ b[k] = c[k] /\ k \in 2..Len(c)
      BY <2>1, <1>1 DEF Until
    <3> QED BY <3>1 DEF Inside
  <2>2. CASE k = Len(b)
    <3>1. Until(b, k, i) = i /\ b[k] = c[Len(c) - 1] /\ Len(c) > 2
      BY <2>2, <1>1 DEF Until
    <3> QED BY <3>1, <1>1, LastJoins
  <2> QED BY <2>1, <2>2, <1>1
<1>3. \A k \in 1..Len(b) - 1 : \A j \in b[k] + 1..b[k + 1] - 1 : R[b[k + 1]] <= R[j]
  <2> TAKE k \in 1..Len(b) - 1
  <2>1. b[k] = c[k] /\ b[k + 1] = c[k + 1] /\ k \in 1..Len(c) - 1
    BY <1>1
  <2> QED BY <2>1 DEF Inside
<1> QED BY <1>2, <1>3 DEF Inside

\* Every join of the last part ranks at least as high as a rank that its cut reaches.
LEMMA PopLow ==
  ASSUME NEW n, NEW D, NEW J, NEW R, Ranked(n, D, J, R), NEW c, NEW i, NEW d, Cuts(n, D, R, c, i, d),
         Inside(R, c, i), NEW b, Shorter(n, c, b), NEW r \in Int, r <= R[c[Len(c)]]
  PROVE  Low(R, b, i, r)
<1>1. /\ Len(c) \in Nat /\ Len(b) = Len(c) - 1 /\ Len(b) >= 1 /\ Len(c) >= 2
      /\ b[Len(b)] = c[Len(c) - 1]
  BY CutsAreJoins DEF Shorter
<1>2. R[c[Len(c)]] \in Nat /\ \A j \in 2..n : R[j] \in Nat
  BY CutsAreJoins, <1>1
<1>3. \A j \in c[Len(c) - 1] + 1..i : j \in 2..n /\ R[c[Len(c)]] <= R[j]
  BY <1>1, LastJoins
<1> QED BY <1>1, <1>2, <1>3 DEF Low

\* The value of the joined part is the combination of the two it was joined from.
LEMMA PopValues ==
  ASSUME NEW n, NEW D, NEW J, NEW R, NEW V, Ranked(n, D, J, R),
         SplitsSomewhere(n, J, R, V), NEW c, NEW i, NEW d,
         Cuts(n, D, R, c, i, d), Inside(R, c, i), NEW b, Shorter(n, c, b),
         NEW values, Values(V, c, i, values), NEW popped \in Seq(BOOLEAN),
         Len(popped) = Len(values) - 1,
         \A k \in 1..Len(values) - 2 : popped[k] = values[k],
         popped[Len(values) - 1] = Combined(J[c[Len(c)]], values[Len(values) - 1], values[Len(values)])
  PROVE  Values(V, b, i, popped)
<1> DEFINE m == Len(c)
<1>1. /\ m \in Nat /\ Len(b) = m - 1 /\ m >= 2
      /\ \A k \in 1..Len(b) : b[k] = c[k]
  BY CutsAreJoins DEF Shorter
<1>2. /\ n \in Nat \ {0} /\ i \in 1..n
      /\ \A k \in 1..m : c[k] \in 1..n /\ c[k] <= i
      /\ \A k \in 2..m : c[k] \in 2..n /\ c[k - 1] < c[k]
  BY CutsAreJoins
<1>3. Len(values) = m /\ \A k \in 1..m : values[k] = V[<<c[k], Until(c, k, i)>>]
  BY DEF Values
<1>4. \A k \in 1..m - 2 : popped[k] = V[<<b[k], Until(b, k, i)>>]
  <2> TAKE k \in 1..m - 2
  <2>1. Until(b, k, i) = Until(c, k, i) /\ b[k] = c[k]
    BY <1>1 DEF Until
  <2> QED BY <2>1, <1>1, <1>3
<1>5. popped[m - 1] = V[<<c[m - 1], i>>]
  <2>1. values[m - 1] = V[<<c[m - 1], c[m] - 1>>] /\ values[m] = V[<<c[m], i>>]
    BY <1>1, <1>3 DEF Until
  <2>2. c[m - 1] \in 1..n /\ c[m] \in 2..n /\ c[m - 1] < c[m] /\ c[m] <= i
    BY <1>1, <1>2
  <2>3. Lowest(R, c[m - 1], i, c[m])
    <3>1. \A j \in c[m - 1] + 1..i : R[c[m]] <= R[j]
      BY <1>1, LastJoins
    <3>2. c[m] \in c[m - 1] + 1..i
      BY <2>2, <1>2
    <3> QED BY <3>1, <3>2 DEF Lowest
  <2>4. i - c[m - 1] \in Nat /\ c[m - 1] < i
    BY <1>2, <2>2
  <2>5. SplitsWithin(n, J, R, V, i - c[m - 1])
    BY <2>4, SplitsAnywhere
  <2>6. SplitAt(J, V, c[m - 1], i, c[m])
    <3>1. \A lo, hi \in 1..n : lo < hi /\ hi - lo <= i - c[m - 1] =>
             \A k \in 2..n : Lowest(R, lo, hi, k) => SplitAt(J, V, lo, hi, k)
      BY <2>5 DEF SplitsWithin
    <3>2. i - c[m - 1] <= i - c[m - 1]
      BY <2>4
    <3> QED BY ONLY <2>2, <2>3, <2>4, <1>2, <3>1, <3>2
  <2> QED BY <2>1, <2>6, <1>3 DEF SplitAt
<1>6. b[m - 1] = c[m - 1] /\ Until(b, m - 1, i) = i
  BY <1>1 DEF Until
<1>7. \A k \in 1..Len(b) : popped[k] = V[<<b[k], Until(b, k, i)>>]
  <2> TAKE k \in 1..Len(b)
  <2>1. k \in 1..m - 2 \/ k = m - 1
    <3> HIDE DEF m
    <3> QED BY <1>1
  <2> QED BY <2>1, <1>4, <1>5, <1>6
<1> QED BY <1>1, <1>3, <1>7 DEF Values

\* Without the innermost join the operators fit the shorter cuts.
LEMMA PopOperators ==
  ASSUME NEW n, NEW D, NEW J, NEW R, Ranked(n, D, J, R), NEW c, NEW i, NEW d, Cuts(n, D, R, c, i, d),
         NEW b, Shorter(n, c, b), D[c[Len(c)]] = d,
         NEW operators, Operators(D, J, c, d, operators), NEW popped \in Seq(Symbols),
         Len(popped) = Len(operators) - 1,
         \A p \in 1..Len(operators) - 1 : popped[p] = operators[p]
  PROVE  Operators(D, J, b, d, popped)
<1> DEFINE m == Len(c)
<1>1. /\ m \in Nat /\ Len(b) = m - 1 /\ m >= 2 /\ d \in Nat
      /\ \A k \in 1..Len(b) : b[k] = c[k]
  BY CutsAreJoins DEF Shorter
<1>2. \A k \in 2..m : D[c[k]] \in 0..d
  BY CutsAreJoins
<1>3. /\ Len(operators) = m - 1 + d
      /\ \A k \in 2..m : operators[Place(D, c, k)] = J[c[k]]
      /\ \A p \in 1..Len(operators) : (\A k \in 2..m : p # Place(D, c, k)) => operators[p] = "("
  BY DEF Operators
<1>4. Place(D, c, m) = m - 1 + d
  BY <1>1 DEF Place
<1> HIDE DEF m
<1>5. \A k \in 2..m - 1 : /\ Place(D, c, k) \in 1..m - 2 + d
                          /\ Place(D, b, k) = Place(D, c, k)
                          /\ b[k] = c[k]
  BY <1>1, <1>2 DEF Place
<1>6. Len(popped) = m - 2 + d /\ m - 2 + d \in Nat
  BY <1>1, <1>3
<1>7. \A k \in 2..m - 1 : popped[Place(D, b, k)] = J[b[k]]
  <2> TAKE k \in 2..m - 1
  <2>1. popped[Place(D, c, k)] = operators[Place(D, c, k)]
    BY <1>3, <1>5, <1>6
  <2>2. k \in 2..m
    BY <1>1
  <2> QED BY <2>1, <2>2, <1>3, <1>5
<1>8. ASSUME NEW p \in 1..m - 2 + d, \A k \in 2..m - 1 : p # Place(D, b, k)
      PROVE  popped[p] = "("
  <2>1. p \in 1..Len(operators) - 1 /\ p \in 1..Len(operators) /\ p # m - 1 + d
    BY <1>1, <1>3
  <2>2. ASSUME NEW k \in 2..m PROVE p # Place(D, c, k)
    <3>1. CASE k = m
      BY <3>1, <2>1, <1>4
    <3>2. CASE k \in 2..m - 1
      BY <3>2, <1>5, <1>8
    <3> QED BY <3>1, <3>2, <1>1
  <2> QED BY <2>1, <2>2, <1>3
<1> QED BY <1>1, <1>6, <1>7, <1>8 DEF Operators

\* What apply() does to the stacks.
LEMMA Applied ==
  ASSUME NEW s \in Machine, Len(s.values) >= 2, Len(s.operators) >= 1
  PROVE  /\ Apply(s) \in Machine
         /\ Apply(s).ok = s.ok
         /\ Len(Apply(s).values) = Len(s.values) - 1
         /\ \A k \in 1..Len(s.values) - 2 : Apply(s).values[k] = s.values[k]
         /\ Apply(s).values[Len(s.values) - 1] =
              Combined(s.operators[Len(s.operators)], s.values[Len(s.values) - 1], s.values[Len(s.values)])
         /\ Len(Apply(s).operators) = Len(s.operators) - 1
         /\ \A p \in 1..Len(s.operators) - 1 : Apply(s).operators[p] = s.operators[p]
<1> DEFINE vs == s.values
           os == s.operators
           new == IF Last(os) = "and" THEN vs[Len(vs) - 1] /\ vs[Len(vs)]
                                      ELSE vs[Len(vs) - 1] \/ vs[Len(vs)]
           values == Append(SubSeq(vs, 1, Len(vs) - 2), new)
           operators == SubSeq(os, 1, Len(os) - 1)
<1>1. vs \in Seq(BOOLEAN) /\ os \in Seq(Symbols) /\ s.ok \in BOOLEAN
  BY DEF Machine
<1>2. Apply(s) = [s EXCEPT !.values = values, !.operators = operators]
  BY DEF Apply, Front
<1>3. new \in BOOLEAN /\ new = Combined(os[Len(os)], vs[Len(vs) - 1], vs[Len(vs)])
  BY <1>1 DEF Combined, Last
<1> HIDE DEF new
<1>4. SubSeq(vs, 1, Len(vs) - 2) \in Seq(BOOLEAN) /\ Len(SubSeq(vs, 1, Len(vs) - 2)) = Len(vs) - 2
  BY <1>1
<1>5. \A k \in 1..Len(vs) - 2 : SubSeq(vs, 1, Len(vs) - 2)[k] = vs[k]
  BY <1>1
<1>6. /\ values \in Seq(BOOLEAN) /\ Len(values) = Len(vs) - 1
      /\ values[Len(vs) - 1] = new
      /\ \A k \in 1..Len(vs) - 2 : values[k] = vs[k]
  <2> DEFINE q == SubSeq(vs, 1, Len(vs) - 2)
  <2>1. q \in Seq(BOOLEAN) /\ Len(q) = Len(vs) - 2 /\ \A k \in 1..Len(vs) - 2 : q[k] = vs[k]
    BY <1>4, <1>5
  <2>2. values = Append(q, new) /\ Len(vs) \in Nat
    BY <1>1
  <2> HIDE DEF q, values
  <2> QED BY <2>1, <2>2, <1>3
<1>7. /\ operators \in Seq(Symbols) /\ Len(operators) = Len(os) - 1
      /\ \A p \in 1..Len(os) - 1 : operators[p] = os[p]
  BY <1>1
<1> HIDE DEF values, operators
<1>8. Apply(s).values = values /\ Apply(s).operators = operators /\ Apply(s).ok = s.ok
  BY <1>2 DEF Machine
<1>9. Apply(s) \in Machine
  BY <1>1, <1>2, <1>6, <1>7 DEF Machine
<1> QED BY <1>3, <1>6, <1>7, <1>8, <1>9

\* Applying the operator at the last cut removes the cut.
LEMMA Pop ==
  ASSUME NEW n, NEW D, NEW J, NEW R, NEW V, Ranked(n, D, J, R), SplitsSomewhere(n, J, R, V),
         NEW s, NEW c, NEW i, NEW d, Stacked(n, D, J, R, V, s, c, i, d),
         NEW b, Shorter(n, c, b), D[c[Len(c)]] = d,
         NEW r \in Int, r <= R[c[Len(c)]]
  PROVE  Stacked(n, D, J, R, V, Apply(s), b, i, d) /\ Low(R, b, i, r)
<1>1. /\ Cuts(n, D, R, c, i, d) /\ Inside(R, c, i) /\ s \in Machine /\ s.ok
      /\ Values(V, c, i, s.values) /\ Operators(D, J, c, d, s.operators)
  BY DEF Stacked
<1>2. Len(c) \in Nat /\ Len(c) >= 2 /\ d \in Nat
  BY <1>1, CutsAreJoins DEF Shorter
<1>3. Len(s.values) = Len(c) /\ Len(s.operators) = Len(c) - 1 + d
  BY <1>1 DEF Values, Operators
<1>4. s.operators[Len(s.operators)] = J[c[Len(c)]]
  BY <1>1, <1>2, <1>3 DEF Operators, Place
<1>5. Len(s.values) >= 2 /\ Len(s.operators) >= 1
  BY <1>2, <1>3
<1> DEFINE t == Apply(s)
<1>6. /\ t \in Machine
      /\ t.ok = s.ok
      /\ Len(t.values) = Len(s.values) - 1
      /\ \A k \in 1..Len(s.values) - 2 : t.values[k] = s.values[k]
      /\ t.values[Len(s.values) - 1] =
           Combined(J[c[Len(c)]], s.values[Len(s.values) - 1], s.values[Len(s.values)])
      /\ Len(t.operators) = Len(s.operators) - 1
      /\ \A p \in 1..Len(s.operators) - 1 : t.operators[p] = s.operators[p]
  BY <1>1, <1>4, <1>5, Applied
<1> HIDE DEF t
<1>7. t.values \in Seq(BOOLEAN) /\ t.operators \in Seq(Symbols)
  BY <1>6 DEF Machine
<1>8. Values(V, b, i, t.values)
  <2> DEFINE vs == s.values
             new == t.values
  <2>1. /\ Values(V, c, i, vs) /\ new \in Seq(BOOLEAN)
        /\ Len(new) = Len(vs) - 1
        /\ \A k \in 1..Len(vs) - 2 : new[k] = vs[k]
        /\ new[Len(vs) - 1] = Combined(J[c[Len(c)]], vs[Len(vs) - 1], vs[Len(vs)])
    BY <1>1, <1>6, <1>7
  <2> HIDE DEF vs, new
  <2>2. Values(V, b, i, new)
    BY ONLY <2>1, <1>1, Ranked(n, D, J, R), SplitsSomewhere(n, J, R, V), Shorter(n, c, b), PopValues
  <2> QED BY <2>2 DEF new
<1>9. Operators(D, J, b, d, t.operators)
  <2> DEFINE os == s.operators
             new == t.operators
  <2>1. /\ Operators(D, J, c, d, os) /\ new \in Seq(Symbols)
        /\ Len(new) = Len(os) - 1
        /\ \A p \in 1..Len(os) - 1 : new[p] = os[p]
    BY <1>1, <1>6, <1>7
  <2> HIDE DEF os, new
  <2>2. Operators(D, J, b, d, new)
    BY ONLY <2>1, <1>1, Ranked(n, D, J, R), Shorter(n, c, b), D[c[Len(c)]] = d, PopOperators
  <2> QED BY <2>2 DEF new
<1>10. Cuts(n, D, R, b, i, d) /\ Inside(R, b, i) /\ Low(R, b, i, r)
  BY <1>1, PopCuts, PopInside, PopLow
<1> QED BY <1>1, <1>6, <1>8, <1>9, <1>10 DEF Stacked, t

-----------------------------------------------------------------------------
\* The states that apply() goes through until there are n operators.
Unwinds(s, n, down) ==
  down = [k \in n..Len(s.operators) |-> IF k = Len(s.operators) THEN s ELSE Apply(down[k + 1])]

UnwindsFrom(s, low) == \E down : Unwinds(s, low, down)

\* One more operator can be applied.
LEMMA UnwindsFurther ==
  ASSUME NEW s, Len(s.operators) \in Nat, NEW k \in 1..Len(s.operators), UnwindsFrom(s, k)
  PROVE  UnwindsFrom(s, k - 1)
<1> DEFINE L == Len(s.operators)
<1>1. PICK f : Unwinds(s, k, f)
  BY DEF UnwindsFrom
<1>2. f = [j \in k..L |-> IF j = L THEN s ELSE Apply(f[j + 1])]
  BY <1>1 DEF Unwinds
<1> DEFINE g == [j \in k - 1..L |-> IF j = k - 1 THEN Apply(f[k]) ELSE f[j]]
<1>3. L \in Nat /\ k \in 1..L
  OBVIOUS
<1> HIDE DEF L
<1>4. \A j \in k..L : g[j] = f[j]
  BY <1>3
<1>5. \A j \in k - 1..L : g[j] = IF j = L THEN s ELSE Apply(g[j + 1])
  <2> TAKE j \in k - 1..L
  <2>1. CASE j = k - 1
    <3>1. g[j] = Apply(f[k]) /\ j # L /\ j + 1 = k /\ g[k] = f[k]
      BY <2>1, <1>3, <1>4
    <3> HIDE DEF g
    <3> QED BY <3>1
  <2>2. CASE j \in k..L
    <3>1. g[j] = f[j] /\ f[j] = IF j = L THEN s ELSE Apply(f[j + 1])
      BY <2>2, <1>2, <1>4
    <3>2. j # L => g[j + 1] = f[j + 1]
      BY <2>2, <1>3, <1>4
    <3> HIDE DEF g
    <3> QED BY <3>1, <3>2
  <2> QED BY <2>1, <2>2, <1>3
<1>6. g = [j \in k - 1..L |-> g[j]]
  OBVIOUS
<1> HIDE DEF g
<1>7. g = [j \in k - 1..L |-> IF j = L THEN s ELSE Apply(g[j + 1])]
  BY <1>5, <1>6
<1> QED BY <1>7 DEF UnwindsFrom, Unwinds, L

\* Operators can be applied down to any number.
LEMMA UnwindsToAny ==
  ASSUME NEW s, Len(s.operators) \in Nat
  PROVE  \A k \in 0..Len(s.operators) : UnwindsFrom(s, k)
<1> DEFINE L == Len(s.operators)
           T == {t \in 0..L : ~UnwindsFrom(s, L - t)}
<1>l. L \in Nat
  OBVIOUS
<1>1. UnwindsFrom(s, L)
  <2> DEFINE g == [j \in L..L |-> s]
  <2>1. g = [j \in L..L |-> IF j = L THEN s ELSE Apply(g[j + 1])]
    BY <1>l
  <2> HIDE DEF g
  <2> QED BY <2>1 DEF UnwindsFrom, Unwinds
<1>2. CASE T # {}
  <2>1. T \in SUBSET Nat
    BY <1>l
  <2>2. PICK t \in T : \A u \in T : t <= u
    <3> HIDE DEF T
    <3> QED BY <1>2, <2>1, LeastOf
  <2>3. t \in 0..L /\ ~UnwindsFrom(s, L - t)
    OBVIOUS
  <2> HIDE DEF L
  <2>4. t # 0
    BY <1>1, <1>l, <2>3
  <2>5. t - 1 \in 0..L /\ ~(t <= t - 1)
    BY <1>l, <2>3, <2>4
  <2>6. UnwindsFrom(s, L - (t - 1))
    BY <2>2, <2>5
  <2>7. L - (t - 1) \in 1..L /\ (L - (t - 1)) - 1 = L - t
    BY <1>l, <2>3, <2>4
  <2>8. UnwindsFrom(s, (L - (t - 1)) - 1)
    BY <2>6, <2>7, UnwindsFurther DEF L
  <2> QED BY <2>3, <2>7, <2>8
<1>3. CASE T = {}
  <2> TAKE k \in 0..L
  <2>1. L - k \in 0..L /\ L - (L - k) = k
    BY <1>l
  <2> QED BY <2>1, <1>3
<1> QED BY <1>2, <1>3

\* What is left when n operators are is what the last state before it becomes.
LEMMA AppliedDownTo ==
  ASSUME NEW s, Len(s.operators) \in Nat, NEW n \in 0..Len(s.operators)
  PROVE  \E down : Unwinds(s, n, down) /\ ApplyDownTo(s, n) = down[n]
<1>1. \E down : Unwinds(s, n, down)
  BY UnwindsToAny DEF UnwindsFrom
<1> DEFINE f == CHOOSE down : Unwinds(s, n, down)
<1>2. Unwinds(s, n, f)
  BY <1>1
<1>3. ApplyDownTo(s, n) = f[n]
  BY DEF ApplyDownTo, Unwinds
<1> HIDE DEF f
<1> QED BY <1>2, <1>3

Kept(n, D, J, R, V, s, c, i, d, r) == Stacked(n, D, J, R, V, s, c, i, d) /\ Low(R, c, i, r)

\* The beginning of a sequence holds its first elements.
LEMMA Beginnings ==
  ASSUME NEW S, NEW c \in Seq(S), NEW k \in 1..Len(c)
  PROVE  /\ SubSeq(c, 1, k) \in Seq(S)
         /\ Len(SubSeq(c, 1, k)) = k
         /\ \A j \in 1..k : SubSeq(c, 1, k)[j] = c[j]
<1>1. Len(c) \in Nat /\ k \in Nat /\ k <= Len(c)
  OBVIOUS
<1>2. Len(SubSeq(c, 1, k)) = k
  BY <1>1
<1>3. \A j \in 1..k : SubSeq(c, 1, k)[j] = c[j]
  BY <1>1
<1>4. SubSeq(c, 1, k) \in Seq(S)
  <2>1. \A j \in 1..k : c[j] \in S
    BY <1>1
  <2> QED BY ONLY <2>1, <1>1, 1 \in Int, k \in Int, SubSeqProperties
<1> QED BY <1>2, <1>3, <1>4

\* The beginning of full length is the sequence itself.
LEMMA WholeBeginning ==
  ASSUME NEW S, NEW c \in Seq(S), Len(c) >= 1
  PROVE  SubSeq(c, 1, Len(c)) = c
<1> DEFINE b == SubSeq(c, 1, Len(c))
<1>1. Len(c) \in 1..Len(c)
  OBVIOUS
<1>2. b \in Seq(S) /\ Len(b) = Len(c) /\ \A j \in 1..Len(c) : b[j] = c[j]
  BY <1>1, Beginnings
<1> HIDE DEF b
<1>3. b = c
  BY <1>2, SeqEqual
<1> QED BY <1>3 DEF b

\* One operator applied to what is kept gives up the last of the cuts that are left.
LEMMA PopOnce ==
  ASSUME NEW n, NEW D, NEW J, NEW R, NEW V, Ranked(n, D, J, R), SplitsSomewhere(n, J, R, V),
         NEW s, NEW c \in Seq(1..n), NEW i, NEW d, NEW r \in Int, NEW k \in 2..Len(c),
         Kept(n, D, J, R, V, s, SubSeq(c, 1, k), i, d, r), D[c[k]] = d, r <= R[c[k]]
  PROVE  Kept(n, D, J, R, V, Apply(s), SubSeq(c, 1, k - 1), i, d, r)
<1> DEFINE a == SubSeq(c, 1, k)
           b == SubSeq(c, 1, k - 1)
<1>1. k - 1 \in 1..Len(c) /\ k \in 1..Len(c) /\ k - 1 >= 1 /\ Len(c) \in Nat
  OBVIOUS
<1>2. a \in Seq(1..n) /\ Len(a) = k /\ \A j \in 1..k : a[j] = c[j]
  BY <1>1, Beginnings
<1>3. b \in Seq(1..n) /\ Len(b) = k - 1 /\ \A j \in 1..k - 1 : b[j] = c[j]
  BY <1>1, Beginnings
<1>4. Stacked(n, D, J, R, V, s, a, i, d)
  BY DEF Kept
<1> HIDE DEF a, b
<1>5. Shorter(n, a, b)
  BY <1>1, <1>2, <1>3 DEF Shorter
<1>6. a[Len(a)] = c[k]
  BY <1>1, <1>2
<1>7. D[a[Len(a)]] = d /\ r <= R[a[Len(a)]]
  BY <1>6
<1>8. Stacked(n, D, J, R, V, Apply(s), b, i, d) /\ Low(R, b, i, r)
  BY ONLY Ranked(n, D, J, R), SplitsSomewhere(n, J, R, V), r \in Int, <1>4, <1>5, <1>7, Pop
<1> QED BY <1>8 DEF Kept, b

\* apply() until the last of the first q cuts.
LEMMA PopDown ==
  ASSUME NEW n, NEW D, NEW J, NEW R, NEW V, Ranked(n, D, J, R), SplitsSomewhere(n, J, R, V),
         NEW s, NEW c, NEW i, NEW d, NEW r \in Int, Kept(n, D, J, R, V, s, c, i, d, r),
         NEW q \in 1..Len(c), \A k \in q + 1..Len(c) : D[c[k]] = d /\ r <= R[c[k]]
  PROVE  /\ q - 1 + d \in 0..Len(s.operators)
         /\ Kept(n, D, J, R, V, ApplyDownTo(s, q - 1 + d), SubSeq(c, 1, q), i, d, r)
<1> DEFINE m == Len(c)
           L == Len(s.operators)
<1>1. Cuts(n, D, R, c, i, d) /\ Operators(D, J, c, d, s.operators)
  BY DEF Kept, Stacked
<1>2. m \in Nat \ {0} /\ d \in Nat /\ q \in 1..m
  BY <1>1, CutsAreJoins
<1>3. c \in Seq(1..n) /\ m >= 1
  BY <1>1, <1>2 DEF Cuts
<1>4. L = m - 1 + d
  BY <1>1 DEF Operators
<1>5. SubSeq(c, 1, m) = c
  BY <1>3, WholeBeginning
<1> HIDE DEF m
<1>6. L \in Nat /\ q - 1 + d \in 0..L
  BY <1>2, <1>4
<1>7. PICK down : Unwinds(s, q - 1 + d, down) /\ ApplyDownTo(s, q - 1 + d) = down[q - 1 + d]
  BY <1>6, AppliedDownTo
<1>8. down = [k \in q - 1 + d..L |-> IF k = L THEN s ELSE Apply(down[k + 1])]
  BY <1>7 DEF Unwinds
<1> HIDE DEF L
<1> DEFINE Good(k) == Kept(n, D, J, R, V, down[k - 1 + d], SubSeq(c, 1, k), i, d, r)
           T == {t \in 0..m - q : ~Good(m - t)}
<1>9. Good(m)
  <2>1. down[m - 1 + d] = s
    BY <1>2, <1>4, <1>6, <1>8
  <2> QED BY <2>1, <1>5
<1>10. ASSUME NEW k \in q + 1..m, Good(k) PROVE Good(k - 1)
  <2>1. k - 2 + d \in q - 1 + d..L /\ k - 2 + d # L /\ (k - 2 + d) + 1 = k - 1 + d
    BY <1>2, <1>4
  <2>2. down[k - 2 + d] = Apply(down[k - 1 + d])
    BY <2>1, <1>8
  <2>3. k \in 2..Len(c) /\ D[c[k]] = d /\ r <= R[c[k]]
    BY <1>2 DEF m
  <2>4. Kept(n, D, J, R, V, Apply(down[k - 1 + d]), SubSeq(c, 1, k - 1), i, d, r)
    <3> DEFINE u == down[k - 1 + d]
    <3>1. Kept(n, D, J, R, V, u, SubSeq(c, 1, k), i, d, r)
      BY <1>10
    <3> HIDE DEF u, Good
    <3>2. Kept(n, D, J, R, V, Apply(u), SubSeq(c, 1, k - 1), i, d, r)
      BY ONLY <3>1, <2>3, <1>3, Ranked(n, D, J, R), SplitsSomewhere(n, J, R, V), r \in Int, PopOnce
    <3> QED BY <3>2 DEF u
  <2>5. (k - 1) - 1 + d = k - 2 + d
    BY <1>2
  <2> QED BY <2>2, <2>4, <2>5
<1> HIDE DEF Good
<1>11. Good(q)
  <2>1. T \in SUBSET Nat
    BY <1>2
  <2>2. CASE T # {}
    <3>1. PICK t \in T : \A u \in T : t <= u
      <4> HIDE DEF T
      <4> QED BY <2>1, <2>2, LeastOf
    <3>2. t \in 0..m - q /\ ~Good(m - t)
      OBVIOUS
    <3>3. t # 0
      BY <1>2, <1>9, <3>2
    <3>4. t - 1 \in 0..m - q /\ ~(t <= t - 1)
      BY <1>2, <3>2, <3>3
    <3>5. Good(m - (t - 1))
      BY <3>1, <3>4
    <3>6. m - (t - 1) \in q + 1..m /\ (m - (t - 1)) - 1 = m - t
      BY <1>2, <3>2, <3>3
    <3>7. Good((m - (t - 1)) - 1)
      BY <1>10, <3>5, <3>6
    <3> QED BY <3>2, <3>6, <3>7
  <2>3. CASE T = {}
    <3>1. m - q \in 0..m - q /\ m - (m - q) = q
      BY <1>2
    <3> QED BY <2>3, <3>1
  <2> QED BY <2>2, <2>3
<1>12. Kept(n, D, J, R, V, down[q - 1 + d], SubSeq(c, 1, q), i, d, r)
  BY <1>11 DEF Good
<1> QED BY <1>6, <1>7, <1>12 DEF L

\* The last of some positions, or 0.
LEMMA LastOfPositions ==
  ASSUME NEW length \in Nat, NEW I \in SUBSET (1..length), NEW top \in 0..length,
         top = 0 \/ top \in I, \A p \in top + 1..length : p \notin I
  PROVE  (IF I # {} THEN Max(I) ELSE 0) = top
<1>1. CASE I = {}
  BY <1>1
<1>2. CASE I # {}
  <2>1. ASSUME NEW p \in I PROVE p \in 1..length /\ p <= top
    <3>1. p \in 1..length /\ p \notin top + 1..length
      OBVIOUS
    <3> QED BY <3>1
  <2>2. top \in I
    <3>1. PICK p \in I : TRUE
      BY <1>2
    <3>2. top # 0
      BY <2>1, <3>1
    <3> QED BY <3>2
  <2>3. top \in I /\ \A y \in I : y <= top
    BY <2>1, <2>2
  <2>4. Max(I) \in I /\ \A y \in I : y <= Max(I)
    BY <2>3 DEF Max
  <2>5. Max(I) \in 1..length /\ Max(I) <= top /\ top <= Max(I)
    BY <2>1, <2>3, <2>4
  <2> QED BY <1>2, <2>5
<1> QED BY <1>1, <1>2

\* Rank, depth and precedence.
LEMMA RankIs ==
  ASSUME NEW n, NEW D, NEW J, NEW R, Ranked(n, D, J, R), NEW j \in 2..n
  PROVE  /\ D[j] \in Nat /\ R[j] \in Nat
         /\ Precedence(J[j]) \in 1..2
         /\ R[j] = 2 * D[j] + Precedence(J[j])
         /\ J[j] # "("
<1>1. /\ J[j] = "and" => R[j] = 2 * D[j] + 2
      /\ J[j] = "or" => R[j] = 2 * D[j] + 1
      /\ D[j] \in Nat /\ R[j] \in Nat
  BY DEF Ranked
<1>2. J[j] = "and" \/ J[j] = "or"
  BY DEF Ranked, Joins
<1>3. CASE J[j] = "and"
  BY <1>1, <1>3 DEF Precedence
<1>4. CASE J[j] = "or"
  BY <1>1, <1>4 DEF Precedence
<1> QED BY <1>2, <1>3, <1>4

\* The cuts of a rank below r come first.
Parted(R, c, q, r) ==
  /\ q \in 1..Len(c)
  /\ \A k \in q + 1..Len(c) : r <= R[c[k]]
  /\ \A k \in 2..q : R[c[k]] < r

\* Cuts rise in rank, so those that reach a rank come after those that do not.
LEMMA CutsArePartedAtRank ==
  ASSUME NEW n, NEW D, NEW J, NEW R, Ranked(n, D, J, R), NEW c, NEW i, NEW d, Cuts(n, D, R, c, i, d),
         NEW r \in Int
  PROVE  \E q \in 1..Len(c) : Parted(R, c, q, r)
<1> DEFINE m == Len(c)
           T == {q \in 1..m : \A k \in q + 1..m : r <= R[c[k]]}
<1>1. m \in Nat \ {0} /\ \A k \in 2..m : R[c[k]] \in Nat
  BY CutsAreJoins
<1>2. \A k, l \in 2..m : k < l => R[c[k]] < R[c[l]]
  BY DEF Cuts
<1> HIDE DEF m
<1>3. m \in T /\ T \in SUBSET Nat
  BY <1>1
<1>4. PICK q \in T : \A u \in T : q <= u
  <2> HIDE DEF T
  <2> QED BY <1>3, LeastOf
<1>5. q \in 1..m /\ \A k \in q + 1..m : r <= R[c[k]]
  OBVIOUS
<1>6. q >= 2 => R[c[q]] < r
  <2> SUFFICES ASSUME q >= 2, ~(R[c[q]] < r) PROVE FALSE
    OBVIOUS
  <2>1. q - 1 \in 1..m /\ ~(q <= q - 1) /\ q \in 2..m
    BY <1>1, <1>5
  <2>2. r <= R[c[q]]
    BY <1>1, <2>1
  <2>3. \A k \in (q - 1) + 1..m : k = q \/ k \in q + 1..m
    BY <1>1, <2>1
  <2>4. q - 1 \in T
    BY <1>5, <2>1, <2>2, <2>3
  <2> HIDE DEF T
  <2> QED BY <1>4, <2>1, <2>4
<1> HIDE DEF T
<1>7. ASSUME NEW k \in 2..q PROVE R[c[k]] < r
  <2>1. CASE k = q
    BY <2>1, <1>5, <1>6
  <2>2. CASE k < q
    <3>1. k \in 2..m /\ q \in 2..m /\ q >= 2
      BY <1>1, <1>5, <2>2
    <3>2. R[c[k]] < R[c[q]] /\ R[c[q]] < r /\ R[c[k]] \in Nat /\ R[c[q]] \in Nat
      BY <1>1, <1>2, <1>6, <2>2, <3>1
    <3> QED BY <3>2
  <2> QED BY <2>1, <2>2, <1>5
<1> QED BY <1>5, <1>7 DEF Parted, m

\* With d groups open, the cuts after such a place are all in the last group,
LEMMA LaterCutsAreInnermost ==
  ASSUME NEW n, NEW D, NEW J, NEW R, Ranked(n, D, J, R), NEW c, NEW i, NEW d, Cuts(n, D, R, c, i, d),
         NEW r \in Int, 2 * d + 1 <= r, NEW q, Parted(R, c, q, r)
  PROVE  \A k \in q + 1..Len(c) : c[k] \in 2..n /\ D[c[k]] = d /\ r <= R[c[k]]
<1> SUFFICES ASSUME NEW k \in q + 1..Len(c)
             PROVE  c[k] \in 2..n /\ D[c[k]] = d /\ r <= R[c[k]]
  OBVIOUS
<1>1. q \in 1..Len(c) /\ r <= R[c[k]]
  BY DEF Parted
<1>2. k \in 2..Len(c)
  BY <1>1, CutsAreJoins
<1>3. c[k] \in 2..n /\ D[c[k]] \in 0..d /\ d \in Nat
  BY <1>2, CutsAreJoins
<1>4. /\ D[c[k]] \in Nat /\ R[c[k]] \in Nat
      /\ Precedence(J[c[k]]) \in 1..2
      /\ R[c[k]] = 2 * D[c[k]] + Precedence(J[c[k]])
  BY <1>3, RankIs
<1>5. D[c[k]] = d
  BY <1>1, <1>3, <1>4
<1> QED BY <1>1, <1>3, <1>5

\* and the operators after it are theirs.
LEMMA LaterOperators ==
  ASSUME NEW n, NEW D, NEW J, NEW R, Ranked(n, D, J, R), NEW c, NEW i, NEW d, Cuts(n, D, R, c, i, d),
         NEW r \in Int, 2 * d + 1 <= r, NEW q, Parted(R, c, q, r),
         NEW operators, Operators(D, J, c, d, operators)
  PROVE  /\ q - 1 + d \in 0..Len(operators)
         /\ Len(operators) \in Nat
         /\ \A p \in q + d..Len(operators) :
              \E k \in q + 1..Len(c) : operators[p] = J[c[k]]
<1>1. /\ q \in 1..Len(c) /\ Len(c) \in Nat /\ d \in Nat
      /\ Len(operators) = Len(c) - 1 + d
  BY CutsAreJoins DEF Parted, Operators
<1>2. \A k \in 2..Len(c) : operators[Place(D, c, k)] = J[c[k]]
  BY DEF Operators
<1>3. ASSUME NEW p \in q + d..Len(operators)
      PROVE  \E k \in q + 1..Len(c) : operators[p] = J[c[k]]
  <2>1. p - d + 1 \in q + 1..Len(c) /\ p - d + 1 \in 2..Len(c)
    BY <1>1
  <2>2. D[c[p - d + 1]] = d
    BY <2>1, LaterCutsAreInnermost
  <2>3. Place(D, c, p - d + 1) = p
    BY <1>1, <2>2 DEF Place
  <2>4. operators[p] = J[c[p - d + 1]]
    BY <1>2, <2>1, <2>3
  <2> QED BY <2>1, <2>4
<1> QED BY <1>1, <1>3

\* The operator before them is a parenthesis if the q-th cut is not in the group.
LEMMA GroupOperator ==
  ASSUME NEW n, NEW D, NEW J, NEW R, Ranked(n, D, J, R), NEW c, NEW i, NEW d, Cuts(n, D, R, c, i, d),
         NEW r \in Int, 2 * d + 1 <= r, NEW q, Parted(R, c, q, r),
         NEW operators, Operators(D, J, c, d, operators),
         q >= 2 => D[c[q]] < d, q - 1 + d >= 1
  PROVE  operators[q - 1 + d] = "("
<1>1. /\ q \in 1..Len(c) /\ Len(c) \in Nat /\ d \in Nat
      /\ Len(operators) = Len(c) - 1 + d
  BY CutsAreJoins DEF Parted, Operators
<1>2. q - 1 + d \in 1..Len(operators)
  BY <1>1
<1>3. \A k \in 2..Len(c) : c[k] \in 2..n
  BY CutsAreJoins
<1>4. \A k, l \in 2..Len(c) : k < l => R[c[k]] < R[c[l]]
  BY DEF Cuts
<1>5. ASSUME NEW k \in 2..Len(c) PROVE q - 1 + d # Place(D, c, k)
  <2>0. c[k] \in 2..n
    BY <1>3
  <2>1. D[c[k]] \in Nat
    BY <2>0, RankIs
  <2>2. CASE k > q
    <3>1. D[c[k]] = d
      BY <2>2, <1>1, LaterCutsAreInnermost
    <3> QED BY <3>1, <2>2, <1>1 DEF Place
  <2>3. CASE k = q
    <3>1. D[c[k]] < d
      BY <2>3
    <3> QED BY <3>1, <2>1, <2>3, <1>1 DEF Place
  <2>4. CASE k < q
    <3>1. q \in 2..Len(c) /\ q >= 2
      BY <2>4, <1>1
    <3>2. c[q] \in 2..n /\ R[c[k]] < R[c[q]] /\ D[c[q]] < d
      BY <3>1, <2>4, <1>3, <1>4
    <3>3. /\ D[c[k]] \in Nat /\ R[c[k]] \in Nat /\ Precedence(J[c[k]]) \in 1..2
          /\ R[c[k]] = 2 * D[c[k]] + Precedence(J[c[k]])
      BY <2>0, RankIs
    <3>4. /\ D[c[q]] \in Nat /\ R[c[q]] \in Nat /\ Precedence(J[c[q]]) \in 1..2
          /\ R[c[q]] = 2 * D[c[q]] + Precedence(J[c[q]])
      BY <3>2, RankIs
    <3>5. D[c[k]] < d
      <4>1. \A a, b, e \in Nat : \A x, y \in 1..2 : 2 * a + x < 2 * b + y /\ b < e => a < e
        OBVIOUS
      <4> QED BY ONLY <4>1, <3>2, <3>3, <3>4, <1>1
    <3>6. Place(D, c, k) < q - 1 + d
      BY ONLY <3>5, <2>1, <2>4, <1>1, k \in 2..Len(c) DEF Place
    <3> QED BY <3>6, <2>1, <1>1 DEF Place
  <2> QED BY <2>2, <2>3, <2>4, <1>1
<1> QED BY <1>2, <1>5 DEF Operators

-----------------------------------------------------------------------------
\* The last open parenthesis is before the first cut of its group.
LEMMA InnermostIs ==
  ASSUME NEW n, NEW D, NEW J, NEW R, NEW V, Ranked(n, D, J, R),
         NEW s, NEW c, NEW i, NEW d, Stacked(n, D, J, R, V, s, c, i, d),
         NEW q, Parted(R, c, q, 2 * d + 1)
  PROVE  Innermost(s) = IF d = 0 THEN 0 ELSE q - 1 + d
<1> DEFINE os == s.operators
           I == {p \in 1..Len(os) : os[p] = "("}
           top == IF d = 0 THEN 0 ELSE q - 1 + d
<1>1. Cuts(n, D, R, c, i, d) /\ Operators(D, J, c, d, os)
  BY DEF Stacked
<1>2. q \in 1..Len(c) /\ Len(c) \in Nat /\ d \in Nat /\ \A k \in 2..Len(c) : c[k] \in 2..n
  BY <1>1, CutsAreJoins DEF Parted
<1> DEFINE r == 2 * d + 1
<1>3. r \in Int /\ 2 * d + 1 <= r /\ Parted(R, c, q, r)
  BY <1>2
<1> HIDE DEF r
<1>4. /\ q - 1 + d \in 0..Len(os) /\ Len(os) \in Nat
      /\ \A p \in q + d..Len(os) : \E k \in q + 1..Len(c) : os[p] = J[c[k]]
  BY <1>1, <1>3, LaterOperators
<1>5. \A p \in q + d..Len(os) : p \notin I
  <2> SUFFICES ASSUME NEW p \in q + d..Len(os) PROVE os[p] # "("
    OBVIOUS
  <2>1. PICK k \in q + 1..Len(c) : os[p] = J[c[k]]
    BY <1>4
  <2>2. c[k] \in 2..n
    BY <1>2
  <2> QED BY <2>1, <2>2, RankIs
<1>6. d # 0 => q - 1 + d \in I
  <2> SUFFICES ASSUME d # 0 PROVE q - 1 + d \in I
    OBVIOUS
  <2>1. q >= 2 => D[c[q]] < d
    <3> SUFFICES ASSUME q >= 2 PROVE D[c[q]] < d
      OBVIOUS
    <3>1. q \in 2..q /\ c[q] \in 2..n
      BY <1>2
    <3>2. R[c[q]] < 2 * d + 1
      BY <3>1 DEF Parted
    <3>3. /\ D[c[q]] \in Nat /\ R[c[q]] \in Nat /\ Precedence(J[c[q]]) \in 1..2
          /\ R[c[q]] = 2 * D[c[q]] + Precedence(J[c[q]])
      BY <3>1, RankIs
    <3> QED BY <3>2, <3>3, <1>2
  <2>2. q - 1 + d >= 1
    BY <1>2
  <2>3. os[q - 1 + d] = "("
    BY <1>1, <1>3, <2>1, <2>2, GroupOperator
  <2> QED BY <2>2, <2>3, <1>2, <1>4
<1>7. d = 0 => q = 1
  <2> SUFFICES ASSUME d = 0, q # 1 PROVE FALSE
    BY <1>2
  <2>1. q \in 2..q /\ q \in 2..Len(c)
    BY <1>2
  <2>2. R[c[q]] < 1 /\ c[q] \in 2..n
    BY <2>1, <1>2 DEF Parted
  <2>3. /\ D[c[q]] \in Nat /\ Precedence(J[c[q]]) \in 1..2
        /\ R[c[q]] = 2 * D[c[q]] + Precedence(J[c[q]])
    BY <2>2, RankIs
  <2> QED BY <2>2, <2>3
<1>8. /\ top \in 0..Len(os) /\ (top = 0 \/ top \in I)
      /\ \A p \in top + 1..Len(os) : p \notin I
  <2>1. CASE d = 0
    <3>1. top = 0 /\ q + d = 1
      BY <2>1, <1>7
    <3> HIDE DEF top, I
    <3> QED BY <3>1, <1>4, <1>5
  <2>2. CASE d # 0
    <3>1. top = q - 1 + d /\ top + 1 = q + d
      BY <2>2, <1>2
    <3> HIDE DEF top, I
    <3> QED BY <3>1, <2>2, <1>4, <1>5, <1>6
  <2> QED BY <2>1, <2>2
<1>9. (IF I # {} THEN Max(I) ELSE 0) = top
  <2>1. I \in SUBSET (1..Len(os))
    OBVIOUS
  <2> HIDE DEF I, top
  <2> QED BY ONLY <2>1, <1>4, <1>8, LastOfPositions
<1> QED BY <1>9 DEF Innermost, SelectLastInSeq

\* Between two predicates: the joins within the last part are in closed groups.
At(n, D, J, R, V, s, i, d) == d \in Nat /\ \E c : Kept(n, D, J, R, V, s, c, i, d, 2 * d + 3)

\* A machine at a position has cuts, all below the rank of a deeper group.
LEMMA AtHasCuts ==
  ASSUME NEW n, NEW D, NEW J, NEW R, NEW V, NEW s, NEW i, NEW d, At(n, D, J, R, V, s, i, d)
  PROVE  d \in Nat /\ \E c : Kept(n, D, J, R, V, s, c, i, d, 2 * d + 3)
BY DEF At

\* What keeps the joins above a rank keeps them above a lower one.
LEMMA LowerStill ==
  ASSUME NEW n, NEW D, NEW J, NEW R, NEW V, Ranked(n, D, J, R),
         NEW s, NEW c, NEW i, NEW d, NEW high \in Int,
         Kept(n, D, J, R, V, s, c, i, d, high), NEW r \in Int, r <= high
  PROVE  Kept(n, D, J, R, V, s, c, i, d, r)
<1>1. Cuts(n, D, R, c, i, d) /\ Low(R, c, i, high) /\ Stacked(n, D, J, R, V, s, c, i, d)
  BY DEF Kept, Stacked
<1>2. /\ Len(c) \in Nat \ {0} /\ i \in 1..n /\ n \in Nat
      /\ \A k \in 1..Len(c) : c[k] \in 1..n
      /\ \A j \in 2..n : R[j] \in Nat
  BY <1>1, CutsAreJoins
<1>3. c[Len(c)] \in 1..n
  BY <1>2
<1>4. ASSUME NEW j \in c[Len(c)] + 1..i PROVE r <= R[j]
  <2>1. j \in 2..n
    BY <1>2, <1>3
  <2>2. high <= R[j] /\ R[j] \in Nat
    BY <2>1, <1>1, <1>2 DEF Low
  <2> QED BY <2>2
<1> QED BY <1>1, <1>4 DEF Kept, Low

\* Dropping the parenthesis on top.
LEMMA DropGroup ==
  ASSUME NEW n, NEW D, NEW J, NEW R, NEW V, Ranked(n, D, J, R),
         NEW s, NEW c, NEW i, NEW d \in Nat, NEW r, Kept(n, D, J, R, V, s, c, i, d + 1, r),
         \A k \in 2..Len(c) : D[c[k]] <= d
  PROVE  Kept(n, D, J, R, V, [s EXCEPT !.operators = Front(@)], c, i, d, r)
<1> DEFINE os == s.operators
           new == SubSeq(os, 1, Len(os) - 1)
           t == [s EXCEPT !.operators = Front(@)]
<1>1. /\ Cuts(n, D, R, c, i, d + 1) /\ Inside(R, c, i) /\ s \in Machine /\ s.ok
      /\ Values(V, c, i, s.values) /\ Operators(D, J, c, d + 1, os) /\ Low(R, c, i, r)
  BY DEF Kept, Stacked
<1>2. /\ Len(c) \in Nat \ {0}
      /\ \A k \in 2..Len(c) : D[c[k]] \in 0..d + 1
  BY <1>1, CutsAreJoins
<1>3. t = [s EXCEPT !.operators = new]
  BY DEF Front
<1>4. os \in Seq(Symbols) /\ Len(os) = Len(c) + d
  BY <1>1, <1>2 DEF Operators
<1>5. new \in Seq(Symbols) /\ Len(new) = Len(c) - 1 + d /\ \A p \in 1..Len(c) - 1 + d : new[p] = os[p]
  BY <1>2, <1>4
<1>6. /\ \A k \in 2..Len(c) : os[Place(D, c, k)] = J[c[k]]
      /\ \A p \in 1..Len(os) : (\A k \in 2..Len(c) : p # Place(D, c, k)) => os[p] = "("
  BY <1>1 DEF Operators
<1> HIDE DEF os, new
<1>7. \A k \in 2..Len(c) : Place(D, c, k) \in 1..Len(c) - 1 + d
  BY <1>2 DEF Place
<1>8. \A k \in 2..Len(c) : new[Place(D, c, k)] = J[c[k]]
  BY <1>5, <1>6, <1>7
<1>9. \A p \in 1..Len(new) : (\A k \in 2..Len(c) : p # Place(D, c, k)) => new[p] = "("
  BY <1>2, <1>4, <1>5, <1>6
<1>10. Operators(D, J, c, d, new)
  BY <1>5, <1>8, <1>9 DEF Operators
<1>11. t \in Machine /\ t.ok = s.ok /\ t.values = s.values /\ t.operators = new
  BY <1>1, <1>3, <1>5 DEF Machine
<1>12. Cuts(n, D, R, c, i, d)
  BY <1>1 DEF Cuts
<1> HIDE DEF t
<1>13. Kept(n, D, J, R, V, t, c, i, d, r)
  BY <1>1, <1>10, <1>11, <1>12 DEF Kept, Stacked
<1> QED BY <1>13 DEF t

\* A ")" closes a group.
LEMMA GroupCloses ==
  ASSUME NEW n, NEW D, NEW J, NEW R, NEW V, Ranked(n, D, J, R), SplitsSomewhere(n, J, R, V),
         NEW s, NEW i, NEW d, d >= 1, At(n, D, J, R, V, s, i, d)
  PROVE  At(n, D, J, R, V, CloseGroup(s), i, d - 1)
<1>1. d \in Nat
  BY AtHasCuts
<1>2. PICK c : Kept(n, D, J, R, V, s, c, i, d, 2 * d + 3)
  BY AtHasCuts
<1> DEFINE r == 2 * d + 1
           high == 2 * d + 3
<1>3. r \in Int /\ high \in Int /\ r <= high /\ 2 * d + 1 <= r
  BY <1>1
<1>4. Kept(n, D, J, R, V, s, c, i, d, high)
  BY <1>2
<1> HIDE DEF high
<1>5. Kept(n, D, J, R, V, s, c, i, d, r)
  <2> HIDE DEF r
  <2> QED BY ONLY Ranked(n, D, J, R), <1>3, <1>4, LowerStill
<1>6. Cuts(n, D, R, c, i, d) /\ Stacked(n, D, J, R, V, s, c, i, d) /\ s.ok
  BY <1>2 DEF Kept, Stacked
<1>7. PICK q \in 1..Len(c) : Parted(R, c, q, r)
  <2> HIDE DEF r
  <2> QED BY ONLY Ranked(n, D, J, R), <1>3, <1>6, CutsArePartedAtRank
<1>8. Innermost(s) = q - 1 + d
  <2>1. Parted(R, c, q, 2 * d + 1)
    BY <1>7
  <2>2. Innermost(s) = IF d = 0 THEN 0 ELSE q - 1 + d
    BY ONLY Ranked(n, D, J, R), <1>6, <2>1, InnermostIs
  <2> QED BY <2>2
<1> HIDE DEF r
<1>9. \A k \in q + 1..Len(c) : c[k] \in 2..n /\ D[c[k]] = d /\ r <= R[c[k]]
  BY ONLY Ranked(n, D, J, R), <1>3, <1>6, <1>7, LaterCutsAreInnermost
<1> DEFINE t == ApplyDownTo(s, q - 1 + d)
           b == SubSeq(c, 1, q)
<1>10. Kept(n, D, J, R, V, t, b, i, d, r)
  <2>1. \A k \in q + 1..Len(c) : D[c[k]] = d /\ r <= R[c[k]]
    BY <1>9
  <2>2. q \in 1..Len(c)
    OBVIOUS
  <2> QED BY ONLY <2>1, <2>2, Ranked(n, D, J, R), SplitsSomewhere(n, J, R, V), <1>3, <1>5, PopDown
<1>11. c \in Seq(1..n) /\ Len(c) \in Nat /\ \A k \in 2..Len(c) : c[k] \in 2..n
  BY <1>6, CutsAreJoins DEF Cuts
<1>12. Len(b) = q /\ \A k \in 1..q : b[k] = c[k]
  BY <1>11, Beginnings
<1>13. CloseGroup(s) = [t EXCEPT !.operators = Front(@)]
  BY <1>1, <1>6, <1>8, <1>11 DEF CloseGroup
<1> HIDE DEF t, b
<1>14. ASSUME NEW k \in 2..Len(b) PROVE D[b[k]] <= d - 1
  <2>1. k \in 2..q /\ k \in 2..Len(c) /\ b[k] = c[k] /\ c[k] \in 2..n
    BY <1>11, <1>12
  <2>2. R[c[k]] < 2 * d + 1
    BY <2>1, <1>7 DEF Parted, r
  <2>3. /\ D[c[k]] \in Nat /\ Precedence(J[c[k]]) \in 1..2
        /\ R[c[k]] = 2 * D[c[k]] + Precedence(J[c[k]])
    BY <2>1, RankIs
  <2> QED BY <2>1, <2>2, <2>3, <1>1
<1> DEFINE e == d - 1
<1>15. e \in Nat /\ e + 1 = d /\ r = 2 * e + 3
  BY <1>1 DEF r
<1>16. \A k \in 2..Len(b) : D[b[k]] <= e
  BY <1>14
<1> HIDE DEF e
<1>17. Kept(n, D, J, R, V, t, b, i, e + 1, r)
  BY <1>10, <1>15
<1>18. Kept(n, D, J, R, V, [t EXCEPT !.operators = Front(@)], b, i, e, r)
  BY ONLY Ranked(n, D, J, R), <1>15, <1>16, <1>17, DropGroup
<1>19. Kept(n, D, J, R, V, CloseGroup(s), b, i, e, 2 * e + 3)
  BY <1>13, <1>15, <1>18
<1> QED BY <1>15, <1>19 DEF At, e

-----------------------------------------------------------------------------
\* The states between the ")" after a predicate.
Closes(s, n, closed) ==
  closed = [k \in 0..n |-> IF k = 0 THEN s ELSE CloseGroup(closed[k - 1])]

ClosesAll(s, n) == \E closed : Closes(s, n, closed)

\* One more group can be closed.
LEMMA ClosesFurther ==
  ASSUME NEW s, NEW n \in Nat, ClosesAll(s, n)
  PROVE  ClosesAll(s, n + 1)
<1>1. PICK f : Closes(s, n, f)
  BY DEF ClosesAll
<1>2. f = [j \in 0..n |-> IF j = 0 THEN s ELSE CloseGroup(f[j - 1])]
  BY <1>1 DEF Closes
<1> DEFINE g == [j \in 0..n + 1 |-> IF j = n + 1 THEN CloseGroup(f[n]) ELSE f[j]]
<1>3. \A j \in 0..n : g[j] = f[j]
  OBVIOUS
<1>4. \A j \in 0..n + 1 : g[j] = IF j = 0 THEN s ELSE CloseGroup(g[j - 1])
  <2> TAKE j \in 0..n + 1
  <2>1. CASE j = n + 1
    <3>1. g[j] = CloseGroup(f[n]) /\ j # 0 /\ j - 1 = n /\ g[n] = f[n]
      BY <2>1, <1>3
    <3> HIDE DEF g
    <3> QED BY <3>1
  <2>2. CASE j \in 0..n
    <3>1. g[j] = f[j] /\ f[j] = IF j = 0 THEN s ELSE CloseGroup(f[j - 1])
      BY <2>2, <1>2, <1>3
    <3>2. j # 0 => g[j - 1] = f[j - 1]
      BY <2>2, <1>3
    <3> HIDE DEF g
    <3> QED BY <3>1, <3>2
  <2> QED BY <2>1, <2>2
<1>5. g = [j \in 0..n + 1 |-> g[j]]
  OBVIOUS
<1> HIDE DEF g
<1>6. g = [j \in 0..n + 1 |-> IF j = 0 THEN s ELSE CloseGroup(g[j - 1])]
  BY <1>4, <1>5
<1> QED BY <1>6 DEF ClosesAll, Closes

\* Any number of groups can be closed.
LEMMA ClosesAny ==
  ASSUME NEW s
  PROVE  \A n \in Nat : ClosesAll(s, n)
<1> DEFINE T == {t \in Nat : ~ClosesAll(s, t)}
<1> SUFFICES ASSUME T # {} PROVE FALSE
  OBVIOUS
<1>1. PICK t \in T : \A u \in T : t <= u
  <2>1. T \in SUBSET Nat
    OBVIOUS
  <2> HIDE DEF T
  <2> QED BY <2>1, LeastOf
<1>2. ClosesAll(s, 0)
  <2> DEFINE g == [j \in 0..0 |-> s]
  <2>1. g = [j \in 0..0 |-> IF j = 0 THEN s ELSE CloseGroup(g[j - 1])]
    OBVIOUS
  <2> HIDE DEF g
  <2> QED BY <2>1 DEF ClosesAll, Closes
<1>3. t \in Nat \ {0} /\ t - 1 \in Nat /\ ~(t <= t - 1)
  BY <1>1, <1>2
<1>4. ClosesAll(s, t - 1)
  BY <1>1, <1>3
<1>5. ClosesAll(s, (t - 1) + 1)
  BY <1>3, <1>4, ClosesFurther
<1> QED BY <1>1, <1>3, <1>5

\* The ")" after a predicate close as many groups.
LEMMA GroupsClose ==
  ASSUME NEW n, NEW D, NEW J, NEW R, NEW V, Ranked(n, D, J, R), SplitsSomewhere(n, J, R, V),
         NEW s, NEW i, NEW d, At(n, D, J, R, V, s, i, d), NEW count \in Nat, count <= d
  PROVE  At(n, D, J, R, V, CloseGroups(s, count), i, d - count)
<1> DEFINE f == CHOOSE closed : Closes(s, count, closed)
<1>1. Closes(s, count, f)
  BY ClosesAny DEF ClosesAll
<1>2. CloseGroups(s, count) = f[count]
  BY DEF CloseGroups, Closes
<1> HIDE DEF f
<1>3. f = [k \in 0..count |-> IF k = 0 THEN s ELSE CloseGroup(f[k - 1])]
  BY <1>1 DEF Closes
<1>4. d \in Nat
  BY AtHasCuts
<1> DEFINE T == {k \in 0..count : ~At(n, D, J, R, V, f[k], i, d - k)}
<1> SUFFICES ASSUME T # {} PROVE FALSE
  BY <1>2
<1>5. PICK t \in T : \A u \in T : t <= u
  <2>1. T \in SUBSET Nat
    OBVIOUS
  <2> HIDE DEF T
  <2> QED BY <2>1, LeastOf
<1>6. t \in 0..count /\ ~At(n, D, J, R, V, f[t], i, d - t)
  OBVIOUS
<1>7. t # 0
  <2>1. f[0] = s /\ d - 0 = d
    BY <1>3, <1>4
  <2> QED BY <2>1, <1>6
<1>8. t - 1 \in 0..count /\ ~(t <= t - 1) /\ f[t] = CloseGroup(f[t - 1])
  BY <1>3, <1>6, <1>7
<1>9. At(n, D, J, R, V, f[t - 1], i, d - (t - 1))
  BY <1>5, <1>8
<1>10. d - (t - 1) >= 1 /\ (d - (t - 1)) - 1 = d - t
  BY <1>4, <1>6, <1>7
<1>11. At(n, D, J, R, V, CloseGroup(f[t - 1]), i, (d - (t - 1)) - 1)
  <2> DEFINE e == d - (t - 1)
             u == f[t - 1]
  <2>1. At(n, D, J, R, V, u, i, e) /\ e >= 1
    BY <1>9, <1>10
  <2> HIDE DEF e, u
  <2>2. At(n, D, J, R, V, CloseGroup(u), i, e - 1)
    BY ONLY <2>1, Ranked(n, D, J, R), SplitsSomewhere(n, J, R, V), GroupCloses
  <2> QED BY <2>2 DEF e, u
<1> QED BY <1>6, <1>8, <1>10, <1>11

\* The operators before a join is pushed, up to kept.
KeptBelow(s, join) == SelectLastInSeq(s.operators, LAMBDA o : o = "(" \/ Precedence(o) < Precedence(join))

JoinAt(n, D, J, R, j, d, join, r) == j \in 2..n /\ D[j] = d /\ join = J[j] /\ r = R[j]

\* A join leaves the operators at the cuts of a lower rank.
LEMMA JoinKeeps ==
  ASSUME NEW n, NEW D, NEW J, NEW R, NEW V, Ranked(n, D, J, R),
         NEW s, NEW c, NEW i, NEW d, Stacked(n, D, J, R, V, s, c, i, d),
         NEW j, NEW join, NEW r, JoinAt(n, D, J, R, j, d, join, r), NEW q, Parted(R, c, q, r)
  PROVE  KeptBelow(s, join) = q - 1 + d
<1> DEFINE os == s.operators
           I == {p \in 1..Len(os) : os[p] = "(" \/ Precedence(os[p]) < Precedence(join)}
           top == q - 1 + d
<1>0. j \in 2..n /\ D[j] = d /\ join = J[j] /\ r = R[j]
  BY DEF JoinAt
<1>1. Cuts(n, D, R, c, i, d) /\ Operators(D, J, c, d, os)
  BY DEF Stacked
<1>2. q \in 1..Len(c) /\ Len(c) \in Nat /\ d \in Nat /\ \A k \in 2..Len(c) : c[k] \in 2..n
  BY <1>1, CutsAreJoins DEF Parted
<1>3. /\ r \in Int /\ Precedence(join) \in 1..2 /\ r = 2 * d + Precedence(join)
      /\ 2 * d + 1 <= r /\ Parted(R, c, q, r)
  <2>1. R[j] \in Nat /\ Precedence(join) \in 1..2 /\ R[j] = 2 * d + Precedence(join)
    BY <1>0, RankIs
  <2> QED BY <2>1, <1>0, <1>2
<1>4. /\ q - 1 + d \in 0..Len(os) /\ Len(os) \in Nat
      /\ \A p \in q + d..Len(os) : \E k \in q + 1..Len(c) : os[p] = J[c[k]]
  BY ONLY Ranked(n, D, J, R), <1>1, <1>3, LaterOperators
<1>5. \A k \in q + 1..Len(c) : c[k] \in 2..n /\ D[c[k]] = d /\ r <= R[c[k]]
  BY ONLY Ranked(n, D, J, R), <1>1, <1>3, LaterCutsAreInnermost
<1>6. \A p \in q + d..Len(os) : p \notin I
  <2> SUFFICES ASSUME NEW p \in q + d..Len(os)
               PROVE  os[p] # "(" /\ ~(Precedence(os[p]) < Precedence(join))
    OBVIOUS
  <2>1. PICK k \in q + 1..Len(c) : os[p] = J[c[k]]
    BY <1>4
  <2>2. c[k] \in 2..n /\ D[c[k]] = d /\ r <= R[c[k]]
    BY <1>5
  <2>3. /\ Precedence(J[c[k]]) \in 1..2 /\ R[c[k]] = 2 * d + Precedence(J[c[k]])
        /\ J[c[k]] # "("
    BY <2>2, RankIs
  <2>4. ~(Precedence(J[c[k]]) < Precedence(join))
    BY ONLY <2>2, <2>3, <1>2, <1>3
  <2> QED BY <2>1, <2>3, <2>4
<1>7. top = 0 \/ top \in I
  <2> SUFFICES ASSUME top # 0 PROVE os[top] = "(" \/ Precedence(os[top]) < Precedence(join)
    <3>1. top # 0 => top \in 1..Len(os)
      BY <1>4
    <3> QED BY <3>1
  <2>0. q - 1 + d >= 1
    BY <1>2
  <2>1. CASE q >= 2 /\ D[c[q]] = d
    <3>1. q \in 2..Len(c) /\ q \in 2..q /\ c[q] \in 2..n
      BY <2>1, <1>2
    <3>2. R[c[q]] < r
      BY <3>1, <1>3 DEF Parted
    <3>3. Precedence(J[c[q]]) \in 1..2 /\ R[c[q]] = 2 * d + Precedence(J[c[q]])
      BY <3>1, <2>1, RankIs
    <3>4. Place(D, c, q) = top
      BY <2>1, <1>2 DEF Place
    <3>5. os[top] = J[c[q]]
      BY <3>1, <3>4, <1>1 DEF Operators
    <3>6. Precedence(J[c[q]]) < Precedence(join)
      BY ONLY <3>2, <3>3, <1>2, <1>3
    <3> QED BY <3>5, <3>6
  <2>2. CASE q >= 2 => D[c[q]] < d
    <3>1. os[q - 1 + d] = "("
      BY ONLY Ranked(n, D, J, R), <1>1, <1>3, <2>0, <2>2, GroupOperator
    <3> QED BY <3>1
  <2>3. q >= 2 => D[c[q]] \in 0..d
    BY <1>1, <1>2, CutsAreJoins
  <2> QED BY <2>1, <2>2, <2>3, <1>2
<1>8. (IF I # {} THEN Max(I) ELSE 0) = top
  <2>1. I \in SUBSET (1..Len(os)) /\ top \in 0..Len(os)
    BY <1>4
  <2>2. \A p \in top + 1..Len(os) : p \notin I
    <3>1. top + 1 = q + d
      BY <1>2
    <3> HIDE DEF I, top
    <3> QED BY <3>1, <1>6
  <2> HIDE DEF I, top
  <2> QED BY ONLY <2>1, <2>2, <1>4, <1>7, LastOfPositions
<1> QED BY <1>8 DEF KeptBelow, SelectLastInSeq

\* A join and the predicate after it are a new cut.
LEMMA NewCut ==
  ASSUME NEW n, NEW D, NEW J, NEW R, NEW V, Ranked(n, D, J, R), SplitsSomewhere(n, J, R, V),
         NEW s, NEW c, NEW i, NEW d, NEW j \in 2..n, j = i + 1, D[j] = d,
         Kept(n, D, J, R, V, s, c, i, d, R[j]), \A k \in 2..Len(c) : R[c[k]] < R[j],
         NEW opens \in Nat, NEW hit, hit = V[<<j, j>>], NEW r \in Int
  PROVE  Kept(n, D, J, R, V, PushValue([s EXCEPT !.operators = Append(@, J[j])], opens, hit),
              Append(c, j), j, d + opens, r)
<1> DEFINE m == Len(c)
           os == s.operators
           vs == s.values
           b == Append(c, j)
           groups == [p \in 1..opens |-> "("]
           operators == Append(os, J[j]) \o groups
           values == Append(vs, hit)
           t == PushValue([s EXCEPT !.operators = Append(@, J[j])], opens, hit)
<1>1. /\ Cuts(n, D, R, c, i, d) /\ Inside(R, c, i) /\ s \in Machine /\ s.ok
      /\ Values(V, c, i, vs) /\ Operators(D, J, c, d, os) /\ Low(R, c, i, R[j])
  BY DEF Kept, Stacked
<1>2. /\ n \in Nat \ {0} /\ i \in 1..n /\ d \in Nat /\ m \in Nat \ {0}
      /\ \A k \in 1..m : c[k] \in 1..n /\ c[k] <= i
      /\ \A k \in 2..m : c[k] \in 2..n /\ D[c[k]] \in 0..d
      /\ J[j] \in Joins
  BY <1>1, CutsAreJoins
<1>3. /\ c \in Seq(1..n) /\ c[1] = 1
      /\ \A k, l \in 1..m : k < l => c[k] < c[l]
      /\ \A k, l \in 2..m : k < l => R[c[k]] < R[c[l]]
  BY <1>1 DEF Cuts
<1>4. os \in Seq(Symbols) /\ vs \in Seq(BOOLEAN) /\ s.ok \in BOOLEAN
  BY <1>1 DEF Machine
<1>5. /\ hit \in BOOLEAN
  <2>1. <<j, j>> \in Parts(n)
    BY <1>2 DEF Parts
  <2> QED BY <2>1 DEF SplitsSomewhere
<1>6. J[j] \in Symbols
  BY <1>2 DEF Joins, Symbols
<1>b. b \in Seq(1..n) /\ Len(b) = m + 1 /\ b[m + 1] = j /\ \A k \in 1..m : b[k] = c[k]
  <2>1. j \in 1..n
    BY <1>2
  <2> QED BY <2>1, <1>3
<1>v. values \in Seq(BOOLEAN) /\ Len(values) = Len(vs) + 1 /\ values[Len(vs) + 1] = hit
      /\ \A k \in 1..Len(vs) : values[k] = vs[k]
  BY <1>4, <1>5
<1>o. /\ operators \in Seq(Symbols) /\ Len(operators) = Len(os) + 1 + opens
      /\ \A p \in 1..Len(os) : operators[p] = os[p]
      /\ operators[Len(os) + 1] = J[j]
      /\ \A p \in Len(os) + 2..Len(os) + 1 + opens : operators[p] = "("
  <2> DEFINE q == Append(os, J[j])
  <2>1. q \in Seq(Symbols) /\ Len(q) = Len(os) + 1 /\ q[Len(os) + 1] = J[j] /\ \A p \in 1..Len(os) : q[p] = os[p]
    BY <1>4, <1>6
  <2>2. groups \in Seq(Symbols) /\ Len(groups) = opens /\ \A p \in 1..opens : groups[p] = "("
    <3>1. "(" \in Symbols
      BY DEF Symbols
    <3>2. groups \in [1..opens -> Symbols]
      BY <3>1
    <3>3. groups \in Seq(Symbols)
      BY <3>2
    <3>4. Len(groups) = opens
      OBVIOUS
    <3> QED BY <3>3, <3>4
  <2> HIDE DEF q, groups
  <2>3. q \o groups \in Seq(Symbols) /\ Len(q \o groups) = Len(os) + 1 + opens
    <3>1. q \o groups \in Seq(Symbols) /\ Len(q \o groups) = Len(q) + Len(groups)
      BY ONLY <2>1, <2>2, ConcatProperties
    <3> QED BY <3>1, <2>1, <2>2
  <2>4. \A p \in 1..Len(q) : (q \o groups)[p] = q[p]
    BY <2>1, <2>2
  <2>5. \A p \in Len(q) + 1..Len(q) + opens : (q \o groups)[p] = groups[p - Len(q)]
    BY <2>1, <2>2
  <2>6. operators = q \o groups
    BY DEF q
  <2>7. Len(os) \in Nat
    BY <1>4
  <2>8. \A p \in Len(os) + 2..Len(os) + 1 + opens : operators[p] = "("
    BY <2>1, <2>2, <2>5, <2>6, <2>7
  <2>9. \A p \in 1..Len(os) + 1 : operators[p] = q[p]
    BY <2>1, <2>4, <2>6
  <2> HIDE DEF operators
  <2> QED BY <2>1, <2>3, <2>6, <2>7, <2>8, <2>9
<1>t. t \in Machine /\ t.ok = s.ok /\ t.values = values /\ t.operators = operators
  <2>1. t = [s EXCEPT !.operators = operators, !.values = values]
    BY <1>1 DEF PushValue, Machine
  <2> HIDE DEF t, operators, values
  <2> QED BY <2>1, <1>1, <1>v, <1>o DEF Machine
<1> HIDE DEF t, operators, values, b, m, os, vs
<1>7. Cuts(n, D, R, b, j, d + opens)
  <2>1. b # << >> /\ j \in 1..n /\ d + opens \in Nat /\ b[1] = 1 /\ b[Len(b)] <= j
    BY <1>2, <1>3, <1>b
  <2>2. ASSUME NEW k \in 1..Len(b), NEW l \in 1..Len(b), k < l PROVE b[k] < b[l]
    <3>1. CASE l \in 1..m
      <4>1. k \in 1..m /\ b[k] = c[k] /\ b[l] = c[l]
        BY <3>1, <2>2, <1>2, <1>b
      <4> QED BY <4>1, <3>1, <2>2, <1>3
    <3>2. CASE l = m + 1
      <4>1. k \in 1..m /\ b[k] = c[k] /\ c[k] <= i /\ c[k] \in 1..n /\ b[l] = j
        BY <3>2, <2>2, <1>2, <1>b
      <4> QED BY <4>1, <1>2
    <3> QED BY <3>1, <3>2, <1>2, <1>b
  <2>3. ASSUME NEW k \in 2..Len(b), NEW l \in 2..Len(b), k < l PROVE R[b[k]] < R[b[l]]
    <3>1. CASE l \in 1..m
      <4>1. k \in 2..m /\ l \in 2..m /\ b[k] = c[k] /\ b[l] = c[l]
        BY <3>1, <2>3, <1>2, <1>b
      <4> QED BY <4>1, <2>3, <1>3
    <3>2. CASE l = m + 1
      <4>1. k \in 2..m /\ b[k] = c[k] /\ b[l] = j
        BY <3>2, <2>3, <1>2, <1>b
      <4> QED BY <4>1 DEF m
    <3> QED BY <3>1, <3>2, <1>2, <1>b
  <2>4. ASSUME NEW k \in 2..Len(b) PROVE D[b[k]] <= d + opens
    <3>1. CASE k \in 2..m
      <4>1. b[k] = c[k] /\ D[c[k]] \in 0..d
        BY <3>1, <1>2, <1>b
      <4> QED BY <4>1, <1>2
    <3>2. CASE k = m + 1
      BY <3>2, <1>2, <1>b
    <3> QED BY <3>1, <3>2, <1>2, <1>b
  <2> QED BY <2>1, <2>2, <2>3, <2>4, <1>b DEF Cuts
<1>8. Inside(R, b, j)
  <2>1. ASSUME NEW k \in 2..Len(b) PROVE \A l \in b[k] + 1..Until(b, k, j) : R[b[k]] <= R[l]
    <3>1. CASE k \in 2..m
      <4>1. k <= m /\ k < Len(b) /\ Len(c) = m
        BY <3>1, <1>2, <1>b DEF m
      <4>2. Until(b, k, j) = Until(c, k, i) /\ b[k] = c[k]
        <5>1. k \in 1..m /\ k + 1 \in 1..m + 1 /\ b[k] = c[k] /\ j - 1 = i
          BY <3>1, <1>2, <1>b
        <5>2. CASE k < m
          <6>1. b[k + 1] = c[k + 1]
            BY <5>1, <5>2, <1>2, <1>b
          <6> QED BY <6>1, <5>1, <5>2, <4>1 DEF Until
        <5>3. CASE k = m
          BY <5>1, <5>3, <4>1, <1>b DEF Until
        <5> QED BY <5>1, <5>2, <5>3, <1>2
      <4> QED BY <4>2, <3>1, <1>1 DEF Inside, m
    <3>2. CASE k = m + 1
      <4>1. b[k] = j /\ Until(b, k, j) = j
        BY <3>2, <1>2, <1>b DEF Until
      <4> QED BY <4>1, <1>2
    <3> QED BY <3>1, <3>2, <1>2, <1>b
  <2>2. ASSUME NEW k \in 1..Len(b) - 1 PROVE \A l \in b[k] + 1..b[k + 1] - 1 : R[b[k + 1]] <= R[l]
    <3>1. CASE k \in 1..m - 1
      <4>1. k \in 1..m /\ k + 1 \in 1..m /\ b[k] = c[k] /\ b[k + 1] = c[k + 1]
        <5>1. k \in 1..m /\ k + 1 \in 1..m
          BY <3>1, <1>2
        <5> QED BY <5>1, <1>b
      <4> QED BY <4>1, <3>1, <1>1 DEF Inside, m
    <3>2. CASE k = m
      <4>1. b[k] = c[m] /\ b[k + 1] = j /\ j - 1 = i
        BY <3>2, <1>2, <1>b
      <4> QED BY <4>1, <1>1 DEF Low, m
    <3> QED BY <3>1, <3>2, <1>2, <1>b
  <2> QED BY <2>1, <2>2 DEF Inside
<1>9. Values(V, b, j, values)
  <2>1. Len(vs) = m /\ \A k \in 1..m : vs[k] = V[<<c[k], Until(c, k, i)>>]
    BY <1>1 DEF Values, m
  <2>2. ASSUME NEW k \in 1..Len(b) PROVE values[k] = V[<<b[k], Until(b, k, j)>>]
    <3>1. CASE k \in 1..m
      <4>1. k <= m /\ k < Len(b) /\ Len(c) = m
        BY <3>1, <1>2, <1>b DEF m
      <4>2. Until(b, k, j) = Until(c, k, i) /\ b[k] = c[k]
        <5>1. k \in 1..m /\ k + 1 \in 1..m + 1 /\ b[k] = c[k] /\ j - 1 = i
          BY <3>1, <1>2, <1>b
        <5>2. CASE k < m
          <6>1. b[k + 1] = c[k + 1]
            BY <5>1, <5>2, <1>2, <1>b
          <6> QED BY <6>1, <5>1, <5>2, <4>1 DEF Until
        <5>3. CASE k = m
          BY <5>1, <5>3, <4>1, <1>b DEF Until
        <5> QED BY <5>1, <5>2, <5>3, <1>2
      <4> QED BY <4>2, <3>1, <2>1, <1>v
    <3>2. CASE k = m + 1
      <4>1. b[k] = j /\ Until(b, k, j) = j /\ values[k] = hit
        BY <3>2, <1>2, <1>b, <2>1, <1>v DEF Until
      <4> QED BY <4>1
    <3> QED BY <3>1, <3>2, <1>2, <1>b
  <2> QED BY <2>1, <2>2, <1>b, <1>v DEF Values
<1>10. Operators(D, J, b, d + opens, operators)
  <2>1. /\ Len(os) = m - 1 + d
        /\ \A k \in 2..m : os[Place(D, c, k)] = J[c[k]]
        /\ \A p \in 1..Len(os) : (\A k \in 2..m : p # Place(D, c, k)) => os[p] = "("
    BY <1>1 DEF Operators, m
  <2>2. Place(D, b, m + 1) = m + d
    BY <1>2, <1>b DEF Place
  <2>3. ASSUME NEW k \in 2..m
        PROVE  Place(D, b, k) = Place(D, c, k) /\ Place(D, c, k) \in 1..m - 1 + d /\ b[k] = c[k]
    <3>1. k \in 1..m /\ D[c[k]] \in 0..d
      BY <1>2
    <3>2. b[k] = c[k]
      BY <3>1, <1>b
    <3> QED BY <3>1, <3>2, <1>2 DEF Place
  <2>4. ASSUME NEW k \in 2..Len(b) PROVE operators[Place(D, b, k)] = J[b[k]]
    <3>1. CASE k \in 2..m
      <4> DEFINE p == Place(D, c, k)
      <4>1. Place(D, b, k) = p /\ p \in 1..m - 1 + d /\ b[k] = c[k]
        BY <3>1, <2>3
      <4>2. p \in 1..Len(os)
        BY <4>1, <2>1
      <4>3. os[p] = J[c[k]]
        BY <3>1, <2>1
      <4> HIDE DEF p
      <4>4. operators[p] = os[p]
        BY <4>2, <1>o
      <4> QED BY <4>1, <4>3, <4>4
    <3>2. CASE k = m + 1
      <4>1. Len(os) + 1 = m + d /\ b[k] = j
        BY <3>2, <2>1, <1>2, <1>b
      <4> QED BY <4>1, <3>2, <2>2, <1>o
    <3> QED BY <3>1, <3>2, <1>2, <1>b
  <2>5. ASSUME NEW p \in 1..Len(operators), \A k \in 2..Len(b) : p # Place(D, b, k)
        PROVE  operators[p] = "("
    <3>1. CASE p \in 1..Len(os)
      <4>1. \A k \in 2..m : p # Place(D, c, k)
        BY <2>3, <2>5, <1>2, <1>b
      <4> QED BY <4>1, <3>1, <2>1, <1>o
    <3>2. CASE p \in Len(os) + 2..Len(os) + 1 + opens
      BY <3>2, <1>o
    <3>3. p # m + d
      BY <2>2, <2>5, <1>2, <1>b
    <3>4. Len(os) + 1 = m + d /\ p \in 1..Len(os) + 1 + opens /\ Len(os) \in Nat
      BY <2>1, <1>2, <1>o
    <3> QED BY ONLY <3>1, <3>2, <3>3, <3>4, opens \in Nat
  <2> QED BY <2>1, <2>4, <2>5, <1>2, <1>b, <1>o DEF Operators
<1>11. Low(R, b, j, r)
  <2>1. b[Len(b)] = j /\ j + 1..j = {}
    BY <1>2, <1>b
  <2> QED BY <2>1 DEF Low
<1> QED BY <1>1, <1>7, <1>8, <1>9, <1>10, <1>11, <1>t DEF Kept, Stacked, t, b

\* The first predicate.
LEMMA FirstCut ==
  ASSUME NEW n, NEW D, NEW J, NEW R, NEW V, Ranked(n, D, J, R), SplitsSomewhere(n, J, R, V),
         NEW opens \in Nat, NEW hit, hit = V[<<1, 1>>]
  PROVE  At(n, D, J, R, V, PushValue(Empty, opens, hit), 1, opens)
<1> DEFINE t == PushValue(Empty, opens, hit)
           c == <<1>>
           groups == [p \in 1..opens |-> "("]
<1>1. n \in Nat \ {0}
  BY DEF Ranked
<1>2. hit \in BOOLEAN
  <2>1. <<1, 1>> \in Parts(n)
    BY <1>1 DEF Parts
  <2> QED BY <2>1 DEF SplitsSomewhere
<1>3. groups \in Seq(Symbols) /\ Len(groups) = opens /\ \A p \in 1..opens : groups[p] = "("
  <2>1. "(" \in Symbols
    BY DEF Symbols
  <2>2. groups \in [1..opens -> Symbols]
    BY <2>1
  <2>3. groups \in Seq(Symbols)
    BY <2>2
  <2> QED BY <2>3
<1>4. t.values = <<hit>> /\ t.operators = groups /\ t.ok = TRUE /\ t \in Machine
  <2>1. << >> \o groups = groups
    <3> HIDE DEF groups
    <3> QED BY <1>3, ConcatEmptySeq
  <2>2. Append(<< >>, hit) = <<hit>>
    OBVIOUS
  <2>3. t = [values |-> <<hit>>, operators |-> groups, ok |-> TRUE]
    <3>1. t = [[values |-> << >>, operators |-> << >>, ok |-> TRUE]
                 EXCEPT !.operators = << >> \o groups, !.values = Append(<< >>, hit)]
      BY DEF PushValue, Empty
    <3> HIDE DEF t, groups
    <3> QED BY <3>1, <2>1, <2>2
  <2>4. <<hit>> \in Seq(BOOLEAN)
    BY <1>2
  <2> HIDE DEF groups
  <2> QED BY <2>3, <2>4, <1>3 DEF Machine
<1>5. c \in Seq(1..n) /\ Len(c) = 1 /\ c[1] = 1 /\ c # << >>
  BY <1>1
<1> HIDE DEF t, c, groups
<1>6. Cuts(n, D, R, c, 1, opens)
  BY <1>1, <1>5 DEF Cuts
<1>7. Inside(R, c, 1) /\ Low(R, c, 1, 2 * opens + 3)
  BY <1>5 DEF Inside, Low
<1>8. Values(V, c, 1, t.values)
  BY <1>2, <1>4, <1>5 DEF Values, Until
<1>9. Operators(D, J, c, opens, t.operators)
  BY <1>3, <1>4, <1>5 DEF Operators
<1> QED BY <1>4, <1>6, <1>7, <1>8, <1>9 DEF At, Kept, Stacked, t

\* A join and the predicate after it.
LEMMA JoinPushed ==
  ASSUME NEW n, NEW D, NEW J, NEW R, NEW V, Ranked(n, D, J, R), SplitsSomewhere(n, J, R, V),
         NEW s, NEW i, NEW d, At(n, D, J, R, V, s, i, d), NEW j \in 2..n, j = i + 1, D[j] = d,
         NEW opens \in Nat, NEW hit, hit = V[<<j, j>>]
  PROVE  At(n, D, J, R, V, PushValue(PushJoin(s, J[j]), opens, hit), j, d + opens)
<1>1. d \in Nat
  BY AtHasCuts
<1>2. PICK c : Kept(n, D, J, R, V, s, c, i, d, 2 * d + 3)
  BY AtHasCuts
<1> DEFINE r == R[j]
           high == 2 * d + 3
<1>3. r \in Int /\ high \in Int /\ r <= high /\ 2 * d + 1 <= r
  <2>1. R[j] \in Nat /\ Precedence(J[j]) \in 1..2 /\ R[j] = 2 * d + Precedence(J[j])
    BY RankIs
  <2> QED BY <2>1, <1>1
<1>4. Kept(n, D, J, R, V, s, c, i, d, high)
  BY <1>2
<1> HIDE DEF high
<1>5. Kept(n, D, J, R, V, s, c, i, d, r)
  <2> HIDE DEF r
  <2> QED BY ONLY Ranked(n, D, J, R), <1>3, <1>4, LowerStill
<1>6. Cuts(n, D, R, c, i, d) /\ Stacked(n, D, J, R, V, s, c, i, d)
  BY <1>2 DEF Kept, Stacked
<1>7. PICK q \in 1..Len(c) : Parted(R, c, q, r)
  <2> HIDE DEF r
  <2> QED BY ONLY Ranked(n, D, J, R), <1>3, <1>6, CutsArePartedAtRank
<1>8. KeptBelow(s, J[j]) = q - 1 + d
  <2> DEFINE join == J[j]
  <2>1. Parted(R, c, q, r) /\ JoinAt(n, D, J, R, j, d, join, r)
    BY <1>7 DEF JoinAt
  <2>2. Stacked(n, D, J, R, V, s, c, i, d)
    BY <1>6
  <2>3. Ranked(n, D, J, R)
    OBVIOUS
  <2> HIDE DEF r, join
  <2>4. KeptBelow(s, join) = q - 1 + d
    BY ONLY <2>1, <2>2, <2>3, JoinKeeps
  <2> QED BY <2>4 DEF join
<1> HIDE DEF r
<1>9. \A k \in q + 1..Len(c) : c[k] \in 2..n /\ D[c[k]] = d /\ r <= R[c[k]]
  BY ONLY Ranked(n, D, J, R), <1>3, <1>6, <1>7, LaterCutsAreInnermost
<1> DEFINE t == ApplyDownTo(s, q - 1 + d)
           b == SubSeq(c, 1, q)
<1>10. Kept(n, D, J, R, V, t, b, i, d, r)
  <2>1. \A k \in q + 1..Len(c) : D[c[k]] = d /\ r <= R[c[k]]
    BY <1>9
  <2>2. q \in 1..Len(c)
    OBVIOUS
  <2> QED BY ONLY <2>1, <2>2, Ranked(n, D, J, R), SplitsSomewhere(n, J, R, V), <1>3, <1>5, PopDown
<1>11. c \in Seq(1..n) /\ Len(c) \in Nat
  BY <1>6, CutsAreJoins DEF Cuts
<1>12. Len(b) = q /\ \A k \in 1..q : b[k] = c[k]
  BY <1>11, Beginnings
<1>13. PushJoin(s, J[j]) = [t EXCEPT !.operators = Append(@, J[j])]
  BY <1>8 DEF PushJoin, KeptBelow
<1> HIDE DEF t, b
<1>14. \A k \in 2..Len(b) : R[b[k]] < R[j]
  <2> TAKE k \in 2..Len(b)
  <2>1. k \in 2..q /\ b[k] = c[k]
    BY <1>11, <1>12
  <2> QED BY <2>1, <1>7 DEF Parted, r
<1>15. 2 * (d + opens) + 3 \in Int /\ d + opens \in Nat
  BY <1>1
<1>16. Kept(n, D, J, R, V, t, b, i, d, R[j])
  BY <1>10 DEF r
<1> DEFINE low == 2 * (d + opens) + 3
<1>17. low \in Int
  BY <1>15
<1> HIDE DEF low
<1>18. Kept(n, D, J, R, V, PushValue([t EXCEPT !.operators = Append(@, J[j])], opens, hit),
            Append(b, j), j, d + opens, low)
  BY ONLY Ranked(n, D, J, R), SplitsSomewhere(n, J, R, V), j \in 2..n, j = i + 1, D[j] = d,
     opens \in Nat, hit = V[<<j, j>>], <1>14, <1>16, <1>17, NewCut
<1> QED BY <1>13, <1>15, <1>18 DEF At, low

\* What is left when every group is closed and every operator is applied.
LEMMA EndIsMeaning ==
  ASSUME NEW n, NEW D, NEW J, NEW R, NEW V, Ranked(n, D, J, R), SplitsSomewhere(n, J, R, V),
         NEW s, At(n, D, J, R, V, s, n, 0)
  PROVE  s.ok /\ Innermost(s) = 0 /\ ApplyDownTo(s, 0).values = <<V[<<1, n>>]>>
<1>1. PICK c : Kept(n, D, J, R, V, s, c, n, 0, 2 * 0 + 3)
  BY AtHasCuts
<1>2. Kept(n, D, J, R, V, s, c, n, 0, 3)
  BY <1>1
<1>3. Kept(n, D, J, R, V, s, c, n, 0, 1)
  <2>1. 1 \in Int /\ 3 \in Int /\ 1 <= 3
    OBVIOUS
  <2> QED BY ONLY <2>1, Ranked(n, D, J, R), <1>2, LowerStill
<1>4. Cuts(n, D, R, c, n, 0) /\ Stacked(n, D, J, R, V, s, c, n, 0) /\ s.ok
  BY <1>1 DEF Kept, Stacked
<1>5. /\ Len(c) \in Nat \ {0} /\ c \in Seq(1..n) /\ c[1] = 1
      /\ \A k \in 2..Len(c) : c[k] \in 2..n /\ D[c[k]] \in 0..0
  <2>1. Cuts(n, D, R, c, n, 0)
    BY <1>4
  <2>2. Len(c) \in Nat \ {0}
    BY ONLY <2>1, Ranked(n, D, J, R), CutsAreJoins
  <2>3. \A k \in 2..Len(c) : c[k] \in 2..n /\ D[c[k]] \in 0..0
    BY ONLY <2>1, Ranked(n, D, J, R), CutsAreJoins
  <2> QED BY <2>1, <2>2, <2>3 DEF Cuts
<1>6. Innermost(s) = 0
  <2>1. PICK q \in 1..Len(c) : Parted(R, c, q, 1)
    BY <1>4, CutsArePartedAtRank
  <2>2. Parted(R, c, q, 2 * 0 + 1)
    BY <2>1
  <2>3. Innermost(s) = IF 0 = 0 THEN 0 ELSE q - 1 + 0
    BY ONLY Ranked(n, D, J, R), <1>4, <2>2, InnermostIs
  <2> QED BY <2>3
<1>7. \A k \in 1 + 1..Len(c) : D[c[k]] = 0 /\ 1 <= R[c[k]]
  <2> TAKE k \in 1 + 1..Len(c)
  <2>1. c[k] \in 2..n /\ D[c[k]] = 0
    BY <1>5
  <2>2. R[c[k]] = 2 * D[c[k]] + Precedence(J[c[k]]) /\ Precedence(J[c[k]]) \in 1..2
    BY <2>1, RankIs
  <2> QED BY <2>1, <2>2
<1> DEFINE b == SubSeq(c, 1, 1)
<1>8. Kept(n, D, J, R, V, ApplyDownTo(s, 0), b, n, 0, 1)
  <2>1. 1 \in 1..Len(c) /\ 1 \in Int
    BY <1>5
  <2>2. Kept(n, D, J, R, V, ApplyDownTo(s, 1 - 1 + 0), SubSeq(c, 1, 1), n, 0, 1)
    BY ONLY <2>1, <1>3, <1>7, Ranked(n, D, J, R), SplitsSomewhere(n, J, R, V), PopDown
  <2>3. 1 - 1 + 0 = 0
    OBVIOUS
  <2> QED BY <2>2, <2>3
<1>9. Len(b) = 1 /\ b[1] = 1
  BY <1>5, Beginnings
<1> HIDE DEF b
<1> DEFINE vs == ApplyDownTo(s, 0).values
<1>10. vs \in Seq(BOOLEAN) /\ Len(vs) = 1 /\ vs[1] = V[<<1, n>>]
  <2>1. Values(V, b, n, vs)
    BY <1>8 DEF Kept, Stacked
  <2>2. Until(b, 1, n) = n
    BY <1>9 DEF Until
  <2> QED BY <2>1, <2>2, <1>9 DEF Values
<1> HIDE DEF vs
<1>11. vs = <<V[<<1, n>>]>>
  BY <1>10
<1> QED BY <1>4, <1>6, <1>11 DEF vs

-----------------------------------------------------------------------------
(* The recursive functions of the expression.                              *)

Opens(P, n, open) ==
  open = [k \in 0..n |-> IF k = 0 THEN 0 ELSE open[k - 1] + P[k].OpenGroups - P[k].CloseGroups]
OpensAll(P, n) == \E open : Opens(P, n, open)

Reads(P, H, n, after) ==
  after = [i \in 0..n |-> IF i = 0 THEN Empty ELSE ReadPredicate(after[i - 1], P, H, i)]
ReadsAll(P, H, n) == \E after : Reads(P, H, n, after)

\* The depth is known one pattern further.
LEMMA OpensFurther ==
  ASSUME NEW P, NEW n \in Nat, OpensAll(P, n)
  PROVE  OpensAll(P, n + 1)
<1>1. PICK f : Opens(P, n, f)
  BY DEF OpensAll
<1> DEFINE More(x, j) == x + P[j].OpenGroups - P[j].CloseGroups
<1>2. f = [j \in 0..n |-> IF j = 0 THEN 0 ELSE More(f[j - 1], j)]
  BY <1>1 DEF Opens
<1> HIDE DEF More
<1> DEFINE g == [j \in 0..n + 1 |-> IF j = n + 1 THEN More(f[n], n + 1) ELSE f[j]]
<1>3. \A j \in 0..n : g[j] = f[j]
  OBVIOUS
<1>4. \A j \in 0..n + 1 : g[j] = IF j = 0 THEN 0 ELSE More(g[j - 1], j)
  <2> TAKE j \in 0..n + 1
  <2>1. CASE j = n + 1
    <3>1. g[j] = More(f[n], j) /\ j # 0 /\ j - 1 = n /\ g[n] = f[n]
      BY <2>1, <1>3
    <3> HIDE DEF g
    <3> QED BY <3>1
  <2>2. CASE j \in 0..n
    <3>1. g[j] = f[j] /\ f[j] = IF j = 0 THEN 0 ELSE More(f[j - 1], j)
      BY <2>2, <1>2, <1>3
    <3>2. j # 0 => g[j - 1] = f[j - 1]
      BY <2>2, <1>3
    <3> HIDE DEF g
    <3> QED BY <3>1, <3>2
  <2> QED BY <2>1, <2>2
<1>5. g = [j \in 0..n + 1 |-> g[j]]
  OBVIOUS
<1> HIDE DEF g
<1>6. g = [j \in 0..n + 1 |-> IF j = 0 THEN 0 ELSE More(g[j - 1], j)]
  BY <1>4, <1>5
<1> QED BY <1>6 DEF OpensAll, Opens, More

\* One more pattern can be read.
LEMMA ReadsFurther ==
  ASSUME NEW P, NEW H, NEW n \in Nat, ReadsAll(P, H, n)
  PROVE  ReadsAll(P, H, n + 1)
<1>1. PICK f : Reads(P, H, n, f)
  BY DEF ReadsAll
<1>2. f = [j \in 0..n |-> IF j = 0 THEN Empty ELSE ReadPredicate(f[j - 1], P, H, j)]
  BY <1>1 DEF Reads
<1> DEFINE g == [j \in 0..n + 1 |-> IF j = n + 1 THEN ReadPredicate(f[n], P, H, n + 1) ELSE f[j]]
<1>3. \A j \in 0..n : g[j] = f[j]
  OBVIOUS
<1>4. \A j \in 0..n + 1 : g[j] = IF j = 0 THEN Empty ELSE ReadPredicate(g[j - 1], P, H, j)
  <2> TAKE j \in 0..n + 1
  <2>1. CASE j = n + 1
    <3>1. g[j] = ReadPredicate(f[n], P, H, j) /\ j # 0 /\ j - 1 = n /\ g[n] = f[n]
      BY <2>1, <1>3
    <3> HIDE DEF g
    <3> QED BY <3>1
  <2>2. CASE j \in 0..n
    <3>1. g[j] = f[j] /\ f[j] = IF j = 0 THEN Empty ELSE ReadPredicate(f[j - 1], P, H, j)
      BY <2>2, <1>2, <1>3
    <3>2. j # 0 => g[j - 1] = f[j - 1]
      BY <2>2, <1>3
    <3> HIDE DEF g
    <3> QED BY <3>1, <3>2
  <2> QED BY <2>1, <2>2
<1>5. g = [j \in 0..n + 1 |-> g[j]]
  OBVIOUS
<1> HIDE DEF g
<1>6. g = [j \in 0..n + 1 |-> IF j = 0 THEN Empty ELSE ReadPredicate(g[j - 1], P, H, j)]
  BY <1>4, <1>5
<1> QED BY <1>6 DEF ReadsAll, Reads

\* The depth is known after any number of patterns.
LEMMA OpensAny ==
  ASSUME NEW P
  PROVE  \A n \in Nat : OpensAll(P, n)
<1> DEFINE T == {t \in Nat : ~OpensAll(P, t)}
<1> SUFFICES ASSUME T # {} PROVE FALSE
  OBVIOUS
<1>1. PICK t \in T : \A u \in T : t <= u
  <2>1. T \in SUBSET Nat
    OBVIOUS
  <2> HIDE DEF T
  <2> QED BY <2>1, LeastOf
<1>2. OpensAll(P, 0)
  <2> DEFINE g == [j \in 0..0 |-> 0]
  <2>1. g = [j \in 0..0 |-> IF j = 0 THEN 0 ELSE g[j - 1] + P[j].OpenGroups - P[j].CloseGroups]
    OBVIOUS
  <2> HIDE DEF g
  <2> QED BY <2>1 DEF OpensAll, Opens
<1>3. t \in Nat \ {0} /\ t - 1 \in Nat /\ ~(t <= t - 1)
  BY <1>1, <1>2
<1>4. OpensAll(P, t - 1)
  BY <1>1, <1>3
<1>5. OpensAll(P, (t - 1) + 1)
  BY <1>3, <1>4, OpensFurther
<1> QED BY <1>1, <1>3, <1>5

\* Any number of patterns can be read.
LEMMA ReadsAny ==
  ASSUME NEW P, NEW H
  PROVE  \A n \in Nat : ReadsAll(P, H, n)
<1> DEFINE T == {t \in Nat : ~ReadsAll(P, H, t)}
<1> SUFFICES ASSUME T # {} PROVE FALSE
  OBVIOUS
<1>1. PICK t \in T : \A u \in T : t <= u
  <2>1. T \in SUBSET Nat
    OBVIOUS
  <2> HIDE DEF T
  <2> QED BY <2>1, LeastOf
<1>2. ReadsAll(P, H, 0)
  <2> DEFINE g == [j \in 0..0 |-> Empty]
  <2>1. g = [j \in 0..0 |-> IF j = 0 THEN Empty ELSE ReadPredicate(g[j - 1], P, H, j)]
    OBVIOUS
  <2> HIDE DEF g
  <2> QED BY <2>1 DEF ReadsAll, Reads
<1>3. t \in Nat \ {0} /\ t - 1 \in Nat /\ ~(t <= t - 1)
  BY <1>1, <1>2
<1>4. ReadsAll(P, H, t - 1)
  BY <1>1, <1>3
<1>5. ReadsAll(P, H, (t - 1) + 1)
  BY <1>3, <1>4, ReadsFurther
<1> QED BY <1>1, <1>3, <1>5

\* The depth of a predicate is what its parentheses make of the one before it.
LEMMA DepthIsCounted ==
  ASSUME NEW P, Len(P) \in Nat
  PROVE  /\ Depth(P, 0) = 0
         /\ \A k \in 1..Len(P) : Depth(P, k) = Depth(P, k - 1) + P[k].OpenGroups - P[k].CloseGroups
<1> DEFINE n == Len(P)
           f == CHOOSE open : Opens(P, n, open)
<1>1. Opens(P, n, f)
  BY OpensAny DEF OpensAll
<1>2. \A k : Depth(P, k) = f[k]
  BY DEF Depth, Opens
<1> HIDE DEF f
<1>3. f = [k \in 0..n |-> IF k = 0 THEN 0 ELSE f[k - 1] + P[k].OpenGroups - P[k].CloseGroups]
  BY <1>1 DEF Opens
<1>4. f[0] = 0 /\ \A k \in 1..n : f[k] = f[k - 1] + P[k].OpenGroups - P[k].CloseGroups
  BY <1>3
<1> QED BY <1>2, <1>4

\* The evaluation reads the patterns one after the other, from the empty machine.
LEMMA PredicatesAreRead ==
  ASSUME NEW P, NEW H, Len(P) \in Nat
  PROVE  \E after : /\ after[0] = Empty
                    /\ \A i \in 1..Len(P) : after[i] = ReadPredicate(after[i - 1], P, H, i)
                    /\ evaluateSearchExpression(P, H) =
                         (/\ after[Len(P)].ok
                          /\ Innermost(after[Len(P)]) = 0
                          /\ ApplyDownTo(after[Len(P)], 0).values = <<TRUE>>)
<1> DEFINE n == Len(P)
           f == CHOOSE after : Reads(P, H, n, after)
<1>1. Reads(P, H, n, f)
  BY ReadsAny DEF ReadsAll
<1>2. evaluateSearchExpression(P, H) =
        (f[n].ok /\ Innermost(f[n]) = 0 /\ ApplyDownTo(f[n], 0).values = <<TRUE>>)
  BY DEF evaluateSearchExpression, Reads
<1> HIDE DEF f
<1>3. f = [i \in 0..n |-> IF i = 0 THEN Empty ELSE ReadPredicate(f[i - 1], P, H, i)]
  BY <1>1 DEF Reads
<1>4. f[0] = Empty /\ \A i \in 1..n : f[i] = ReadPredicate(f[i - 1], P, H, i)
  BY <1>3
<1> QED BY <1>2, <1>4

\* An expression that a search evaluates.
Evaluable(P) ==
  /\ Len(P) \in Nat \ {0}
  /\ DOMAIN P = 1..Len(P)
  /\ Accepted(P)

DepthBefore(P) == [j \in 2..Len(P) |-> Depth(P, j - 1)]
JoinOf(P) == [j \in 2..Len(P) |-> P[j].Join]
RankOf(P) == [j \in 2..Len(P) |-> 2 * Depth(P, j - 1) + Precedence(P[j].Join)]

\* An accepted expression closes no group it has not opened, and all it opens.
LEMMA DepthsAreNaturals ==
  ASSUME NEW P, Evaluable(P)
  PROVE  /\ Depth(P, Len(P)) = 0
         /\ \A k \in 0..Len(P) : Depth(P, k) \in Nat
<1> DEFINE n == Len(P)
           T == {k \in 0..n : Depth(P, k) \notin Nat}
<1>1. n \in Nat
  BY DEF Evaluable
<1>2. /\ Depth(P, 0) = 0
      /\ \A k \in 1..n : Depth(P, k) = Depth(P, k - 1) + P[k].OpenGroups - P[k].CloseGroups
  BY <1>1, DepthIsCounted
<1>3. /\ Depth(P, n) = 0
      /\ \A k \in 1..n : P[k].OpenGroups \in Nat /\ P[k].CloseGroups \in Nat /\ Depth(P, k) >= 0
  BY MaxGroupsAssumption DEF Evaluable, Accepted
<1> SUFFICES ASSUME T # {} PROVE FALSE
  BY <1>3
<1>4. PICK t \in T : \A u \in T : t <= u
  <2>1. T \in SUBSET Nat
    BY <1>1
  <2> HIDE DEF T
  <2> QED BY <2>1, LeastOf
<1>5. t \in 0..n /\ Depth(P, t) \notin Nat
  OBVIOUS
<1>6. t # 0
  BY <1>2, <1>5
<1>7. t - 1 \in 0..n /\ t \in 1..n /\ ~(t <= t - 1)
  BY <1>1, <1>5, <1>6
<1>8. Depth(P, t - 1) \in Nat
  BY <1>4, <1>7
<1>9. Depth(P, t) \in Int /\ Depth(P, t) >= 0
  <2>1. Depth(P, t) = Depth(P, t - 1) + P[t].OpenGroups - P[t].CloseGroups
    BY <1>2, <1>7
  <2>2. P[t].OpenGroups \in Nat /\ P[t].CloseGroups \in Nat /\ Depth(P, t) >= 0
    BY <1>3, <1>7
  <2> QED BY <2>1, <2>2, <1>8
<1> QED BY <1>5, <1>9

\* The joins of an accepted expression are ranked by depth, then by precedence.
LEMMA ExpressionIsRanked ==
  ASSUME NEW P, Evaluable(P)
  PROVE  Ranked(Len(P), DepthBefore(P), JoinOf(P), RankOf(P))
<1> DEFINE n == Len(P)
<1>1. n \in Nat \ {0} /\ DOMAIN P = 1..n
  BY DEF Evaluable
<1>2. \A j \in 2..n : Depth(P, j - 1) \in Nat
  BY <1>1, DepthsAreNaturals
<1>3. \A j \in 2..n : P[j].Join \in Joins
  <2> TAKE j \in 2..n
  <2>1. j \in DOMAIN P /\ j > 1
    BY <1>1
  <2> QED BY <2>1 DEF Evaluable, Accepted
<1>4. DepthBefore(P) \in [2..n -> Nat] /\ \A j \in 2..n : DepthBefore(P)[j] = Depth(P, j - 1)
  BY <1>2 DEF DepthBefore
<1>5. JoinOf(P) \in [2..n -> Joins] /\ \A j \in 2..n : JoinOf(P)[j] = P[j].Join
  BY <1>3 DEF JoinOf
<1>6. ASSUME NEW j \in 2..n
      PROVE  /\ RankOf(P)[j] \in Nat
             /\ P[j].Join = "and" => RankOf(P)[j] = 2 * Depth(P, j - 1) + 2
             /\ P[j].Join = "or" => RankOf(P)[j] = 2 * Depth(P, j - 1) + 1
  <2>1. RankOf(P)[j] = 2 * Depth(P, j - 1) + Precedence(P[j].Join)
    BY DEF RankOf
  <2>2. P[j].Join = "and" \/ P[j].Join = "or"
    BY <1>3 DEF Joins
  <2>3. Depth(P, j - 1) \in Nat
    BY <1>2
  <2>4. CASE P[j].Join = "and"
    <3>1. Precedence(P[j].Join) = 2
      BY <2>4 DEF Precedence
    <3> QED BY <3>1, <2>1, <2>3, <2>4
  <2>5. CASE P[j].Join = "or"
    <3>1. Precedence(P[j].Join) = 1
      BY <2>5 DEF Precedence
    <3> QED BY <3>1, <2>1, <2>3, <2>5
  <2> QED BY <2>2, <2>4, <2>5
<1>7. RankOf(P) \in [2..n -> Nat]
  <2>1. RankOf(P) = [j \in 2..n |-> RankOf(P)[j]]
    BY DEF RankOf
  <2> QED BY <2>1, <1>6
<1> QED BY <1>1, <1>4, <1>5, <1>6, <1>7 DEF Ranked

\* The join that splits a part is one of the lowest.
LEMMA SplitIsLowest ==
  ASSUME NEW P, Evaluable(P), NEW lo \in 1..Len(P), NEW hi \in 1..Len(P), lo < hi
  PROVE  Split(P, lo, hi) \in lo + 1..hi /\ Lowest(RankOf(P), lo, hi, Split(P, lo, hi))
<1> DEFINE n == Len(P)
           tops == {i \in lo + 1..hi : \A j \in lo + 1..hi : Depth(P, i - 1) <= Depth(P, j - 1)}
           ors == {i \in tops : P[i].Join = "or"}
           depths == {Depth(P, i - 1) : i \in lo + 1..hi}
           s == Split(P, lo, hi)
<1>1. n \in Nat \ {0} /\ DOMAIN P = 1..n
  BY DEF Evaluable
<1>2. \A i \in lo + 1..hi : i \in 2..n /\ i - 1 \in 0..n
  BY <1>1
<1>3. \A i \in lo + 1..hi : Depth(P, i - 1) \in Nat
  BY <1>2, DepthsAreNaturals
<1>4. tops # {}
  <2>1. depths \in SUBSET Nat
    BY <1>3
  <2>2. depths # {}
    <3>1. hi \in lo + 1..hi
      BY <1>1
    <3> QED BY <3>1
  <2>3. PICK t \in depths : \A u \in depths : t <= u
    <3> HIDE DEF depths
    <3> QED BY <2>1, <2>2, LeastOf
  <2>4. PICK i \in lo + 1..hi : t = Depth(P, i - 1)
    OBVIOUS
  <2>5. \A j \in lo + 1..hi : Depth(P, i - 1) <= Depth(P, j - 1)
    BY <2>3, <2>4
  <2> QED BY <2>5
<1>5. s = CHOOSE i \in IF ors # {} THEN ors ELSE tops : TRUE
  BY DEF Split
<1>6. s \in IF ors # {} THEN ors ELSE tops
  <2>1. (IF ors # {} THEN ors ELSE tops) # {}
    BY <1>4
  <2> HIDE DEF ors, tops, s
  <2> QED BY <1>5, <2>1
<1>7. s \in tops /\ (ors # {} => P[s].Join = "or")
  BY <1>6
<1>8. s \in lo + 1..hi /\ \A j \in lo + 1..hi : Depth(P, s - 1) <= Depth(P, j - 1)
  BY <1>7
<1>9. Ranked(n, DepthBefore(P), JoinOf(P), RankOf(P))
  BY ExpressionIsRanked
<1>10. \A j \in 2..n : /\ DepthBefore(P)[j] = Depth(P, j - 1)
                       /\ JoinOf(P)[j] = P[j].Join
  BY DEF DepthBefore, JoinOf
<1>11. ASSUME NEW j \in lo + 1..hi PROVE RankOf(P)[s] <= RankOf(P)[j]
  <2>1. s \in 2..n /\ j \in 2..n
    BY <1>2, <1>8
  <2>2. /\ P[s].Join = "and" => RankOf(P)[s] = 2 * Depth(P, s - 1) + 2
        /\ P[s].Join = "or" => RankOf(P)[s] = 2 * Depth(P, s - 1) + 1
        /\ P[j].Join = "and" => RankOf(P)[j] = 2 * Depth(P, j - 1) + 2
        /\ P[j].Join = "or" => RankOf(P)[j] = 2 * Depth(P, j - 1) + 1
    BY <2>1, <1>9, <1>10 DEF Ranked
  <2>3. P[s].Join \in {"and", "or"} /\ P[j].Join \in {"and", "or"}
    <3>1. JoinOf(P)[s] \in Joins /\ JoinOf(P)[j] \in Joins
      BY <2>1, <1>9 DEF Ranked
    <3> QED BY <3>1, <2>1, <1>10 DEF Joins
  <2>4. Depth(P, s - 1) \in Nat /\ Depth(P, j - 1) \in Nat /\ Depth(P, s - 1) <= Depth(P, j - 1)
    BY <1>3, <1>8
  <2> DEFINE a == Depth(P, s - 1)
             b == Depth(P, j - 1)
  <2>5. P[s].Join = "and" /\ P[j].Join = "or" => a # b
    <3> SUFFICES ASSUME P[s].Join = "and", P[j].Join = "or", a = b PROVE FALSE
      OBVIOUS
    <3>1. j \in tops
      BY <1>8
    <3>2. j \in ors
      BY <3>1
    <3>3. P[s].Join = "or"
      BY <3>2, <1>7
    <3> QED BY <3>3
  <2>6. a \in Nat /\ b \in Nat /\ a <= b
    BY <2>4
  <2>7. /\ P[s].Join = "and" => RankOf(P)[s] = 2 * a + 2
        /\ P[s].Join = "or" => RankOf(P)[s] = 2 * a + 1
        /\ P[j].Join = "and" => RankOf(P)[j] = 2 * b + 2
        /\ P[j].Join = "or" => RankOf(P)[j] = 2 * b + 1
    BY <2>2
  <2> HIDE DEF a, b, ors, tops, s
  <2>8. CASE P[s].Join = "or" /\ P[j].Join = "or"
    BY <2>8, <2>6, <2>7
  <2>9. CASE P[s].Join = "or" /\ P[j].Join = "and"
    BY <2>9, <2>6, <2>7
  <2>10. CASE P[s].Join = "and" /\ P[j].Join = "and"
    BY <2>10, <2>6, <2>7
  <2>11. CASE P[s].Join = "and" /\ P[j].Join = "or"
    BY <2>11, <2>5, <2>6, <2>7
  <2> QED BY <2>3, <2>8, <2>9, <2>10, <2>11
<1> QED BY <1>8, <1>11 DEF Lowest

-----------------------------------------------------------------------------
\* The meaning of a part from those of the parts it splits into.
MeaningFrom(P, H, value, r) ==
  LET split == Split(P, r[1], r[2])
      a == value[<<r[1], split - 1>>]
      b == value[<<split, r[2]>>]
  IN IF r[1] = r[2] THEN H[r[1]]
     ELSE IF P[split].Join = "or" THEN a \/ b ELSE a /\ b

PartsOf(n, width) == {r \in Parts(n) : r[2] - r[1] <= width}
Means(P, H, width, value) == value = [r \in PartsOf(Len(P), width) |-> MeaningFrom(P, H, value, r)]
MeansAll(P, H, width) == \E value : Means(P, H, width, value)

\* Meanings that agree on narrower parts give a part the same meaning.
LEMMA NarrowerDecide ==
  ASSUME NEW P, NEW H, Evaluable(P), NEW width \in Nat, NEW f, NEW g,
         \A r \in PartsOf(Len(P), width) : g[r] = f[r],
         NEW r \in PartsOf(Len(P), width + 1)
  PROVE  MeaningFrom(P, H, g, r) = MeaningFrom(P, H, f, r)
<1> DEFINE n == Len(P)
           lo == r[1]
           hi == r[2]
           s == Split(P, lo, hi)
<1>1. n \in Nat \ {0}
  BY DEF Evaluable
<1>2. lo \in 1..n /\ hi \in 1..n /\ lo <= hi /\ hi - lo <= width + 1
  BY DEF PartsOf, Parts
<1>3. CASE lo = hi
  BY <1>3 DEF MeaningFrom
<1>4. CASE lo < hi
  <2>1. s \in lo + 1..hi
    BY <1>2, <1>4, SplitIsLowest
  <2>2. <<lo, s - 1>> \in PartsOf(n, width)
    <3>1. lo \in 1..n /\ s - 1 \in 1..n /\ lo <= s - 1 /\ (s - 1) - lo <= width
      BY ONLY <1>1, <1>2, <2>1, width \in Nat
    <3> HIDE DEF lo, s
    <3> QED BY <3>1 DEF PartsOf, Parts
  <2>3. <<s, hi>> \in PartsOf(n, width)
    <3>1. s \in 1..n /\ hi \in 1..n /\ s <= hi /\ hi - s <= width
      BY ONLY <1>1, <1>2, <2>1, width \in Nat
    <3> HIDE DEF hi, s
    <3> QED BY <3>1 DEF PartsOf, Parts
  <2>4. g[<<lo, s - 1>>] = f[<<lo, s - 1>>] /\ g[<<s, hi>>] = f[<<s, hi>>]
    BY <2>2, <2>3
  <2> QED BY <2>4 DEF MeaningFrom
<1> QED BY <1>1, <1>2, <1>3, <1>4

\* The meanings of the parts of one more width can be given.
LEMMA MeansFurther ==
  ASSUME NEW P, NEW H, Evaluable(P), NEW width \in Nat, MeansAll(P, H, width)
  PROVE  MeansAll(P, H, width + 1)
<1> DEFINE n == Len(P)
<1>1. PICK f : Means(P, H, width, f)
  BY DEF MeansAll
<1>2. f = [r \in PartsOf(n, width) |-> MeaningFrom(P, H, f, r)]
  BY <1>1 DEF Means
<1> DEFINE g == [r \in PartsOf(n, width + 1) |-> MeaningFrom(P, H, f, r)]
<1>3. \A r \in PartsOf(n, width) : r \in PartsOf(n, width + 1)
  <2>1. \A r \in PartsOf(n, width) : r \in Parts(n) /\ r[2] - r[1] <= width
    BY DEF PartsOf
  <2>2. n \in Nat
    BY DEF Evaluable
  <2>3. \A r \in Parts(n) : r[1] \in Int /\ r[2] \in Int
    BY <2>2 DEF Parts
  <2>4. \A r \in Parts(n) : r[2] - r[1] <= width => r[2] - r[1] <= width + 1
    BY <2>3
  <2> QED BY <2>1, <2>4 DEF PartsOf
<1>4. \A r \in PartsOf(n, width) : g[r] = f[r]
  BY <1>2, <1>3
<1>5. g = [r \in PartsOf(n, width + 1) |-> g[r]]
  OBVIOUS
<1>6. \A r \in PartsOf(n, width + 1) : g[r] = MeaningFrom(P, H, f, r)
  OBVIOUS
<1> HIDE DEF g
<1>7. \A r \in PartsOf(n, width + 1) : MeaningFrom(P, H, g, r) = MeaningFrom(P, H, f, r)
  BY <1>4, NarrowerDecide
<1>8. g = [r \in PartsOf(n, width + 1) |-> MeaningFrom(P, H, g, r)]
  BY <1>5, <1>6, <1>7
<1> QED BY <1>8 DEF MeansAll, Means

\* The meanings of the parts of any width can be given.
LEMMA MeansAny ==
  ASSUME NEW P, NEW H, Evaluable(P)
  PROVE  \A width \in Nat : MeansAll(P, H, width)
<1> DEFINE T == {t \in Nat : ~MeansAll(P, H, t)}
<1> SUFFICES ASSUME T # {} PROVE FALSE
  OBVIOUS
<1>1. PICK t \in T : \A u \in T : t <= u
  <2>1. T \in SUBSET Nat
    OBVIOUS
  <2> HIDE DEF T
  <2> QED BY <2>1, LeastOf
<1>2. MeansAll(P, H, 0)
  <2> DEFINE g == [r \in PartsOf(Len(P), 0) |-> H[r[1]]]
  <2>1. \A r \in PartsOf(Len(P), 0) : r[1] = r[2]
    <3>1. Len(P) \in Nat
      BY DEF Evaluable
    <3> QED BY <3>1 DEF PartsOf, Parts
  <2>2. \A r \in PartsOf(Len(P), 0) : MeaningFrom(P, H, g, r) = H[r[1]]
    BY <2>1 DEF MeaningFrom
  <2>3. g = [r \in PartsOf(Len(P), 0) |-> MeaningFrom(P, H, g, r)]
    BY <2>2
  <2> HIDE DEF g
  <2> QED BY <2>3 DEF MeansAll, Means
<1>3. t \in Nat \ {0} /\ t - 1 \in Nat /\ ~(t <= t - 1)
  BY <1>1, <1>2
<1>4. MeansAll(P, H, t - 1)
  BY <1>1, <1>3
<1>5. MeansAll(P, H, (t - 1) + 1)
  BY <1>3, <1>4, MeansFurther
<1> QED BY <1>1, <1>3, <1>5

\* What Meanings computes.
LEMMA MeaningsAre ==
  ASSUME NEW P, NEW H, Evaluable(P)
  PROVE  Meanings(P, H) = [r \in Parts(Len(P)) |-> MeaningFrom(P, H, Meanings(P, H), r)]
<1> DEFINE n == Len(P)
           Value(f) == f = [r \in Parts(n) |-> MeaningFrom(P, H, f, r)]
<1>1. n \in Nat
  BY DEF Evaluable
<1>2. PartsOf(n, n) = Parts(n)
  <2>1. \A r \in Parts(n) : r[2] - r[1] <= n
    BY <1>1 DEF Parts
  <2> QED BY <2>1 DEF PartsOf
<1>3. MeansAll(P, H, n)
  BY <1>1, MeansAny
<1>4. \E f : Value(f)
  BY <1>2, <1>3 DEF MeansAll, Means
<1>5. Meanings(P, H) = CHOOSE f : Value(f)
  BY DEF Meanings, MeaningFrom, Parts
<1> DEFINE g == CHOOSE f : Value(f)
<1>6. Value(g)
  <2> HIDE DEF Value
  <2> QED BY <1>4
<1>7. g = Meanings(P, H)
  BY <1>5
<1> HIDE DEF g
<1>8. g = [r \in Parts(n) |-> MeaningFrom(P, H, g, r)]
  BY <1>6
<1> QED BY <1>7, <1>8

\* A part is true or false, and that of its split.
LEMMA MeaningsSplit ==
  ASSUME NEW P, Evaluable(P), NEW H \in [1..Len(P) -> BOOLEAN]
  PROVE  SplitsSomewhere(Len(P), JoinOf(P), RankOf(P), Meanings(P, H))
<1> DEFINE n == Len(P)
           V == Meanings(P, H)
           Bool(width) == \A r \in PartsOf(n, width) : V[r] \in BOOLEAN
           T == {w \in Nat : ~Bool(w)}
<1>1. n \in Nat \ {0}
  BY DEF Evaluable
<1>2. V = [r \in Parts(n) |-> MeaningFrom(P, H, V, r)]
  BY MeaningsAre
<1> HIDE DEF V
<1>3. \A r \in Parts(n) : V[r] = MeaningFrom(P, H, V, r)
  BY <1>2
<1>4. \A lo, hi \in 1..n : lo <= hi => <<lo, hi>> \in Parts(n)
  BY DEF Parts
<1>5. \A lo \in 1..n : V[<<lo, lo>>] = H[lo]
  <2> TAKE lo \in 1..n
  <2>1. <<lo, lo>> \in Parts(n)
    BY <1>1, <1>4
  <2>2. V[<<lo, lo>>] = MeaningFrom(P, H, V, <<lo, lo>>)
    BY <2>1, <1>3
  <2> QED BY <2>2 DEF MeaningFrom
<1>6. ASSUME NEW lo \in 1..n, NEW hi \in 1..n, lo < hi
      PROVE  /\ Split(P, lo, hi) \in lo + 1..hi
             /\ V[<<lo, hi>>] = IF P[Split(P, lo, hi)].Join = "or"
                                THEN V[<<lo, Split(P, lo, hi) - 1>>] \/ V[<<Split(P, lo, hi), hi>>]
                                ELSE V[<<lo, Split(P, lo, hi) - 1>>] /\ V[<<Split(P, lo, hi), hi>>]
  <2>1. Split(P, lo, hi) \in lo + 1..hi
    BY <1>6, SplitIsLowest
  <2>2. V[<<lo, hi>>] = MeaningFrom(P, H, V, <<lo, hi>>)
    BY <1>3, <1>4, <1>6
  <2>3. lo # hi
    BY <1>6
  <2> QED BY <2>1, <2>2, <2>3 DEF MeaningFrom
<1>7. T = {}
  <2> SUFFICES ASSUME T # {} PROVE FALSE
    OBVIOUS
  <2>1. PICK t \in T : \A u \in T : t <= u
    <3>1. T \in SUBSET Nat
      OBVIOUS
    <3> HIDE DEF T
    <3> QED BY <3>1, LeastOf
  <2>2. t \in Nat /\ ~Bool(t)
    OBVIOUS
  <2>3. t # 0 => Bool(t - 1)
    <3>1. t # 0 => t - 1 \in Nat /\ ~(t <= t - 1)
      BY <2>2
    <3> HIDE DEF Bool
    <3> QED BY <3>1, <2>1
  <2>4. PICK r \in PartsOf(n, t) : V[r] \notin BOOLEAN
    BY <2>2
  <2> DEFINE lo == r[1]
             hi == r[2]
             s == Split(P, lo, hi)
  <2>5. lo \in 1..n /\ hi \in 1..n /\ lo <= hi /\ hi - lo <= t /\ r = <<lo, hi>>
    BY DEF PartsOf, Parts
  <2> HIDE DEF lo, hi
  <2>6. CASE lo = hi
    BY <2>4, <2>5, <2>6, <1>5
  <2>7. CASE lo < hi
    <3>1. s \in lo + 1..hi
      BY <1>6, <2>5, <2>7
    <3>2. V[<<lo, hi>>] = IF P[s].Join = "or" THEN V[<<lo, s - 1>>] \/ V[<<s, hi>>]
                                              ELSE V[<<lo, s - 1>>] /\ V[<<s, hi>>]
      BY <1>6, <2>5, <2>7
    <3> HIDE DEF s
    <3> QED BY <3>2, <2>4, <2>5
  <2> QED BY <2>5, <2>6, <2>7
<1>8. \A r \in Parts(n) : V[r] \in BOOLEAN
  <2> TAKE r \in Parts(n)
  <2>1. r[2] - r[1] <= n
    BY <1>1 DEF Parts
  <2>2. r \in PartsOf(n, n)
    BY <2>1 DEF PartsOf
  <2>3. Bool(n)
    <3> HIDE DEF Bool
    <3> QED BY <1>1, <1>7
  <2> QED BY <2>2, <2>3
<1>9. V \in [Parts(n) -> BOOLEAN]
  BY <1>2, <1>8
<1>10. ASSUME NEW lo \in 1..n, NEW hi \in 1..n, lo < hi
       PROVE  \E i \in 2..n : Lowest(RankOf(P), lo, hi, i) /\ SplitAt(JoinOf(P), V, lo, hi, i)
  <2> DEFINE s == Split(P, lo, hi)
  <2>1. s \in lo + 1..hi /\ Lowest(RankOf(P), lo, hi, s)
    BY <1>10, SplitIsLowest
  <2>2. V[<<lo, hi>>] = IF P[s].Join = "or" THEN V[<<lo, s - 1>>] \/ V[<<s, hi>>]
                                            ELSE V[<<lo, s - 1>>] /\ V[<<s, hi>>]
    BY <1>6, <1>10
  <2> HIDE DEF s
  <2>3. s \in 2..n
    BY <2>1, <1>1
  <2>4. JoinOf(P)[s] = P[s].Join /\ JoinOf(P)[s] \in {"and", "or"}
    <3>1. JoinOf(P) \in [2..n -> Joins]
      BY ExpressionIsRanked DEF Ranked
    <3> QED BY <3>1, <2>3 DEF JoinOf, Joins
  <2>5. SplitAt(JoinOf(P), V, lo, hi, s)
    BY <2>2, <2>4 DEF SplitAt, Combined
  <2> QED BY <2>1, <2>3, <2>5
<1> QED BY <1>9, <1>10 DEF SplitsSomewhere, V

-----------------------------------------------------------------------------
\* Reading a predicate keeps the stacks in order.
ReadTo(P, H, s, i) ==
  At(Len(P), DepthBefore(P), JoinOf(P), RankOf(P), Meanings(P, H), s, i, Depth(P, i))

(* One predicate more leaves the stacks as they are after it. *)
LEMMA PredicateRead ==
  ASSUME NEW P, Evaluable(P), NEW H \in [1..Len(P) -> BOOLEAN], NEW i \in 1..Len(P),
         NEW s, i = 1 => s = Empty, i > 1 => ReadTo(P, H, s, i - 1)
  PROVE  ReadTo(P, H, ReadPredicate(s, P, H, i), i)
<1> DEFINE n == Len(P)
           D == DepthBefore(P)
           J == JoinOf(P)
           R == RankOf(P)
           V == Meanings(P, H)
           opens == P[i].OpenGroups
           closes == P[i].CloseGroups
           before == Depth(P, i - 1)
           hit == H[i]
           joined == IF i = 1 THEN s ELSE PushJoin(s, P[i].Join)
           t == PushValue(joined, opens, hit)
<1>1. n \in Nat \ {0} /\ DOMAIN P = 1..n
  BY DEF Evaluable
<1>2. Ranked(n, D, J, R) /\ SplitsSomewhere(n, J, R, V)
  BY ExpressionIsRanked, MeaningsSplit
<1>3. ReadPredicate(s, P, H, i) = CloseGroups(t, closes)
  BY DEF ReadPredicate
<1>4. opens \in Nat /\ closes \in Nat
  BY <1>1, MaxGroupsAssumption DEF Evaluable, Accepted
<1>5. before \in Nat /\ Depth(P, i) \in Nat /\ Depth(P, i) = before + opens - closes
  <2>1. i - 1 \in 0..n /\ i \in 0..n
    BY <1>1
  <2>2. Depth(P, i) = Depth(P, i - 1) + P[i].OpenGroups - P[i].CloseGroups
    BY <1>1, DepthIsCounted
  <2>3. Depth(P, i - 1) \in Nat /\ Depth(P, i) \in Nat
    BY <2>1, DepthsAreNaturals
  <2> QED BY <2>2, <2>3
<1>6. hit = V[<<i, i>>]
  <2>1. <<i, i>> \in Parts(n)
    BY <1>1 DEF Parts
  <2>2. V = [r \in Parts(n) |-> MeaningFrom(P, H, V, r)]
    BY MeaningsAre
  <2>3. V[<<i, i>>] = MeaningFrom(P, H, V, <<i, i>>)
    <3> HIDE DEF V
    <3> QED BY <2>1, <2>2
  <2> QED BY <2>3 DEF MeaningFrom
<1>7. At(n, D, J, R, V, t, i, before + opens)
  <2>1. CASE i = 1
    <3>1. joined = Empty /\ before = 0 /\ before + opens = opens
      BY <2>1, <1>1, <1>4, DepthIsCounted
    <3>2. t = PushValue(Empty, opens, hit)
      BY <3>1
    <3>3. hit = V[<<1, 1>>]
      BY <1>6, <2>1
    <3> HIDE DEF t, opens, hit, V, R, J, D, n
    <3>4. At(n, D, J, R, V, PushValue(Empty, opens, hit), 1, opens)
      BY ONLY <3>3, <1>2, <1>4, FirstCut
    <3> QED BY <3>1, <3>2, <3>4, <2>1
  <2>2. CASE i > 1
    <3>1. i \in 2..n /\ D[i] = before /\ J[i] = P[i].Join
      BY <2>2, <1>1 DEF DepthBefore, JoinOf
    <3>2. t = PushValue(PushJoin(s, J[i]), opens, hit)
      BY <3>1, <2>2
    <3> DEFINE e == i - 1
    <3>3. At(n, D, J, R, V, s, e, before) /\ i = e + 1
      BY <2>2, <1>1 DEF ReadTo
    <3> HIDE DEF t, opens, hit, V, R, J, D, n, before, e
    <3>4. At(n, D, J, R, V, PushValue(PushJoin(s, J[i]), opens, hit), i, before + opens)
      BY ONLY <3>1, <3>3, <1>2, <1>4, <1>6, JoinPushed
    <3> QED BY <3>2, <3>4
  <2> QED BY <2>1, <2>2
<1>8. At(n, D, J, R, V, CloseGroups(t, closes), i, (before + opens) - closes)
  <2> DEFINE d == before + opens
  <2>1. closes <= d /\ d \in Nat
    BY <1>4, <1>5
  <2>2. At(n, D, J, R, V, t, i, d)
    BY <1>7
  <2> HIDE DEF t, V, R, J, D, n, d, closes
  <2>3. At(n, D, J, R, V, CloseGroups(t, closes), i, d - closes)
    BY ONLY <2>1, <2>2, <1>2, <1>4, GroupsClose
  <2> QED BY <2>3 DEF d
<1>9. (before + opens) - closes = Depth(P, i)
  BY <1>4, <1>5
<1> QED BY <1>3, <1>8, <1>9 DEF ReadTo

\* The stack machine computes what an accepted expression means, for every
\* number of predicates, every nesting and every outcome of the patterns.
LEMMA EvaluationIsMeaning ==
  ASSUME NEW P, Evaluable(P), NEW H \in [1..Len(P) -> BOOLEAN]
  PROVE  evaluateSearchExpression(P, H) = Meaning(P, H)
<1> DEFINE n == Len(P)
           V == Meanings(P, H)
<1>1. n \in Nat \ {0}
  BY DEF Evaluable
<1>2. PICK after : /\ after[0] = Empty
                   /\ \A i \in 1..n : after[i] = ReadPredicate(after[i - 1], P, H, i)
                   /\ evaluateSearchExpression(P, H) =
                        (/\ after[n].ok
                         /\ Innermost(after[n]) = 0
                         /\ ApplyDownTo(after[n], 0).values = <<TRUE>>)
  BY <1>1, PredicatesAreRead
<1> DEFINE T == {i \in 1..n : ~ReadTo(P, H, after[i], i)}
<1>3. T = {}
  <2> SUFFICES ASSUME T # {} PROVE FALSE
    OBVIOUS
  <2>1. PICK t \in T : \A u \in T : t <= u
    <3>1. T \in SUBSET Nat
      BY <1>1
    <3> HIDE DEF T
    <3> QED BY <3>1, LeastOf
  <2>2. t \in 1..n /\ ~ReadTo(P, H, after[t], t)
    OBVIOUS
  <2> DEFINE s == after[t - 1]
  <2>3. t = 1 => s = Empty
    BY <1>2
  <2>4. t > 1 => ReadTo(P, H, s, t - 1)
    <3>1. t > 1 => t - 1 \in 1..n /\ ~(t <= t - 1)
      BY <1>1, <2>2
    <3> QED BY <3>1, <2>1
  <2>5. after[t] = ReadPredicate(s, P, H, t)
    BY <1>2, <2>2
  <2> HIDE DEF s
  <2>6. ReadTo(P, H, ReadPredicate(s, P, H, t), t)
    BY <2>2, <2>3, <2>4, PredicateRead
  <2> QED BY <2>2, <2>5, <2>6
<1> DEFINE s == after[n]
<1>4. ReadTo(P, H, s, n)
  BY <1>1, <1>3
<1>5. Depth(P, n) = 0
  BY DepthsAreNaturals
<1>6. s.ok /\ Innermost(s) = 0 /\ ApplyDownTo(s, 0).values = <<V[<<1, n>>]>>
  <2> DEFINE D == DepthBefore(P)
             J == JoinOf(P)
             R == RankOf(P)
  <2>1. Ranked(n, D, J, R) /\ SplitsSomewhere(n, J, R, V)
    BY ExpressionIsRanked, MeaningsSplit
  <2>2. At(n, D, J, R, V, s, n, 0)
    BY <1>4, <1>5 DEF ReadTo
  <2> HIDE DEF D, J, R, V, n, s
  <2> QED BY ONLY <2>1, <2>2, EndIsMeaning
<1>7. V[<<1, n>>] \in BOOLEAN
  <2>1. <<1, n>> \in Parts(n)
    BY <1>1 DEF Parts
  <2>2. V \in [Parts(n) -> BOOLEAN]
    BY MeaningsSplit DEF SplitsSomewhere
  <2> QED BY <2>1, <2>2
<1>8. Meaning(P, H) = V[<<1, n>>]
  BY DEF Meaning
<1> HIDE DEF V, T
<1>9. (<<V[<<1, n>>]>> = <<TRUE>>) = V[<<1, n>>]
  BY <1>7
<1> QED BY <1>2, <1>6, <1>8, <1>9

-----------------------------------------------------------------------------
(* An understood search: its predicates are a sequence, and past its opening *)
(* they were accepted. *)
Understood ==
  /\ request.predicates \in Seq(ToSet(request.predicates))
  /\ stage \notin {"opening", "refused"} => Valid

(* A search is understood before it is opened. *)
LEMMA InitUnderstood ==
  ASSUME HistoryInit, request.method = "search.run"
  PROVE  Understood
<1>1. request.predicates \in Seq(ToSet(request.predicates))
  BY SearchAssumption DEF HistoryInit
<1>2. stage = "opening"
  BY DEF HistoryInit
<1> QED
  BY <1>1, <1>2 DEF Understood

(* Begin alone looks at the request, and nothing changes it. *)
LEMMA NextUnderstood ==
  ASSUME Understood, [SearchNext]_<<environmentVars, stage, searchVars>>
  PROVE  Understood'
<1>1. UNCHANGED request
  BY DEF SearchNext, RefsMove, Cancel, environmentVars
<1>2. predicates' = predicates
  BY <1>1 DEF predicates
<1>3. Valid' = Valid
  BY <1>1, <1>2 DEF Valid, Uses
<1>4. stage' \notin {"opening", "refused"} => Valid
  <2>1. CASE Begin
    BY <2>1 DEF Begin
  <2>2. CASE List \/ ListTraversal \/ ReadBatch \/ Visit \/ Finish \/ Fail \/ Deliver
    <3>1. stage \notin {"opening", "refused"}
      BY <2>2 DEF List, ListTraversal, ReadBatch, Visit, Finish, Fail, Deliver
    <3> QED
      BY <3>1 DEF Understood
  <2>3. CASE UNCHANGED stage
    BY <2>3 DEF Understood
  <2> QED
    BY <2>1, <2>2, <2>3 DEF SearchNext, SearchStep, RefsMove, Cancel
<1> QED
  BY <1>1, <1>3, <1>4 DEF Understood

(* The predicates of an understood search are an expression that is accepted. *)
LEMMA PredicatesAreEvaluable ==
  ASSUME Understood, stage \notin {"opening", "refused"}
  PROVE  Evaluable(predicates)
<1>1. Valid
  BY DEF Understood
<1>2. request.predicates \in Seq(ToSet(request.predicates))
  BY DEF Understood
<1>3. DOMAIN request.predicates = 1..Len(request.predicates) /\ Len(request.predicates) \in Nat
  BY <1>2
<1>4. DOMAIN predicates = 1..Len(request.predicates)
  BY <1>3 DEF predicates, Normalized
<1>5. Len(predicates) = Len(request.predicates)
  BY <1>3 DEF predicates, Normalized
<1>6. Accepted(predicates) /\ Len(request.predicates) \in 1..MaxPatterns
  BY <1>1 DEF Valid
<1>7. Len(predicates) \in Nat \ {0}
  BY <1>6, <1>3, <1>5
<1>8. DOMAIN predicates = 1..Len(predicates)
  BY <1>4, <1>5
<1> QED
  BY <1>6, <1>7, <1>8 DEF Evaluable

(* A search that is not refused evaluates an expression as it is written. *)
LEMMA UnderstoodSuffices ==
  ASSUME Understood
  PROVE  EvaluatesAsWritten
<1> SUFFICES ASSUME stage = "listing", NEW hits \in [DOMAIN predicates -> BOOLEAN]
             PROVE  evaluateSearchExpression(predicates, hits) = Meaning(predicates, hits)
  BY DEF EvaluatesAsWritten
<1>1. Evaluable(predicates)
  BY PredicatesAreEvaluable
<1>2. hits \in [1..Len(predicates) -> BOOLEAN]
  BY <1>1 DEF Evaluable
<1> QED
  BY <1>1, <1>2, EvaluationIsMeaning

(* Whatever the patterns of a search, the stack machine gives the value that its
   parentheses and the precedence of "and" over "or" say, for every outcome. *)
THEOREM SearchesEvaluateAsWritten == SearchSpec => []EvaluatesAsWritten
<1>1. HistoryInit /\ request.method = "search.run" /\ SearchInit => Understood
  BY InitUnderstood
<1>2. Understood /\ [SearchNext]_<<environmentVars, stage, searchVars>> => Understood'
  BY NextUnderstood
<1>3. Understood => EvaluatesAsWritten
  BY UnderstoodSuffices
<1> QED
  BY <1>1, <1>2, <1>3, PTL DEF SearchSpec

-----------------------------------------------------------------------------
(* What an answer tells.                                                    *)

\* An expression is false when none of its patterns matches.
LEMMA MeaningNeedsAMatch ==
  ASSUME NEW P, Evaluable(P), NEW H \in [1..Len(P) -> BOOLEAN], Meaning(P, H)
  PROVE  \E i \in 1..Len(P) : H[i]
<1> DEFINE n == Len(P)
           V == Meanings(P, H)
           None0(width) == \A r \in PartsOf(n, width) : ~V[r]
           T == {w \in Nat : ~None0(w)}
<1> SUFFICES ASSUME \A i \in 1..n : ~H[i] PROVE FALSE
  OBVIOUS
<1>1. n \in Nat \ {0}
  BY DEF Evaluable
<1>2. V \in [Parts(n) -> BOOLEAN]
  BY MeaningsSplit DEF SplitsSomewhere
<1>3. \A lo \in 1..n : V[<<lo, lo>>] = H[lo]
  <2> TAKE lo \in 1..n
  <2>1. <<lo, lo>> \in Parts(n)
    BY <1>1 DEF Parts
  <2>2. V = [r \in Parts(n) |-> MeaningFrom(P, H, V, r)]
    BY MeaningsAre
  <2>3. V[<<lo, lo>>] = MeaningFrom(P, H, V, <<lo, lo>>)
    <3> HIDE DEF V
    <3> QED BY <2>1, <2>2
  <2> QED BY <2>3 DEF MeaningFrom
<1>4. \A lo, hi \in 1..n : lo < hi =>
        \E i \in lo + 1..hi : V[<<lo, hi>>] = Combined(JoinOf(P)[i], V[<<lo, i - 1>>], V[<<i, hi>>])
  <2>1. SplitsSomewhere(n, JoinOf(P), RankOf(P), V)
    BY MeaningsSplit
  <2> HIDE DEF V, n
  <2> QED BY <2>1 DEF SplitsSomewhere, Lowest, SplitAt
<1> HIDE DEF V
<1>5. T = {}
  <2> SUFFICES ASSUME T # {} PROVE FALSE
    OBVIOUS
  <2>1. PICK t \in T : \A u \in T : t <= u
    <3>1. T \in SUBSET Nat
      OBVIOUS
    <3> HIDE DEF T
    <3> QED BY <3>1, LeastOf
  <2>2. t \in Nat /\ ~None0(t)
    OBVIOUS
  <2>3. t # 0 => t - 1 \in Nat /\ None0(t - 1)
    <3>1. t # 0 => t - 1 \in Nat /\ ~(t <= t - 1)
      BY <2>2
    <3> HIDE DEF None0
    <3> QED BY <3>1, <2>1
  <2>4. PICK r \in PartsOf(n, t) : V[r]
    BY <2>2
  <2> DEFINE lo == r[1]
             hi == r[2]
  <2>5. lo \in 1..n /\ hi \in 1..n /\ lo <= hi /\ hi - lo <= t /\ r = <<lo, hi>>
    BY DEF PartsOf, Parts
  <2> HIDE DEF lo, hi
  <2>6. CASE lo = hi
    BY <2>4, <2>5, <2>6, <1>3
  <2>7. CASE lo < hi
    <3>1. PICK i \in lo + 1..hi :
            V[<<lo, hi>>] = Combined(JoinOf(P)[i], V[<<lo, i - 1>>], V[<<i, hi>>])
      BY <1>4, <2>5, <2>7
    <3>2. t # 0
      BY <2>5, <2>7
    <3>3. <<lo, i - 1>> \in PartsOf(n, t - 1)
      <4>1. lo \in 1..n /\ i - 1 \in 1..n /\ lo <= i - 1 /\ (i - 1) - lo <= t - 1
        BY <1>1, <2>2, <2>5
      <4> HIDE DEF n
      <4> QED BY <4>1 DEF PartsOf, Parts
    <3>4. <<i, hi>> \in PartsOf(n, t - 1)
      <4>1. i \in 1..n /\ hi \in 1..n /\ i <= hi /\ hi - i <= t - 1
        BY <1>1, <2>2, <2>5
      <4> HIDE DEF n
      <4> QED BY <4>1 DEF PartsOf, Parts
    <3>5. ~V[<<lo, i - 1>>] /\ ~V[<<i, hi>>]
      BY <2>3, <3>2, <3>3, <3>4
    <3> QED BY <2>4, <2>5, <3>1, <3>5 DEF Combined
  <2> QED BY <1>1, <2>5, <2>6, <2>7
<1>6. <<1, n>> \in PartsOf(n, n)
  BY <1>1 DEF PartsOf, Parts
<1>7. None0(n)
  <2> HIDE DEF None0
  <2> QED BY <1>1, <1>5
<1>8. ~V[<<1, n>>]
  BY <1>6, <1>7
<1> QED BY <1>8 DEF Meaning, V

\* A change that follows a set of others: it names the path of the pattern, or
\* the old name of a file that one of them renames.
Followers(value, S) ==
  {n \in Changes : \/ value \in Names(ChangeAt(n))
                   \/ \E m \in Changes : /\ After(m, n)
                                         /\ IsRename(ChangeAt(m))
                                         /\ ChangeAt(m).old \in Names(ChangeAt(n))
                                         /\ m \in S}

Lineage(value) == {n \in Changes : \A S \in SUBSET Changes : Followers(value, S) \subseteq S => n \in S}

\* The lineage of a path is a set that its followers make up.
LEMMA LineageIsFixed ==
  ASSUME NEW value
  PROVE  Lineage(value) = Followers(value, Lineage(value))
<1> DEFINE L == Lineage(value)
           F(S) == Followers(value, S)
<1>1. ASSUME NEW S, NEW U, S \subseteq U
      PROVE  F(S) \subseteq F(U)
  BY <1>1 DEF Followers
<1>2. \A S : F(S) \subseteq Changes
  BY DEF Followers
<1>3. L \subseteq Changes
  BY DEF Lineage
<1>4. \A S \in SUBSET Changes : F(S) \subseteq S => L \subseteq S
  BY DEF Lineage
<1>5. \A n \in Changes : (\A S \in SUBSET Changes : F(S) \subseteq S => n \in S) => n \in L
  BY DEF Lineage
<1> HIDE DEF F, L
<1>6. F(L) \subseteq L
  <2> SUFFICES ASSUME NEW n \in F(L), NEW S \in SUBSET Changes, F(S) \subseteq S
               PROVE  n \in S
    BY <1>2, <1>5
  <2>1. F(L) \subseteq F(S)
    BY <1>1, <1>4
  <2> QED BY <2>1
<1>7. F(F(L)) \subseteq F(L)
  BY <1>1, <1>6
<1>8. L \subseteq F(L)
  BY <1>2, <1>4, <1>7
<1> QED BY <1>6, <1>8 DEF L, F

\* What InLineage computes.
LEMMA LineageIs ==
  ASSUME NEW value
  PROVE  \A n \in Changes : InLineage(value)[n] =
           (\/ value \in Names(ChangeAt(n))
            \/ \E m \in Changes : /\ After(m, n)
                                  /\ IsRename(ChangeAt(m))
                                  /\ ChangeAt(m).old \in Names(ChangeAt(n))
                                  /\ InLineage(value)[m])
<1> DEFINE Body(f, n) == \/ value \in Names(ChangeAt(n))
                         \/ \E m \in Changes : /\ After(m, n)
                                               /\ IsRename(ChangeAt(m))
                                               /\ ChangeAt(m).old \in Names(ChangeAt(n))
                                               /\ f[m]
           Fixes(f) == f = [n \in Changes |-> Body(f, n)]
           L == Lineage(value)
           g == [n \in Changes |-> n \in L]
           h == CHOOSE f : Fixes(f)
<1>1. Fixes(g)
  <2>1. \A m \in Changes : g[m] = (m \in L)
    OBVIOUS
  <2>2. ASSUME NEW n \in Changes
        PROVE  g[n] = Body(g, n)
    <3>1. L = Followers(value, L)
      BY LineageIsFixed
    <3>2. n \in Followers(value, L) <=> (\/ value \in Names(ChangeAt(n))
                                        \/ \E m \in Changes : /\ After(m, n)
                                                              /\ IsRename(ChangeAt(m))
                                                              /\ ChangeAt(m).old \in Names(ChangeAt(n))
                                                              /\ m \in L)
      <4> HIDE DEF L
      <4> QED BY DEF Followers
    <3>3. n \in Followers(value, L) <=> Body(g, n)
      <4> HIDE DEF g, L
      <4> QED BY <2>1, <3>2
    <3>4. g[n] <=> Body(g, n)
      <4> HIDE DEF g, L, Body
      <4> QED BY <2>1, <3>1, <3>3
    <3>5. g[n] \in BOOLEAN /\ Body(g, n) \in BOOLEAN
      OBVIOUS
    <3> HIDE DEF g, L, Body
    <3> QED BY <3>4, <3>5
  <2>3. g = [n \in Changes |-> g[n]]
    OBVIOUS
  <2> HIDE DEF g, Body
  <2> QED BY <2>2, <2>3
<1>2. Fixes(h)
  <2> HIDE DEF Fixes, g
  <2> QED BY <1>1
<1>3. InLineage(value) = h
  BY DEF InLineage
<1> HIDE DEF h
<1>4. h = [n \in Changes |-> Body(h, n)]
  BY <1>2
<1>5. \A n \in Changes : h[n] = Body(h, n)
  <2> HIDE DEF Body
  <2> QED BY <1>4
<1> QED BY <1>3, <1>5

-----------------------------------------------------------------------------
(* The paths that are tracked along the walk.                               *)

\* The commits are a sequence, and so are the changes of each.
Recorded ==
  /\ history \in Seq(ToSet(history))
  /\ \A p \in Positions : history[p].changes \in Seq(ToSet(history[p].changes))

\* The old names of the renames among some changes that a path goes through.
Olds(value, D) ==
  {ChangeAt(n).old : n \in {m \in D : IsRename(ChangeAt(m)) /\ InLineage(value)[m]}}

\* With the path of the i-th pattern the tracked ones are those of the changes D.
Known(i, paths, D) ==
  {predicates[i].Value} \cup paths = {predicates[i].Value} \cup Olds(predicates[i].Value, D)

Earlier(n) == {m \in Changes : After(m, n)}
DoneTo(c, k) == {m \in Changes : m[1] < c \/ (m[1] = c /\ m[2] <= k)}

\* A tracked pattern matches a change exactly if its file comes from there, and
\* then knows the names up to that change.
LEMMA RenamesAreFollowed ==
  ASSUME request.follow, NEW i, predicates[i].Source = "file", NEW n \in Changes, NEW paths,
         Known(i, paths, Earlier(n))
  PROVE  /\ FileHit(i, ChangeAt(n), paths) = InLineage(predicates[i].Value)[n]
         /\ Known(i, Track(i, ChangeAt(n), paths), Earlier(n) \cup {n})
<1> DEFINE v == predicates[i].Value
           change == ChangeAt(n)
           D == Earlier(n)
           hit == InLineage(v)[n]
<1>1. hit = (\/ v \in Names(change)
             \/ \E m \in Changes : /\ After(m, n)
                                   /\ IsRename(ChangeAt(m))
                                   /\ ChangeAt(m).old \in Names(change)
                                   /\ InLineage(v)[m])
  BY LineageIs
<1>2. \A o : o \in Olds(v, D) <=> \E m \in Changes : /\ After(m, n)
                                                    /\ IsRename(ChangeAt(m))
                                                    /\ InLineage(v)[m]
                                                    /\ o = ChangeAt(m).old
  BY DEF Olds, Earlier
<1>3. {v} \cup paths = {v} \cup Olds(v, D)
  BY DEF Known
<1>4. Follows(i, change, paths) <=> ({v} \cup Olds(v, D)) \cap Names(change) # {}
  BY <1>3 DEF Follows
<1>5. ({v} \cup Olds(v, D)) \cap Names(change) # {} <=>
        \/ v \in Names(change)
        \/ \E o \in Olds(v, D) : o \in Names(change)
  OBVIOUS
<1>6. (\E o \in Olds(v, D) : o \in Names(change)) <=>
        \E m \in Changes : /\ After(m, n)
                           /\ IsRename(ChangeAt(m))
                           /\ ChangeAt(m).old \in Names(change)
                           /\ InLineage(v)[m]
  <2> HIDE DEF v, D, change
  <2> QED BY <1>2
<1>7. Follows(i, change, paths) <=> hit
  <2> HIDE DEF v, D, change, hit
  <2> QED BY <1>1, <1>4, <1>5, <1>6
<1>8. hit \in BOOLEAN
  <2> HIDE DEF hit
  <2> QED BY <1>1
<1>9. FileHit(i, change, paths) = hit
  <2>1. FileHit(i, change, paths) = Follows(i, change, paths)
    BY DEF FileHit
  <2>2. Follows(i, change, paths) \in BOOLEAN
    BY DEF Follows
  <2> HIDE DEF hit, change
  <2> QED BY <1>7, <1>8, <2>1, <2>2
<1>10. Olds(v, D \cup {n}) = Olds(v, D) \cup (IF IsRename(change) /\ hit THEN {change.old} ELSE {})
  BY DEF Olds
<1>11. Track(i, change, paths) =
         paths \cup ({v} \cap {change.path})
               \cup (IF IsRename(change) /\ Follows(i, change, paths) THEN {change.old} ELSE {})
  BY DEF Track
<1>12. {v} \cup Track(i, change, paths) = {v} \cup Olds(v, D \cup {n})
  <2>1. IsRename(change) /\ Follows(i, change, paths) <=> IsRename(change) /\ hit
    BY <1>7
  <2> HIDE DEF v, D, change, hit
  <2>2. CASE IsRename(change) /\ hit
    BY <1>3, <1>10, <1>11, <2>1, <2>2
  <2>3. CASE ~(IsRename(change) /\ hit)
    BY <1>3, <1>10, <1>11, <2>1, <2>3
  <2> QED BY <2>2, <2>3
<1> QED BY <1>9, <1>12 DEF Known

\* The files of a commit are a sequence.
LEMMA FilesAreListed ==
  ASSUME Recorded, NEW c \in Positions
  PROVE  /\ Len(FilesOf(history[c])) \in Nat
         /\ DOMAIN FilesOf(history[c]) = 1..Len(FilesOf(history[c]))
<1> DEFINE listed == history[c].changes
<1>1. listed \in Seq(ToSet(listed))
  BY DEF Recorded
<1> HIDE DEF listed
<1>2. Len(listed) \in Nat /\ DOMAIN listed = 1..Len(listed)
  BY <1>1
<1>3. FilesOf(history[c]) = << >> \/ FilesOf(history[c]) = listed
  BY DEF FilesOf, listed
<1> QED BY <1>2, <1>3

\* The changes are done one after the other.
LEMMA ChangesGoOn ==
  ASSUME Recorded, NEW c \in Walked, NEW k \in DOMAIN FilesOf(history[c])
  PROVE  /\ <<c, k>> \in Changes
         /\ ChangeAt(<<c, k>>) = FilesOf(history[c])[k]
         /\ Earlier(<<c, k>>) = DoneTo(c, k - 1)
         /\ DoneTo(c, k - 1) \cup {<<c, k>>} = DoneTo(c, k)
<1>1. Positions \subseteq Nat /\ Walked \subseteq Positions
  BY PositionsAreNaturals DEF Recorded, Walked
<1>2. \A n \in Changes : n[1] \in Nat /\ n[2] \in Nat /\ n = <<n[1], n[2]>>
  <2> TAKE n \in Changes
  <2>1. PICK p \in Walked : n \in {p} \X DOMAIN FilesOf(history[p])
    BY DEF Changes
  <2>2. DOMAIN FilesOf(history[p]) \subseteq Nat
    BY <1>1, FilesAreListed
  <2> QED BY <1>1, <2>1, <2>2
<1>3. <<c, k>> \in Changes
  BY DEF Changes
<1>4. c \in Nat /\ k \in Nat
  BY <1>2, <1>3
<1>5. ChangeAt(<<c, k>>) = FilesOf(history[c])[k]
  BY DEF ChangeAt
<1>6. \A m \in Changes : After(m, <<c, k>>) <=> m[1] < c \/ (m[1] = c /\ m[2] <= k - 1)
  <2> TAKE m \in Changes
  <2>1. m[2] < k <=> m[2] <= k - 1
    BY <1>2, <1>4
  <2> QED BY <2>1 DEF After
<1>7. \A m \in Changes : (m[1] < c \/ (m[1] = c /\ m[2] <= k)) <=>
                         ((m[1] < c \/ (m[1] = c /\ m[2] <= k - 1)) \/ m = <<c, k>>)
  <2> TAKE m \in Changes
  <2>1. m[2] <= k <=> m[2] <= k - 1 \/ m[2] = k
    BY <1>2, <1>4
  <2>2. m = <<c, k>> <=> m[1] = c /\ m[2] = k
    BY <1>2
  <2>3. ~(c < c)
    BY <1>4
  <2> QED BY <2>1, <2>2, <2>3
<1>8. Earlier(<<c, k>>) = DoneTo(c, k - 1)
  BY <1>6 DEF Earlier, DoneTo
<1>9. DoneTo(c, k - 1) \cup {<<c, k>>} = DoneTo(c, k)
  BY <1>3, <1>7 DEF DoneTo
<1> QED BY <1>3, <1>5, <1>8, <1>9

-----------------------------------------------------------------------------
(* What a commit is found to match.                                         *)

HitsAt(c, k) == [i \in DOMAIN predicates |-> Matches(predicates[i], c, k)]
TrackedTo(paths, D) ==
  \A i \in DOMAIN predicates :
    request.follow /\ predicates[i].Source = "file" => Known(i, paths[i], D)

\* A listed file of a commit, and a list of files in their order.
FileAt(c, k) == [path |-> FilesOf(history[c])[k].path, sources |-> MatchesAt(c, k) \ {"msg"}]
Placed(files, c, S) ==
  \E place \in [DOMAIN files -> S] :
    /\ \A k \in S : \E j \in DOMAIN files : place[j] = k
    /\ \A j, k \in DOMAIN files : j < k => place[j] < place[k]
    /\ \A j \in DOMAIN files : files[j] = FileAt(c, place[j])

OwnTo(c, k) == {j \in 1..k : MatchesAt(c, j) \ {"msg"} # {}}
SourcesTo(c, k) == UNION {MatchesAt(c, j) : j \in 0..k}

\* What is known after the first k changes of a commit.
Told(c, k, s) ==
  /\ TrackedTo(s.tracked, DoneTo(c, k))
  /\ s.matched = \E j \in 0..k : Meaning(predicates, HitsAt(c, j))
  /\ s.sources = SourcesTo(c, k)
  /\ s.files \in Seq(ToSet(s.files))
  /\ Placed(s.files, c, OwnTo(c, k))

\* What matches at a change is whether the pattern does.
LEMMA MatchesAre ==
  ASSUME NEW c, NEW k
  PROVE  MatchesAt(c, k) = IF Meaning(predicates, HitsAt(c, k)) THEN MatchSources(HitsAt(c, k)) ELSE {}
BY DEF MatchesAt, HitsAt

\* What a pattern matches depends on its source.
LEMMA MatchesOf ==
  ASSUME NEW p, NEW c, NEW k
  PROVE  /\ Matches(p, c, k) \in BOOLEAN
         /\ p.Source = "msg" => (Matches(p, c, k) <=> p.Value \in history[c].text)
         /\ p.Source # "msg" /\ k = 0 => ~Matches(p, c, k)
         /\ p.Source = "diff" /\ k # 0 =>
              (Matches(p, c, k) <=> p.Value \in ChangedLines(FilesOf(history[c])[k]))
         /\ p.Source = "file" /\ k # 0 /\ request.follow =>
              (Matches(p, c, k) <=> InLineage(p.Value)[<<c, k>>])
         /\ p.Source = "file" /\ k # 0 /\ ~request.follow =>
              (Matches(p, c, k) <=> p.Value = FilesOf(history[c])[k].path)
<1>1. Matches(p, c, k) \in BOOLEAN
  BY DEF Matches
<1>2. CASE p.Source = "msg"
  BY <1>1, <1>2 DEF Matches
<1>3. CASE p.Source = "diff"
  BY <1>1, <1>3 DEF Matches
<1>4. CASE p.Source = "file"
  BY <1>1, <1>4 DEF Matches
<1>5. CASE p.Source \notin {"msg", "diff", "file"}
  BY <1>1, <1>5 DEF Matches
<1> QED BY <1>2, <1>3, <1>4, <1>5

\* A pattern matches a message as it matches the commit alone.
LEMMA MessageHitsAre ==
  ASSUME Evaluable(predicates), NEW c
  PROVE  MessageHits(c) = HitsAt(c, 0) /\ HitsAt(c, 0) \in [1..Len(predicates) -> BOOLEAN]
<1>1. DOMAIN predicates = 1..Len(predicates)
      /\ \A i \in DOMAIN predicates : predicates[i].Source \in {"msg", "diff", "file"}
  BY DEF Evaluable, Accepted, Sources
<1>2. ASSUME NEW i \in DOMAIN predicates
      PROVE  /\ Matches(predicates[i], c, 0) =
                  (predicates[i].Source = "msg" /\ predicates[i].Value \in history[c].text)
             /\ Matches(predicates[i], c, 0) \in BOOLEAN
  BY MatchesOf
<1> QED BY <1>1, <1>2 DEF MessageHits, HitsAt

\* The patterns match a change as the paths tracked so far let them.
LEMMA HitsAre ==
  ASSUME Recorded, Evaluable(predicates), NEW c \in Walked,
         NEW k \in DOMAIN FilesOf(history[c]), NEW paths, TrackedTo(paths, Earlier(<<c, k>>))
  PROVE  /\ Hits(c, FilesOf(history[c])[k], paths) = HitsAt(c, k)
         /\ HitsAt(c, k) \in [1..Len(predicates) -> BOOLEAN]
<1> DEFINE change == FilesOf(history[c])[k]
<1>1. DOMAIN predicates = 1..Len(predicates)
      /\ \A i \in DOMAIN predicates : predicates[i].Source \in {"msg", "diff", "file"}
  BY DEF Evaluable, Accepted, Sources
<1>2. k # 0
  <2>1. c \in Positions
    BY DEF Walked
  <2>2. DOMAIN FilesOf(history[c]) = 1..Len(FilesOf(history[c])) /\ Len(FilesOf(history[c])) \in Nat
    BY <2>1, FilesAreListed
  <2> QED BY <2>2
<1>3. <<c, k>> \in Changes /\ ChangeAt(<<c, k>>) = change
  BY ChangesGoOn
<1> DEFINE Hit(i) == CASE predicates[i].Source = "msg" -> MessageHits(c)[i]
                       [] predicates[i].Source = "file" -> FileHit(i, change, paths[i])
                       [] predicates[i].Source = "diff" -> predicates[i].Value \in ChangedLines(change)
<1>4. ASSUME NEW i \in DOMAIN predicates
      PROVE  Hit(i) = Matches(predicates[i], c, k) /\ Matches(predicates[i], c, k) \in BOOLEAN
  <2> DEFINE p == predicates[i]
  <2>1. Matches(p, c, k) \in BOOLEAN
    BY MatchesOf
  <2>2. CASE p.Source = "msg"
    <3>1. Hit(i) = MessageHits(c)[i]
      BY <2>2
    <3>2. MessageHits(c)[i] = (p.Value \in history[c].text)
      BY <2>2 DEF MessageHits
    <3>3. Matches(p, c, k) <=> p.Value \in history[c].text
      BY <2>2, MatchesOf
    <3> HIDE DEF Hit, p
    <3> QED BY <2>1, <3>1, <3>2, <3>3 DEF p
  <2>3. CASE p.Source = "diff"
    <3>1. Hit(i) = (p.Value \in ChangedLines(change))
      BY <2>3
    <3>2. Matches(p, c, k) <=> p.Value \in ChangedLines(change)
      BY <1>2, <2>3, MatchesOf
    <3> HIDE DEF Hit, change, p
    <3> QED BY <2>1, <3>1, <3>2 DEF p
  <2>4. CASE p.Source = "file"
    <3>1. Hit(i) = FileHit(i, change, paths[i])
      BY <2>4
    <3>2. CASE request.follow
      <4>1. Known(i, paths[i], Earlier(<<c, k>>))
        BY <2>4, <3>2 DEF TrackedTo
      <4>2. FileHit(i, ChangeAt(<<c, k>>), paths[i]) = InLineage(p.Value)[<<c, k>>]
        BY <1>3, <2>4, <3>2, <4>1, RenamesAreFollowed
      <4>3. Matches(p, c, k) <=> InLineage(p.Value)[<<c, k>>]
        BY <1>2, <2>4, <3>2, MatchesOf
      <4>4. FileHit(i, change, paths[i]) \in BOOLEAN
        BY <3>2 DEF FileHit, Follows
      <4> HIDE DEF Hit, change, p
      <4> QED BY <1>3, <2>1, <3>1, <4>2, <4>3, <4>4 DEF p
    <3>3. CASE ~request.follow
      <4>1. FileHit(i, change, paths[i]) = (p.Value = change.path)
        BY <3>3 DEF FileHit
      <4>2. Matches(p, c, k) <=> p.Value = change.path
        BY <1>2, <2>4, <3>3, MatchesOf
      <4> HIDE DEF Hit, change, p
      <4> QED BY <2>1, <3>1, <4>1, <4>2 DEF p
    <3> QED BY <3>2, <3>3
  <2> QED BY <1>1, <2>2, <2>3, <2>4
<1>5. Hits(c, change, paths) = [i \in DOMAIN predicates |-> Hit(i)]
  BY DEF Hits
<1> HIDE DEF Hit, change
<1>6. Hits(c, change, paths) = HitsAt(c, k)
  BY <1>4, <1>5 DEF HitsAt
<1>7. HitsAt(c, k) \in [1..Len(predicates) -> BOOLEAN]
  BY <1>1, <1>4 DEF HitsAt
<1> QED BY <1>6, <1>7 DEF change

\* One more file is listed.
LEMMA FileIsPlaced ==
  ASSUME NEW c, NEW S \in SUBSET Nat, NEW k \in Nat, \A j \in S : j < k,
         NEW files, files \in Seq(ToSet(files)), Placed(files, c, S)
  PROVE  Placed(Append(files, FileAt(c, k)), c, S \cup {k})
<1> DEFINE n == Len(files)
           more == Append(files, FileAt(c, k))
<1>1. n \in Nat /\ DOMAIN files = 1..n
  OBVIOUS
<1>2. DOMAIN more = 1..n + 1 /\ more[n + 1] = FileAt(c, k) /\ \A j \in 1..n : more[j] = files[j]
  OBVIOUS
<1>3. PICK place \in [1..n -> S] :
        /\ \A p \in S : \E j \in 1..n : place[j] = p
        /\ \A j, p \in 1..n : j < p => place[j] < place[p]
        /\ \A j \in 1..n : files[j] = FileAt(c, place[j])
  BY <1>1 DEF Placed
<1> DEFINE further == [j \in 1..n + 1 |-> IF j = n + 1 THEN k ELSE place[j]]
<1> HIDE DEF n, more
<1>4. further[n + 1] = k /\ \A j \in 1..n : further[j] = place[j]
  BY <1>1
<1>5. further \in [1..n + 1 -> S \cup {k}]
  BY <1>1, <1>3
<1>6. \A j \in 1..n + 1 : j \in 1..n \/ j = n + 1
  BY <1>1
<1> HIDE DEF further
<1>7. \A p \in S \cup {k} : \E j \in 1..n + 1 : further[j] = p
  <2>1. n + 1 \in 1..n + 1 /\ \A j \in 1..n : j \in 1..n + 1
    BY <1>1
  <2> QED BY <1>3, <1>4, <2>1
<1>8. \A j, p \in 1..n + 1 : j < p => further[j] < further[p]
  <2> TAKE j, p \in 1..n + 1
  <2> HAVE j < p
  <2>1. j \in 1..n
    BY <1>1
  <2>2. CASE p \in 1..n
    BY <1>3, <1>4, <2>1, <2>2
  <2>3. CASE p = n + 1
    BY <1>3, <1>4, <2>1, <2>3
  <2> QED BY <1>6, <2>2, <2>3
<1>9. \A j \in 1..n + 1 : more[j] = FileAt(c, further[j])
  BY <1>2, <1>3, <1>4, <1>6
<1>10. DOMAIN more = 1..n + 1
  BY <1>2
<1>11. Placed(more, c, S \cup {k})
  BY <1>5, <1>7, <1>8, <1>9, <1>10 DEF Placed
<1> QED BY <1>11 DEF more

\* A commit is found to match by its message.
LEMMA MessageIsTold ==
  ASSUME Recorded, Evaluable(predicates), NEW c \in Walked, TrackedTo(tracked, DoneTo(c, 0)),
         NEW s, s = ScanMessage(c)
  PROVE  Told(c, 0, s)
<1>1. MessageHits(c) = HitsAt(c, 0) /\ HitsAt(c, 0) \in [1..Len(predicates) -> BOOLEAN]
  BY MessageHitsAre
<1>2. evaluateSearchExpression(predicates, MessageHits(c)) = Meaning(predicates, HitsAt(c, 0))
  BY <1>1, EvaluationIsMeaning
<1>3. /\ s.tracked = tracked /\ s.files = << >>
      /\ s.matched = Meaning(predicates, HitsAt(c, 0))
      /\ s.sources = IF Meaning(predicates, HitsAt(c, 0)) THEN MatchSources(HitsAt(c, 0)) ELSE {}
  BY <1>1, <1>2 DEF ScanMessage
<1>4. 0..0 = {0} /\ 1..0 = {}
  OBVIOUS
<1>5. s.sources = SourcesTo(c, 0)
  BY <1>3, <1>4, MatchesAre DEF SourcesTo
<1>6. Meaning(predicates, HitsAt(c, 0)) \in BOOLEAN
  BY <1>2 DEF evaluateSearchExpression
<1>7. s.matched = \E j \in 0..0 : Meaning(predicates, HitsAt(c, j))
  BY <1>3, <1>4, <1>6
<1>8. OwnTo(c, 0) = {}
  BY <1>4 DEF OwnTo
<1>9. s.files \in Seq(ToSet(s.files)) /\ Placed(s.files, c, {})
  <2>1. s.files = << >> /\ DOMAIN s.files = {}
    BY <1>3
  <2>2. << >> \in [DOMAIN s.files -> {}]
    BY <2>1
  <2>3. Placed(s.files, c, {})
    BY <2>1, <2>2 DEF Placed
  <2> QED BY <1>3, <2>3
<1> QED BY <1>3, <1>5, <1>7, <1>8, <1>9 DEF Told

\* A number more.
LEMMA OneMore ==
  ASSUME NEW k \in Nat \ {0}
  PROVE  0..k = (0..k - 1) \cup {k} /\ 1..k = (1..k - 1) \cup {k} /\ \A j \in 1..k - 1 : j < k
OBVIOUS

\* A commit is found to match by one change more.
LEMMA ChangeIsTold ==
  ASSUME Recorded, Evaluable(predicates), NEW c \in Walked, NEW k \in DOMAIN FilesOf(history[c]),
         NEW s, Told(c, k - 1, s), NEW t, t = ScanChange(s, c, FilesOf(history[c])[k])
  PROVE  Told(c, k, t)
<1> DEFINE change == FilesOf(history[c])[k]
           H == HitsAt(c, k)
           match == Meaning(predicates, H)
           own == MatchSources(H) \ {"msg"}
<1>1. k \in Nat \ {0}
  <2>1. c \in Positions
    BY DEF Walked
  <2>2. DOMAIN FilesOf(history[c]) = 1..Len(FilesOf(history[c])) /\ Len(FilesOf(history[c])) \in Nat
    BY <2>1, FilesAreListed
  <2> QED BY <2>2
<1>2. /\ <<c, k>> \in Changes /\ ChangeAt(<<c, k>>) = change
      /\ Earlier(<<c, k>>) = DoneTo(c, k - 1)
      /\ DoneTo(c, k - 1) \cup {<<c, k>>} = DoneTo(c, k)
  BY ChangesGoOn
<1>3. Hits(c, change, s.tracked) = H /\ H \in [1..Len(predicates) -> BOOLEAN]
  <2>1. TrackedTo(s.tracked, Earlier(<<c, k>>))
    BY <1>2 DEF Told
  <2> QED BY <2>1, HitsAre
<1>4. evaluateSearchExpression(predicates, H) = match
  BY <1>3, EvaluationIsMeaning
<1>5. match \in BOOLEAN
  <2>1. evaluateSearchExpression(predicates, H) \in BOOLEAN
    BY DEF evaluateSearchExpression
  <2> QED BY <1>4, <2>1
<1> HIDE DEF H
<1>6. /\ t.tracked = [i \in DOMAIN predicates |-> Track(i, change, s.tracked[i])]
      /\ t.matched = (s.matched \/ match)
      /\ t.sources = s.sources \cup (IF match THEN MatchSources(H) ELSE {})
      /\ t.files = IF match /\ own # {}
                   THEN Append(s.files, [path |-> change.path, sources |-> own]) ELSE s.files
  <2> HIDE DEF match
  <2> QED BY <1>3, <1>4 DEF ScanChange
<1>7. TrackedTo(t.tracked, DoneTo(c, k))
  <2> SUFFICES ASSUME NEW i \in DOMAIN predicates, request.follow, predicates[i].Source = "file"
               PROVE  Known(i, t.tracked[i], DoneTo(c, k))
    BY DEF TrackedTo
  <2>1. Known(i, s.tracked[i], Earlier(<<c, k>>))
    BY <1>2 DEF Told, TrackedTo
  <2>2. Known(i, Track(i, ChangeAt(<<c, k>>), s.tracked[i]), Earlier(<<c, k>>) \cup {<<c, k>>})
    BY <1>2, <2>1, RenamesAreFollowed
  <2>3. t.tracked[i] = Track(i, change, s.tracked[i])
    BY <1>6
  <2> HIDE DEF change
  <2> QED BY <1>2, <2>2, <2>3
<1>8. MatchesAt(c, k) = IF match THEN MatchSources(H) ELSE {}
  BY MatchesAre DEF H
<1>9. t.sources = SourcesTo(c, k)
  <2>1. s.sources = UNION {MatchesAt(c, j) : j \in 0..k - 1}
    BY DEF Told, SourcesTo
  <2>2. SourcesTo(c, k) = UNION {MatchesAt(c, j) : j \in (0..k - 1) \cup {k}}
    BY <1>1, OneMore DEF SourcesTo
  <2>3. SourcesTo(c, k) = s.sources \cup MatchesAt(c, k)
    BY <2>1, <2>2
  <2> HIDE DEF match
  <2> QED BY <1>6, <1>8, <2>3
<1>10. t.matched = \E j \in 0..k : Meaning(predicates, HitsAt(c, j))
  <2>1. s.matched = \E j \in 0..k - 1 : Meaning(predicates, HitsAt(c, j))
    BY DEF Told
  <2>2. (\E j \in 0..k : Meaning(predicates, HitsAt(c, j))) <=>
          (\E j \in 0..k - 1 : Meaning(predicates, HitsAt(c, j))) \/ Meaning(predicates, HitsAt(c, k))
    BY <1>1, OneMore
  <2> QED BY <1>6, <2>1, <2>2 DEF H
<1>11. t.files \in Seq(ToSet(t.files)) /\ Placed(t.files, c, OwnTo(c, k))
  <2>1. s.files \in Seq(ToSet(s.files)) /\ Placed(s.files, c, OwnTo(c, k - 1))
    BY DEF Told
  <2>2. OwnTo(c, k) = OwnTo(c, k - 1) \cup (IF MatchesAt(c, k) \ {"msg"} # {} THEN {k} ELSE {})
    <3>1. 1..k = (1..k - 1) \cup {k}
      BY <1>1, OneMore
    <3> QED BY <3>1 DEF OwnTo
  <2>3. CASE match /\ own # {}
    <3>1. MatchesAt(c, k) \ {"msg"} = own
      BY <1>8, <2>3
    <3>2. FileAt(c, k) = [path |-> change.path, sources |-> own]
      BY <3>1 DEF FileAt
    <3>3. t.files = Append(s.files, FileAt(c, k))
      BY <1>6, <2>3, <3>2
    <3>4. OwnTo(c, k) = OwnTo(c, k - 1) \cup {k}
      BY <2>2, <2>3, <3>1
    <3>5. OwnTo(c, k - 1) \in SUBSET Nat /\ \A j \in OwnTo(c, k - 1) : j < k
      BY <1>1, OneMore DEF OwnTo
    <3>6. Placed(Append(s.files, FileAt(c, k)), c, OwnTo(c, k - 1) \cup {k})
      BY <1>1, <2>1, <3>5, FileIsPlaced
    <3>7. Append(s.files, FileAt(c, k)) \in Seq(ToSet(Append(s.files, FileAt(c, k))))
      BY <2>1, AppendOverItself
    <3> QED BY <3>3, <3>4, <3>6, <3>7
  <2>4. CASE ~(match /\ own # {})
    <3>1. MatchesAt(c, k) \ {"msg"} = {}
      BY <1>8, <2>4
    <3>2. t.files = s.files
      BY <1>6, <2>4
    <3> QED BY <2>1, <2>2, <3>1, <3>2
  <2> QED BY <2>3, <2>4
<1> QED BY <1>7, <1>9, <1>10, <1>11 DEF Told

-----------------------------------------------------------------------------
Scans(c, n, scan) ==
  scan = [k \in 0..n |-> IF k = 0 THEN ScanMessage(c)
                                  ELSE ScanChange(scan[k - 1], c, FilesOf(history[c])[k])]
ScansAll(c, n) == \E scan : Scans(c, n, scan)

\* One more change can be scanned.
LEMMA ScansFurther ==
  ASSUME NEW c, NEW n \in Nat, ScansAll(c, n)
  PROVE  ScansAll(c, n + 1)
<1>1. PICK f : Scans(c, n, f)
  BY DEF ScansAll
<1> DEFINE More(x, j) == ScanChange(x, c, FilesOf(history[c])[j])
<1>2. f = [j \in 0..n |-> IF j = 0 THEN ScanMessage(c) ELSE More(f[j - 1], j)]
  BY <1>1 DEF Scans
<1> HIDE DEF More
<1> DEFINE g == [j \in 0..n + 1 |-> IF j = n + 1 THEN More(f[n], n + 1) ELSE f[j]]
<1>3. \A j \in 0..n : g[j] = f[j]
  OBVIOUS
<1>4. \A j \in 0..n + 1 : g[j] = IF j = 0 THEN ScanMessage(c) ELSE More(g[j - 1], j)
  <2> TAKE j \in 0..n + 1
  <2>1. CASE j = n + 1
    <3>1. g[j] = More(f[n], j) /\ j # 0 /\ j - 1 = n /\ g[n] = f[n]
      BY <2>1, <1>3
    <3> HIDE DEF g
    <3> QED BY <3>1
  <2>2. CASE j \in 0..n
    <3>1. g[j] = f[j] /\ f[j] = IF j = 0 THEN ScanMessage(c) ELSE More(f[j - 1], j)
      BY <2>2, <1>2, <1>3
    <3>2. j # 0 => g[j - 1] = f[j - 1]
      BY <2>2, <1>3
    <3> HIDE DEF g
    <3> QED BY <3>1, <3>2
  <2> QED BY <2>1, <2>2
<1>5. g = [j \in 0..n + 1 |-> g[j]]
  OBVIOUS
<1> HIDE DEF g
<1>6. g = [j \in 0..n + 1 |-> IF j = 0 THEN ScanMessage(c) ELSE More(g[j - 1], j)]
  BY <1>4, <1>5
<1> QED BY <1>6 DEF ScansAll, Scans, More

\* Any number of changes can be scanned.
LEMMA ScansAny ==
  ASSUME NEW c
  PROVE  \A n \in Nat : ScansAll(c, n)
<1> DEFINE T == {t \in Nat : ~ScansAll(c, t)}
<1> SUFFICES ASSUME T # {} PROVE FALSE
  OBVIOUS
<1>1. PICK t \in T : \A u \in T : t <= u
  <2>1. T \in SUBSET Nat
    OBVIOUS
  <2> HIDE DEF T
  <2> QED BY <2>1, LeastOf
<1>2. ScansAll(c, 0)
  <2> DEFINE g == [j \in 0..0 |-> ScanMessage(c)]
  <2>1. g = [j \in 0..0 |-> IF j = 0 THEN ScanMessage(c)
                                     ELSE ScanChange(g[j - 1], c, FilesOf(history[c])[j])]
    OBVIOUS
  <2> HIDE DEF g
  <2> QED BY <2>1 DEF ScansAll, Scans
<1>3. t \in Nat \ {0} /\ t - 1 \in Nat /\ ~(t <= t - 1)
  BY <1>1, <1>2
<1>4. ScansAll(c, t - 1)
  BY <1>1, <1>3
<1>5. ScansAll(c, (t - 1) + 1)
  BY <1>3, <1>4, ScansFurther
<1> QED BY <1>1, <1>3, <1>5

\* A scan goes through the changes of a commit one after the other.
LEMMA ScanIs ==
  ASSUME NEW c, Len(FilesOf(history[c])) \in Nat
  PROVE  \E scan : /\ scan[0] = ScanMessage(c)
                   /\ \A k \in 1..Len(FilesOf(history[c])) :
                        scan[k] = ScanChange(scan[k - 1], c, FilesOf(history[c])[k])
                   /\ Scan(c) = scan[IF Uses({"file", "diff"}) THEN Len(FilesOf(history[c])) ELSE 0]
<1> DEFINE n == Len(FilesOf(history[c]))
           f == CHOOSE scan : Scans(c, n, scan)
<1>1. Scans(c, n, f)
  BY ScansAny DEF ScansAll
<1>2. Scan(c) = f[IF Uses({"file", "diff"}) THEN n ELSE 0]
  BY DEF Scan, Scans
<1> HIDE DEF f
<1>3. f = [k \in 0..n |-> IF k = 0 THEN ScanMessage(c)
                                   ELSE ScanChange(f[k - 1], c, FilesOf(history[c])[k])]
  BY <1>1 DEF Scans
<1>4. f[0] = ScanMessage(c)
      /\ \A k \in 1..n : f[k] = ScanChange(f[k - 1], c, FilesOf(history[c])[k])
  BY <1>3
<1> QED BY <1>2, <1>4

\* Whether the patterns match is a truth value of each.
LEMMA HitsAreValues ==
  ASSUME Evaluable(predicates)
  PROVE  \A c, k : HitsAt(c, k) \in [1..Len(predicates) -> BOOLEAN]
<1>1. DOMAIN predicates = 1..Len(predicates)
  BY DEF Evaluable
<1> SUFFICES ASSUME NEW c, NEW k
             PROVE  HitsAt(c, k) \in [1..Len(predicates) -> BOOLEAN]
  OBVIOUS
<1>2. \A i \in DOMAIN predicates : Matches(predicates[i], c, k) \in BOOLEAN
  BY MatchesOf
<1> QED BY <1>1, <1>2 DEF HitsAt

\* Messages match at every change of a commit as they match the commit alone.
LEMMA MessagesAreTold ==
  ASSUME Recorded, Evaluable(predicates), ~Uses({"file", "diff"}),
         NEW c \in Walked, NEW n \in Nat, NEW s, Told(c, 0, s)
  PROVE  Told(c, n, s)
<1>1. DOMAIN predicates = 1..Len(predicates)
      /\ \A i \in DOMAIN predicates : predicates[i].Source \in {"msg", "diff", "file"}
  BY DEF Evaluable, Accepted, Sources
<1>2. \A i \in DOMAIN predicates : predicates[i].Source = "msg"
  BY <1>1 DEF Uses
<1>3. ASSUME NEW k
      PROVE  HitsAt(c, k) = HitsAt(c, 0)
  <2>1. \A i \in DOMAIN predicates : Matches(predicates[i], c, k) = Matches(predicates[i], c, 0)
    <3> TAKE i \in DOMAIN predicates
    <3>1. Matches(predicates[i], c, k) <=> predicates[i].Value \in history[c].text
      BY <1>2, MatchesOf
    <3>2. Matches(predicates[i], c, 0) <=> predicates[i].Value \in history[c].text
      BY <1>2, MatchesOf
    <3>3. Matches(predicates[i], c, k) \in BOOLEAN /\ Matches(predicates[i], c, 0) \in BOOLEAN
      BY MatchesOf
    <3> QED BY <3>1, <3>2, <3>3
  <2> QED BY <2>1 DEF HitsAt
<1>4. \A k : MatchesAt(c, k) = MatchesAt(c, 0)
  BY <1>3, MatchesAre
<1>5. MatchesAt(c, 0) \subseteq {"msg"}
  <2>1. MatchSources(HitsAt(c, 0)) \subseteq {"msg"}
    BY <1>2 DEF MatchSources, HitsAt
  <2> QED BY <2>1, MatchesAre
<1>6. 0 \in 0..n /\ 0..0 = {0} /\ 1..0 = {}
  OBVIOUS
<1>7. SourcesTo(c, n) = SourcesTo(c, 0)
  <2>1. \A x : x \in SourcesTo(c, n) <=> x \in MatchesAt(c, 0)
    BY <1>4, <1>6 DEF SourcesTo
  <2>2. \A x : x \in SourcesTo(c, 0) <=> x \in MatchesAt(c, 0)
    BY <1>6 DEF SourcesTo
  <2>3. SourcesTo(c, n) \subseteq SourcesTo(c, 0) /\ SourcesTo(c, 0) \subseteq SourcesTo(c, n)
    BY <2>1, <2>2
  <2> QED BY <2>3
<1>8. (\E j \in 0..n : Meaning(predicates, HitsAt(c, j))) <=>
        (\E j \in 0..0 : Meaning(predicates, HitsAt(c, j)))
  BY <1>3, <1>6
<1>9. OwnTo(c, n) = {} /\ OwnTo(c, 0) = {}
  <2>1. \A k : MatchesAt(c, k) \ {"msg"} = {}
    BY <1>4, <1>5
  <2> QED BY <2>1 DEF OwnTo
<1>10. TrackedTo(s.tracked, DoneTo(c, n))
  BY <1>2 DEF TrackedTo
<1> QED BY <1>7, <1>8, <1>9, <1>10 DEF Told

\* A scan finds of a commit what matches anywhere in it.
LEMMA ScanIsTold ==
  ASSUME Recorded, Evaluable(predicates), NEW c \in Walked, TrackedTo(tracked, DoneTo(c, 0))
  PROVE  Told(c, Len(FilesOf(history[c])), Scan(c))
<1> DEFINE n == Len(FilesOf(history[c]))
<1>1. n \in Nat /\ DOMAIN FilesOf(history[c]) = 1..n
  <2>1. c \in Positions
    BY DEF Walked
  <2> QED BY <2>1, FilesAreListed
<1>2. PICK scan : /\ scan[0] = ScanMessage(c)
                  /\ \A k \in 1..n : scan[k] = ScanChange(scan[k - 1], c, FilesOf(history[c])[k])
                  /\ Scan(c) = scan[IF Uses({"file", "diff"}) THEN n ELSE 0]
  BY <1>1, ScanIs
<1>3. Told(c, 0, scan[0])
  BY <1>2, MessageIsTold
<1> DEFINE T == {k \in 0..n : ~Told(c, k, scan[k])}
<1>4. T = {}
  <2> SUFFICES ASSUME T # {} PROVE FALSE
    OBVIOUS
  <2>1. PICK t \in T : \A u \in T : t <= u
    <3>1. T \in SUBSET Nat
      BY <1>1
    <3> HIDE DEF T
    <3> QED BY <3>1, LeastOf
  <2>2. t \in 1..n /\ ~Told(c, t, scan[t])
    BY <1>1, <1>3
  <2>3. t - 1 \in 0..n /\ ~(t <= t - 1)
    BY <1>1, <2>2
  <2>4. Told(c, t - 1, scan[t - 1])
    BY <2>1, <2>3
  <2>5. scan[t] = ScanChange(scan[t - 1], c, FilesOf(history[c])[t])
    BY <1>2, <2>2
  <2>6. t \in DOMAIN FilesOf(history[c])
    BY <1>1, <2>2
  <2> HIDE DEF T, n
  <2>7. Told(c, t, scan[t])
    BY <2>4, <2>5, <2>6, ChangeIsTold
  <2> QED BY <2>2, <2>7
<1>5. Told(c, n, scan[n])
  <2>1. n \in 0..n
    BY <1>1
  <2> QED BY <1>4, <2>1
<1> HIDE DEF n, T
<1>6. CASE Uses({"file", "diff"})
  BY <1>2, <1>5, <1>6 DEF n
<1>7. CASE ~Uses({"file", "diff"})
  <2>1. Told(c, n, scan[0])
    BY <1>1, <1>3, <1>7, MessagesAreTold
  <2> QED BY <1>2, <1>7, <2>1 DEF n
<1> QED BY <1>6, <1>7

\* A scan that knows the names up to a commit tells of it what it should.
LEMMA ScanTells ==
  ASSUME Recorded, Evaluable(predicates), NEW c \in Walked, TrackedTo(tracked, DoneTo(c, 0)),
         NEW result, result = Result(c, Scan(c))
  PROVE  /\ Scan(c).matched = (ExpectedSources(c) # {})
         /\ result.commit = c /\ result.sources = ExpectedSources(c)
         /\ Tells(result)
         /\ TrackedTo(Scan(c).tracked, DoneTo(c, Len(FilesOf(history[c]))))
<1> DEFINE n == Len(FilesOf(history[c]))
           s == Scan(c)
<1>1. n \in Nat /\ DOMAIN FilesOf(history[c]) = 1..n
  <2>1. c \in Positions
    BY DEF Walked
  <2> QED BY <2>1, FilesAreListed
<1>2. Told(c, n, s)
  BY ScanIsTold
<1>3. result.commit = c /\ result.sources = s.sources /\ result.files = s.files
  BY DEF Result
<1> HIDE DEF s
<1>4. ExpectedSources(c) = SourcesTo(c, n)
  BY DEF ExpectedSources, SourcesTo
<1>5. ExpectedFiles(c) = OwnTo(c, n)
  BY <1>1 DEF ExpectedFiles, OwnTo
<1> HIDE DEF n
<1>6. /\ s.matched = \E j \in 0..n : Meaning(predicates, HitsAt(c, j))
      /\ s.sources = SourcesTo(c, n)
      /\ Placed(s.files, c, OwnTo(c, n))
      /\ TrackedTo(s.tracked, DoneTo(c, n))
  BY <1>2 DEF Told
<1>7. ASSUME NEW j \in 0..n
      PROVE  MatchesAt(c, j) # {} <=> Meaning(predicates, HitsAt(c, j))
  <2>1. HitsAt(c, j) \in [1..Len(predicates) -> BOOLEAN]
    BY HitsAreValues
  <2>2. Meaning(predicates, HitsAt(c, j)) => \E i \in 1..Len(predicates) : HitsAt(c, j)[i]
    BY <2>1, MeaningNeedsAMatch
  <2>3. Meaning(predicates, HitsAt(c, j)) => MatchSources(HitsAt(c, j)) # {}
    BY <2>1, <2>2 DEF MatchSources
  <2> QED BY <2>3, MatchesAre
<1>8. SourcesTo(c, n) # {} <=> \E j \in 0..n : Meaning(predicates, HitsAt(c, j))
  <2>1. SourcesTo(c, n) # {} <=> \E j \in 0..n : MatchesAt(c, j) # {}
    BY DEF SourcesTo
  <2> QED BY <1>7, <2>1
<1>9. s.matched = (ExpectedSources(c) # {})
  BY <1>4, <1>6, <1>8
<1>10. Tells(result)
  <2>1. PICK place \in [DOMAIN s.files -> OwnTo(c, n)] :
          /\ \A k \in OwnTo(c, n) : \E j \in DOMAIN s.files : place[j] = k
          /\ \A j, k \in DOMAIN s.files : j < k => place[j] < place[k]
          /\ \A j \in DOMAIN s.files : s.files[j] = FileAt(c, place[j])
    BY <1>6 DEF Placed
  <2>2. \A j \in DOMAIN s.files :
          s.files[j] = [path |-> FilesOf(history[c])[place[j]].path,
                        sources |-> MatchesAt(c, place[j]) \ {"msg"}]
    BY <2>1 DEF FileAt
  <2>3. result.sources = ExpectedSources(c)
    BY <1>3, <1>4, <1>6
  <2>4. DOMAIN result.files = DOMAIN s.files /\ \A j : result.files[j] = s.files[j]
    BY <1>3
  <2>5. result.commit = c /\ ExpectedFiles(result.commit) = OwnTo(c, n)
    BY <1>3, <1>5
  <2> DEFINE at == result.commit
  <2>6. \E p \in [DOMAIN result.files -> ExpectedFiles(at)] :
          /\ \A k \in ExpectedFiles(at) : \E j \in DOMAIN result.files : p[j] = k
          /\ \A j, k \in DOMAIN result.files : j < k => p[j] < p[k]
          /\ \A j \in DOMAIN result.files :
               result.files[j] = [path |-> FilesOf(history[at])[p[j]].path,
                                  sources |-> MatchesAt(at, p[j]) \ {"msg"}]
    <3>1. place \in [DOMAIN result.files -> ExpectedFiles(at)]
      BY <2>1, <2>4, <2>5
    <3>2. \A k \in ExpectedFiles(at) : \E j \in DOMAIN result.files : place[j] = k
      BY <2>1, <2>4, <2>5
    <3>3. \A j, k \in DOMAIN result.files : j < k => place[j] < place[k]
      BY <2>1, <2>4
    <3>4. \A j \in DOMAIN result.files :
            result.files[j] = [path |-> FilesOf(history[at])[place[j]].path,
                               sources |-> MatchesAt(at, place[j]) \ {"msg"}]
      BY <2>2, <2>4, <2>5
    <3> HIDE DEF at
    <3> QED BY <3>1, <3>2, <3>3, <3>4
  <2>7. result.sources = ExpectedSources(at)
    BY <2>3, <2>5
  <2> QED BY <2>6, <2>7, Zenon DEF Tells
<1> QED BY <1>3, <1>4, <1>6, <1>9, <1>10 DEF s, n

-----------------------------------------------------------------------------
(* What a page tells.                                                       *)

Visited == commits \ (batch \cup left)
DoneIn(V) == {n \in Changes : n[1] \in V}
InPage == {results[k].commit : k \in DOMAIN results}

\* What the listings have to do with each other.
Listings ==
  /\ commits \cap eligible = Admitted
  /\ commits \subseteq Walked
  /\ request.follow => commits = Walked

\* The page tells of the visited commits what it should, and promises more only
\* for a commit that it leaves out.
PageTells ==
  /\ \A k \in DOMAIN results : Tells(results[k]) /\ results[k].sources # {}
  /\ ~hasMore => \A c \in Visited \cap eligible : ExpectedSources(c) # {} => c \in InPage
  /\ hasMore => \E c \in Admitted \ InPage : ExpectedSources(c) # {}
  /\ hasMore => \A c \in Admitted \ InPage : ExpectedSources(c) # {} =>
                  \A k \in DOMAIN results : results[k].commit < c

Telling ==
  /\ stage \in {"listing", "listing traversal"} => tracked = [i \in DOMAIN predicates |-> {}]
  /\ stage = "listing traversal" =>
       /\ request.follow
       /\ DOMAIN tips = {1} /\ tips = <<tips[1]>>
       /\ eligible = {p \in Positions : p >= tips[1] /\ request.author \in {AnyAuthor, history[p].author}}
  /\ stage \in {"walking", "found", "answered"} => Listings /\ PageTells
  /\ stage = "walking" => TrackedTo(tracked, DoneIn(Visited))
  /\ stage \in {"found", "answered"} /\ ~hasMore => batch = {} /\ left = {}

\* What a search means depends on the history, the request and its listings.
LEMMA MeaningStays ==
  ASSUME UNCHANGED <<history, request, tips>>
  PROVE  /\ predicates' = predicates /\ Walked' = Walked /\ Changes' = Changes
         /\ Admitted' = Admitted /\ Positions' = Positions
         /\ \A c : ExpectedSources(c)' = ExpectedSources(c)
         /\ \A result : Tells(result)' <=> Tells(result)
         /\ \A paths, D : TrackedTo(paths, D)' <=> TrackedTo(paths, D)
<1>1. predicates' = predicates /\ Walked' = Walked /\ Admitted' = Admitted /\ Positions' = Positions
  BY DEF predicates, Walked, Admitted, Positions
<1>2. Changes' = Changes
  BY <1>1 DEF Changes
<1>3. \A n : ChangeAt(n)' = ChangeAt(n)
  BY DEF ChangeAt
<1>4. \A value : InLineage(value)' = InLineage(value)
  BY <1>2, <1>3 DEF InLineage
<1>5. \A p, c, k : Matches(p, c, k)' = Matches(p, c, k)
  BY <1>4 DEF Matches
<1>8. \A c, k : MatchesAt(c, k)' = MatchesAt(c, k)
  BY <1>1, <1>5 DEF MatchesAt, MatchSources
<1>9. \A c : ExpectedSources(c)' = ExpectedSources(c)
  BY <1>8 DEF ExpectedSources
<1>10. \A c : ExpectedFiles(c)' = ExpectedFiles(c)
  BY <1>8 DEF ExpectedFiles
<1>11. \A result : Tells(result)' <=> Tells(result)
  BY <1>8, <1>9, <1>10 DEF Tells
<1>12. \A value, D : Olds(value, D)' = Olds(value, D)
  BY <1>3, <1>4 DEF Olds
<1>13. \A paths, D : TrackedTo(paths, D)' <=> TrackedTo(paths, D)
  BY <1>1, <1>12 DEF TrackedTo, Known
<1> QED BY <1>1, <1>2, <1>9, <1>11, <1>13

\* Nothing of the page changes: what it tells does not.
LEMMA TellingStays ==
  ASSUME Telling,
         UNCHANGED <<history, request, tips, eligible, commits, batch, left, tracked, results, hasMore>>,
         stage' \in {stage, "refused", "error", "cancelled"} \/ (stage = "found" /\ stage' = "answered")
           \/ (stage = "walking" /\ stage' = "found" /\ batch = {} /\ left = {})
  PROVE  Telling'
<1>1. /\ predicates' = predicates /\ Walked' = Walked /\ Changes' = Changes
      /\ Admitted' = Admitted /\ Positions' = Positions
      /\ \A c : ExpectedSources(c)' = ExpectedSources(c)
      /\ \A result : Tells(result)' <=> Tells(result)
      /\ \A paths, D : TrackedTo(paths, D)' <=> TrackedTo(paths, D)
  BY MeaningStays
<1>2. Visited' = Visited /\ InPage' = InPage
  BY DEF Visited, InPage
<1>3. DoneIn(Visited)' = DoneIn(Visited)
  BY <1>1, <1>2 DEF DoneIn
<1>4. Listings' <=> Listings
  BY <1>1 DEF Listings
<1>5. PageTells' <=> PageTells
  BY <1>1, <1>2 DEF PageTells
<1>6. TrackedTo(tracked, DoneIn(Visited))' <=> TrackedTo(tracked, DoneIn(Visited))
  BY <1>1, <1>3
<1> QED BY <1>1, <1>4, <1>5, <1>6 DEF Telling

\* The walk begins: nothing is visited, and nothing is tracked.
LEMMA WalkBegins ==
  ASSUME Listings', stage' = "walking", tracked' = [i \in DOMAIN predicates' |-> {}],
         left' = commits', results' = << >>, ~hasMore'
  PROVE  Telling'
<1>1. Visited' = {} /\ DOMAIN results' = {}
  BY DEF Visited
<1>2. PageTells'
  BY <1>1 DEF PageTells
<1>3. DoneIn(Visited)' = {}
  BY <1>1 DEF DoneIn
<1>4. TrackedTo(tracked, {})'
  <2>1. \A value : Olds(value, {})' = {}
    BY DEF Olds
  <2> QED BY <2>1 DEF TrackedTo, Known
<1>5. TrackedTo(tracked, DoneIn(Visited))'
  BY <1>3, <1>4
<1> QED BY <1>2, <1>5 DEF Telling

\* The first listing, which is the only one unless renames are followed past a filter.
LEMMA ListTells ==
  ASSUME IInv, Telling, List, UNCHANGED environmentVars
  PROVE  Telling'
<1>1. /\ UNCHANGED <<history, request, tip, batch, tracked, results, hasMore>>
      /\ stage = "listing" /\ tips' = <<tip>>
      /\ eligible' = Listing(request.author) /\ commits' = eligible' /\ left' = commits'
      /\ stage' = IF request.follow /\ request.author # AnyAuthor THEN "listing traversal" ELSE "walking"
  BY DEF List, environmentVars
<1>2. results = << >> /\ ~hasMore
  BY <1>1 DEF IInv, WalkInOrder, ResultsInOrder, TypeOK, Ended
<1>3. predicates' = predicates /\ Positions' = Positions
  BY <1>1 DEF predicates, Positions
<1>4. tracked' = [i \in DOMAIN predicates' |-> {}]
  BY <1>1, <1>3 DEF Telling
<1>5. DOMAIN tips' = {1} /\ Len(tips') = 1 /\ tips'[1] = tip
  <2>1. tips' = <<tip>>
    BY <1>1
  <2>2. DOMAIN tips' = 1..1 /\ Len(tips') = 1 /\ tips'[1] = tip
    BY <2>1
  <2> QED BY <2>2
<1>6. CASE stage' = "listing traversal"
  <2>1. request'.follow
    BY <1>1, <1>6
  <2>2. tips' = <<tips'[1]>>
    BY <1>1
  <2>3. eligible' = {p \in Positions' : p >= tips'[1]
                       /\ request'.author \in {AnyAuthor, history'[p].author}}
    BY <1>1, <1>3, <1>5 DEF Listing
  <2> QED BY <1>4, <1>5, <1>6, <2>1, <2>2, <2>3 DEF Telling
<1>7. CASE stage' = "walking"
  <2>1. Walked' = {p \in Positions : p >= tip}
    BY <1>3, <1>5 DEF Walked
  <2>2. Admitted' = {p \in Positions : p >= tip /\ request.author \in {AnyAuthor, history[p].author}}
    BY <1>1, <1>3, <1>5 DEF Admitted
  <2>3. commits' = Admitted' /\ eligible' = Admitted'
    BY <1>1, <2>2 DEF Listing
  <2>4. request.follow => request.author = AnyAuthor
    BY <1>1, <1>7
  <2>5. commits' \subseteq Walked' /\ (request.follow => commits' = Walked')
    BY <2>1, <2>2, <2>3, <2>4
  <2>6. Listings'
    BY <1>1, <2>3, <2>5 DEF Listings
  <2> QED BY <1>1, <1>2, <1>4, <1>7, <2>6, WalkBegins
<1> QED BY <1>1, <1>6, <1>7

\* The second listing.
LEMMA ListTraversalTells ==
  ASSUME IInv, Telling, ListTraversal, UNCHANGED environmentVars
  PROVE  Telling'
<1>1. /\ UNCHANGED <<history, request, tip, batch, tracked, results, hasMore, eligible>>
      /\ stage = "listing traversal" /\ tips' = Append(tips, tip)
      /\ commits' = Listing(AnyAuthor) /\ left' = commits'
      /\ stage' = "walking"
  BY DEF ListTraversal, environmentVars
<1>2. results = << >> /\ ~hasMore
  BY <1>1 DEF IInv, WalkInOrder, ResultsInOrder, TypeOK, Ended
<1>3. predicates' = predicates /\ Positions' = Positions
  BY <1>1 DEF predicates, Positions
<1>4. tracked' = [i \in DOMAIN predicates' |-> {}]
  BY <1>1, <1>3 DEF Telling
<1>5. /\ tips = <<tips[1]>>
      /\ eligible = {p \in Positions : p >= tips[1] /\ request.author \in {AnyAuthor, history[p].author}}
  BY <1>1 DEF Telling
<1>6. DOMAIN tips' = {1, 2} /\ Len(tips') = 2 /\ tips'[1] = tips[1] /\ tips'[2] = tip
  <2> DEFINE first == tips[1]
  <2>1. tips' = Append(<<first>>, tip)
    BY <1>1, <1>5
  <2> HIDE DEF first
  <2>2. DOMAIN tips' = {1, 2} /\ Len(tips') = 2 /\ tips'[1] = first /\ tips'[2] = tip
    BY <2>1
  <2> QED BY <2>2 DEF first
<1>7. Walked' = {p \in Positions : p >= tip}
  BY <1>3, <1>6 DEF Walked
<1>8. Admitted' = {p \in Positions : /\ p >= tips[1] /\ p >= tip
                                    /\ request.author \in {AnyAuthor, history[p].author}}
  BY <1>1, <1>3, <1>6 DEF Admitted
<1>9. commits' = Walked'
  BY <1>1, <1>7 DEF Listing
<1>10. commits' \cap eligible' = Admitted'
  BY <1>1, <1>5, <1>7, <1>8, <1>9
<1>11. Listings'
  BY <1>9, <1>10 DEF Listings
<1> QED BY <1>1, <1>2, <1>4, <1>11, WalkBegins

\* A batch is read: what is visited stays.
LEMMA ReadBatchTells ==
  ASSUME Telling, ReadBatch, UNCHANGED environmentVars
  PROVE  Telling'
<1>1. /\ UNCHANGED <<history, request, stage, eligible, commits, tips, tracked, results, hasMore>>
      /\ stage = "walking" /\ batch = {} /\ batch' = NextBatch /\ left' = left \ NextBatch
  BY DEF ReadBatch, environmentVars
<1>2. NextBatch \subseteq left
  BY DEF NextBatch
<1>3. Visited' = Visited /\ InPage' = InPage
  BY <1>1, <1>2 DEF Visited, InPage
<1>4. /\ predicates' = predicates /\ Walked' = Walked /\ Changes' = Changes
      /\ Admitted' = Admitted /\ Positions' = Positions
      /\ \A c : ExpectedSources(c)' = ExpectedSources(c)
      /\ \A result : Tells(result)' <=> Tells(result)
      /\ \A paths, D : TrackedTo(paths, D)' <=> TrackedTo(paths, D)
  BY <1>1, MeaningStays
<1>5. DoneIn(Visited)' = DoneIn(Visited)
  BY <1>3, <1>4 DEF DoneIn
<1>6. Listings' <=> Listings
  BY <1>1, <1>4 DEF Listings
<1>7. PageTells' <=> PageTells
  BY <1>1, <1>3, <1>4 DEF PageTells
<1>8. TrackedTo(tracked, DoneIn(Visited))' <=> TrackedTo(tracked, DoneIn(Visited))
  BY <1>1, <1>4, <1>5
<1> QED BY <1>1, <1>6, <1>7, <1>8 DEF Telling

\* A commit is visited when the names up to it are known.
LEMMA NamesAreKnown ==
  ASSUME IInv, Recorded, Listings, TrackedTo(tracked, DoneIn(Visited)),
         NEW c \in batch, \A q \in batch : c <= q
  PROVE  /\ c \in Walked /\ c \notin left
         /\ TrackedTo(tracked, DoneTo(c, 0))
         /\ request.follow =>
              DoneTo(c, Len(FilesOf(history[c]))) = DoneIn(Visited \cup {c})
<1>1. /\ batch \subseteq commits /\ left \subseteq commits /\ commits \subseteq Walked
      /\ Walked \subseteq Positions /\ Positions \subseteq Nat
  BY PositionsAreNaturals DEF IInv, TypeOK, Listings, Walked, Recorded
<1>2. /\ \A p \in batch, q \in left : p < q
      /\ \A p \in batch \cup left, q \in commits \ (batch \cup left) : q < p
  BY DEF IInv, WalkInOrder
<1>3. c \in Walked /\ c \in Nat /\ c \notin left
  <2>1. c \in left => c < c
    BY <1>2
  <2> QED BY <1>1, <2>1
<1>4. CASE ~request.follow
  BY <1>3, <1>4 DEF TrackedTo
<1>5. CASE request.follow
  <2>1. commits = Walked
    BY <1>5 DEF Listings
  <2>2. \A q \in commits : q \in Visited <=> q < c
    <3> TAKE q \in commits
    <3>1. q \in Nat
      BY <1>1
    <3>2. CASE q \in Visited
      BY <1>2, <3>2 DEF Visited
    <3>3. CASE q \in batch
      BY <1>3, <3>1, <3>3 DEF Visited
    <3>4. CASE q \in left
      BY <1>2, <1>3, <3>1, <3>4 DEF Visited
    <3> QED BY <3>2, <3>3, <3>4 DEF Visited
  <2>3. \A n \in Changes : n[1] \in commits /\ n[2] \in 1..Len(FilesOf(history[n[1]]))
                           /\ Len(FilesOf(history[n[1]])) \in Nat
    <3> TAKE n \in Changes
    <3>1. PICK p \in Walked : n \in {p} \X DOMAIN FilesOf(history[p])
      BY DEF Changes
    <3>2. DOMAIN FilesOf(history[p]) = 1..Len(FilesOf(history[p])) /\ Len(FilesOf(history[p])) \in Nat
      BY <1>1, FilesAreListed
    <3>3. n[1] = p /\ n[2] \in DOMAIN FilesOf(history[p])
      BY <3>1
    <3> QED BY <2>1, <3>2, <3>3
  <2>4. DoneTo(c, 0) = DoneIn(Visited)
    <3>1. \A n \in Changes : (n[1] < c \/ (n[1] = c /\ n[2] <= 0)) <=> n[1] \in Visited
      <4> TAKE n \in Changes
      <4>1. ~(n[2] <= 0)
        BY <2>3
      <4> QED BY <2>2, <2>3, <4>1
    <3> QED BY <3>1 DEF DoneTo, DoneIn
  <2>5. DoneTo(c, Len(FilesOf(history[c]))) = DoneIn(Visited \cup {c})
    <3>1. \A n \in Changes : (n[1] < c \/ (n[1] = c /\ n[2] <= Len(FilesOf(history[c]))))
                             <=> n[1] \in Visited \cup {c}
      <4> TAKE n \in Changes
      <4>1. n[1] = c => n[2] <= Len(FilesOf(history[c]))
        BY <2>3
      <4> QED BY <2>2, <2>3, <4>1
    <3> QED BY <3>1 DEF DoneTo, DoneIn
  <2> QED BY <1>3, <2>4, <2>5
<1> QED BY <1>4, <1>5

\* One more result.
LEMMA ResultIsIn ==
  ASSUME results \in Seq(ToSet(results)), NEW new, results' = Append(results, new)
  PROVE  /\ DOMAIN results' = DOMAIN results \cup {Len(results) + 1}
         /\ \A k \in DOMAIN results : results'[k] = results[k]
         /\ results'[Len(results) + 1] = new
         /\ InPage' = InPage \cup {new.commit}
<1> DEFINE n == Len(results)
<1>1. n \in Nat /\ DOMAIN results = 1..n
  OBVIOUS
<1>2. /\ DOMAIN Append(results, new) = 1..n + 1
      /\ Append(results, new)[n + 1] = new
      /\ \A k \in 1..n : Append(results, new)[k] = results[k]
  OBVIOUS
<1> HIDE DEF n
<1>3. 1..n + 1 = (1..n) \cup {n + 1}
  BY <1>1
<1>4. /\ DOMAIN results' = DOMAIN results \cup {n + 1}
      /\ \A k \in DOMAIN results : results'[k] = results[k]
      /\ results'[n + 1] = new
  BY <1>1, <1>2, <1>3
<1>5. InPage' = InPage \cup {new.commit}
  BY <1>4 DEF InPage
<1> QED BY <1>4, <1>5 DEF n

\* A visit tells of its commit, or says that there is more.
LEMMA VisitTells ==
  ASSUME IInv, Recorded, Understood, Telling, Visit, UNCHANGED environmentVars
  PROVE  Telling'
<1> DEFINE c == Newest(batch)
           scan == Scan(c)
           new == Result(c, scan)
           matched == c \in eligible /\ scan.matched
<1>1. /\ UNCHANGED <<history, request, tips, eligible, commits, left>>
      /\ stage = "walking" /\ batch # {} /\ batch' = batch \ {c} /\ tracked' = scan.tracked
      /\ IF matched /\ Len(results) >= Limit
           THEN hasMore' = TRUE /\ stage' = "found" /\ UNCHANGED results
           ELSE /\ results' = IF matched THEN Append(results, new) ELSE results
                /\ UNCHANGED <<hasMore, stage>>
  BY DEF Visit, environmentVars
<1>2. /\ ~hasMore /\ results \in Seq(ToSet(results))
      /\ batch \subseteq commits /\ left \subseteq commits
      /\ commits \subseteq Nat
  <2>1. Positions \subseteq Nat
    BY PositionsAreNaturals DEF Recorded
  <2> QED BY <1>1, <2>1 DEF IInv, TypeOK, ResultsInOrder, Ended
<1>3. c \in batch /\ \A q \in batch : c <= q
  <2>1. batch \in SUBSET Nat
    BY <1>2
  <2> QED BY <1>1, <2>1, NewestIsLeast
<1>4. /\ Listings /\ PageTells /\ TrackedTo(tracked, DoneIn(Visited))
  BY <1>1 DEF Telling
<1>5. /\ c \in Walked /\ c \notin left /\ TrackedTo(tracked, DoneTo(c, 0))
      /\ request.follow => DoneTo(c, Len(FilesOf(history[c]))) = DoneIn(Visited \cup {c})
  <2> HIDE DEF c
  <2> QED BY <1>3, <1>4, NamesAreKnown
<1>6. Evaluable(predicates)
  BY <1>1, PredicatesAreEvaluable
<1>7. /\ scan.matched = (ExpectedSources(c) # {})
      /\ new.commit = c /\ new.sources = ExpectedSources(c)
      /\ Tells(new)
      /\ TrackedTo(scan.tracked, DoneTo(c, Len(FilesOf(history[c]))))
  <2> HIDE DEF c
  <2> QED BY <1>5, <1>6, ScanTells
<1> HIDE DEF c, scan, new
<1>8. TrackedTo(scan.tracked, DoneIn(Visited \cup {c}))
  <2>1. CASE request.follow
    BY <1>5, <1>7, <2>1
  <2>2. CASE ~request.follow
    BY <2>2 DEF TrackedTo
  <2> QED BY <2>1, <2>2
<1>9. Visited' = Visited \cup {c}
  BY <1>1, <1>2, <1>3, <1>5 DEF Visited
<1>10. /\ predicates' = predicates /\ Walked' = Walked /\ Changes' = Changes
       /\ Admitted' = Admitted
       /\ \A d : ExpectedSources(d)' = ExpectedSources(d)
       /\ \A result : Tells(result)' <=> Tells(result)
       /\ \A paths, D : TrackedTo(paths, D)' <=> TrackedTo(paths, D)
  BY <1>1, MeaningStays
<1>11. TrackedTo(tracked, DoneIn(Visited))'
  <2>1. DoneIn(Visited)' = DoneIn(Visited \cup {c})
    BY <1>9, <1>10 DEF DoneIn
  <2> QED BY <1>1, <1>8, <1>10, <2>1
<1>12. Listings'
  BY <1>1, <1>4, <1>10 DEF Listings
<1>13. /\ \A k \in DOMAIN results : Tells(results[k]) /\ results[k].sources # {}
       /\ \A d \in Visited \cap eligible : ExpectedSources(d) # {} => d \in InPage
       /\ commits \cap eligible = Admitted
  BY <1>2, <1>4 DEF PageTells, Listings
<1>14. \A k \in DOMAIN results : results[k].commit \in commits \ (batch \cup left)
  BY DEF IInv, ResultsInOrder
<1>15. matched => ExpectedSources(c) # {}
  BY <1>7
<1>16. CASE matched /\ Len(results) >= Limit
  <2>1. hasMore' = TRUE /\ stage' = "found" /\ results' = results
    BY <1>1, <1>16
  <2>2. InPage' = InPage
    BY <2>1 DEF InPage
  <2>3. c \in Admitted \ InPage
    <3>1. c \notin InPage
      BY <1>3, <1>14 DEF InPage
    <3> QED BY <1>2, <1>3, <1>13, <1>16, <3>1
  <2>4. ASSUME NEW d \in Admitted \ InPage, ExpectedSources(d) # {}, NEW k \in DOMAIN results
        PROVE  results[k].commit < d
    <3>1. d \notin Visited
      BY <1>13, <2>4
    <3>2. d \in batch \cup left
      BY <1>13, <2>4, <3>1 DEF Visited
    <3> QED BY <1>14, <3>2 DEF IInv, WalkInOrder
  <2>5. PageTells'
    <3>1. \A k \in DOMAIN results' : Tells(results[k])' /\ results'[k].sources # {}
      BY <1>10, <1>13, <2>1
    <3>2. \E d \in Admitted' \ InPage' : ExpectedSources(d)' # {}
      BY <1>10, <1>15, <1>16, <2>2, <2>3
    <3>3. \A d \in Admitted' \ InPage' : ExpectedSources(d)' # {} =>
            \A k \in DOMAIN results' : results'[k].commit < d
      BY <1>10, <2>1, <2>2, <2>4
    <3> QED BY <2>1, <3>1, <3>2, <3>3 DEF PageTells
  <2> QED BY <1>12, <2>1, <2>5 DEF Telling
<1>17. CASE ~matched
  <2>1. ~hasMore' /\ stage' = "walking" /\ results' = results
    BY <1>1, <1>2, <1>17
  <2>2. InPage' = InPage
    BY <2>1 DEF InPage
  <2>3. \A d \in (Visited \cup {c}) \cap eligible : ExpectedSources(d) # {} => d \in InPage
    BY <1>7, <1>13, <1>17
  <2>4. PageTells'
    <3>1. \A k \in DOMAIN results' : Tells(results[k])' /\ results'[k].sources # {}
      BY <1>10, <1>13, <2>1
    <3>2. \A d \in Visited' \cap eligible' : ExpectedSources(d)' # {} => d \in InPage'
      BY <1>1, <1>9, <1>10, <2>2, <2>3
    <3> QED BY <2>1, <3>1, <3>2 DEF PageTells
  <2> QED BY <1>11, <1>12, <2>1, <2>4 DEF Telling
<1>18. CASE matched /\ ~(Len(results) >= Limit)
  <2>1. ~hasMore' /\ stage' = "walking" /\ results' = Append(results, new)
    BY <1>1, <1>2, <1>18
  <2>2. /\ DOMAIN results' = DOMAIN results \cup {Len(results) + 1}
        /\ \A k \in DOMAIN results : results'[k] = results[k]
        /\ results'[Len(results) + 1] = new
        /\ InPage' = InPage \cup {c}
    BY <1>2, <1>7, <2>1, ResultIsIn
  <2>3. \A d \in (Visited \cup {c}) \cap eligible : ExpectedSources(d) # {} => d \in InPage'
    BY <1>13, <2>2
  <2>4. PageTells'
    <3>1. \A k \in DOMAIN results' : Tells(results[k])' /\ results'[k].sources # {}
      BY <1>7, <1>10, <1>13, <1>15, <1>18, <2>2
    <3>2. \A d \in Visited' \cap eligible' : ExpectedSources(d)' # {} => d \in InPage'
      BY <1>1, <1>9, <1>10, <2>3
    <3> QED BY <2>1, <3>1, <3>2 DEF PageTells
  <2> QED BY <1>11, <1>12, <2>1, <2>4 DEF Telling
<1> QED BY <1>16, <1>17, <1>18

(* Histories are sequences of commits, and these of changes. *)
LEMMA InitRecorded ==
  ASSUME HistoryInit
  PROVE  Recorded
<1>1. PICK c \in Cases : history = c.history
  BY DEF HistoryInit
<1>2. history \in Seq(ToSet(history))
  BY <1>1, CasesAssumption
<1>3. \A p \in DOMAIN history : history[p].changes \in Seq(ToSet(history[p].changes))
  BY <1>1, ChangesAssumption
<1> QED
  BY <1>2, <1>3 DEF Recorded, Positions

(* What is known of the page stays true. *)
LEMMA NextTelling ==
  ASSUME IInv, Recorded, Understood, Telling,
         [SearchNext]_<<environmentVars, stage, searchVars>>
  PROVE  Recorded' /\ Telling'
<1>1. UNCHANGED history
  BY DEF SearchNext, RefsMove, Cancel, environmentVars
<1>2. Recorded'
  BY <1>1 DEF Recorded, Positions
<1>3. Telling'
  <2>1. CASE UNCHANGED <<environmentVars, stage, searchVars>>
    <3>1. UNCHANGED <<history, request, tips, eligible, commits, batch, left, tracked, results, hasMore>>
          /\ stage' = stage
      BY <2>1 DEF environmentVars, searchVars
    <3> QED
      BY <3>1, TellingStays
  <2>2. CASE (RefsMove \/ Cancel) /\ UNCHANGED searchVars
    <3>1. UNCHANGED <<history, request, tips, eligible, commits, batch, left, tracked, results, hasMore>>
          /\ stage' = stage
      BY <2>2 DEF RefsMove, Cancel, searchVars
    <3> QED
      BY <3>1, TellingStays
  <2>3. CASE Begin /\ UNCHANGED environmentVars
    <3>1. /\ stage' \in {"listing", "refused"}
          /\ tracked' = [i \in DOMAIN request'.predicates |-> {}]
      BY <2>3 DEF Begin, environmentVars
    <3>2. DOMAIN predicates' = DOMAIN request'.predicates
      BY DEF predicates, Normalized
    <3> QED
      BY <3>1, <3>2 DEF Telling
  <2>4. CASE List /\ UNCHANGED environmentVars
    BY <2>4, ListTells
  <2>5. CASE ListTraversal /\ UNCHANGED environmentVars
    BY <2>5, ListTraversalTells
  <2>6. CASE ReadBatch /\ UNCHANGED environmentVars
    BY <2>6, ReadBatchTells
  <2>7. CASE Visit /\ UNCHANGED environmentVars
    BY <2>7, VisitTells
  <2>8. CASE (Finish \/ Fail \/ Deliver) /\ UNCHANGED environmentVars
    <3>1. /\ UNCHANGED <<history, request, tips, eligible, commits, batch, left, tracked, results, hasMore>>
          /\ \/ stage' \in {"error", "cancelled"}
             \/ stage = "found" /\ stage' = "answered"
             \/ stage = "walking" /\ stage' = "found" /\ batch = {} /\ left = {}
      BY <2>8 DEF Finish, Fail, Deliver, environmentVars
    <3> QED
      BY <3>1, TellingStays
  <2> QED
    BY <2>1, <2>2, <2>3, <2>4, <2>5, <2>6, <2>7, <2>8 DEF SearchNext, SearchStep
<1> QED
  BY <1>2, <1>3

(* What is known of the page says that the answer is exact. *)
LEMMA TellingSuffices ==
  ASSUME IInv, Telling
  PROVE  AnswerExact
<1> DEFINE others == Admitted \ {results[k].commit : k \in DOMAIN results}
           matching == {c \in others : ExpectedSources(c) # {}}
<1> SUFFICES ASSUME stage = "answered"
             PROVE  /\ \A k \in DOMAIN results : Tells(results[k])
                    /\ \A k \in DOMAIN results : results[k].sources # {} /\ results[k].commit \in Admitted
                    /\ \A c \in matching, k \in DOMAIN results : results[k].commit < c
                    /\ hasMore = (matching # {})
  BY Zenon DEF AnswerExact
<1>1. Listings /\ PageTells /\ (~hasMore => batch = {} /\ left = {})
  BY DEF Telling
<1>2. hasMore \in BOOLEAN
  BY DEF IInv, TypeOK
<1>3. \A k \in DOMAIN results : Tells(results[k]) /\ results[k].sources # {}
  BY <1>1 DEF PageTells
<1>4. \A k \in DOMAIN results : results[k].commit \in Admitted
  BY <1>1 DEF IInv, ResultsInOrder, Listings
<1>5. others = Admitted \ InPage
  BY DEF InPage
<1>6. CASE hasMore
  <2>1. \A c \in matching, k \in DOMAIN results : results[k].commit < c
    BY <1>1, <1>5, <1>6 DEF PageTells
  <2>2. matching # {}
    BY <1>1, <1>5, <1>6 DEF PageTells
  <2> HIDE DEF matching, others
  <2> QED
    BY <1>2, <1>3, <1>4, <1>6, <2>1, <2>2
<1>7. CASE ~hasMore
  <2>1. Visited = commits
    BY <1>1, <1>7 DEF Visited
  <2>2. \A c \in Admitted : ExpectedSources(c) # {} => c \in InPage
    BY <1>1, <1>7, <2>1 DEF PageTells, Listings
  <2>3. matching = {}
    BY <1>5, <2>2
  <2> HIDE DEF matching, others
  <2> QED
    BY <1>2, <1>3, <1>4, <1>7, <2>3
<1> QED
  BY <1>2, <1>6, <1>7

(* An answer tells of every commit in it what it should and leaves out only what
   comes after a full page, for every history, request and batch size, and
   wherever the name moves while the answer is computed. *)
THEOREM AnswersAreExact == SearchSpec => []AnswerExact
<1> DEFINE Inv == IInv /\ request.limit \in Int /\ Understood /\ Recorded /\ Telling
<1>1. HistoryInit /\ request.method = "search.run" /\ SearchInit => Inv
  <2>1. HistoryInit => Telling
    BY DEF HistoryInit, Telling
  <2> QED
    BY <2>1, InitIInv, InitUnderstood, InitRecorded
<1>2. Inv /\ [SearchNext]_<<environmentVars, stage, searchVars>> => Inv'
  BY NextIInv, NextUnderstood, NextTelling
<1>3. Inv => AnswerExact
  BY TellingSuffices
<1> HIDE DEF Inv
<1> QED
  BY <1>1, <1>2, <1>3, PTL DEF SearchSpec

-----------------------------------------------------------------------------
(* The ranges of a diff.                                                    *)

(* The ranges gathered so far: apart from one another, above a line. *)
Apart(ranges, line) ==
  /\ ranges \in Seq(Int \X Int)
  /\ \A k \in 1..Len(ranges) : 1 <= ranges[k][1] /\ ranges[k][1] <= ranges[k][2] /\ ranges[k][2] < line
  /\ \A k \in 2..Len(ranges) : ranges[k][1] > ranges[k - 1][2] + 1

(* The lines a sequence of ranges covers. *)
Covered(ranges) == UNION {ranges[k][1]..ranges[k][2] : k \in 1..Len(ranges)}

(* The anchors gathered so far: rising, up to a line. *)
Rising(anchors, line) ==
  /\ anchors \in Seq(Int)
  /\ \A k \in 1..Len(anchors) : anchors[k] <= line
  /\ \A k \in 2..Len(anchors) : anchors[k] > anchors[k - 1]

Anchored(anchors) == {anchors[k] : k \in 1..Len(anchors)}

\* A range after the others joins the last one if it touches it, and covers its lines.
LEMMA RangeAppended ==
  ASSUME NEW ranges, NEW first \in Nat \ {0}, NEW last \in Nat, first <= last, Apart(ranges, first)
  PROVE  /\ Apart(appendRange(ranges, first, last), last + 1)
         /\ Covered(appendRange(ranges, first, last)) = Covered(ranges) \cup first..last
<1> DEFINE n == Len(ranges)
           new == appendRange(ranges, first, last)
<1>s. ranges \in Seq(Int \X Int)
  BY DEF Apart
<1>n. n \in Nat
  BY <1>s
<1>1. \A k \in 1..n : /\ ranges[k][1] \in Int /\ ranges[k][2] \in Int
                      /\ 1 <= ranges[k][1] /\ ranges[k][1] <= ranges[k][2] /\ ranges[k][2] < first
  BY DEF Apart
<1>2. \A k \in 2..n : ranges[k][1] > ranges[k - 1][2] + 1
  BY DEF Apart
<1>3. CASE n # 0 /\ first <= ranges[n][2] + 1
  <2> DEFINE joined == <<ranges[n][1], last>>
  <2>n. n \in 1..n
    BY <1>n, <1>3
  <2>1. first = ranges[n][2] + 1 /\ last > ranges[n][2] /\ joined \in Int \X Int
    <3>1. ranges[n][1] \in Int /\ ranges[n][2] \in Int /\ ranges[n][2] < first
      BY <1>1, <2>n
    <3>2. joined \in Int \X Int
      BY <3>1
    <3> HIDE DEF joined
    <3> QED BY <3>1, <3>2, <1>3
  <2>2. new = Append(Front(ranges), joined)
    <3>1. Last(ranges) = ranges[n] /\ ranges # << >>
      BY <1>s, <1>3 DEF Last
    <3> QED BY <2>1, <3>1, <1>3 DEF appendRange
  <2>3. /\ Front(ranges) \in Seq(Int \X Int) /\ Len(Front(ranges)) = n - 1
        /\ \A k \in 1..n - 1 : Front(ranges)[k] = ranges[k]
    <3>1. Front(ranges) = SubSeq(ranges, 1, n - 1)
      BY <1>3 DEF Front
    <3>2. \A k \in 1..n - 1 : ranges[k] \in Int \X Int
      BY <1>s
    <3> DEFINE m == n - 1
    <3>3. m \in Int /\ (1 <= m => m - 1 + 1 = m) /\ (~(1 <= m) => m = 0)
      BY <1>n, <2>n
    <3> HIDE DEF m
    <3>4. /\ SubSeq(ranges, 1, m) \in Seq(Int \X Int)
          /\ Len(SubSeq(ranges, 1, m)) = IF 1 <= m THEN m - 1 + 1 ELSE 0
          /\ \A k \in 1..m - 1 + 1 : SubSeq(ranges, 1, m)[k] = ranges[1 + k - 1]
      <4>1. \A k \in 1..m : ranges[k] \in Int \X Int
        BY <3>2 DEF m
      <4> QED BY <3>3, <4>1, SubSeqProperties
    <3>5. \A k \in 1..m : k \in 1..m - 1 + 1 /\ 1 + k - 1 = k
      BY <3>3
    <3>6. /\ SubSeq(ranges, 1, m) \in Seq(Int \X Int) /\ Len(SubSeq(ranges, 1, m)) = m
          /\ \A k \in 1..m : SubSeq(ranges, 1, m)[k] = ranges[k]
      BY <3>3, <3>4, <3>5
    <3> QED BY <3>1, <3>6 DEF m
  <2> HIDE DEF joined, new
  <2>4. /\ new \in Seq(Int \X Int) /\ Len(new) = n
        /\ \A k \in 1..n - 1 : new[k] = ranges[k]
        /\ new[n] = joined
    <3> DEFINE f == Front(ranges)
               m == n - 1
    <3>1. m \in Nat /\ m + 1 = n /\ f \in Seq(Int \X Int) /\ Len(f) = m /\ new = Append(f, joined)
      BY <1>n, <2>n, <2>2, <2>3
    <3>2. \A k \in 1..m : f[k] = ranges[k]
      BY <2>3
    <3> HIDE DEF f, m
    <3>3. Len(new) = m + 1 /\ new \in Seq(Int \X Int) /\ new[m + 1] = joined
      BY <2>1, <3>1
    <3>4. \A k \in 1..m : new[k] = f[k]
      BY <2>1, <3>1
    <3> QED BY <3>1, <3>2, <3>3, <3>4 DEF m
  <2>5. new[n][1] = ranges[n][1] /\ new[n][2] = last
    BY <2>4 DEF joined
  <2>6. \A k \in 1..n : new[k][1] = ranges[k][1] /\ (k # n => new[k][2] = ranges[k][2])
    <3> TAKE k \in 1..n
    <3>1. CASE k = n
      BY <3>1, <2>5
    <3>2. CASE k # n
      <4>1. k \in 1..n - 1
        BY <3>2, <1>n
      <4> QED BY <4>1, <2>4
    <3> QED BY <3>1, <3>2
  <2>7. Apart(new, last + 1)
    <3>1. ASSUME NEW k \in 1..n PROVE 1 <= new[k][1] /\ new[k][1] <= new[k][2] /\ new[k][2] < last + 1
      <4>1. CASE k = n
        BY <4>1, <1>1, <2>1, <2>5, <2>n
      <4>2. CASE k # n
        BY <4>2, <1>1, <2>6
      <4> QED BY <4>1, <4>2
    <3>2. ASSUME NEW k \in 2..n PROVE new[k][1] > new[k - 1][2] + 1
      <4>1. k - 1 \in 1..n /\ k - 1 # n /\ k \in 1..n
        BY <1>n
      <4>2. new[k - 1][2] = ranges[k - 1][2] /\ new[k][1] = ranges[k][1]
        BY <4>1, <2>6
      <4> QED BY <4>2, <1>2
    <3> QED BY <3>1, <3>2, <2>4 DEF Apart
  <2>8. Covered(new) = Covered(ranges) \cup first..last
    <3>1. ASSUME NEW l \in Covered(new) PROVE l \in Covered(ranges) \cup first..last
      <4>1. PICK k \in 1..n : l \in new[k][1]..new[k][2]
        BY <2>4 DEF Covered
      <4>2. CASE k = n
        <5>1. l \in ranges[n][1]..ranges[n][2] \/ l \in first..last
          BY <4>1, <4>2, <1>1, <2>1, <2>5, <2>n
        <5> QED BY <5>1, <2>n DEF Covered
      <4>3. CASE k # n
        <5>1. l \in ranges[k][1]..ranges[k][2]
          BY <4>1, <4>3, <2>6
        <5> QED BY <5>1 DEF Covered
      <4> QED BY <4>2, <4>3
    <3>2. ASSUME NEW l \in Covered(ranges) PROVE l \in Covered(new)
      <4>1. PICK k \in 1..n : l \in ranges[k][1]..ranges[k][2]
        BY DEF Covered
      <4>2. l \in new[k][1]..new[k][2]
        <5>1. CASE k = n
          BY <4>1, <5>1, <1>1, <2>1, <2>5, <2>n
        <5>2. CASE k # n
          BY <4>1, <5>2, <2>6
        <5> QED BY <5>1, <5>2
      <4> QED BY <4>2, <2>4 DEF Covered
    <3>3. ASSUME NEW l \in first..last PROVE l \in Covered(new)
      <4>1. l \in new[n][1]..new[n][2]
        BY <1>1, <2>1, <2>5, <2>n
      <4> QED BY <4>1, <2>n, <2>4 DEF Covered
    <3> QED BY <3>1, <3>2, <3>3
  <2> QED BY <2>7, <2>8 DEF new
<1>4. CASE ~(n # 0 /\ first <= ranges[n][2] + 1)
  <2> DEFINE one == <<first, last>>
  <2>2. new = Append(ranges, one)
    <3>1. ranges # << >> => n # 0 /\ Last(ranges) = ranges[n]
      BY <1>s DEF Last
    <3> QED BY <1>4, <3>1 DEF appendRange
  <2>3. one \in Int \X Int /\ one[1] = first /\ one[2] = last
    OBVIOUS
  <2> HIDE DEF one, new
  <2>4. /\ new \in Seq(Int \X Int) /\ Len(new) = n + 1
        /\ \A k \in 1..n : new[k] = ranges[k]
        /\ new[n + 1] = one
    BY <1>s, <1>n, <2>2, <2>3
  <2>5. new[n + 1][1] = first /\ new[n + 1][2] = last
    BY <2>3, <2>4
  <2>6. n # 0 => first > ranges[n][2] + 1
    <3> SUFFICES ASSUME n # 0 PROVE first > ranges[n][2] + 1
      OBVIOUS
    <3>1. n \in 1..n
      BY <1>n
    <3>2. ranges[n][2] \in Int
      BY <3>1, <1>1
    <3> QED BY <3>2, <1>4
  <2>7. Apart(new, last + 1)
    <3>1. ASSUME NEW k \in 1..n + 1 PROVE 1 <= new[k][1] /\ new[k][1] <= new[k][2] /\ new[k][2] < last + 1
      <4>1. CASE k = n + 1
        BY <4>1, <2>5
      <4>2. CASE k # n + 1
        <5>1. k \in 1..n
          BY <4>2, <1>n
        <5>2. new[k] = ranges[k]
          BY <5>1, <2>4
        <5> QED BY <5>1, <5>2, <1>1
      <4> QED BY <4>1, <4>2
    <3>2. ASSUME NEW k \in 2..n + 1 PROVE new[k][1] > new[k - 1][2] + 1
      <4>1. k - 1 \in 1..n
        BY <1>n
      <4>2. new[k - 1] = ranges[k - 1]
        BY <4>1, <2>4
      <4>3. CASE k = n + 1
        <5>1. k - 1 = n /\ n # 0
          BY <4>3, <1>n
        <5> QED BY <5>1, <4>2, <4>3, <2>5, <2>6
      <4>4. CASE k # n + 1
        <5>1. k \in 2..n /\ k \in 1..n
          BY <4>4, <1>n
        <5>2. new[k] = ranges[k]
          BY <5>1, <2>4
        <5> QED BY <5>1, <5>2, <4>2, <1>2
      <4> QED BY <4>3, <4>4
    <3> QED BY <3>1, <3>2, <2>4 DEF Apart
  <2>8. Covered(new) = Covered(ranges) \cup first..last
    <3>1. ASSUME NEW l \in Covered(new) PROVE l \in Covered(ranges) \cup first..last
      <4>1. PICK k \in 1..n + 1 : l \in new[k][1]..new[k][2]
        BY <2>4 DEF Covered
      <4>2. CASE k = n + 1
        BY <4>1, <4>2, <2>5
      <4>3. CASE k # n + 1
        <5>1. k \in 1..n
          BY <4>3, <1>n
        <5>2. new[k] = ranges[k]
          BY <5>1, <2>4
        <5> QED BY <4>1, <5>1, <5>2 DEF Covered
      <4> QED BY <4>2, <4>3
    <3>2. ASSUME NEW l \in Covered(ranges) PROVE l \in Covered(new)
      <4>1. PICK k \in 1..n : l \in ranges[k][1]..ranges[k][2]
        BY DEF Covered
      <4>2. new[k] = ranges[k]
        BY <2>4
      <4>3. k \in 1..n + 1
        BY <1>n
      <4> QED BY <4>1, <4>2, <4>3, <2>4 DEF Covered
    <3>3. ASSUME NEW l \in first..last PROVE l \in Covered(new)
      <4>1. l \in new[n + 1][1]..new[n + 1][2]
        BY <2>5
      <4>2. n + 1 \in 1..n + 1
        BY <1>n
      <4> QED BY <4>1, <4>2, <2>4 DEF Covered
    <3> QED BY <3>1, <3>2, <3>3
  <2> QED BY <2>7, <2>8 DEF new
<1> QED BY <1>3, <1>4

\* An anchor at or after the others is kept once.
LEMMA AnchorAppended ==
  ASSUME NEW anchors, NEW line \in Int, Rising(anchors, line)
  PROVE  LET new == IF anchors # << >> /\ Last(anchors) = line THEN anchors ELSE Append(anchors, line)
         IN Rising(new, line) /\ Anchored(new) = Anchored(anchors) \cup {line}
<1> DEFINE n == Len(anchors)
           new == IF anchors # << >> /\ Last(anchors) = line THEN anchors ELSE Append(anchors, line)
<1>s. anchors \in Seq(Int)
  BY DEF Rising
<1>n. n \in Nat
  BY <1>s
<1>1. \A k \in 1..n : anchors[k] \in Int /\ anchors[k] <= line
  BY DEF Rising
<1>2. \A k \in 2..n : anchors[k] > anchors[k - 1]
  BY DEF Rising
<1>3. CASE n # 0 /\ anchors[n] = line
  <2>1. new = anchors
    BY <1>s, <1>3 DEF Last
  <2>2. n \in 1..n
    BY <1>n, <1>3
  <2>3. line \in Anchored(anchors)
    BY <1>3, <2>2 DEF Anchored
  <2> QED BY <2>1, <2>3
<1>4. CASE ~(n # 0 /\ anchors[n] = line)
  <2>1. new = Append(anchors, line)
    <3>1. anchors # << >> => n # 0 /\ Last(anchors) = anchors[n]
      BY <1>s DEF Last
    <3> QED BY <1>4, <3>1
  <2> HIDE DEF new
  <2>2. /\ new \in Seq(Int) /\ Len(new) = n + 1 /\ new[n + 1] = line
        /\ \A k \in 1..n : new[k] = anchors[k]
    BY <1>s, <1>n, <2>1
  <2>3. n # 0 => anchors[n] < line
    <3> SUFFICES ASSUME n # 0 PROVE anchors[n] < line
      OBVIOUS
    <3>1. n \in 1..n
      BY <1>n
    <3>2. anchors[n] \in Int /\ anchors[n] <= line
      BY <3>1, <1>1
    <3> QED BY <3>2, <1>4
  <2>4. Rising(new, line)
    <3>1. ASSUME NEW k \in 1..n + 1 PROVE new[k] <= line
      <4>1. CASE k = n + 1
        BY <4>1, <2>2
      <4>2. CASE k # n + 1
        <5>1. k \in 1..n
          BY <4>2, <1>n
        <5>2. new[k] = anchors[k]
          BY <5>1, <2>2
        <5> QED BY <5>1, <5>2, <1>1
      <4> QED BY <4>1, <4>2
    <3>2. ASSUME NEW k \in 2..n + 1 PROVE new[k] > new[k - 1]
      <4>1. k - 1 \in 1..n
        BY <1>n
      <4>2. new[k - 1] = anchors[k - 1] /\ anchors[k - 1] \in Int
        BY <4>1, <2>2, <1>1
      <4>3. CASE k = n + 1
        <5>1. k - 1 = n /\ n # 0
          BY <4>3, <1>n
        <5>2. new[k] = line
          BY <4>3, <2>2
        <5> QED BY <5>1, <5>2, <4>2, <2>3
      <4>4. CASE k # n + 1
        <5>1. k \in 2..n /\ k \in 1..n
          BY <4>4, <1>n
        <5>2. new[k] = anchors[k]
          BY <5>1, <2>2
        <5> QED BY <5>1, <5>2, <4>2, <1>2
      <4> QED BY <4>3, <4>4
    <3> QED BY <3>1, <3>2, <2>2 DEF Rising
  <2>5. Anchored(new) = Anchored(anchors) \cup {line}
    <3>1. ASSUME NEW x \in Anchored(new) PROVE x \in Anchored(anchors) \cup {line}
      <4>1. PICK k \in 1..n + 1 : x = new[k]
        BY <2>2 DEF Anchored
      <4>2. CASE k = n + 1
        BY <4>1, <4>2, <2>2
      <4>3. CASE k # n + 1
        <5>1. k \in 1..n
          BY <4>3, <1>n
        <5>2. new[k] = anchors[k]
          BY <5>1, <2>2
        <5> QED BY <4>1, <5>1, <5>2 DEF Anchored
      <4> QED BY <4>2, <4>3
    <3>2. ASSUME NEW x \in Anchored(anchors) PROVE x \in Anchored(new)
      <4>1. PICK k \in 1..n : x = anchors[k]
        BY DEF Anchored
      <4>2. k \in 1..n + 1 /\ new[k] = anchors[k]
        BY <1>n, <2>2
      <4> QED BY <4>1, <4>2, <2>2 DEF Anchored
    <3>3. line \in Anchored(new)
      <4>1. n + 1 \in 1..Len(new)
        BY <1>n, <2>2
      <4> QED BY <4>1, <2>2 DEF Anchored
    <3> QED BY <3>1, <3>2, <3>3
  <2> QED BY <2>4, <2>5 DEF new
<1> QED BY <1>3, <1>4

Parser == [ranges : Seq(Int \X Int), anchors : Seq(Int), newLine : Int, addStart : Int,
           deletion : BOOLEAN]

(* What has been gathered before a line of the target: all that was added and *)
(* deleted, but for the run that has not ended.                               *)
Gathered(s, count, line, added, deleted) ==
  /\ s \in Parser
  /\ s.addStart = 0 => Apart(s.ranges, line) /\ Covered(s.ranges) = added
  /\ s.addStart # 0 => /\ s.newLine = line
                       /\ s.addStart >= 1 /\ s.addStart < line
                       /\ Apart(s.ranges, s.addStart)
                       /\ Covered(s.ranges) \cup s.addStart..line - 1 = added
  /\ Rising(s.anchors, Anchor(line, count))
  /\ ~s.deletion => Anchored(s.anchors) = deleted
  /\ s.deletion => /\ Anchor(s.newLine, count) = Anchor(line, count)
                   /\ Anchored(s.anchors) \cup {Anchor(line, count)} = deleted

Idle(s) == s.addStart = 0 /\ ~s.deletion

\* The line after a line.
LEMMA NextLines == \A x \in Nat \ {0} : x + 1 \in Int /\ x + 1 \in Nat \ {0} /\ x + 1 - 1 = x
OBVIOUS

\* An anchor is a number, and does not fall.
LEMMA AnchorRises ==
  ASSUME NEW line \in Int, NEW count \in Int
  PROVE  /\ Anchor(line, count) \in Int
         /\ Anchor(line, count) <= Anchor(line + 1, count)
<1>1. Anchor(line, count) = IF count <= 0 \/ line < 1 THEN 1 ELSE IF line > count THEN count ELSE line
  BY DEF Anchor
<1>2. Anchor(line + 1, count) =
        IF count <= 0 \/ line + 1 < 1 THEN 1 ELSE IF line + 1 > count THEN count ELSE line + 1
  BY DEF Anchor
<1> QED BY <1>1, <1>2

\* The end of a run of additions loses none of them.
LEMMA AdditionFlushes ==
  ASSUME NEW s, NEW count \in Nat, NEW line \in Nat \ {0}, NEW added, NEW deleted,
         Gathered(s, count, line, added, deleted)
  PROVE  /\ Gathered(FlushAddition(s), count, line, added, deleted)
         /\ FlushAddition(s).addStart = 0
         /\ FlushAddition(s).newLine = s.newLine
         /\ FlushAddition(s).deletion = s.deletion
<1> DEFINE t == FlushAddition(s)
           new == appendRange(s.ranges, s.addStart, s.newLine - 1)
<1>1. CASE s.addStart = 0
  BY <1>1 DEF FlushAddition
<1>2. CASE s.addStart # 0
  <2>1. /\ s \in Parser /\ s.newLine = line
        /\ s.addStart >= 1 /\ s.addStart < line /\ Apart(s.ranges, s.addStart)
        /\ Covered(s.ranges) \cup s.addStart..line - 1 = added
    BY <1>2 DEF Gathered
  <2>2. s.addStart \in Nat \ {0} /\ line - 1 \in Nat /\ s.addStart <= line - 1 /\ line - 1 + 1 = line
    BY <2>1 DEF Parser
  <2>3. Apart(new, line) /\ Covered(new) = added
    <3>1. new = appendRange(s.ranges, s.addStart, line - 1)
      BY <2>1
    <3> HIDE DEF new
    <3>2. /\ Apart(appendRange(s.ranges, s.addStart, line - 1), line - 1 + 1)
          /\ Covered(appendRange(s.ranges, s.addStart, line - 1))
               = Covered(s.ranges) \cup s.addStart..line - 1
      BY <2>1, <2>2, RangeAppended
    <3> QED BY <2>1, <2>2, <3>1, <3>2, Zenon
  <2>4. t = [s EXCEPT !.ranges = new, !.addStart = 0]
    BY <1>2 DEF FlushAddition
  <2>5. new \in Seq(Int \X Int)
    BY <2>3 DEF Apart
  <2> HIDE DEF new, t
  <2>6. /\ t \in Parser /\ t.ranges = new /\ t.addStart = 0 /\ t.newLine = s.newLine
        /\ t.deletion = s.deletion /\ t.anchors = s.anchors
    <3>1. s \in Parser /\ 0 \in Int
      BY <2>1
    <3> QED BY ONLY <3>1, <2>4, <2>5 DEF Parser
  <2>7. Gathered(t, count, line, added, deleted)
    BY <2>3, <2>6 DEF Gathered
  <2> QED BY <2>6, <2>7 DEF t
<1> QED BY <1>1, <1>2

\* The end of a run of deletions leaves its anchor.
LEMMA DeletionFlushes ==
  ASSUME NEW s, NEW count \in Nat, NEW line \in Nat \ {0}, NEW added, NEW deleted,
         Gathered(s, count, line, added, deleted)
  PROVE  /\ Gathered(FlushDeletion(s, count), count, line, added, deleted)
         /\ ~FlushDeletion(s, count).deletion
         /\ FlushDeletion(s, count).newLine = s.newLine
         /\ FlushDeletion(s, count).addStart = s.addStart
<1> DEFINE t == FlushDeletion(s, count)
           anchor == Anchor(line, count)
           new == IF s.anchors # << >> /\ Last(s.anchors) = anchor THEN s.anchors
                  ELSE Append(s.anchors, anchor)
<1>1. CASE ~s.deletion
  BY <1>1 DEF FlushDeletion
<1>2. CASE s.deletion
  <2>1. /\ s \in Parser /\ Rising(s.anchors, anchor) /\ Anchor(s.newLine, count) = anchor
        /\ Anchored(s.anchors) \cup {anchor} = deleted
    BY <1>2 DEF Gathered
  <2>2. anchor \in Int
    BY AnchorRises
  <2>3. Rising(new, anchor) /\ Anchored(new) = deleted
    <3> HIDE DEF anchor
    <3> QED BY <2>1, <2>2, AnchorAppended
  <2>4. t = [s EXCEPT !.anchors = new, !.deletion = FALSE]
    BY <1>2, <2>1 DEF FlushDeletion
  <2>5. new \in Seq(Int)
    BY <2>3 DEF Rising
  <2> HIDE DEF new, t
  <2>6. /\ t \in Parser /\ t.anchors = new /\ t.deletion = FALSE /\ t.newLine = s.newLine
        /\ t.addStart = s.addStart /\ t.ranges = s.ranges
    BY <2>1, <2>4, <2>5 DEF Parser
  <2>7. Gathered(t, count, line, added, deleted)
    BY <2>3, <2>6 DEF Gathered
  <2> QED BY <2>6, <2>7 DEF t
<1> QED BY <1>1, <1>2

\* Both runs end.
LEMMA RunsFlush ==
  ASSUME NEW s, NEW count \in Nat, NEW line \in Nat \ {0}, NEW added, NEW deleted,
         Gathered(s, count, line, added, deleted)
  PROVE  /\ Gathered(Flush(s, count), count, line, added, deleted)
         /\ Idle(Flush(s, count))
         /\ Flush(s, count).newLine = s.newLine
BY AdditionFlushes, DeletionFlushes DEF Flush, Idle

\* Nothing is gathered at a line that is kept.
LEMMA IdleKeeps ==
  ASSUME NEW s, NEW count \in Nat, NEW line \in Nat \ {0}, NEW added, NEW deleted,
         Gathered(s, count, line, added, deleted), Idle(s), NEW number \in Int
  PROVE  /\ Gathered([s EXCEPT !.newLine = number], count, line, added, deleted)
         /\ Gathered([s EXCEPT !.newLine = number], count, line + 1, added, deleted)
         /\ Gathered(s, count, line + 1, added, deleted)
         /\ Idle([s EXCEPT !.newLine = number])
         /\ [s EXCEPT !.newLine = number].newLine = number
<1> DEFINE t == [s EXCEPT !.newLine = number]
<1>1. /\ s \in Parser /\ s.addStart = 0 /\ s.deletion = FALSE
      /\ Apart(s.ranges, line) /\ Covered(s.ranges) = added
      /\ Rising(s.anchors, Anchor(line, count)) /\ Anchored(s.anchors) = deleted
  BY DEF Gathered, Idle, Parser
<1>2. /\ t \in Parser /\ t.addStart = 0 /\ t.deletion = FALSE /\ t.ranges = s.ranges
      /\ t.anchors = s.anchors /\ t.newLine = number
  BY <1>1 DEF Parser
<1>3. Apart(s.ranges, line + 1)
  <2>1. \A k \in 1..Len(s.ranges) : s.ranges[k][2] \in Int /\ s.ranges[k][2] < line
    BY <1>1 DEF Apart
  <2>2. \A k \in 1..Len(s.ranges) : s.ranges[k][2] < line + 1
    BY <2>1
  <2> QED BY <2>2, <1>1 DEF Apart
<1>4. Rising(s.anchors, Anchor(line + 1, count))
  <2> DEFINE low == Anchor(line, count)
             high == Anchor(line + 1, count)
  <2>1. low \in Int /\ high \in Int /\ low <= high
    BY AnchorRises
  <2>2. \A k \in 1..Len(s.anchors) : s.anchors[k] \in Int /\ s.anchors[k] <= low
    BY <1>1 DEF Rising
  <2> HIDE DEF low, high
  <2>3. \A k \in 1..Len(s.anchors) : s.anchors[k] <= high
    BY <2>1, <2>2
  <2> QED BY <2>3, <1>1 DEF Rising, high
<1> HIDE DEF t
<1>5. Gathered(t, count, line, added, deleted) /\ Gathered(t, count, line + 1, added, deleted)
  BY <1>1, <1>2, <1>3, <1>4 DEF Gathered
<1>6. Gathered(s, count, line + 1, added, deleted)
  BY <1>1, <1>3, <1>4 DEF Gathered
<1> QED BY <1>2, <1>5, <1>6 DEF Idle, t

\* A header comes between runs, and says where the target goes on.
LEMMA HeaderRead ==
  ASSUME NEW s, NEW count \in Nat, NEW line \in Nat \ {0}, NEW added, NEW deleted,
         Gathered(s, count, line, added, deleted), NEW header, header.mark = "@@", header.start \in Int,
         NEW t, t = ReadLine(s, header, count)
  PROVE  /\ Gathered(t, count, line, added, deleted)
         /\ Idle(t)
         /\ t.newLine = header.start
<1>1. t = [Flush(s, count) EXCEPT !.newLine = header.start]
  BY DEF ReadLine
<1> QED BY <1>1, RunsFlush, IdleKeeps

\* A line that is kept ends both runs.
LEMMA KeptLineRead ==
  ASSUME NEW s, NEW count \in Nat, NEW line \in Nat \ {0}, NEW added, NEW deleted,
         Gathered(s, count, line, added, deleted), s.newLine = line, NEW read, read.mark = " "
  PROVE  /\ Gathered(ReadLine(s, read, count), count, line + 1, added, deleted)
         /\ Idle(ReadLine(s, read, count))
         /\ ReadLine(s, read, count).newLine = line + 1
<1> DEFINE t == Flush(s, count)
<1>1. Gathered(t, count, line, added, deleted) /\ Idle(t) /\ t.newLine = line
  BY RunsFlush
<1>2. ReadLine(s, read, count) = [t EXCEPT !.newLine = t.newLine + 1]
  BY DEF ReadLine
<1> HIDE DEF t
<1>3. line + 1 \in Int
  BY NextLines, Zenon
<1>4. ReadLine(s, read, count) = [t EXCEPT !.newLine = line + 1]
  BY <1>1, <1>2
<1> DEFINE after == line + 1
<1>5. after \in Int
  BY <1>3
<1>6. /\ Gathered([t EXCEPT !.newLine = after], count, line + 1, added, deleted)
      /\ Idle([t EXCEPT !.newLine = after])
      /\ [t EXCEPT !.newLine = after].newLine = after
  <2> HIDE DEF after
  <2> QED BY <1>1, <1>5, IdleKeeps
<1> QED BY <1>4, <1>6

\* A line that is deleted ends the additions.
LEMMA DeletedLineRead ==
  ASSUME NEW s, NEW count \in Nat, NEW line \in Nat \ {0}, NEW added, NEW deleted,
         Gathered(s, count, line, added, deleted), Anchor(s.newLine, count) = Anchor(line, count),
         NEW read, read.mark = "-"
  PROVE  /\ Gathered(ReadLine(s, read, count), count, line, added, deleted \cup {Anchor(line, count)})
         /\ ReadLine(s, read, count).addStart = 0
         /\ ReadLine(s, read, count).newLine = s.newLine
<1> DEFINE t == FlushAddition(s)
           u == [t EXCEPT !.deletion = TRUE]
<1>1. Gathered(t, count, line, added, deleted) /\ t.addStart = 0 /\ t.newLine = s.newLine
  BY AdditionFlushes
<1>2. ReadLine(s, read, count) = u
  BY DEF ReadLine
<1> HIDE DEF t
<1>3. t \in Parser
  BY <1>1 DEF Gathered
<1>4. /\ u \in Parser /\ u.deletion = TRUE /\ u.addStart = 0 /\ u.newLine = s.newLine
      /\ u.anchors = t.anchors /\ u.ranges = t.ranges
  BY <1>1, <1>3 DEF Parser
<1> HIDE DEF u
<1>5. Anchored(t.anchors) \cup {Anchor(line, count)} = deleted \cup {Anchor(line, count)}
  BY <1>1 DEF Gathered
<1>6. Gathered(u, count, line, added, deleted \cup {Anchor(line, count)})
  BY <1>1, <1>4, <1>5 DEF Gathered
<1> QED BY <1>2, <1>4, <1>6

\* A line that is added ends the deletions.
LEMMA AddedLineRead ==
  ASSUME NEW s, NEW count \in Nat, NEW line \in Nat \ {0}, NEW added, NEW deleted,
         Gathered(s, count, line, added, deleted), s.newLine = line, NEW read, read.mark = "+"
  PROVE  /\ Gathered(ReadLine(s, read, count), count, line + 1, added \cup {line}, deleted)
         /\ ~ReadLine(s, read, count).deletion
         /\ ReadLine(s, read, count).newLine = line + 1
<1> DEFINE t == FlushDeletion(s, count)
           first == IF t.addStart = 0 THEN line ELSE t.addStart
           u == [t EXCEPT !.addStart = first, !.newLine = line + 1]
<1>1. /\ Gathered(t, count, line, added, deleted) /\ t.deletion = FALSE /\ t.newLine = line
  <2>1. t.deletion \in BOOLEAN
    BY DeletionFlushes DEF Gathered, Parser
  <2> QED BY <2>1, DeletionFlushes
<1>2. ReadLine(s, read, count) = u
  <2>1. t.newLine = line
    BY <1>1
  <2>2. ReadLine(s, read, count) =
          [t EXCEPT !.addStart = IF t.addStart = 0 THEN s.newLine ELSE t.addStart, !.newLine = t.newLine + 1]
    BY DEF ReadLine
  <2> QED BY <2>1, <2>2
<1> HIDE DEF t
<1>3. t \in Parser /\ t.addStart \in Int
  BY <1>1 DEF Gathered, Parser
<1>4. /\ first \in Int /\ first >= 1 /\ first < line + 1 /\ Apart(t.ranges, first)
      /\ Covered(t.ranges) \cup first..line = added \cup {line}
  <2>1. CASE t.addStart = 0
    BY <1>1, <2>1 DEF Gathered
  <2>2. CASE t.addStart # 0
    <3>1. /\ t.addStart >= 1 /\ t.addStart < line /\ Apart(t.ranges, t.addStart)
          /\ Covered(t.ranges) \cup t.addStart..line - 1 = added
      BY <1>1, <2>2 DEF Gathered
    <3>2. t.addStart..line = t.addStart..line - 1 \cup {line}
      BY <1>3, <3>1
    <3> QED BY <1>3, <2>2, <3>1, <3>2
  <2> QED BY <2>1, <2>2
<1> HIDE DEF first
<1>5. /\ u \in Parser /\ u.deletion = FALSE /\ u.addStart = first /\ u.newLine = line + 1
      /\ u.anchors = t.anchors /\ u.ranges = t.ranges
  <2>1. line + 1 \in Int /\ first \in Int /\ t \in Parser /\ t.deletion = FALSE
    BY <1>1, <1>3, <1>4, NextLines, Zenon
  <2> QED BY ONLY <2>1 DEF Parser, u
<1> HIDE DEF u
<1>6. Rising(t.anchors, Anchor(line + 1, count)) /\ Anchored(t.anchors) = deleted
  <2> DEFINE low == Anchor(line, count)
             high == Anchor(line + 1, count)
  <2>1. low \in Int /\ high \in Int /\ low <= high
    BY AnchorRises
  <2>2. Rising(t.anchors, low) /\ Anchored(t.anchors) = deleted
    BY <1>1 DEF Gathered
  <2>3. \A k \in 1..Len(t.anchors) : t.anchors[k] \in Int /\ t.anchors[k] <= low
    BY <2>2 DEF Rising
  <2> HIDE DEF low, high
  <2>4. \A k \in 1..Len(t.anchors) : t.anchors[k] <= high
    BY <2>1, <2>3
  <2> QED BY <2>2, <2>4 DEF Rising, high
<1>7. line + 1 - 1 = line /\ first # 0
  BY <1>4
<1>8. Gathered(u, count, line + 1, added \cup {line}, deleted)
  BY <1>4, <1>5, <1>6, <1>7 DEF Gathered
<1> QED BY <1>2, <1>5, <1>8

\* The numbers up to a number.
LEMMA NumbersUpTo ==
  ASSUME NEW i \in Nat \ {0}
  PROVE  \A j : j \in 1..i <=> j \in 1..i - 1 \/ j = i
OBVIOUS

\* A position is a number.
LEMMA PositionsAreNumbers == \A n \in Nat : \A i \in 1..n : i \in Nat
OBVIOUS

\* What is near a number.
LEMMA NumbersNear ==
  ASSUME NEW i \in Nat, NEW distance \in Nat \ {0}
  PROVE  \A j \in {i - 1, i, i + 1} : i \in Nat /\ i \in i - distance..i + distance /\ j \in i - distance..i + distance
OBVIOUS

(* A script: lines that are kept, added or deleted. *)
Scripted(script) ==
  /\ script \in Seq(ToSet(script))
  /\ \A i \in 1..Len(script) : script[i].mark \in {" ", "+", "-"}

AddedTo(script, i) == {TargetLine(script, j) : j \in {k \in 1..i : script[k].mark = "+"}}
DeletedTo(script, i) ==
  {Anchor(TargetLine(script, j), LineCount(script)) : j \in {k \in 1..i : script[k].mark = "-"}}

\* The lines of a script are numbered from one.
LEMMA ScriptsEnd ==
  ASSUME NEW script, Scripted(script)
  PROVE  Len(script) \in Nat /\ DOMAIN script = 1..Len(script)
<1>1. script \in Seq(ToSet(script))
  BY DEF Scripted
<1> QED BY <1>1

\* The target begins at its first line.
LEMMA TargetBegins ==
  ASSUME NEW script
  PROVE  TargetLine(script, 1) = 1
<1>1. {j \in 1..1 - 1 : script[j].mark # "-"} = {}
  OBVIOUS
<1> QED BY <1>1, FS_EmptySet DEF TargetLine

\* A number of lines comes before any place.
LEMMA TargetLines ==
  ASSUME NEW script, NEW i \in Nat \ {0}
  PROVE  /\ TargetLine(script, i) \in Nat \ {0}
         /\ IsFiniteSet({j \in 1..i - 1 : script[j].mark # "-"})
<1> DEFINE before == {j \in 1..i - 1 : script[j].mark # "-"}
<1>1. IsFiniteSet(1..i - 1)
  <2>1. 1 \in Int /\ i - 1 \in Int
    OBVIOUS
  <2> QED BY <2>1, FS_Interval
<1>2. IsFiniteSet(before)
  BY <1>1, FS_Subset
<1>3. Cardinality(before) \in Nat
  BY <1>2, FS_CardinalityType
<1>4. TargetLine(script, i) = 1 + Cardinality(before)
  BY DEF TargetLine
<1> HIDE DEF before
<1>5. 1 + Cardinality(before) \in Nat \ {0}
  BY <1>3
<1> QED BY <1>2, <1>4, <1>5 DEF before

\* A line that is not deleted is one of the target, a deleted one is not.
LEMMA TargetGoesOn ==
  ASSUME NEW script, NEW i \in Nat \ {0}
  PROVE  /\ script[i].mark # "-" => TargetLine(script, i + 1) = TargetLine(script, i) + 1
         /\ script[i].mark = "-" => TargetLine(script, i + 1) = TargetLine(script, i)
<1> DEFINE before == {j \in 1..i - 1 : script[j].mark # "-"}
           after == {j \in 1..i + 1 - 1 : script[j].mark # "-"}
<1>1. IsFiniteSet(before)
  BY TargetLines
<1>2. TargetLine(script, i) = 1 + Cardinality(before)
  BY DEF TargetLine
<1>3. TargetLine(script, i + 1) = 1 + Cardinality(after)
  BY DEF TargetLine
<1>4. script[i].mark = "-" => after = before
  <2>1. \A j : j \in 1..i + 1 - 1 <=> j \in 1..i - 1 \/ j = i
    OBVIOUS
  <2> QED BY <2>1
<1>5. script[i].mark # "-" => after = before \cup {i} /\ i \notin before
  <2>1. \A j : j \in 1..i + 1 - 1 <=> j \in 1..i - 1 \/ j = i
    OBVIOUS
  <2>2. i \notin 1..i - 1
    OBVIOUS
  <2> QED BY <2>1, <2>2
<1>6. Cardinality(before) \in Nat
  BY <1>1, FS_CardinalityType
<1>7. ASSUME script[i].mark # "-" PROVE Cardinality(after) = Cardinality(before) + 1
  <2> HIDE DEF before, after
  <2>1. Cardinality(before \cup {i}) = Cardinality(before) + 1
    BY <1>1, <1>5, <1>7, FS_AddElement
  <2> QED BY <2>1, <1>5, <1>7
<1> HIDE DEF before, after
<1> QED BY <1>2, <1>3, <1>4, <1>6, <1>7

\* The target ends where the script ends.
LEMMA TargetEnds ==
  ASSUME NEW script, Scripted(script)
  PROVE  /\ LineCount(script) \in Nat
         /\ TargetLine(script, Len(script) + 1) = LineCount(script) + 1
<1> DEFINE n == Len(script)
           end == n + 1
           lines == {j \in 1..end - 1 : script[j].mark # "-"}
<1>1. n \in Nat /\ DOMAIN script = 1..n
  BY ScriptsEnd
<1>2. end \in Nat \ {0} /\ end - 1 = n
  BY <1>1
<1> HIDE DEF end
<1>3. LineCount(script) = Cardinality(lines)
  <2>1. lines = {j \in DOMAIN script : script[j].mark # "-"}
    BY <1>1, <1>2
  <2> QED BY <2>1 DEF LineCount
<1>4. TargetLine(script, end) = 1 + Cardinality(lines)
  BY DEF TargetLine
<1>5. IsFiniteSet(lines)
  BY <1>2, TargetLines
<1>6. Cardinality(lines) \in Nat
  BY <1>5, FS_CardinalityType
<1> HIDE DEF lines
<1> QED BY <1>3, <1>4, <1>6 DEF end

\* The target is empty when every line is deleted, and only then.
LEMMA TargetIsEmpty ==
  ASSUME NEW script, Scripted(script)
  PROVE  LineCount(script) = 0 <=> \A i \in 1..Len(script) : script[i].mark = "-"
<1> DEFINE lines == {j \in DOMAIN script : script[j].mark # "-"}
<1>1. Len(script) \in Nat /\ DOMAIN script = 1..Len(script)
  BY ScriptsEnd
<1>2. IsFiniteSet(lines)
  <2>1. IsFiniteSet(1..Len(script))
    BY <1>1, FS_Interval
  <2> QED BY <1>1, <2>1, FS_Subset
<1>3. Cardinality(lines) = 0 <=> lines = {}
  BY <1>2, FS_EmptySet
<1> QED BY <1>1, <1>3 DEF LineCount

\* What has been added and deleted grows with each line.
LEMMA ChangesGrow ==
  ASSUME NEW script, NEW i \in Nat \ {0}, script[i].mark \in {" ", "+", "-"}
  PROVE  /\ AddedTo(script, i) = IF script[i].mark = "+" THEN AddedTo(script, i - 1) \cup {TargetLine(script, i)}
                                 ELSE AddedTo(script, i - 1)
         /\ DeletedTo(script, i) = IF script[i].mark = "-"
                                   THEN DeletedTo(script, i - 1) \cup {Anchor(TargetLine(script, i), LineCount(script))}
                                   ELSE DeletedTo(script, i - 1)
<1>1. \A j : j \in 1..i <=> j \in 1..i - 1 \/ j = i
  BY NumbersUpTo
<1>2. script[i].mark = "+" =>
        {k \in 1..i : script[k].mark = "+"} = {k \in 1..i - 1 : script[k].mark = "+"} \cup {i}
  BY <1>1
<1>3. script[i].mark # "+" =>
        {k \in 1..i : script[k].mark = "+"} = {k \in 1..i - 1 : script[k].mark = "+"}
  BY <1>1
<1>4. script[i].mark = "-" =>
        {k \in 1..i : script[k].mark = "-"} = {k \in 1..i - 1 : script[k].mark = "-"} \cup {i}
  BY <1>1
<1>5. script[i].mark # "-" =>
        {k \in 1..i : script[k].mark = "-"} = {k \in 1..i - 1 : script[k].mark = "-"}
  BY <1>1
<1>6. AddedTo(script, i) = IF script[i].mark = "+" THEN AddedTo(script, i - 1) \cup {TargetLine(script, i)}
                                 ELSE AddedTo(script, i - 1)
  BY <1>2, <1>3, Zenon DEF AddedTo
<1>7. DeletedTo(script, i) = IF script[i].mark = "-"
                                   THEN DeletedTo(script, i - 1) \cup {Anchor(TargetLine(script, i), LineCount(script))}
                                   ELSE DeletedTo(script, i - 1)
  BY <1>4, <1>5, Zenon DEF DeletedTo
<1> QED BY <1>6, <1>7

\* At the end it is what the script adds and deletes.
LEMMA ChangesEnd ==
  ASSUME NEW script, Scripted(script)
  PROVE  /\ AddedTo(script, Len(script)) = Added(script)
         /\ DeletedTo(script, Len(script)) = Deleted(script)
<1>1. DOMAIN script = 1..Len(script) /\ LineCount(script) \in Nat
  BY ScriptsEnd, TargetEnds
<1>2. AddedTo(script, Len(script)) = Added(script)
  BY <1>1 DEF AddedTo, Added
<1>3. ASSUME NEW i \in 1..Len(script)
      PROVE  Anchor(TargetLine(script, i), LineCount(script))
               = Max({1, Min({TargetLine(script, i), LineCount(script)})})
  <2> DEFINE line == TargetLine(script, i)
             count == LineCount(script)
  <2>1. line \in Nat \ {0} /\ count \in Nat
    <3>1. i \in Nat \ {0}
      BY <1>1
    <3> QED BY <1>1, <3>1, TargetLines
  <2>2. Anchor(line, count) = IF count <= 0 \/ line < 1 THEN 1 ELSE IF line > count THEN count ELSE line
    BY DEF Anchor
  <2> HIDE DEF line, count
  <2> DEFINE low == IF line <= count THEN line ELSE count
  <2>3. Min({line, count}) = low
    BY <2>1 DEF Min
  <2>4. low \in Nat
    BY <2>1
  <2>5. Max({1, low}) = IF low <= 1 THEN 1 ELSE low
    <3> HIDE DEF low
    <3> QED BY <2>4 DEF Max
  <2>6. Anchor(line, count) = IF low <= 1 THEN 1 ELSE low
    BY <2>1, <2>2
  <2> QED BY <2>3, <2>5, <2>6 DEF line, count
<1>4. DeletedTo(script, Len(script)) = Deleted(script)
  BY <1>1, <1>3 DEF DeletedTo, Deleted
<1> QED BY <1>2, <1>4

\* A changed line is shown, and so are the lines next to it.
LEMMA ChangesAreShown ==
  ASSUME NEW script, Scripted(script), NEW context \in Nat \ {0},
         NEW i \in 1..Len(script), script[i].mark # " "
  PROVE  /\ i \in Shown(script, context)
         /\ i - 1 \in 1..Len(script) => i - 1 \in Shown(script, context)
         /\ i + 1 \in 1..Len(script) => i + 1 \in Shown(script, context)
<1>1. DOMAIN script = 1..Len(script) /\ Len(script) \in Nat
  BY ScriptsEnd
<1>2. i \in Nat
  BY <1>1, PositionsAreNumbers
<1>3. i \in i - context..i + context /\ i - 1 \in i - context..i + context /\ i + 1 \in i - context..i + context
  BY <1>2, NumbersNear
<1> QED BY <1>1, <1>3, Zenon DEF Shown

\* A hunk begins at the line of the target that follows, unless the target is empty.
LEMMA HunksBegin ==
  ASSUME NEW script, Scripted(script), NEW context \in Nat \ {0},
         NEW i \in Shown(script, context), i - 1 \notin Shown(script, context)
  PROVE  /\ HunkStart(script, context, i) \in Int
         /\ LineCount(script) = 0 \/ HunkStart(script, context, i) = TargetLine(script, i)
<1> DEFINE n == Len(script)
           shown == Shown(script, context)
           hunk == {j \in shown : j >= i /\ i..j \subseteq shown}
<1>1. n \in Nat /\ DOMAIN script = 1..n /\ shown \subseteq 1..n /\ i \in 1..n
  BY ScriptsEnd DEF Shown
<1>2. TargetLine(script, i) \in Nat \ {0}
  <2>1. i \in Nat \ {0}
    BY <1>1
  <2> QED BY <2>1, TargetLines
<1>3. HunkStart(script, context, i) = TargetLine(script, i) - IF \A j \in hunk : script[j].mark = "-" THEN 1 ELSE 0
  BY DEF HunkStart
<1>4. HunkStart(script, context, i) \in Int
  BY <1>2, <1>3
<1>5. ASSUME \A j \in hunk : script[j].mark = "-" PROVE LineCount(script) = 0
  <2>1. i \in hunk
    <3>1. i..i = {i} /\ i >= i
      BY <1>1
    <3> QED BY <3>1
  <2>2. script[i].mark = "-"
    BY <2>1, <1>5
  <2>3. i = 1
    <3>1. i - 1 \notin 1..n
      BY <1>1, <2>2, ChangesAreShown
    <3> QED BY <3>1, <1>1
  <2> DEFINE T == {j \in 1..n : script[j].mark # "-"}
  <2>4. ASSUME T # {} PROVE FALSE
    <3>1. T \in SUBSET Nat
      OBVIOUS
    <3>2. PICK t \in T : \A u \in T : t <= u
      <4> HIDE DEF T
      <4> QED BY <2>4, <3>1, LeastOf
    <3>3. t \in 1..n /\ t # 1 /\ script[t].mark # "-"
      BY <2>2, <2>3
    <3>4. \A j \in 1..t - 1 : j \in 1..n /\ script[j].mark = "-"
      <4> TAKE j \in 1..t - 1
      <4>1. j \in 1..n /\ ~(t <= j)
        BY <1>1, <3>3
      <4> QED BY <4>1, <3>2
    <3>5. \A j \in 1..t - 1 : j \in shown
      BY <3>4, ChangesAreShown
    <3>6. t \in shown
      <4>1. t - 1 \in 1..t - 1 /\ t - 1 + 1 = t
        BY <1>1, <3>3
      <4>2. t - 1 \in 1..n /\ script[t - 1].mark # " "
        BY <4>1, <3>4
      <4> QED BY <4>1, <4>2, <3>3, ChangesAreShown
    <3>7. t \in hunk
      <4>1. \A j \in i..t : j \in 1..t - 1 \/ j = t
        BY <1>1, <2>3, <3>3
      <4>2. t >= i
        BY <1>1, <2>3, <3>3
      <4> QED BY <4>1, <4>2, <3>5, <3>6
    <3> QED BY <3>3, <3>7, <1>5
  <2> QED BY <2>4, TargetIsEmpty
<1> QED BY <1>2, <1>3, <1>4, <1>5

Started == [ranges |-> << >>, anchors |-> << >>, newLine |-> 0, addStart |-> 0, deletion |-> FALSE]
DiffMarks == {" ", "+", "-", "@@"}
DiffLines == [mark : DiffMarks, start : Int]
HeaderAt(script, context, i) == [mark |-> "@@", start |-> HunkStart(script, context, i)]
LineAt(script, i) == [mark |-> script[i].mark, start |-> 0]

(* The state of the reader when the diff has been read up to a line of the script. *)
ReadUpTo(script, context, i, s) ==
  /\ Gathered(s, LineCount(script), TargetLine(script, i + 1), AddedTo(script, i), DeletedTo(script, i))
  /\ i \notin Shown(script, context) => Idle(s)
  /\ i \in Shown(script, context) => /\ LineCount(script) = 0 \/ s.newLine = TargetLine(script, i + 1)
                                     /\ script[i].mark = " " => Idle(s)

\* Before the first line nothing has been gathered.
LEMMA ReadingStarts ==
  ASSUME NEW script, Scripted(script), NEW context \in Nat \ {0}
  PROVE  ReadUpTo(script, context, 0, Started)
<1>1. TargetLine(script, 0 + 1) = 1
  <2>1. 0 + 1 = 1
    OBVIOUS
  <2> QED BY <2>1, TargetBegins
<1>2. AddedTo(script, 0) = {} /\ DeletedTo(script, 0) = {}
  <2>1. \A k : k \notin 1..0
    OBVIOUS
  <2> QED BY <2>1 DEF AddedTo, DeletedTo
<1>3. 0 \notin Shown(script, context)
  <2>1. Shown(script, context) \subseteq 1..Len(script) /\ Len(script) \in Nat
    BY ScriptsEnd DEF Shown
  <2>2. 0 \notin 1..Len(script)
    BY <2>1
  <2> QED BY <2>1, <2>2
<1>4. /\ Started.ranges = << >> /\ Started.anchors = << >> /\ Started.newLine = 0 /\ Started.addStart = 0
      /\ Started.deletion = FALSE /\ Started \in Parser
  BY DEF Started, Parser
<1>5. << >> \in Seq(Int \X Int) /\ << >> \in Seq(Int) /\ Len(<< >>) = 0
  OBVIOUS
<1>6. Apart(<< >>, 1) /\ Rising(<< >>, Anchor(1, LineCount(script)))
  <2>1. \A k : k \notin 1..0 /\ k \notin 2..0
    OBVIOUS
  <2> QED BY <1>5, <2>1 DEF Apart, Rising
<1>7. Covered(<< >>) = {} /\ Anchored(<< >>) = {}
  <2>1. \A k : k \notin 1..0
    OBVIOUS
  <2> QED BY <1>5, <2>1 DEF Covered, Anchored
<1> HIDE DEF Started
<1>8. Gathered(Started, LineCount(script), 1, {}, {})
  BY <1>4, <1>6, <1>7 DEF Gathered
<1>9. Idle(Started)
  BY <1>4 DEF Idle
<1> QED BY <1>1, <1>2, <1>3, <1>8, <1>9 DEF ReadUpTo

\* A line of a hunk is read.
LEMMA LineReadOn ==
  ASSUME NEW script, Scripted(script), NEW context \in Nat \ {0}, NEW i \in 1..Len(script),
         i \in Shown(script, context), NEW s,
         Gathered(s, LineCount(script), TargetLine(script, i), AddedTo(script, i - 1), DeletedTo(script, i - 1)),
         LineCount(script) = 0 \/ s.newLine = TargetLine(script, i)
  PROVE  ReadUpTo(script, context, i, ReadLine(s, LineAt(script, i), LineCount(script)))
<1> DEFINE count == LineCount(script)
           line == TargetLine(script, i)
           next == TargetLine(script, i + 1)
           t == ReadLine(s, LineAt(script, i), count)
           added == AddedTo(script, i - 1)
           deleted == DeletedTo(script, i - 1)
<1>1. i \in Nat \ {0} /\ script[i].mark \in {" ", "+", "-"}
  <2>1. Len(script) \in Nat
    BY ScriptsEnd
  <2>2. i \in Nat \ {0}
    BY <2>1, PositionsAreNumbers
  <2>3. \A j \in 1..Len(script) : script[j].mark \in {" ", "+", "-"}
    BY DEF Scripted
  <2> QED BY <2>2, <2>3
<1>2. count \in Nat /\ line \in Nat \ {0}
  BY <1>1, TargetEnds, TargetLines
<1>3. LineAt(script, i).mark = script[i].mark
  BY DEF LineAt
<1>4. script[i].mark # "-" => count # 0
  BY TargetIsEmpty
<1>5. CASE script[i].mark = " "
  <2>1. next = line + 1 /\ s.newLine = line
    BY <1>1, <1>4, <1>5, TargetGoesOn
  <2>2. AddedTo(script, i) = added /\ DeletedTo(script, i) = deleted
    BY <1>1, <1>5, ChangesGrow
  <2>3. Gathered(t, count, line + 1, added, deleted) /\ Idle(t) /\ t.newLine = line + 1
    <3> DEFINE x == LineAt(script, i)
    <3>1. x.mark = " "
      BY <1>3, <1>5
    <3> HIDE DEF x, count, line, added, deleted
    <3>2. Gathered(s, count, line, added, deleted)
      BY DEF count, line, added, deleted
    <3>3. /\ Gathered(ReadLine(s, x, count), count, line + 1, added, deleted)
          /\ Idle(ReadLine(s, x, count))
          /\ ReadLine(s, x, count).newLine = line + 1
      BY ONLY <1>2, <2>1, <3>1, <3>2, KeptLineRead
    <3> QED BY <3>3 DEF x
  <2> QED BY <2>1, <2>2, <2>3 DEF ReadUpTo
<1>6. CASE script[i].mark = "-"
  <2>1. next = line
    BY <1>1, <1>6, TargetGoesOn
  <2>2. AddedTo(script, i) = added /\ DeletedTo(script, i) = deleted \cup {Anchor(line, count)}
    <3>1. " " # "-" /\ "+" # "-"
      OBVIOUS
    <3> QED BY <1>1, <1>6, <3>1, ChangesGrow
  <2>3. Anchor(s.newLine, count) = Anchor(line, count)
    <3>1. CASE count = 0
      BY <3>1 DEF Anchor
    <3>2. CASE s.newLine = line
      BY <3>2
    <3> QED BY <3>1, <3>2
  <2>4. Gathered(t, count, line, added, deleted \cup {Anchor(line, count)}) /\ t.newLine = s.newLine
    <3> DEFINE x == LineAt(script, i)
    <3>1. x.mark = "-"
      BY <1>3, <1>6
    <3> HIDE DEF x, count, line, added, deleted
    <3>2. Gathered(s, count, line, added, deleted)
      BY DEF count, line, added, deleted
    <3> QED BY <1>2, <2>3, <3>1, <3>2, DeletedLineRead DEF x
  <2> QED BY <1>6, <2>1, <2>2, <2>4 DEF ReadUpTo
<1>7. CASE script[i].mark = "+"
  <2>1. next = line + 1 /\ s.newLine = line
    BY <1>1, <1>4, <1>7, TargetGoesOn
  <2>2. AddedTo(script, i) = added \cup {line} /\ DeletedTo(script, i) = deleted
    BY <1>1, <1>7, ChangesGrow
  <2>3. Gathered(t, count, line + 1, added \cup {line}, deleted) /\ t.newLine = line + 1
    <3> DEFINE x == LineAt(script, i)
    <3>1. x.mark = "+"
      BY <1>3, <1>7
    <3> HIDE DEF x, count, line, added, deleted
    <3>2. Gathered(s, count, line, added, deleted)
      BY DEF count, line, added, deleted
    <3> QED BY <1>2, <2>1, <3>1, <3>2, AddedLineRead DEF x
  <2> QED BY <1>7, <2>1, <2>2, <2>3 DEF ReadUpTo
<1> QED BY <1>1, <1>5, <1>6, <1>7

\* A line that no hunk shows changes nothing.
LEMMA HiddenLinePassed ==
  ASSUME NEW script, Scripted(script), NEW context \in Nat \ {0}, NEW i \in 1..Len(script),
         i \notin Shown(script, context), NEW s, ReadUpTo(script, context, i - 1, s)
  PROVE  ReadUpTo(script, context, i, s)
<1> DEFINE line == TargetLine(script, i)
           count == LineCount(script)
<1>1. i \in Nat \ {0} /\ Len(script) \in Nat /\ i - 1 + 1 = i
  <2>1. Len(script) \in Nat
    BY ScriptsEnd
  <2> QED BY <2>1, PositionsAreNumbers
<1>2. script[i].mark = " "
  BY ChangesAreShown
<1>3. Idle(s)
  <2>1. CASE i - 1 \in Shown(script, context)
    <3>1. i - 1 \in 1..Len(script)
      BY <2>1, ScriptsEnd DEF Shown
    <3>2. script[i - 1].mark = " "
      <4> DEFINE j == i - 1
      <4>1. j \in 1..Len(script) /\ j + 1 \in 1..Len(script) /\ j + 1 \notin Shown(script, context)
        BY <1>1, <3>1
      <4> HIDE DEF j
      <4>2. script[j].mark = " "
        BY <4>1, ChangesAreShown
      <4> QED BY <4>2 DEF j
    <3> QED BY <2>1, <3>2 DEF ReadUpTo
  <2>2. CASE i - 1 \notin Shown(script, context)
    BY <2>2 DEF ReadUpTo
  <2> QED BY <2>1, <2>2
<1>4. count \in Nat /\ line \in Nat \ {0}
  BY <1>1, TargetEnds, TargetLines
<1>5. Gathered(s, count, line, AddedTo(script, i - 1), DeletedTo(script, i - 1))
  BY <1>1 DEF ReadUpTo
<1>6. TargetLine(script, i + 1) = line + 1
  BY <1>1, <1>2, TargetGoesOn
<1>7. AddedTo(script, i) = AddedTo(script, i - 1) /\ DeletedTo(script, i) = DeletedTo(script, i - 1)
  BY <1>1, <1>2, ChangesGrow
<1>8. Gathered(s, count, line + 1, AddedTo(script, i - 1), DeletedTo(script, i - 1))
  <2>1. 0 \in Int
    OBVIOUS
  <2> HIDE DEF count, line
  <2> QED BY <1>3, <1>4, <1>5, <2>1, IdleKeeps
<1> QED BY <1>3, <1>6, <1>7, <1>8 DEF ReadUpTo

\* The first line of a hunk is read after its header.
LEMMA HunkReadOn ==
  ASSUME NEW script, Scripted(script), NEW context \in Nat \ {0}, NEW i \in 1..Len(script),
         i \in Shown(script, context), i - 1 \notin Shown(script, context),
         NEW s, ReadUpTo(script, context, i - 1, s)
  PROVE  ReadUpTo(script, context, i,
                  ReadLine(ReadLine(s, HeaderAt(script, context, i), LineCount(script)),
                           LineAt(script, i), LineCount(script)))
<1> DEFINE line == TargetLine(script, i)
           count == LineCount(script)
           header == HeaderAt(script, context, i)
           t == ReadLine(s, header, count)
<1>1. i \in Nat \ {0} /\ i - 1 + 1 = i
  <2>1. Len(script) \in Nat
    BY ScriptsEnd
  <2> QED BY <2>1, PositionsAreNumbers
<1>2. count \in Nat /\ line \in Nat \ {0}
  BY <1>1, TargetEnds, TargetLines
<1>3. Gathered(s, count, line, AddedTo(script, i - 1), DeletedTo(script, i - 1))
  BY <1>1 DEF ReadUpTo
<1>4. header.mark = "@@" /\ header.start \in Int /\ (count = 0 \/ header.start = line)
  BY HunksBegin DEF HeaderAt
<1>5. /\ Gathered(t, count, line, AddedTo(script, i - 1), DeletedTo(script, i - 1))
      /\ t.newLine = header.start
  <2> DEFINE added == AddedTo(script, i - 1)
             deleted == DeletedTo(script, i - 1)
  <2>1. Gathered(s, count, line, added, deleted)
    BY <1>3
  <2> HIDE DEF count, line, header, added, deleted
  <2>2. header.mark = "@@" /\ header.start \in Int
    BY <1>4
  <2>3. t = ReadLine(s, header, count)
    OBVIOUS
  <2> HIDE DEF t
  <2>4. Gathered(t, count, line, added, deleted) /\ t.newLine = header.start
    BY ONLY <1>2, <2>1, <2>2, <2>3, HeaderRead
  <2> QED BY <2>4 DEF added, deleted
<1> HIDE DEF t
<1> QED BY <1>4, <1>5, LineReadOn DEF t

\* Another line of a hunk is read.
LEMMA HunkGoesOn ==
  ASSUME NEW script, Scripted(script), NEW context \in Nat \ {0}, NEW i \in 1..Len(script),
         i \in Shown(script, context), i - 1 \in Shown(script, context),
         NEW s, ReadUpTo(script, context, i - 1, s)
  PROVE  ReadUpTo(script, context, i, ReadLine(s, LineAt(script, i), LineCount(script)))
<1>1. i - 1 + 1 = i
  <2>1. Len(script) \in Nat
    BY ScriptsEnd
  <2> QED BY <2>1, PositionsAreNumbers
<1> QED BY <1>1, LineReadOn DEF ReadUpTo

(* The recursive functions: the diff of the beginnings of a script, and the *)
(* states of the reader of a diff.                                          *)
DiffOn(script, context, diff, i) ==
  IF i \notin Shown(script, context) THEN diff
  ELSE IF i - 1 \in Shown(script, context) THEN Append(diff, LineAt(script, i))
  ELSE diff \o <<HeaderAt(script, context, i), LineAt(script, i)>>

Diffs(script, context, n, diff) ==
  diff = [i \in 0..n |-> IF i = 0 THEN << >> ELSE DiffOn(script, context, diff[i - 1], i)]
DiffsAll(script, context, n) == \E diff : Diffs(script, context, n, diff)

Parses(lines, count, n, after) ==
  after = [i \in 0..n |-> IF i = 0 THEN Started ELSE ReadLine(after[i - 1], lines[i], count)]
ParsesAll(lines, count, n) == \E after : Parses(lines, count, n, after)

(* A state the reader is in after a diff. *)
Parsed(lines, count, s) ==
  \E after : Parses(lines, count, Len(lines), after) /\ s = after[Len(lines)]

\* The diff goes on by a line of the script.
LEMMA DiffsFurther ==
  ASSUME NEW script, NEW context, NEW n \in Nat, DiffsAll(script, context, n)
  PROVE  DiffsAll(script, context, n + 1)
<1>1. PICK f : Diffs(script, context, n, f)
  BY DEF DiffsAll
<1>2. f = [j \in 0..n |-> IF j = 0 THEN << >> ELSE DiffOn(script, context, f[j - 1], j)]
  BY <1>1 DEF Diffs
<1> DEFINE g == [j \in 0..n + 1 |-> IF j = n + 1 THEN DiffOn(script, context, f[n], n + 1) ELSE f[j]]
<1>3. \A j \in 0..n : g[j] = f[j]
  OBVIOUS
<1>4. \A j \in 0..n + 1 : g[j] = IF j = 0 THEN << >> ELSE DiffOn(script, context, g[j - 1], j)
  <2> TAKE j \in 0..n + 1
  <2>1. CASE j = n + 1
    <3>1. g[j] = DiffOn(script, context, f[n], j) /\ j # 0 /\ j - 1 = n /\ g[n] = f[n]
      BY <2>1, <1>3
    <3> HIDE DEF g
    <3> QED BY <3>1
  <2>2. CASE j \in 0..n
    <3>1. g[j] = f[j] /\ f[j] = IF j = 0 THEN << >> ELSE DiffOn(script, context, f[j - 1], j)
      BY <2>2, <1>2, <1>3
    <3>2. j # 0 => g[j - 1] = f[j - 1]
      BY <2>2, <1>3
    <3> HIDE DEF g
    <3> QED BY <3>1, <3>2
  <2> QED BY <2>1, <2>2
<1>5. g = [j \in 0..n + 1 |-> g[j]]
  OBVIOUS
<1> HIDE DEF g
<1>6. g = [j \in 0..n + 1 |-> IF j = 0 THEN << >> ELSE DiffOn(script, context, g[j - 1], j)]
  BY <1>4, <1>5
<1> QED BY <1>6 DEF DiffsAll, Diffs

\* One more line of a diff can be read.
LEMMA ParsesFurther ==
  ASSUME NEW lines, NEW count, NEW n \in Nat, ParsesAll(lines, count, n)
  PROVE  ParsesAll(lines, count, n + 1)
<1>1. PICK f : Parses(lines, count, n, f)
  BY DEF ParsesAll
<1>2. f = [j \in 0..n |-> IF j = 0 THEN Started ELSE ReadLine(f[j - 1], lines[j], count)]
  BY <1>1 DEF Parses
<1> DEFINE g == [j \in 0..n + 1 |-> IF j = n + 1 THEN ReadLine(f[n], lines[n + 1], count) ELSE f[j]]
<1>3. \A j \in 0..n : g[j] = f[j]
  OBVIOUS
<1>4. \A j \in 0..n + 1 : g[j] = IF j = 0 THEN Started ELSE ReadLine(g[j - 1], lines[j], count)
  <2> TAKE j \in 0..n + 1
  <2>1. CASE j = n + 1
    <3>1. g[j] = ReadLine(f[n], lines[j], count) /\ j # 0 /\ j - 1 = n /\ g[n] = f[n]
      BY <2>1, <1>3
    <3> HIDE DEF g
    <3> QED BY <3>1
  <2>2. CASE j \in 0..n
    <3>1. g[j] = f[j] /\ f[j] = IF j = 0 THEN Started ELSE ReadLine(f[j - 1], lines[j], count)
      BY <2>2, <1>2, <1>3
    <3>2. j # 0 => g[j - 1] = f[j - 1]
      BY <2>2, <1>3
    <3> HIDE DEF g
    <3> QED BY <3>1, <3>2
  <2> QED BY <2>1, <2>2
<1>5. g = [j \in 0..n + 1 |-> g[j]]
  OBVIOUS
<1> HIDE DEF g
<1>6. g = [j \in 0..n + 1 |-> IF j = 0 THEN Started ELSE ReadLine(g[j - 1], lines[j], count)]
  BY <1>4, <1>5
<1> QED BY <1>6 DEF ParsesAll, Parses

\* Every script has a diff.
LEMMA DiffsAny ==
  ASSUME NEW script, NEW context
  PROVE  \A n \in Nat : DiffsAll(script, context, n)
<1> DEFINE T == {t \in Nat : ~DiffsAll(script, context, t)}
<1> SUFFICES ASSUME T # {} PROVE FALSE
  OBVIOUS
<1>1. PICK t \in T : \A u \in T : t <= u
  <2>1. T \in SUBSET Nat
    OBVIOUS
  <2> HIDE DEF T
  <2> QED BY <2>1, LeastOf
<1>2. DiffsAll(script, context, 0)
  <2> DEFINE g == [j \in 0..0 |-> << >>]
  <2>1. g = [j \in 0..0 |-> IF j = 0 THEN << >> ELSE DiffOn(script, context, g[j - 1], j)]
    OBVIOUS
  <2> HIDE DEF g
  <2> QED BY <2>1 DEF DiffsAll, Diffs
<1>3. t \in Nat \ {0} /\ t - 1 \in Nat /\ ~(t <= t - 1)
  BY <1>1, <1>2
<1>4. DiffsAll(script, context, t - 1)
  BY <1>1, <1>3
<1>5. DiffsAll(script, context, (t - 1) + 1)
  BY <1>3, <1>4, DiffsFurther
<1> QED BY <1>1, <1>3, <1>5

\* Every diff can be read.
LEMMA ParsesAny ==
  ASSUME NEW lines, NEW count
  PROVE  \A n \in Nat : ParsesAll(lines, count, n)
<1> DEFINE T == {t \in Nat : ~ParsesAll(lines, count, t)}
<1> SUFFICES ASSUME T # {} PROVE FALSE
  OBVIOUS
<1>1. PICK t \in T : \A u \in T : t <= u
  <2>1. T \in SUBSET Nat
    OBVIOUS
  <2> HIDE DEF T
  <2> QED BY <2>1, LeastOf
<1>2. ParsesAll(lines, count, 0)
  <2> DEFINE g == [j \in 0..0 |-> Started]
  <2>1. g = [j \in 0..0 |-> IF j = 0 THEN Started ELSE ReadLine(g[j - 1], lines[j], count)]
    OBVIOUS
  <2> HIDE DEF g
  <2> QED BY <2>1 DEF ParsesAll, Parses
<1>3. t \in Nat \ {0} /\ t - 1 \in Nat /\ ~(t <= t - 1)
  BY <1>1, <1>2
<1>4. ParsesAll(lines, count, t - 1)
  BY <1>1, <1>3
<1>5. ParsesAll(lines, count, (t - 1) + 1)
  BY <1>3, <1>4, ParsesFurther
<1> QED BY <1>1, <1>3, <1>5

\* The last line is read from a state after the lines before it.
LEMMA ParsedLast ==
  ASSUME NEW lines \in Seq(DiffLines), NEW x \in DiffLines, NEW count, NEW s,
         Parsed(Append(lines, x), count, s)
  PROVE  \E r : Parsed(lines, count, r) /\ s = ReadLine(r, x, count)
<1> DEFINE n == Len(lines)
           more == Append(lines, x)
<1>1. n \in Nat
  OBVIOUS
<1>2. Len(more) = n + 1 /\ more[n + 1] = x /\ \A j \in 1..n : more[j] = lines[j]
  OBVIOUS
<1> HIDE DEF more
<1>3. PICK g : Parses(more, count, n + 1, g) /\ s = g[n + 1]
  BY <1>2 DEF Parsed, more
<1>4. g = [j \in 0..n + 1 |-> IF j = 0 THEN Started ELSE ReadLine(g[j - 1], more[j], count)]
  BY <1>3 DEF Parses
<1>5. \A j \in 0..n + 1 : g[j] = IF j = 0 THEN Started ELSE ReadLine(g[j - 1], more[j], count)
  BY <1>4
<1> DEFINE f == [j \in 0..n |-> g[j]]
<1>6. \A j \in 0..n : f[j] = IF j = 0 THEN Started ELSE ReadLine(f[j - 1], lines[j], count)
  <2> TAKE j \in 0..n
  <2>1. CASE j = 0
    <3>1. f[j] = g[j] /\ j \in 0..n + 1
      BY <1>1
    <3> QED BY <2>1, <3>1, <1>5
  <2>2. CASE j # 0
    <3>1. j \in 1..n /\ j \in 0..n + 1 /\ f[j] = g[j] /\ f[j - 1] = g[j - 1]
      BY <1>1, <2>2
    <3>2. g[j] = ReadLine(g[j - 1], more[j], count) /\ more[j] = lines[j]
      BY <1>2, <1>5, <2>2, <3>1
    <3> HIDE DEF f
    <3> QED BY <2>2, <3>1, <3>2
  <2> QED BY <2>1, <2>2
<1>7. f = [j \in 0..n |-> f[j]]
  OBVIOUS
<1>8. f[n] = g[n]
  BY <1>1
<1> HIDE DEF f
<1>9. f = [j \in 0..n |-> IF j = 0 THEN Started ELSE ReadLine(f[j - 1], lines[j], count)]
  BY <1>6, <1>7
<1>10. Parsed(lines, count, f[n])
  BY <1>9 DEF Parsed, Parses
<1>11. s = ReadLine(f[n], x, count)
  <2>1. n + 1 \in 0..n + 1 /\ n + 1 # 0 /\ n + 1 - 1 = n
    BY <1>1
  <2>2. g[n + 1] = ReadLine(g[n], more[n + 1], count)
    BY <1>5, <2>1
  <2> QED BY <2>2, <1>2, <1>3, <1>8
<1> QED BY <1>10, <1>11

\* The lines of a hunk are lines of a diff.
LEMMA LinesAreDiffLines ==
  ASSUME NEW script, Scripted(script), NEW context \in Nat \ {0}, NEW i \in 1..Len(script)
  PROVE  /\ LineAt(script, i) \in DiffLines
         /\ i \in Shown(script, context) /\ i - 1 \notin Shown(script, context) =>
              HeaderAt(script, context, i) \in DiffLines
<1>1. script[i].mark \in {" ", "+", "-"}
  BY DEF Scripted
<1>2. LineAt(script, i) \in DiffLines
  <2> DEFINE m == script[i].mark
  <2>1. m \in DiffMarks
    BY <1>1 DEF DiffMarks
  <2> HIDE DEF m
  <2>2. [mark |-> m, start |-> 0] \in DiffLines
    BY <2>1 DEF DiffLines
  <2> QED BY <2>2 DEF LineAt, m
<1>3. ASSUME i \in Shown(script, context), i - 1 \notin Shown(script, context)
      PROVE  HeaderAt(script, context, i) \in DiffLines
  <2>1. HunkStart(script, context, i) \in Int
    BY <1>3, HunksBegin
  <2>2. "@@" \in DiffMarks
    BY DEF DiffMarks
  <2> DEFINE m == "@@"
             from == HunkStart(script, context, i)
  <2>3. m \in DiffMarks /\ from \in Int
    BY <2>1, <2>2
  <2> HIDE DEF m, from
  <2>4. [mark |-> m, start |-> from] \in DiffLines
    BY <2>3 DEF DiffLines
  <2> QED BY <2>4 DEF HeaderAt, m, from
<1> QED BY <1>2, <1>3

\* A diff that has been read up to a line has been read up to the next one.
LEMMA DiffReadOn ==
  ASSUME NEW script, Scripted(script), NEW context \in Nat \ {0}, NEW i \in 1..Len(script),
         NEW diff \in Seq(DiffLines),
         \A s : Parsed(diff, LineCount(script), s) => ReadUpTo(script, context, i - 1, s)
  PROVE  LET more == DiffOn(script, context, diff, i) IN
         /\ more \in Seq(DiffLines)
         /\ \A s : Parsed(more, LineCount(script), s) => ReadUpTo(script, context, i, s)
<1> DEFINE more == DiffOn(script, context, diff, i)
           count == LineCount(script)
           h == HeaderAt(script, context, i)
           l == LineAt(script, i)
<1>1. CASE i \notin Shown(script, context)
  <2>1. more = diff
    BY <1>1 DEF DiffOn
  <2> QED BY <1>1, <2>1, HiddenLinePassed
<1>2. CASE i \in Shown(script, context) /\ i - 1 \in Shown(script, context)
  <2>1. more = Append(diff, l) /\ l \in DiffLines
    BY <1>2, LinesAreDiffLines DEF DiffOn
  <2> HIDE DEF more, l
  <2>2. more \in Seq(DiffLines)
    BY <2>1
  <2>3. ASSUME NEW s, Parsed(more, count, s) PROVE ReadUpTo(script, context, i, s)
    <3>1. PICK r : Parsed(diff, count, r) /\ s = ReadLine(r, l, count)
      BY <2>1, <2>3, ParsedLast
    <3>2. ReadUpTo(script, context, i - 1, r)
      BY <3>1
    <3> QED BY <1>2, <3>1, <3>2, HunkGoesOn DEF l
  <2> QED BY <2>2, <2>3 DEF more
<1>3. CASE i \in Shown(script, context) /\ i - 1 \notin Shown(script, context)
  <2>1. more = diff \o <<h, l>> /\ l \in DiffLines /\ h \in DiffLines
    BY <1>3, LinesAreDiffLines DEF DiffOn
  <2> HIDE DEF more, l, h
  <2>2. more = Append(Append(diff, h), l) /\ Append(diff, h) \in Seq(DiffLines)
    BY <2>1
  <2>3. more \in Seq(DiffLines)
    BY <2>1, <2>2
  <2>4. ASSUME NEW s, Parsed(more, count, s) PROVE ReadUpTo(script, context, i, s)
    <3>1. PICK q : Parsed(Append(diff, h), count, q) /\ s = ReadLine(q, l, count)
      <4> DEFINE one == Append(diff, h)
      <4>1. one \in Seq(DiffLines) /\ Parsed(Append(one, l), count, s)
        BY <2>2, <2>4
      <4> HIDE DEF one, count
      <4>2. \E q : Parsed(one, count, q) /\ s = ReadLine(q, l, count)
        BY <2>1, <4>1, ParsedLast
      <4> QED BY <4>2 DEF one
    <3>2. PICK r : Parsed(diff, count, r) /\ q = ReadLine(r, h, count)
      BY <2>1, <3>1, ParsedLast
    <3>3. ReadUpTo(script, context, i - 1, r)
      BY <3>2
    <3> QED BY <1>3, <3>1, <3>2, <3>3, HunkReadOn DEF l, h
  <2> QED BY <2>3, <2>4 DEF more
<1> QED BY <1>1, <1>2, <1>3

\* Of the whole diff the reader has gathered what the script adds and deletes.
LEMMA DiffIsRead ==
  ASSUME NEW script, Scripted(script), NEW context \in Nat \ {0}
  PROVE  /\ UnifiedDiff(script, context) \in Seq(DiffLines)
         /\ \A s : Parsed(UnifiedDiff(script, context), LineCount(script), s)
                    => ReadUpTo(script, context, Len(script), s)
<1> DEFINE n == Len(script)
           count == LineCount(script)
           diff == CHOOSE f : Diffs(script, context, n, f)
           Right(i) == /\ diff[i] \in Seq(DiffLines)
                       /\ \A r : Parsed(diff[i], count, r) => ReadUpTo(script, context, i, r)
           T == {i \in 0..n : ~Right(i)}
<1>1. n \in Nat
  BY ScriptsEnd
<1>2. Diffs(script, context, n, diff)
  BY <1>1, DiffsAny DEF DiffsAll
<1>3. UnifiedDiff(script, context) = diff[n]
  BY DEF UnifiedDiff, Diffs, DiffOn, HeaderAt, LineAt
<1> HIDE DEF diff
<1>4. \A i \in 0..n : diff[i] = IF i = 0 THEN << >> ELSE DiffOn(script, context, diff[i - 1], i)
  BY <1>2 DEF Diffs
<1>5. Right(0)
  <2>1. diff[0] = << >>
    BY <1>1, <1>4
  <2>2. << >> \in Seq(DiffLines) /\ Len(<< >>) = 0
    OBVIOUS
  <2>3. ASSUME NEW r, Parsed(<< >>, count, r) PROVE r = Started
    <3>1. PICK after : Parses(<< >>, count, 0, after) /\ r = after[0]
      BY <2>2, <2>3 DEF Parsed
    <3>2. after = [i \in 0..0 |-> IF i = 0 THEN Started ELSE ReadLine(after[i - 1], << >>[i], count)]
      BY <3>1 DEF Parses
    <3> QED BY <3>1, <3>2
  <2>4. ReadUpTo(script, context, 0, Started)
    BY ReadingStarts
  <2> QED BY <2>1, <2>2, <2>3, <2>4
<1>6. ASSUME NEW i \in 1..n, Right(i - 1) PROVE Right(i)
  <2>1. diff[i] = DiffOn(script, context, diff[i - 1], i)
    <3>1. i \in 0..n /\ i # 0
      BY <1>1
    <3> QED BY <3>1, <1>4
  <2> DEFINE before == diff[i - 1]
  <2>2. /\ before \in Seq(DiffLines)
        /\ \A r : Parsed(before, count, r) => ReadUpTo(script, context, i - 1, r)
    BY <1>6
  <2> HIDE DEF before
  <2>3. /\ DiffOn(script, context, before, i) \in Seq(DiffLines)
        /\ \A r : Parsed(DiffOn(script, context, before, i), count, r) => ReadUpTo(script, context, i, r)
    BY <2>2, DiffReadOn
  <2> QED BY <2>1, <2>3 DEF before
<1>7. T = {}
  <2> SUFFICES ASSUME T # {} PROVE FALSE
    OBVIOUS
  <2> HIDE DEF Right
  <2>1. PICK t \in T : \A u \in T : t <= u
    <3>1. T \in SUBSET Nat
      OBVIOUS
    <3> HIDE DEF T
    <3> QED BY <3>1, LeastOf
  <2>2. t \in 1..n /\ t - 1 \in 0..n /\ ~(t <= t - 1)
    BY <1>1, <1>5, <2>1
  <2>3. Right(t - 1)
    BY <2>1, <2>2
  <2> QED BY <1>6, <2>1, <2>2, <2>3
<1> HIDE DEF Right
<1>8. Right(n)
  <2>1. n \in 0..n
    BY <1>1
  <2> QED BY <2>1, <1>7
<1> QED BY <1>3, <1>8 DEF Right

\* The ranges of a script's diff are the lines the script adds, and the anchors the
\* places where it deletes lines, whatever hunks Git makes of it.
LEMMA RangesAreOfTheScript ==
  ASSUME NEW script, Scripted(script), NEW context \in Nat \ {0}
  PROVE  Describes(parseUnifiedRanges(UnifiedDiff(script, context), LineCount(script)), script)
<1> DEFINE lines == UnifiedDiff(script, context)
           count == LineCount(script)
           n == Len(script)
           end == TargetLine(script, n + 1)
           after == CHOOSE f : Parses(lines, count, Len(lines), f)
           s == after[Len(lines)]
           t == Flush(s, count)
           parsed == parseUnifiedRanges(lines, count)
<1>0. Len(lines) \in Nat
  <2>1. lines \in Seq(DiffLines)
    BY DiffIsRead
  <2> HIDE DEF lines
  <2> QED BY <2>1
<1>1. Parses(lines, count, Len(lines), after)
  <2> HIDE DEF lines, count
  <2> QED BY <1>0, ParsesAny DEF ParsesAll
<1>2. parsed = [ranges |-> t.ranges, anchors |-> t.anchors]
  BY DEF parseUnifiedRanges, Parses, Started
<1>3. Parsed(lines, count, s)
  BY <1>1 DEF Parsed
<1> HIDE DEF lines, count, after, s, t, parsed
<1>4. ReadUpTo(script, context, n, s)
  BY <1>3, DiffIsRead DEF lines, count
<1>5. end \in Nat \ {0} /\ count \in Nat
  <2>1. n + 1 \in Nat \ {0}
    BY ScriptsEnd
  <2> QED BY <2>1, TargetLines, TargetEnds DEF count
<1>6. Gathered(s, count, end, Added(script), Deleted(script))
  BY <1>4, ChangesEnd DEF ReadUpTo, count
<1>7. Gathered(t, count, end, Added(script), Deleted(script)) /\ Idle(t)
  <2> HIDE DEF end
  <2> QED BY <1>5, <1>6, RunsFlush DEF t
<1>8. /\ Apart(t.ranges, end) /\ Covered(t.ranges) = Added(script)
      /\ Rising(t.anchors, Anchor(end, count)) /\ Anchored(t.anchors) = Deleted(script)
  BY <1>7 DEF Gathered, Idle
<1>9. parsed.ranges = t.ranges /\ parsed.anchors = t.anchors
  BY <1>2
<1> DEFINE ranges == t.ranges
           anchors == t.anchors
<1>10. ranges \in Seq(Int \X Int) /\ DOMAIN ranges = 1..Len(ranges)
  <2>1. ranges \in Seq(Int \X Int)
    BY <1>8 DEF Apart
  <2> QED BY <2>1
<1>11. anchors \in Seq(Int) /\ DOMAIN anchors = 1..Len(anchors)
  <2>1. anchors \in Seq(Int)
    BY <1>8 DEF Rising
  <2> QED BY <2>1
<1>12. UNION {r[1]..r[2] : r \in ToSet(ranges)} = Added(script)
  <2>1. {r[1]..r[2] : r \in ToSet(ranges)} = {ranges[k][1]..ranges[k][2] : k \in 1..Len(ranges)}
    BY <1>10, Zenon DEF ToSet
  <2> QED BY <2>1, <1>8 DEF Covered
<1>13. ToSet(anchors) = Deleted(script)
  BY <1>8, <1>11 DEF ToSet, Anchored
<1>14. /\ \A k \in DOMAIN ranges : ranges[k][1] <= ranges[k][2]
       /\ \A k \in 2..Len(ranges) : ranges[k][1] > ranges[k - 1][2] + 1
       /\ \A k \in 2..Len(anchors) : anchors[k] > anchors[k - 1]
  <2>1. /\ \A k \in 1..Len(ranges) : ranges[k][1] <= ranges[k][2]
        /\ \A k \in 2..Len(ranges) : ranges[k][1] > ranges[k - 1][2] + 1
    BY <1>8 DEF Apart
  <2>2. \A k \in 2..Len(anchors) : anchors[k] > anchors[k - 1]
    BY <1>8 DEF Rising
  <2> QED BY <1>10, <2>1, <2>2
<1> HIDE DEF ranges, anchors
<1>15. Describes(parsed, script)
  BY <1>9, <1>12, <1>13, <1>14 DEF Describes, ranges, anchors
<1> QED BY <1>15 DEF parsed, lines, count

-----------------------------------------------------------------------------
(* A request about a file.                                                  *)

(* What a commit changes: each path once, and of a deleted file every line. *)
ChangesApart(changes) ==
  /\ changes \in Seq(ToSet(changes))
  /\ \A j, k \in DOMAIN changes : changes[j].path = changes[k].path => j = k
  /\ \A k \in DOMAIN changes :
       /\ Scripted(changes[k].script)
       /\ changes[k].status = "D" =>
            \A i \in 1..Len(changes[k].script) : changes[k].script[i].mark = "-"

(* What is asked, and of which history, never changes. *)
Fixed ==
  /\ request.method \in FileMethods
  /\ \A p \in DOMAIN history : \A k \in DOMAIN history[p].changes :
       history[p].changes[k].script \in Seq(ToSet(history[p].changes[k].script))
  /\ DOMAIN history \subseteq Nat
  /\ request.method = "blame.lines" =>
       /\ request.first \in Int /\ request.last \in Int
       /\ request.contents \in Nat \cup {NoContents}
  /\ \A p \in DOMAIN history : ChangesApart(history[p].changes)
  /\ request.method = "diff.file" =>
       /\ request.context \in Int
       /\ request.revision \in {Name, NoRevision} \cup DOMAIN history

(* The name stands for a commit it has stood for; the file has a length. *)
Moving == tip \in seen /\ seen \subseteq DOMAIN history /\ saved \in Nat

(* Which handler is at a stage. *)
Handler ==
  /\ stage = "tracking" => request.method = "blame.lines" /\ ~AtRevision
  /\ stage \in {"reading source", "blaming", "reading metadata"} => request.method = "blame.lines"
  /\ stage = "reading log" => request.method = "history.file"
  /\ stage = "reading diff" => request.method = "diff.file"
  /\ stage = "reading blob" => request.method = "revision.content"
  /\ stage \notin {"opening"} \cup Ended => ValidParams

(* From its resolution the commit is one the name has stood for. *)
Resolved ==
  AtRevision /\ stage \notin {"opening", "resolving", "refused", "error", "cancelled"} =>
    commit \in Asked

(* What is read at a stage is about that commit, and the answer is its answer. *)
Partial ==
  /\ stage = "blaming" /\ AtRevision => Exists(history, commit, request.path)
  /\ stage = "reading metadata" => found = <<request.first..request.last>>
  /\ stage = "reading files" /\ request.method = "history.file" =>
       found = LogFollow(history, commit, request.path,
                         Clamped(request.limit, DefaultHistory, MaxHistory))
  /\ stage = "reading diff" => /\ found = <<selectDiffChange(history, request, commit)>>
                               /\ Selected(history, request, commit) # {}
  /\ stage = "answered" /\ request.method = "diff.file" =>
       ValidParams /\ Selected(history, request, commit) # {}
  /\ stage = "answered" /\ request.method = "blame.lines" =>
       answer = <<request.first..request.last>>
  /\ stage = "answered" /\ request.method # "blame.lines" =>
       answer = AnswerAt(history, request, commit)

Reading == Fixed /\ Moving /\ Handler /\ Resolved /\ Partial

-----------------------------------------------------------------------------

(* A text has a number of lines. *)
LEMMA LinesAreCounted ==
  ASSUME NEW script, script \in Seq(ToSet(script))
  PROVE  LineCount(script) \in Nat
<1> DEFINE lines == {i \in DOMAIN script : script[i].mark # "-"}
<1>1. DOMAIN script = 1..Len(script) /\ Len(script) \in Nat
  OBVIOUS
<1>2. IsFiniteSet(DOMAIN script)
  BY <1>1, FS_Interval
<1>3. lines \subseteq DOMAIN script
  OBVIOUS
<1>4. IsFiniteSet(lines)
  BY <1>2, <1>3, FS_Subset
<1>5. Cardinality(lines) \in Nat
  BY <1>4, FS_CardinalityType
<1> QED
  BY <1>5 DEF LineCount

(* So has the file at a commit that has it. *)
LEMMA LinesAtAreCounted ==
  ASSUME Fixed, NEW c, NEW path, Exists(history, c, path)
  PROVE  LinesAt(history, c, path) \in Nat
<1> DEFINE T == Touching(history, c, path)
           p == CHOOSE p \in T : \A q \in T : p <= q
           givers == {k \in DOMAIN history[p].changes : /\ history[p].changes[k].path = path
                                                        /\ history[p].changes[k].status # "D"}
           k == CHOOSE k \in givers : TRUE
<1>1. BlobAt(history, c, path) = IF T = {} \/ givers = {} THEN None
                                 ELSE <<history[p].changes[k].script>>
  BY DEF BlobAt
<1>2. T # {} /\ givers # {} /\ BlobAt(history, c, path) = <<history[p].changes[k].script>>
  BY <1>1 DEF Exists
<1>3. T \subseteq DOMAIN history /\ T \subseteq Nat
  BY DEF Touching, Fixed
<1>4. PICK least \in T : \A q \in T : ~(<<q, least>> \in OpToRel(<, Nat))
  BY <1>2, <1>3, NatLessThanWellFounded, WFMin
<1>5. \A q \in T : least <= q
  <2>1. \A q \in T : ~(q < least)
    BY <1>3, <1>4 DEF OpToRel
  <2> QED
    BY <1>3, <2>1
<1>6. p \in T
  BY <1>5
<1>7. k \in givers
  BY <1>2
<1>8. k \in DOMAIN history[p].changes
  BY <1>7
<1>9. history[p].changes[k].script \in Seq(ToSet(history[p].changes[k].script))
  BY <1>3, <1>6, <1>8 DEF Fixed
<1>10. BlobAt(history, c, path)[1] = history[p].changes[k].script
  BY <1>2
<1> QED
  BY <1>9, <1>10, LinesAreCounted DEF LinesAt

(* As many lines of a blame as were asked for are the lines asked for. *)
LEMMA BlameCounts ==
  ASSUME request.first \in Int, request.last \in Int, request.first <= request.last,
         NEW count \in Nat,
         Cardinality(BlameLines(count)) = request.last - request.first + 1
  PROVE  BlameLines(count) = request.first..request.last
<1>1. CASE request.last < count
  BY <1>1 DEF BlameLines
<1>2. CASE ~(request.last < count)
  <2>1. BlameLines(count) = request.first..count
    BY <1>2 DEF BlameLines
  <2>2. Cardinality(request.first..count) =
          IF request.first > count THEN 0 ELSE count - request.first + 1
    <3>1. count \in Int
      OBVIOUS
    <3> QED
      BY <3>1, FS_Interval, Zenon
  <2>3. count = request.last
    BY <2>1, <2>2
  <2> QED
    BY <2>1, <2>3
<1> QED
  BY <1>1, <1>2

-----------------------------------------------------------------------------

(* A file request begins with what holds of it throughout. *)
LEMMA InitReading ==
  ASSUME HistoryInit, MethodsInit, request.method \in FileMethods
  PROVE  Reading
<1>1. PICK c \in Cases : history = c.history /\ request = c.request
  BY DEF HistoryInit
<1>2. Fixed
  <2>1. \A p \in DOMAIN history : \A k \in DOMAIN history[p].changes :
          history[p].changes[k].script \in Seq(ToSet(history[p].changes[k].script))
    BY <1>1, ChangesAssumption
  <2>2. DOMAIN history \subseteq Nat
    <3>1. history \in Seq(ToSet(history))
      BY <1>1, CasesAssumption
    <3>2. DOMAIN history = 1..Len(history) /\ Len(history) \in Nat
      BY <3>1
    <3> QED
      BY <3>2
  <2>3. request.method = "blame.lines" =>
          /\ request.first \in Int /\ request.last \in Int
          /\ request.contents \in Nat \cup {NoContents}
    BY <1>1, MethodsAssumption
  <2>4. ASSUME NEW p \in DOMAIN history PROVE ChangesApart(history[p].changes)
    <3> DEFINE changes == history[p].changes
    <3>1. /\ changes \in Seq(ToSet(changes))
          /\ \A j, k \in DOMAIN changes : changes[j].path = changes[k].path => j = k
          /\ \A k \in DOMAIN changes :
               /\ changes[k].script \in Seq(ToSet(changes[k].script))
               /\ \A i \in DOMAIN changes[k].script :
                    /\ changes[k].script[i].mark \in {" ", "+", "-"}
                    /\ changes[k].status = "D" => changes[k].script[i].mark = "-"
      BY <1>1, ChangesAssumption
    <3> HIDE DEF changes
    <3>2. ASSUME NEW k \in DOMAIN changes
          PROVE  /\ Scripted(changes[k].script)
                 /\ changes[k].status = "D" =>
                      \A i \in 1..Len(changes[k].script) : changes[k].script[i].mark = "-"
      <4> DEFINE script == changes[k].script
      <4>1. script \in Seq(ToSet(script))
        BY <3>1
      <4>2. DOMAIN script = 1..Len(script)
        <5> HIDE DEF script
        <5> QED BY <4>1
      <4>3. \A i \in 1..Len(script) : /\ script[i].mark \in {" ", "+", "-"}
                                      /\ changes[k].status = "D" => script[i].mark = "-"
        BY <3>1, <4>2
      <4> QED BY <4>1, <4>3 DEF Scripted
    <3>3. ChangesApart(changes)
      BY <3>1, <3>2 DEF ChangesApart
    <3> QED BY <3>3 DEF changes
  <2>5. request.method = "diff.file" =>
          /\ request.context \in Int
          /\ request.revision \in {Name, NoRevision} \cup DOMAIN history
    BY <1>1, MethodsAssumption
  <2> QED
    BY <2>1, <2>2, <2>3, <2>4, <2>5 DEF Fixed
<1>3. stage = "opening" /\ tip \in seen /\ seen \subseteq DOMAIN history
  BY DEF HistoryInit, Positions
<1>4. Moving
  BY <1>3, MethodsAssumption DEF Moving, MethodsInit
<1>5. Handler
  BY <1>3 DEF Handler
<1>6. Resolved
  BY <1>3 DEF Resolved
<1>7. Partial
  BY <1>3 DEF Partial
<1> QED
  BY <1>2, <1>4, <1>5, <1>6, <1>7 DEF Reading

(* The request and the history are the same after every step. *)
LEMMA FixedStays ==
  ASSUME Fixed, UNCHANGED <<history, request>>
  PROVE  /\ Fixed' /\ ValidParams' = ValidParams
         /\ AtRevision' = AtRevision /\ ByName' = ByName
<1>1. history' = history /\ request' = request
  OBVIOUS
<1>2. Fixed'
  BY <1>1, Zenon DEF Fixed
<1>3. AtRevision' = AtRevision /\ ByName' = ByName
  BY <1>1 DEF AtRevision, ByName
<1>4. ValidParams' = ValidParams
  BY <1>1, <1>3 DEF ValidParams
<1> QED
  BY <1>2, <1>3, <1>4

(* A move of the name, a save or a cancellation reaches nothing that is read. *)
LEMMA EnvironmentReading ==
  ASSUME Reading, UNCHANGED <<history, request, stage, commit, found, answer>>,
         seen \subseteq seen', seen' \subseteq DOMAIN history, tip' \in seen', saved' \in Nat
  PROVE  Reading'
<1>1. history' = history /\ request' = request /\ stage' = stage /\ commit' = commit
      /\ found' = found /\ answer' = answer
  OBVIOUS
<1>2. Fixed' /\ ValidParams' = ValidParams /\ AtRevision' = AtRevision /\ ByName' = ByName
  BY FixedStays DEF Reading
<1>3. Moving'
  BY DEF Moving
<1>4. Handler'
  BY <1>1, <1>2 DEF Reading, Handler
<1>5. Resolved'
  BY <1>1, <1>2 DEF Reading, Resolved, Asked
<1>6. Partial'
  BY <1>1, <1>2 DEF Reading, Partial
<1> QED
  BY <1>2, <1>3, <1>4, <1>5, <1>6 DEF Reading

-----------------------------------------------------------------------------

(* Every step of a file request keeps it. *)
LEMMA StepReading ==
  ASSUME Reading, MethodStep
  PROVE  Reading'
<1>e. UNCHANGED <<history, request, tip, seen, saved>>
  BY DEF MethodStep, Open, resolveRevision, FailRead, CheckTracked, ReadSource, Blame,
         ReadMetadata, ReadLog, ReadLogFiles, ReadChange, ReadDiff, ReadBlob, To, Reach,
         environmentVars, methodVars
<1>h. history' = history /\ request' = request /\ seen' = seen
  BY <1>e
<1>f. /\ Fixed' /\ ValidParams' = ValidParams /\ AtRevision' = AtRevision
      /\ ByName' = ByName /\ Asked' = Asked
  <2>1. Fixed' /\ ValidParams' = ValidParams /\ AtRevision' = AtRevision /\ ByName' = ByName
    BY <1>e, FixedStays DEF Reading
  <2> QED
    BY <1>h, <2>1 DEF Asked
<1>m. Moving'
  BY <1>e DEF Reading, Moving
<1>i. Fixed /\ Handler /\ Resolved /\ Partial
  BY DEF Reading
<1> SUFFICES Handler' /\ Resolved' /\ Partial'
  BY <1>f, <1>m DEF Reading
<1>1. CASE Open
  <2>1. \/ stage' = "refused"
        \/ stage' = "resolving" /\ ValidParams
        \/ stage' = "tracking" /\ ValidParams /\ ~AtRevision
    BY <1>1 DEF Open, To, Reach
  <2>2. ValidParams /\ ~AtRevision => request.method = "blame.lines"
    BY <1>i DEF Fixed, FileMethods, ValidParams, AtRevision, ByName
  <2>3. Handler'
    BY <1>f, <1>h, <2>1, <2>2 DEF Handler, Ended
  <2>4. Resolved'
    BY <1>f, <2>1 DEF Resolved
  <2>5. Partial'
    BY <2>1 DEF Partial
  <2> QED
    BY <2>3, <2>4, <2>5
<1>2. CASE resolveRevision
  <2>1. /\ stage = "resolving"
        /\ commit' = IF ByName THEN tip ELSE request.revision
    BY <1>2 DEF resolveRevision
  <2>2. \/ stage' = "reading source" /\ request.method = "blame.lines"
        \/ stage' = "reading log" /\ request.method = "history.file"
        \/ stage' = "reading files" /\ request.method = "diff.file"
        \/ stage' = "reading blob" /\ request.method = "revision.content"
    BY <1>2, <1>i DEF resolveRevision, To, Reach, Fixed, FileMethods
  <2>3. ValidParams
    BY <1>i, <2>1 DEF Handler, Ended
  <2>4. Handler'
    BY <1>f, <1>h, <2>2, <2>3 DEF Handler, Ended
  <2>5. Resolved'
    <3>1. commit' \in Asked
      BY <2>1 DEF Reading, Moving, Asked
    <3> QED
      BY <1>f, <3>1 DEF Resolved
  <2>6. Partial'
    BY <1>h, <2>2 DEF Partial
  <2> QED
    BY <2>4, <2>5, <2>6
<1>3. CASE FailRead
  <2>1. stage' \in {"cancelled", "error"}
    BY <1>3 DEF FailRead
  <2> QED
    BY <2>1 DEF Handler, Resolved, Partial, Ended
<1>4. CASE CheckTracked
  <2>1. stage = "tracking" /\ stage' \in {"reading source", "refused"}
    BY <1>4 DEF CheckTracked, To, Reach
  <2>2. ~AtRevision /\ request.method = "blame.lines" /\ ValidParams
    BY <1>i, <2>1 DEF Handler, Ended
  <2>3. Handler'
    BY <1>f, <1>h, <2>1, <2>2 DEF Handler, Ended
  <2>4. Resolved'
    BY <1>f, <2>2 DEF Resolved
  <2>5. Partial'
    BY <2>1 DEF Partial
  <2> QED
    BY <2>3, <2>4, <2>5
<1>5. CASE ReadSource
  <2>1. /\ stage = "reading source" /\ stage' \in {"blaming", "refused"} /\ commit' = commit
        /\ stage' = "blaming" /\ AtRevision => Exists(history, commit, request.path)
    BY <1>5 DEF ReadSource, To, Reach
  <2>2. request.method = "blame.lines" /\ ValidParams
    BY <1>i, <2>1 DEF Handler, Ended
  <2>3. Handler'
    BY <1>f, <1>h, <2>1, <2>2 DEF Handler, Ended
  <2>4. Resolved'
    BY <1>f, <1>i, <2>1 DEF Resolved
  <2>5. Partial'
    BY <1>f, <1>h, <2>1 DEF Partial
  <2> QED
    BY <2>3, <2>4, <2>5
<1>6. CASE Blame
  <2>1. /\ stage = "blaming" /\ stage' \in {"reading metadata", "error"} /\ commit' = commit
        /\ found' = <<BlameLines(SourceCount)>>
        /\ stage' = "reading metadata" =>
             Cardinality(BlameLines(SourceCount)) = request.last - request.first + 1
    BY <1>6 DEF Blame, To, Reach
  <2>2. request.method = "blame.lines" /\ ValidParams
    BY <1>i, <2>1 DEF Handler, Ended
  <2>3. Handler'
    BY <1>f, <1>h, <2>1, <2>2 DEF Handler, Ended
  <2>4. Resolved'
    BY <1>f, <1>i, <2>1 DEF Resolved
  <2>5. Partial'
    <3>1. ASSUME stage' = "reading metadata"
          PROVE  BlameLines(SourceCount) = request.first..request.last
      <4>1. request.first <= request.last
        BY <2>2 DEF ValidParams
      <4>2. request.first \in Int /\ request.last \in Int
        BY <1>i, <2>2 DEF Fixed
      <4>3. SourceCount \in Nat
        <5>1. request.contents # NoContents => request.contents \in Nat
          BY <1>i, <2>2 DEF Fixed
        <5>2. AtRevision => LinesAt(history, commit, request.path) \in Nat
          BY <1>i, <2>1, LinesAtAreCounted DEF Partial
        <5>3. saved \in Nat
          BY DEF Reading, Moving
        <5> QED
          BY <5>1, <5>2, <5>3 DEF SourceCount
      <4> QED
        BY <2>1, <3>1, <4>1, <4>2, <4>3, BlameCounts
    <3> QED
      BY <1>h, <2>1, <3>1 DEF Partial
  <2> QED
    BY <2>3, <2>4, <2>5
<1>7. CASE ReadMetadata
  <2>1. /\ stage = "reading metadata" /\ stage' = "answered" /\ commit' = commit
        /\ answer' = found
    BY <1>7 DEF ReadMetadata, To, Reach
  <2>2. request.method = "blame.lines" /\ found = <<request.first..request.last>>
    BY <1>i, <2>1 DEF Handler, Partial
  <2>3. Handler'
    BY <2>1 DEF Handler, Ended
  <2>4. Resolved'
    BY <1>f, <1>i, <2>1 DEF Resolved
  <2>5. Partial'
    BY <1>h, <2>1, <2>2 DEF Partial
  <2> QED
    BY <2>3, <2>4, <2>5
<1>8. CASE ReadLog
  <2>1. /\ stage = "reading log" /\ stage' = "reading files" /\ commit' = commit
        /\ found' = LogFollow(history, commit, request.path,
                              Clamped(request.limit, DefaultHistory, MaxHistory))
    BY <1>8 DEF ReadLog, To, Reach
  <2>2. request.method = "history.file" /\ ValidParams
    BY <1>i, <2>1 DEF Handler, Ended
  <2>3. Handler'
    BY <1>f, <1>h, <2>1, <2>2 DEF Handler, Ended
  <2>4. Resolved'
    BY <1>f, <1>i, <2>1 DEF Resolved
  <2>5. Partial'
    BY <1>h, <2>1 DEF Partial
  <2> QED
    BY <2>3, <2>4, <2>5
<1>9. CASE ReadLogFiles
  <2>1. /\ stage = "reading files" /\ stage' = "answered" /\ commit' = commit
        /\ request.method = "history.file"
        /\ answer' = [k \in DOMAIN found |->
                        [commit |-> found[k], files |-> FilesAt(history, found[k])]]
    BY <1>9 DEF ReadLogFiles, To, Reach
  <2>2. found = LogFollow(history, commit, request.path,
                          Clamped(request.limit, DefaultHistory, MaxHistory))
    BY <1>i, <2>1 DEF Partial
  <2>3. answer' = AnswerAt(history, request, commit)
    BY <2>1, <2>2 DEF AnswerAt
  <2>4. Handler'
    BY <2>1 DEF Handler, Ended
  <2>5. Resolved'
    BY <1>f, <1>i, <2>1 DEF Resolved
  <2>6. Partial'
    BY <1>h, <2>1, <2>3 DEF Partial
  <2> QED
    BY <2>4, <2>5, <2>6
<1>10. CASE ReadChange
  <2>1. /\ stage = "reading files" /\ request.method = "diff.file" /\ commit' = commit
        /\ \/ stage' = "refused"
           \/ /\ stage' = "reading diff" /\ found' = <<selectDiffChange(history, request, commit)>>
              /\ Selected(history, request, commit) # {}
    BY <1>10 DEF ReadChange, To, Reach
  <2>2. ValidParams
    BY <1>i, <2>1 DEF Handler, Ended
  <2>3. Handler'
    BY <1>f, <1>h, <2>1, <2>2 DEF Handler, Ended
  <2>4. Resolved'
    BY <1>f, <1>i, <2>1 DEF Resolved
  <2>5. Partial'
    BY <1>h, <2>1 DEF Partial
  <2> QED
    BY <2>3, <2>4, <2>5
<1>11. CASE ReadDiff
  <2>1. /\ stage = "reading diff" /\ stage' = "answered" /\ commit' = commit
        /\ answer' = <<[change |-> found[1], ranges |-> Ranges(history, request, found[1], commit)]>>
    BY <1>11 DEF ReadDiff, To, Reach
  <2>2. /\ request.method = "diff.file" /\ ValidParams
        /\ found = <<selectDiffChange(history, request, commit)>>
        /\ Selected(history, request, commit) # {}
    BY <1>i, <2>1 DEF Handler, Partial, Ended
  <2>3. answer' = AnswerAt(history, request, commit)
    BY <2>1, <2>2 DEF AnswerAt
  <2>4. Handler'
    BY <2>1 DEF Handler, Ended
  <2>5. Resolved'
    BY <1>f, <1>i, <2>1 DEF Resolved
  <2>6. Partial'
    BY <1>f, <1>h, <2>1, <2>2, <2>3 DEF Partial
  <2> QED
    BY <2>4, <2>5, <2>6
<1>12. CASE ReadBlob
  <2>1. /\ stage = "reading blob" /\ commit' = commit
        /\ \/ stage' = "refused"
           \/ stage' = "answered" /\ answer' = BlobAt(history, commit, request.path)
    BY <1>12 DEF ReadBlob, To, Reach
  <2>2. request.method = "revision.content"
    BY <1>i, <2>1 DEF Handler
  <2>3. BlobAt(history, commit, request.path) = AnswerAt(history, request, commit)
    BY <2>2 DEF AnswerAt
  <2>4. Handler'
    BY <2>1 DEF Handler, Ended
  <2>5. Resolved'
    BY <1>f, <1>i, <2>1 DEF Resolved
  <2>6. Partial'
    BY <1>h, <2>1, <2>2, <2>3 DEF Partial
  <2> QED
    BY <2>4, <2>5, <2>6
<1> QED
  BY <1>1, <1>2, <1>3, <1>4, <1>5, <1>6, <1>7, <1>8, <1>9, <1>10, <1>11, <1>12 DEF MethodStep

(* So does every step around it. *)
LEMMA NextReading ==
  ASSUME Reading, [MethodsNext]_<<environmentVars, stage, methodVars>>
  PROVE  Reading'
<1>1. tip \in seen /\ seen \subseteq DOMAIN history /\ saved \in Nat
  BY DEF Reading, Moving
<1>2. CASE UNCHANGED <<environmentVars, stage, methodVars>>
  BY <1>1, <1>2, EnvironmentReading DEF environmentVars, methodVars
<1>3. CASE MethodStep
  BY <1>3, StepReading
<1>4. CASE Save
  BY <1>1, <1>4, EnvironmentReading, MethodsAssumption DEF Save
<1>5. CASE (RefsMove \/ Cancel) /\ UNCHANGED methodVars
  <2>1. UNCHANGED <<history, request, stage, commit, found, answer, saved>>
    BY <1>5 DEF RefsMove, Cancel, methodVars
  <2>2. seen \subseteq seen' /\ seen' \subseteq DOMAIN history /\ tip' \in seen'
    BY <1>1, <1>5 DEF RefsMove, Cancel, Positions
  <2> QED
    BY <1>1, <2>1, <2>2, EnvironmentReading
<1> QED
  BY <1>2, <1>3, <1>4, <1>5 DEF MethodsNext

-----------------------------------------------------------------------------

(* The change a diff tells of is one of its commit, and its target has as many
   lines as the script of the change leaves. *)
LEMMA TargetOfTheChange ==
  ASSUME Fixed, NEW c \in DOMAIN history, Selected(history, request, c) # {}
  PROVE  LET change == selectDiffChange(history, request, c) IN
         /\ Scripted(change.script)
         /\ LineCount(change.script) = IF Exists(history, c, change.path)
                                       THEN LinesAt(history, c, change.path) ELSE 0
<1> DEFINE changes == history[c].changes
           selected == Selected(history, request, c)
           k == CHOOSE k \in selected : \A j \in selected : k <= j
           change == selectDiffChange(history, request, c)
           path == change.path
           T == Touching(history, c, path)
           p == CHOOSE p \in T : \A q \in T : p <= q
           givers == {j \in DOMAIN history[p].changes : /\ history[p].changes[j].path = path
                                                         /\ history[p].changes[j].status # "D"}
<1>1. /\ changes \in Seq(ToSet(changes))
      /\ \A i, j \in DOMAIN changes : changes[i].path = changes[j].path => i = j
      /\ \A j \in DOMAIN changes :
           /\ Scripted(changes[j].script)
           /\ changes[j].status = "D" =>
                \A i \in 1..Len(changes[j].script) : changes[j].script[i].mark = "-"
  BY DEF Fixed, ChangesApart
<1>2. k \in DOMAIN changes /\ change = changes[k]
  <2>1. selected \subseteq DOMAIN changes /\ DOMAIN changes \subseteq Nat
    <3>1. DOMAIN changes = 1..Len(changes) /\ Len(changes) \in Nat
      <4> HIDE DEF changes
      <4> QED BY <1>1
    <3>2. selected \subseteq DOMAIN changes
      BY DEF Selected
    <3> HIDE DEF changes, selected
    <3> QED BY <3>1, <3>2
  <2>2. \E j \in selected : \A i \in selected : j <= i
    <3>1. selected \in SUBSET Nat /\ selected # {}
      BY <2>1
    <3> HIDE DEF selected
    <3> QED BY <3>1, LeastOf
  <2>3. k \in selected
    <3> HIDE DEF selected
    <3> QED BY <2>2
  <2>4. change = changes[k]
    BY DEF selectDiffChange
  <2> QED BY <2>1, <2>3, <2>4
<1> HIDE DEF k, change
<1>3. T \subseteq DOMAIN history /\ DOMAIN history \subseteq Nat /\ c \in T /\ \A q \in T : c <= q
  <2>1. DOMAIN history \subseteq Nat
    BY DEF Fixed
  <2>2. path \in Names(changes[k])
    BY <1>2 DEF Names
  <2>3. c >= c /\ c \in Nat
    BY <2>1
  <2>4. T = {q \in DOMAIN history : q >= c /\ \E j \in DOMAIN history[q].changes :
                                                   path \in Names(history[q].changes[j])}
    BY DEF Touching
  <2> HIDE DEF T
  <2>5. c \in T
    BY <1>2, <2>2, <2>3, <2>4
  <2>6. \A q \in T : q \in Nat /\ q >= c
    BY <2>1, <2>4
  <2>7. \A q \in T : c <= q
    BY <2>3, <2>6
  <2> QED BY <2>1, <2>4, <2>5, <2>7
<1>4. p = c
  <2> HIDE DEF T
  <2>1. p \in T /\ \A q \in T : p <= q
    BY <1>3
  <2>2. p <= c /\ c <= p /\ p \in Nat /\ c \in Nat
    BY <1>3, <2>1
  <2> QED BY <2>2
<1>5. givers = {j \in DOMAIN changes : changes[j].path = path /\ changes[j].status # "D"}
  BY <1>4
<1>6. BlobAt(history, c, path) = IF T = {} \/ givers = {} THEN None
                                 ELSE <<history[p].changes[CHOOSE j \in givers : TRUE].script>>
  BY DEF BlobAt
<1> HIDE DEF T, p, givers
<1>7. CASE change.status = "D"
  <2>1. givers = {}
    BY <1>1, <1>2, <1>5, <1>7
  <2>2. ~Exists(history, c, path)
    BY <1>6, <2>1 DEF Exists
  <2>3. Scripted(change.script) /\ \A i \in 1..Len(change.script) : change.script[i].mark = "-"
    BY <1>1, <1>2, <1>7
  <2>4. LineCount(change.script) = 0
    BY <2>3, TargetIsEmpty
  <2> QED BY <2>2, <2>3, <2>4 DEF change
<1>8. CASE change.status # "D"
  <2>1. givers = {k}
    BY <1>1, <1>2, <1>5, <1>8
  <2>2. BlobAt(history, c, path) = <<change.script>>
    <3>1. (CHOOSE j \in givers : TRUE) = k
      BY <2>1
    <3>2. T # {} /\ givers # {}
      BY <1>3, <2>1
    <3> QED BY <1>2, <1>4, <1>6, <3>1, <3>2
  <2>3. Exists(history, c, path) /\ LinesAt(history, c, path) = LineCount(change.script)
    BY <2>2 DEF Exists, None, LinesAt
  <2>4. Scripted(change.script)
    BY <1>1, <1>2
  <2> QED BY <2>3, <2>4 DEF change
<1> QED BY <1>7, <1>8

(* What is known while reading says what the ranges of an answer are. *)
LEMMA ReadingDescribes ==
  ASSUME Reading
  PROVE  RangesDescribe
<1> SUFFICES ASSUME stage = "answered", request.method = "diff.file"
             PROVE  Describes(answer[1].ranges, answer[1].change.script)
  BY DEF RangesDescribe
<1> DEFINE change == selectDiffChange(history, request, commit)
           context == Clamped(request.context, DefaultContext, MaxContext)
<1>1. /\ answer = AnswerAt(history, request, commit)
      /\ ValidParams /\ Selected(history, request, commit) # {}
  BY DEF Reading, Partial
<1>2. request.context \in 0..MaxContext /\ AtRevision
  BY <1>1 DEF ValidParams
<1>3. commit \in DOMAIN history
  <2>1. commit \in Asked
    BY <1>2 DEF Reading, Resolved
  <2>2. seen \subseteq DOMAIN history
    BY DEF Reading, Moving
  <2>3. ~ByName => request.revision \in DOMAIN history
    BY <1>2 DEF Reading, Fixed, ByName, AtRevision
  <2> QED BY <2>1, <2>2, <2>3 DEF Asked
<1>4. context \in Nat \ {0}
  BY <1>2, MethodsAssumption DEF Clamped
<1>5. answer = <<[change |-> change, ranges |-> Ranges(history, request, change, commit)]>>
  BY <1>1 DEF AnswerAt
<1>6. /\ Scripted(change.script)
      /\ LineCount(change.script) = IF Exists(history, commit, change.path)
                                    THEN LinesAt(history, commit, change.path) ELSE 0
  BY <1>1, <1>3, TargetOfTheChange DEF Reading
<1>7. answer[1].change = change /\ answer[1].ranges = Ranges(history, request, change, commit)
  BY <1>5
<1>8. Ranges(history, request, change, commit) =
        parseUnifiedRanges(UnifiedDiff(change.script, context), LineCount(change.script))
  BY <1>6 DEF Ranges
<1> HIDE DEF change, context
<1> QED BY <1>4, <1>6, <1>7, <1>8, RangesAreOfTheScript

-----------------------------------------------------------------------------

(* What is known while reading says what an answer is. *)
LEMMA ReadingSuffices ==
  ASSUME Reading
  PROVE  OneRevision /\ BlameIsWhole
<1>1. ASSUME stage = "answered", AtRevision
      PROVE  \E c \in Asked : answer = AnswerAt(history, request, c)
  <2>1. commit \in Asked
    BY <1>1 DEF Reading, Resolved
  <2>2. answer = AnswerAt(history, request, commit)
    <3>1. CASE request.method = "blame.lines"
      BY <1>1, <3>1 DEF Reading, Partial, AnswerAt
    <3>2. CASE request.method # "blame.lines"
      BY <1>1, <3>2 DEF Reading, Partial
    <3> QED
      BY <3>1, <3>2
  <2> QED
    BY <2>1, <2>2
<1>2. OneRevision
  BY <1>1 DEF OneRevision
<1>3. BlameIsWhole
  BY DEF Reading, Partial, BlameIsWhole
<1> QED
  BY <1>2, <1>3

(* An answer about a revision is the answer for one commit that its name stood
   for during the request. *)
THEOREM AnswersAreOfOneRevision == MethodsSpec => []OneRevision
<1>1. HistoryInit /\ request.method \in FileMethods /\ MethodsInit => Reading
  BY InitReading
<1>2. Reading /\ [MethodsNext]_<<environmentVars, stage, methodVars>> => Reading'
  BY NextReading
<1>3. Reading => OneRevision
  BY ReadingSuffices
<1> QED
  BY <1>1, <1>2, <1>3, PTL DEF MethodsSpec

(* The ranges and anchors of a diff are the lines its change adds and the places
   where it deletes lines, for every script and every number of lines of context. *)
THEOREM DiffsAreDescribed == MethodsSpec => []RangesDescribe
<1>1. HistoryInit /\ request.method \in FileMethods /\ MethodsInit => Reading
  BY InitReading
<1>2. Reading /\ [MethodsNext]_<<environmentVars, stage, methodVars>> => Reading'
  BY NextReading
<1>3. Reading => RangesDescribe
  BY ReadingDescribes
<1> QED
  BY <1>1, <1>2, <1>3, PTL DEF MethodsSpec

(* A blame tells of exactly the lines asked for. *)
THEOREM BlamesAreWhole == MethodsSpec => []BlameIsWhole
<1>1. HistoryInit /\ request.method \in FileMethods /\ MethodsInit => Reading
  BY InitReading
<1>2. Reading /\ [MethodsNext]_<<environmentVars, stage, methodVars>> => Reading'
  BY NextReading
<1>3. Reading => BlameIsWhole
  BY ReadingSuffices
<1> QED
  BY <1>1, <1>2, <1>3, PTL DEF MethodsSpec

-----------------------------------------------------------------------------
(* Either of them.                                                          *)

(* The stages of a request about a file. *)
FileStages ==
  {"opening", "resolving", "tracking", "reading source", "blaming", "reading metadata",
   "reading log", "reading files", "reading diff", "reading blob"} \cup Ended

(* No search has begun. *)
NoWalk ==
  /\ commits = {} /\ left = {} /\ batch = {} /\ tips = << >>
  /\ results = << >> /\ ~hasMore
  /\ stage \in FileStages

(* What a request is decides what is known of it. *)
Served ==
  /\ TypeOK
  /\ request.method = "search.run" => IInv /\ request.limit \in Int
  /\ request.method # "search.run" => NoWalk
  /\ request.method \in FileMethods => Reading
  /\ request.method \notin {"search.run"} \cup FileMethods => stage = "opening"

(* Of every request it holds at first what it is decides. *)
LEMMA InitServed ==
  ASSUME Init
  PROVE  Served
<1>1. HistoryInit /\ SearchInit /\ MethodsInit
  BY DEF Init
<1>2. request.method = "search.run" => IInv /\ request.limit \in Int
  BY <1>1, InitIInv
<1>3. request.method \in FileMethods => Reading
  BY <1>1, InitReading
<1>4. stage = "opening" /\ stage \in FileStages
  BY <1>1 DEF HistoryInit, FileStages
<1>5. NoWalk
  BY <1>1, <1>4 DEF SearchInit, NoWalk
<1>6. TypeOK
  <2>1. history \in Seq(ToSet(history))
    BY <1>1, CasesAssumption DEF HistoryInit
  <2>2. results \in Seq(ToSet(results))
    BY <1>5 DEF NoWalk
  <2>3. moves \in 0..MaxMoves
    BY <1>1, MaxMovesAssumption DEF HistoryInit
  <2>4. cancelled \in BOOLEAN /\ tip \in Positions /\ seen \subseteq Positions
    BY <1>1 DEF HistoryInit
  <2>5. hasMore \in BOOLEAN /\ eligible \subseteq Positions
    BY <1>1 DEF SearchInit
  <2>6. commits \subseteq Positions /\ left \subseteq commits /\ batch \subseteq commits
    BY <1>5 DEF NoWalk
  <2> QED
    BY <2>1, <2>2, <2>3, <2>4, <2>5, <2>6, Zenon DEF TypeOK
<1> QED
  BY <1>2, <1>3, <1>4, <1>5, <1>6 DEF Served

(* A file request keeps to its stages, and leaves the variables of a search alone. *)
LEMMA FileStep ==
  ASSUME TypeOK, NoWalk, request.method \in FileMethods, MethodsNext, UNCHANGED searchVars
  PROVE  TypeOK' /\ NoWalk' /\ UNCHANGED request
<1>1. UNCHANGED <<tips, eligible, commits, left, batch, results, hasMore>>
  BY DEF searchVars
<1>2. /\ UNCHANGED <<history, request>> /\ stage' \in FileStages
      /\ moves' \in 0..MaxMoves /\ tip' \in Positions /\ seen' \subseteq Positions
      /\ cancelled' \in BOOLEAN
  <2>1. CASE MethodStep
    <3>1. UNCHANGED environmentVars
      BY <2>1 DEF MethodStep, Open, resolveRevision, FailRead, CheckTracked, ReadSource, Blame,
             ReadMetadata, ReadLog, ReadLogFiles, ReadChange, ReadDiff, ReadBlob, To, Reach
    <3>2. stage' \in FileStages
      <4>1. CASE resolveRevision
        <5>1. \/ stage' = "reading source" \/ stage' = "reading log"
              \/ stage' = "reading files" \/ stage' = "reading blob"
          BY <4>1 DEF resolveRevision, FileMethods, To, Reach
        <5> QED
          BY <5>1 DEF FileStages
      <4>2. CASE Open \/ FailRead \/ CheckTracked
        BY <4>2 DEF Open, FailRead, CheckTracked, To, Reach, FileStages, Ended
      <4>3. CASE ReadSource \/ Blame \/ ReadMetadata
        BY <4>3 DEF ReadSource, Blame, ReadMetadata, To, Reach, FileStages, Ended
      <4>4. CASE ReadLog \/ ReadLogFiles \/ ReadChange \/ ReadDiff \/ ReadBlob
        BY <4>4 DEF ReadLog, ReadLogFiles, ReadChange, ReadDiff, ReadBlob, To, Reach,
                    FileStages, Ended
      <4> QED
        BY <2>1, <4>1, <4>2, <4>3, <4>4 DEF MethodStep
    <3> QED
      BY <3>1, <3>2 DEF environmentVars, TypeOK
  <2>2. CASE Save
    BY <2>2, MaxMovesAssumption DEF Save, TypeOK, NoWalk
  <2>3. CASE RefsMove
    <3>1. moves' \in 0..MaxMoves
      BY <2>3, MaxMovesAssumption DEF RefsMove, TypeOK
    <3>2. tip' \in Positions /\ seen' \subseteq Positions
      BY <2>3 DEF RefsMove, TypeOK
    <3> QED
      BY <2>3, <3>1, <3>2 DEF RefsMove, TypeOK, NoWalk
  <2>4. CASE Cancel
    BY <2>4 DEF Cancel, TypeOK, NoWalk
  <2> QED
    BY <2>1, <2>2, <2>3, <2>4 DEF MethodsNext
<1>3. Positions' = Positions
  BY <1>2 DEF Positions
<1>4. TypeOK'
  BY <1>1, <1>2, <1>3, Zenon DEF TypeOK
<1>5. NoWalk'
  BY <1>1, <1>2 DEF NoWalk
<1> QED
  BY <1>2, <1>4, <1>5

(* And after every step. *)
LEMMA NextServed ==
  ASSUME Served, [Next]_readVars
  PROVE  Served'
<1>1. CASE UNCHANGED readVars
  <2>1. /\ UNCHANGED <<environmentVars, stage, searchVars>>
        /\ UNCHANGED <<environmentVars, stage, methodVars>>
    BY <1>1 DEF readVars
  <2>2. UNCHANGED request /\ UNCHANGED stage
    BY <2>1 DEF environmentVars
  <2>3. request.method = "search.run" => IInv' /\ request'.limit \in Int
    BY <2>1, NextIInv DEF Served
  <2>4. request.method \in FileMethods => Reading'
    BY <2>1, NextReading DEF Served
  <2>5. UNCHANGED <<history, moves, tip, seen, cancelled, tips, eligible, commits, left,
                    batch, results, hasMore>>
    BY <2>1 DEF environmentVars, searchVars
  <2>6. TypeOK'
    BY <2>5 DEF Served, TypeOK, Positions
  <2>7. NoWalk' <=> NoWalk
    BY <2>2, <2>5 DEF NoWalk
  <2> QED
    BY <2>2, <2>3, <2>4, <2>6, <2>7 DEF Served
<1>2. CASE request.method = "search.run" /\ SearchNext /\ UNCHANGED methodVars
  <2>1. IInv' /\ request'.limit \in Int
    BY <1>2, NextIInv DEF Served
  <2>2. UNCHANGED request
    BY <1>2 DEF SearchNext, environmentVars, RefsMove, Cancel
  <2>3. TypeOK'
    BY <2>1 DEF IInv
  <2>4. request.method \notin FileMethods
    BY <1>2 DEF FileMethods
  <2> QED
    BY <1>2, <2>1, <2>2, <2>3, <2>4 DEF Served
<1>3. CASE request.method \in FileMethods /\ MethodsNext /\ UNCHANGED searchVars
  <2>1. request.method # "search.run"
    BY <1>3 DEF FileMethods
  <2>2. TypeOK' /\ NoWalk' /\ UNCHANGED request
    BY <1>3, <2>1, FileStep DEF Served
  <2>3. Reading'
    BY <1>3, NextReading DEF Served
  <2> QED
    BY <1>3, <2>1, <2>2, <2>3 DEF Served
<1> QED
  BY <1>1, <1>2, <1>3 DEF Next

(* What the three invariants need of it. *)
LEMMA ServedSuffices ==
  ASSUME Served
  PROVE  IInv /\ OneRevision /\ BlameIsWhole
<1>1. IInv
  <2>1. CASE request.method = "search.run"
    BY <2>1 DEF Served
  <2>2. CASE request.method # "search.run"
    <3>1. NoWalk /\ TypeOK
      BY <2>2 DEF Served
    <3>2. WalkInOrder
      BY <3>1 DEF NoWalk, WalkInOrder
    <3>3. stage \notin {"listing", "listing traversal", "walking"}
      BY <3>1 DEF NoWalk, FileStages, Ended
    <3>4. ResultsInOrder
      <4>1. results = << >> /\ ~hasMore
        BY <3>1 DEF NoWalk
      <4>2. DOMAIN results = {}
        BY <4>1
      <4> QED
        BY <3>3, <4>1, <4>2 DEF ResultsInOrder
    <3> QED
      BY <3>1, <3>2, <3>4 DEF IInv
  <2> QED
    BY <2>1, <2>2
<1>2. request.method \in FileMethods => OneRevision /\ BlameIsWhole
  BY ReadingSuffices DEF Served
<1>3. request.method \notin FileMethods => OneRevision /\ BlameIsWhole
  BY DEF OneRevision, BlameIsWhole, FileMethods
<1> QED
  BY <1>1, <1>2, <1>3

(* Whatever the request, the bookkeeping of the walk is in order. *)
THEOREM ReadsAreOrderly == Spec => []IInv
<1>1. Init => Served
  BY InitServed
<1>2. Served /\ [Next]_readVars => Served'
  BY NextServed
<1>3. Served => IInv
  BY ServedSuffices
<1> QED
  BY <1>1, <1>2, <1>3, PTL DEF Spec

(* Whatever the request, an answer about a revision is the answer for one
   commit that its name stood for, and a blame tells of the lines asked for. *)
THEOREM ReadsAnswerTheRequest == Spec => [](OneRevision /\ BlameIsWhole)
<1>1. Init => Served
  BY InitServed
<1>2. Served /\ [Next]_readVars => Served'
  BY NextServed
<1>3. Served => OneRevision /\ BlameIsWhole
  BY ServedSuffices
<1> QED
  BY <1>1, <1>2, <1>3, PTL DEF Spec

(* The same of the helper as a whole, whatever it is asked. *)
THEOREM ReadsDescribeDiffs == Spec => []RangesDescribe
<1>1. Init => Served
  BY InitServed
<1>2. Served /\ [Next]_readVars => Served'
  BY NextServed
<1>3. Served => RangesDescribe
  <2>1. request.method \in FileMethods /\ Served => RangesDescribe
    BY ReadingDescribes DEF Served
  <2>2. request.method \notin FileMethods => RangesDescribe
    BY DEF RangesDescribe, FileMethods
  <2> QED
    BY <2>1, <2>2
<1> QED
  BY <1>1, <1>2, <1>3, PTL DEF Spec

(* The helper's searches evaluate their expressions as they are written. *)
THEOREM ReadsEvaluateAsWritten == Spec => []EvaluatesAsWritten
<1> DEFINE Inv == Served /\ (request.method = "search.run" => Understood)
<1>1. Init => Inv
  BY InitServed, InitUnderstood DEF Init
<1>2. Inv /\ [Next]_readVars => Inv'
  <2> SUFFICES ASSUME Inv, [Next]_readVars PROVE Inv'
    OBVIOUS
  <2>1. Served'
    BY NextServed
  <2>2. CASE request.method = "search.run" /\ SearchNext
    <3>1. UNCHANGED request
      BY <2>2 DEF SearchNext, RefsMove, Cancel, environmentVars
    <3> QED
      BY <2>1, <2>2, <3>1, NextUnderstood
  <2>3. CASE request.method \in FileMethods /\ MethodsNext /\ UNCHANGED searchVars
    <3>1. request.method # "search.run"
      BY <2>3 DEF FileMethods
    <3>2. UNCHANGED request
      BY <2>3, <3>1, FileStep DEF Served
    <3> QED
      BY <2>1, <3>1, <3>2
  <2>4. CASE UNCHANGED readVars
    <3>1. UNCHANGED <<environmentVars, stage, searchVars>> /\ UNCHANGED request
      BY <2>4 DEF readVars, environmentVars
    <3> QED
      BY <2>1, <3>1, NextUnderstood
  <2> QED
    BY <2>2, <2>3, <2>4 DEF Next
<1>3. Inv => EvaluatesAsWritten
  <2>1. CASE request.method = "search.run"
    BY <2>1, UnderstoodSuffices
  <2>2. CASE request.method # "search.run"
    <3>1. Served => stage # "listing"
      BY <2>2 DEF Served, NoWalk, FileStages, Ended
    <3> QED
      BY <3>1 DEF EvaluatesAsWritten
  <2> QED
    BY <2>1, <2>2
<1> HIDE DEF Inv
<1> QED
  BY <1>1, <1>2, <1>3, PTL DEF Spec

(* The helper's searches tell of every commit in a page what they should, and
   leave out only what comes after a full page. *)
THEOREM ReadsAnswerExactly == Spec => []AnswerExact
<1> DEFINE Inv == Served /\ (request.method = "search.run" => Understood /\ Recorded /\ Telling)
<1>1. Init => Inv
  <2> SUFFICES ASSUME Init PROVE Inv
    OBVIOUS
  <2>1. HistoryInit /\ Served
    BY InitServed DEF Init
  <2>2. Telling
    BY <2>1 DEF HistoryInit, Telling
  <2> QED
    BY <2>1, <2>2, InitUnderstood, InitRecorded
<1>2. Inv /\ [Next]_readVars => Inv'
  <2> SUFFICES ASSUME Inv, [Next]_readVars PROVE Inv'
    OBVIOUS
  <2>1. Served'
    BY NextServed
  <2>2. ASSUME request.method = "search.run", [SearchNext]_<<environmentVars, stage, searchVars>>
        PROVE  Understood' /\ Recorded' /\ Telling'
    <3>1. IInv /\ Understood /\ Recorded /\ Telling
      BY <2>2 DEF Served
    <3> QED
      BY <2>2, <3>1, NextUnderstood, NextTelling
  <2>3. CASE request.method = "search.run" /\ SearchNext
    BY <2>1, <2>2, <2>3
  <2>4. CASE request.method \in FileMethods /\ MethodsNext /\ UNCHANGED searchVars
    <3>1. request.method # "search.run"
      BY <2>4 DEF FileMethods
    <3>2. UNCHANGED request
      BY <2>4, <3>1, FileStep DEF Served
    <3> QED
      BY <2>1, <3>1, <3>2
  <2>5. CASE UNCHANGED readVars
    <3>1. UNCHANGED <<environmentVars, stage, searchVars>> /\ UNCHANGED request
      BY <2>5 DEF readVars, environmentVars
    <3> QED
      BY <2>1, <2>2, <3>1
  <2> QED
    BY <2>3, <2>4, <2>5 DEF Next
<1>3. Inv => AnswerExact
  <2> SUFFICES ASSUME Inv PROVE AnswerExact
    OBVIOUS
  <2>1. CASE request.method = "search.run"
    BY <2>1, TellingSuffices DEF Served
  <2>2. CASE request.method # "search.run"
    BY <2>2 DEF Served, NoWalk, AnswerExact
  <2> QED
    BY <2>1, <2>2
<1> HIDE DEF Inv
<1> QED
  BY <1>1, <1>2, <1>3, PTL DEF Spec
=============================================================================
