------------------------------- MODULE MCRefCache -------------------------------
(* Instances of RefCache.  History looks a scope up and then a page;          *)
(* HistoryBranches two commits at once; CommitDetail one commit.              *)
EXTENDS RefCache, TLC

CONSTANTS r1, r2, R1, R2, s1, s2, k1, k2

History(page)   == <<[space |-> "history-scope", keys |-> {k1}], [space |-> "history", keys |-> {page}]>>
HistoryBranches == <<[space |-> "branches", keys |-> {k1, k2}]>>
CommitDetail    == <<[space |-> "detail", keys |-> {k1}]>>

RefReads    == {History(k1), HistoryBranches}
DetailReads == {CommitDetail}
Symmetry == Permutations({r1, r2}) \cup Permutations({s1, s2})

One == [n \in Namespaces |-> 1]
Moves == R1 :> 2 @@ R2 :> 1
================================================================================
