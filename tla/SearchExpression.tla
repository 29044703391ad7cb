--------------------------- MODULE SearchExpression ---------------------------
(***************************************************************************)
(* The Boolean expression of a search: internal/app/search.go,             *)
(* normalizedSearchPredicates and evaluateSearchExpression.                *)
(*                                                                         *)
(* An expression is a sequence of predicates.  Each is joined to the one   *)
(* before it and carries the parentheses that open before it and close     *)
(* after it; hits[i] says whether the i-th one matches.                    *)
(***************************************************************************)
EXTENDS Integers, Sequences, SequencesExt

CONSTANT MaxGroups   \* parentheses on one side of a predicate, 8 in the code

ASSUME MaxGroupsAssumption == MaxGroups \in Nat

Sources == {"msg", "diff", "file"}
Joins == {"and", "or"}

\* The groups that are open after the first n predicates.
Depth(predicates, n) ==
  LET open[k \in 0..Len(predicates)] ==
        IF k = 0 THEN 0 ELSE open[k - 1] + predicates[k].OpenGroups - predicates[k].CloseGroups
  IN open[n]

\* The first predicate has no join, a missing one is "or".
Normalized(predicates) ==
  [i \in DOMAIN predicates |->
     [predicates[i] EXCEPT !.Join = CASE i = 1 -> "" [] i > 1 /\ @ = "" -> "or" [] OTHER -> @]]

\* What is not refused of it, normalized.
Accepted(predicates) ==
  /\ \A i \in DOMAIN predicates : /\ predicates[i].Source \in Sources
                                  /\ i > 1 => predicates[i].Join \in Joins
                                  /\ predicates[i].OpenGroups \in 0..MaxGroups
                                  /\ predicates[i].CloseGroups \in 0..MaxGroups
                                  /\ Depth(predicates, i) >= 0
  /\ Depth(predicates, Len(predicates)) = 0

-----------------------------------------------------------------------------
(* evaluateSearchExpression: a stack of values and one of operators.       *)

Empty == [values |-> << >>, operators |-> << >>, ok |-> TRUE]

Apply(s) ==
  LET n == Len(s.values)
      left == s.values[n - 1]
      right == s.values[n]
  IN [s EXCEPT !.values = Append(SubSeq(@, 1, n - 2),
                            IF Last(s.operators) = "and" THEN left /\ right ELSE left \/ right),
               !.operators = Front(@)]

\* apply() until n operators are left.
ApplyDownTo(s, n) ==
  LET down[k \in n..Len(s.operators)] ==
        IF k = Len(s.operators) THEN s ELSE Apply(down[k + 1])
  IN down[n]

FlatPrecedence(operator) == 1   \* mutant: "and" binds no tighter than "or"

Precedence(operator) == IF operator = "and" THEN 2 ELSE 1

\* The operators above the last "(" that bind at least as tightly go first.
PushJoin(s, join) ==
  LET kept == SelectLastInSeq(s.operators,
                LAMBDA o : o = "(" \/ Precedence(o) < Precedence(join))
  IN [ApplyDownTo(s, kept) EXCEPT !.operators = Append(@, join)]

PushValue(s, opens, hit) ==
  [s EXCEPT !.operators = @ \o [i \in 1..opens |-> "("], !.values = Append(@, hit)]

Innermost(s) == SelectLastInSeq(s.operators, LAMBDA o : o = "(")

CloseGroup(s) ==
  IF s.ok /\ Innermost(s) > 0
  THEN [ApplyDownTo(s, Innermost(s)) EXCEPT !.operators = Front(@)]
  ELSE [s EXCEPT !.ok = FALSE]

CloseGroups(s, n) ==
  LET closed[k \in 0..n] == IF k = 0 THEN s ELSE CloseGroup(closed[k - 1]) IN closed[n]

ReadPredicate(s, predicates, hits, i) ==
  LET p == predicates[i]
      joined == IF i = 1 THEN s ELSE PushJoin(s, p.Join)
  IN CloseGroups(PushValue(joined, p.OpenGroups, hits[i]), p.CloseGroups)

evaluateSearchExpression(predicates, hits) ==
  LET after[i \in 0..Len(predicates)] ==
        IF i = 0 THEN Empty ELSE ReadPredicate(after[i - 1], predicates, hits, i)
      end == after[Len(predicates)]
  IN /\ end.ok
     /\ Innermost(end) = 0
     /\ ApplyDownTo(end, 0).values = <<TRUE>>

-----------------------------------------------------------------------------
(* What an expression means, without stacks: of the joins under the fewest *)
(* parentheses any "or" splits it, and any "and" if there is no "or".      *)

Split(predicates, lo, hi) ==
  LET tops == {i \in lo + 1..hi : \A j \in lo + 1..hi :
                 Depth(predicates, i - 1) <= Depth(predicates, j - 1)}   \* at the join before i
      ors == {i \in tops : predicates[i].Join = "or"}
  IN CHOOSE i \in IF ors # {} THEN ors ELSE tops : TRUE

\* The meaning of every part, from one predicate to another.
Meanings(predicates, hits) ==
  LET n == Len(predicates)
      value[r \in {r \in (1..n) \X (1..n) : r[1] <= r[2]}] ==
        LET split == Split(predicates, r[1], r[2])
            left == value[<<r[1], split - 1>>]
            right == value[<<split, r[2]>>]
        IN IF r[1] = r[2] THEN hits[r[1]]
           ELSE IF predicates[split].Join = "or" THEN left \/ right ELSE left /\ right
  IN value

Meaning(predicates, hits) == Meanings(predicates, hits)[<<1, Len(predicates)>>]
=============================================================================
