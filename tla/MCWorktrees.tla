---------------------------- MODULE MCWorktrees ----------------------------
EXTENDS Worktrees

\* 1 is the root, 2 a commit on it, 3 contains 2, 4 is on 1 and in nothing else.
MCAncestors == [c \in 1..4 |-> CASE c = 1 -> {1} [] c = 2 -> {1, 2}
                                 [] c = 3 -> {1, 2, 3} [] c = 4 -> {1, 4}]
MCInside == {<<"a/b", "a">>}
MCTips == [b \in {"dev", "f", "g"} |-> IF b = "dev" THEN 3 ELSE 2]
MCHeld == [p \in {"main", "a", "a/b", "c"} |->
             CASE p = "main" -> "dev" [] p = "a" -> "f" [] p = "c" -> "g" [] p = "a/b" -> "none"]
=============================================================================
