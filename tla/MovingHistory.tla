---------------------------- MODULE MovingHistory ----------------------------
(***************************************************************************)
(* The repository a request of the helper reads with one Git process after *)
(* another, while the user commits, resets and switches branches.          *)
(*                                                                         *)
(* Commits never change: history[p] is the p-th newest of them, and its    *)
(* first parent is history[p + 1].  What changes is the commit the name of *)
(* a request, HEAD or a branch, stands for: tip.                           *)
(***************************************************************************)
EXTENDS Integers, Sequences, SequencesExt

CONSTANTS
  Cases,      \* what is asked of which history: a set of [history, request]
  MaxMoves    \* bound: how often the name moves during a request

ASSUME CasesAssumption == \A c \in Cases : c.history \in Seq(ToSet(c.history))
ASSUME MaxMovesAssumption == MaxMoves \in Nat

VARIABLES
  history,    \* the commits, newest first
  request,    \* the request that is served
  tip,        \* the commit its name stands for
  seen,       \* the commits the name has stood for during the request
  moves,      \* how often it moved
  cancelled,  \* the context of the request
  stage       \* where its handler stands

environmentVars == <<history, request, tip, seen, moves, cancelled>>

Positions == DOMAIN history
Ended == {"refused", "error", "cancelled", "answered"}

HistoryInit ==
  /\ \E c \in Cases : history = c.history /\ request = c.request
  /\ tip \in Positions
  /\ seen = {tip}
  /\ moves = 0
  /\ cancelled = FALSE
  /\ stage = "opening"

\* A commit, a reset, an amend or a rebase, by anybody.
RefsMove ==
  /\ stage \notin Ended
  /\ moves < MaxMoves
  /\ moves' = moves + 1
  /\ \E p \in Positions \ {tip} : tip' = p /\ seen' = seen \cup {p}
  /\ UNCHANGED <<history, request, cancelled, stage>>

\* $/cancelRequest, or the end of the server.
Cancel ==
  /\ stage \notin Ended
  /\ ~cancelled
  /\ cancelled' = TRUE
  /\ UNCHANGED <<history, request, tip, seen, moves, stage>>

-----------------------------------------------------------------------------
(* What Git tells of a commit.  A change carries the script that turns the *)
(* old text of its file into the new one (DiffRanges).                      *)

IsRename(change) == change.status = "R"
Names(change) == {change.path} \cup IF IsRename(change) THEN {change.old} ELSE {}

\* git diff-tree --stdin shows nothing of a merge, unless it is told a parent.
FilesOf(commit) == IF commit.merge THEN << >> ELSE commit.changes
=============================================================================
