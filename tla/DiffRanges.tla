------------------------------ MODULE DiffRanges ------------------------------
(***************************************************************************)
(* What the editor decorates of a file's diff: parseUnifiedRanges of       *)
(* internal/vscodehelper/search_diff.go, from the lines of git's unified   *)
(* diff to ranges of added lines and anchors of deleted ones.              *)
(*                                                                         *)
(* A script turns the old text of a file into the new one, a line each:    *)
(* kept " ", added "+" or deleted "-".  A line of a diff has one of these  *)
(* marks, or is the header "@@" of a hunk that begins at a target line;    *)
(* what else Git writes is before the first header.                        *)
(***************************************************************************)
EXTENDS Integers, Sequences, SequencesExt

KeepApart(ranges, first, last) ==   \* mutant: ranges that touch are not joined
  IF first < 1 \/ last < first THEN ranges ELSE Append(ranges, <<first, last>>)

\* appendRange: joined to the last range if it overlaps or touches it.
appendRange(ranges, first, last) ==
  IF first < 1 \/ last < first THEN ranges
  ELSE IF ranges # << >> /\ first <= Last(ranges)[2] + 1
  THEN IF last > Last(ranges)[2] THEN Append(Front(ranges), <<Last(ranges)[1], last>>) ELSE ranges
  ELSE Append(ranges, <<first, last>>)

\* An anchor is a line of the target, or 1 if it has none.
Anchor(line, count) ==
  IF count <= 0 \/ line < 1 THEN 1 ELSE IF line > count THEN count ELSE line

FlushAddition(s) ==
  IF s.addStart = 0 THEN s
  ELSE [s EXCEPT !.ranges = appendRange(@, s.addStart, s.newLine - 1), !.addStart = 0]

FlushDeletion(s, count) ==
  LET anchor == Anchor(s.newLine, count) IN
  IF ~s.deletion THEN s
  ELSE [s EXCEPT !.anchors = IF @ # << >> /\ Last(@) = anchor THEN @ ELSE Append(@, anchor),
                 !.deletion = FALSE]

Flush(s, count) == FlushDeletion(FlushAddition(s), count)

\* One line of a hunk, or its header.  The code passes over an empty line, which is no
\* line of a diff but what follows its last newline, and ends the hunk at any other.
ReadLine(s, line, count) ==
  CASE line.mark = "@@" -> [Flush(s, count) EXCEPT !.newLine = line.start]
    [] line.mark = " " -> [Flush(s, count) EXCEPT !.newLine = @ + 1]
    [] line.mark = "-" -> [FlushAddition(s) EXCEPT !.deletion = TRUE]
    [] line.mark = "+" -> [FlushDeletion(s, count) EXCEPT !.addStart = IF @ = 0 THEN s.newLine ELSE @,
                                                          !.newLine = @ + 1]

parseUnifiedRanges(diff, count) ==
  LET start == [ranges |-> << >>, anchors |-> << >>, newLine |-> 0, addStart |-> 0, deletion |-> FALSE]
      after[i \in 0..Len(diff)] == IF i = 0 THEN start ELSE ReadLine(after[i - 1], diff[i], count)
      end == Flush(after[Len(diff)], count)
  IN [ranges |-> end.ranges, anchors |-> end.anchors]

-----------------------------------------------------------------------------
(* Git: the unified diff of a script, with lines of context.                *)

\* The line of the target a line of the script is, or comes before.
TargetLine(script, i) == 1 + Cardinality({j \in 1..i - 1 : script[j].mark # "-"})
LineCount(script) == Cardinality({i \in DOMAIN script : script[i].mark # "-"})

\* The lines in hunks: what is changed, and its context.
Shown(script, context) ==
  {i \in DOMAIN script :
     \E j \in DOMAIN script : script[j].mark # " " /\ i \in j - context..j + context}

\* The line of the target a hunk begins at, or before it if the hunk has none.
HunkStart(script, context, i) ==
  LET hunk == {j \in Shown(script, context) : j >= i /\ i..j \subseteq Shown(script, context)}
  IN TargetLine(script, i) - IF \A j \in hunk : script[j].mark = "-" THEN 1 ELSE 0

UnifiedDiff(script, context) ==
  LET shown == Shown(script, context)
      Header(i) == [mark |-> "@@", start |-> HunkStart(script, context, i)]
      Line(i) == [mark |-> script[i].mark, start |-> 0]
      diff[i \in 0..Len(script)] ==
        IF i = 0 THEN << >>
        ELSE IF i \notin shown THEN diff[i - 1]
        ELSE IF i - 1 \in shown THEN Append(diff[i - 1], Line(i))
        ELSE diff[i - 1] \o <<Header(i), Line(i)>>
  IN diff[Len(script)]

-----------------------------------------------------------------------------
(* What the ranges mean, from the script alone.                             *)

Added(script) == {TargetLine(script, i) : i \in {j \in DOMAIN script : script[j].mark = "+"}}
Deleted(script) == {Max({1, Min({TargetLine(script, i), LineCount(script)})}) :
                      i \in {j \in DOMAIN script : script[j].mark = "-"}}

\* Exactly the added lines, in as few ranges as possible, and every place where
\* lines are gone, each from the top to the bottom and without repetition.
Describes(parsed, script) ==
  /\ UNION {r[1]..r[2] : r \in ToSet(parsed.ranges)} = Added(script)
  /\ \A k \in DOMAIN parsed.ranges : parsed.ranges[k][1] <= parsed.ranges[k][2]
  /\ \A k \in 2..Len(parsed.ranges) : parsed.ranges[k][1] > parsed.ranges[k - 1][2] + 1
  /\ ToSet(parsed.anchors) = Deleted(script)
  /\ \A k \in 2..Len(parsed.anchors) : parsed.anchors[k] > parsed.anchors[k - 1]
=============================================================================
