---------------------------- MODULE MCHelperReads ----------------------------
(* HelperReads with all histories of three commits of a few kinds under     *)
(* searches that use every source, join, filter and limit, all expressions  *)
(* of four patterns, and requests about a file that is edited, renamed,     *)
(* deleted and merged, with every script of a few lines for the ranges.     *)
EXTENDS HelperReads

\* Commits and changes.
Script(marks) == [i \in DOMAIN marks |-> [mark |-> marks[i], text |-> "w"]]
Change(status, path, old, marks) ==
  [status |-> status, path |-> path, old |-> old, script |-> Script(marks)]
Edit(path) == Change("M", path, "", <<"-", "+">>)
Keep(path) == Change("M", path, "", <<" ">>)
Move(old, path) == Change("R", path, old, <<" ">>)
Commit(author, text, changes) ==
  [author |-> author, text |-> text, changes |-> changes, merge |-> FALSE]
Merge(changes) == [Commit("a", {}, changes) EXCEPT !.merge = TRUE]

\* Searches.
P(source, value, join, open, close) ==
  [Source |-> source, Value |-> value, Join |-> join, OpenGroups |-> open, CloseGroups |-> close]
Msg(join) == P("msg", "w", join, 0, 0)
Diff(join) == P("diff", "w", join, 0, 0)
File(path, join) == P("file", path, join, 0, 0)
Search(ps, follow, author, limit) ==
  [method |-> "search.run", predicates |-> ps, follow |-> follow, author |-> author, limit |-> limit]

Kinds == {
  Commit("a", {"w"}, << >>), Merge(<<Edit("x")>>),
  Commit("b", {"w"}, <<Edit("z"), Keep("x")>>),
  Commit("b", {}, <<Move("y", "x")>>),
  Commit("a", {"w"}, <<Keep("x"), Move("z", "y")>>)}

Queries == {
  Search(<<Msg("")>>, FALSE, AnyAuthor, 1),
  Search(<<Msg("")>>, FALSE, "b", 0),
  Search(<<File("x", "")>>, TRUE, AnyAuthor, 1),
  Search(<<File("x", "")>>, TRUE, "b", 9),
  Search(<<File("x", "and"), Diff("and")>>, TRUE, "a", 1),
  Search(<<Msg(""), File("y", ""), Diff("and")>>, TRUE, "b", 2),
  Search(<<P("file", "x", "", 1, 0), P("msg", "w", "", 0, 1), Diff("and")>>, FALSE, AnyAuthor, 0),
  Search(<<Diff("")>>, TRUE, AnyAuthor, 0),
  Search(<< >>, FALSE, AnyAuthor, 0)}

Shapes ==
  {Search([i \in 1..4 |-> P("msg", "w", j[i], o[i], c[i])], FALSE, AnyAuthor, 1) :
     j \in {j \in [1..4 -> Joins] : j[1] = "or"}, o \in [1..4 -> 0..1], c \in [1..4 -> 0..1]}
Plausible(search) ==
  /\ \A i \in 1..4 : search.predicates[i].OpenGroups * search.predicates[i].CloseGroups = 0
  /\ \A i \in 1..3 : Depth(search.predicates, i) >= 0
  /\ Depth(search.predicates, 4) \in {0, 1}

\* Requests about a file.
BlameOf(revision, last, contents) ==
  [method |-> "blame.lines", path |-> "x", revision |-> revision, first |-> 1, last |-> last,
   contents |-> contents]
History(revision, limit) ==
  [method |-> "history.file", path |-> "x", revision |-> revision, limit |-> limit]
DiffFile(revision, context) ==
  [method |-> "diff.file", path |-> "x", old |-> "", revision |-> revision, context |-> context]
Content(revision) == [method |-> "revision.content", path |-> "x", revision |-> revision]

FileHistories == [1..3 -> {
  Commit("a", {}, <<Edit("x")>>), Commit("a", {}, <<Move("y", "x")>>),
  Commit("a", {}, <<Edit("y"), Change("M", "x", "", <<" ", " ", "-">>)>>),
  Commit("a", {}, <<Change("D", "x", "", <<"-">>)>>)}]
FileRequests ==
  {BlameOf(r, l, c) : r \in {NoRevision, Name}, l \in 0..2, c \in {NoContents, 1}}
    \cup {BlameOf(1, 1, NoContents), BlameOf(NoRevision, 3, 3), Content(Name), Content(2)}
    \cup {History(Name, 0), History(NoRevision, 1), Content(NoRevision)} \cup {DiffFile(Name, 0), DiffFile(1, 9)}
Scripts == UNION {[1..n -> {" ", "+", "-"}] : n \in 1..5}

MCCases ==
  [history : [1..3 -> Kinds], request : Queries]
    \cup [history : {<<Commit("a", {}, << >>)>>}, request : {s \in Shapes : Plausible(s)}]
    \cup [history : FileHistories, request : FileRequests]
    \cup [history : {<<Commit("a", {}, <<Change("M", "x", "", s)>>)>> : s \in Scripts},
          request : {DiffFile(1, 0), DiffFile(1, 2)}]
=============================================================================
