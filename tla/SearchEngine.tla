---------------------------- MODULE SearchEngine ----------------------------
(***************************************************************************)
(* A search: internal/app/search.go SearchWithProgress, which both shells  *)
(* call, here under the helper's searchRun (vscodehelper/search_diff.go).  *)
(*                                                                         *)
(* One git log lists the commits; with rename following and an author, a   *)
(* date or both, a second one lists those to walk through, because renames *)
(* must be followed across commits the filter excludes.  The changed files *)
(* are then read in batches, and every commit is visited from the newest   *)
(* to the oldest.  A pattern is a word: it matches a message or a diff     *)
(* that has the word, and the path it is equal to.                         *)
(***************************************************************************)
EXTENDS MovingHistory, SearchExpression, FiniteSets

CONSTANTS
  AnyAuthor,      \* no author, since or until
  MaxPatterns,    \* maxSearchPatterns, 64
  DefaultLimit,   \* defaultSearchLimit, 100
  MaxLimit,       \* maxSearchLimit, 250
  BatchSize       \* searchCommitBatchSize, 500

ASSUME SearchAssumption ==
  /\ \A c \in Cases : c.request.method = "search.run" =>
       /\ c.request.limit \in Int
       /\ c.request.predicates \in Seq(ToSet(c.request.predicates))
  /\ MaxPatterns \in Nat
  /\ DefaultLimit \in Nat \ {0}
  /\ MaxLimit \in Nat \ {0}
  /\ DefaultLimit <= MaxLimit
  /\ BatchSize \in Nat \ {0}

VARIABLES
  eligible,   \* the commits the filter admits
  commits,    \* the commits to walk through
  tips,       \* what the name stood for at each git log
  left,       \* commits whose changed files are not read yet
  batch,      \* commits read and not visited
  tracked,    \* [predicates -> the paths its files had before they were renamed]
  results,    \* the answer so far
  hasMore     \* there is a match it leaves out

searchVars == <<eligible, commits, tips, left, batch, tracked, results, hasMore>>

predicates == Normalized(request.predicates)

Uses(sources) == \E i \in DOMAIN predicates : predicates[i].Source \in sources

\* Zero is the default, and the rest is clamped.
Limit == IF request.limit = 0 THEN DefaultLimit
         ELSE IF request.limit > MaxLimit THEN MaxLimit ELSE request.limit

\* searchRun, validateSearchOptions and compileSearchPredicates.
Valid ==
  /\ Len(request.predicates) \in 1..MaxPatterns
  /\ request.limit >= 0
  /\ \A i \in DOMAIN request.predicates : request.predicates[i].Value # ""
  /\ request.follow => Uses({"file"})
  /\ Accepted(predicates)

SearchInit ==
  /\ eligible = {} /\ commits = {}
  /\ tips = << >>
  /\ left = {} /\ batch = {}
  /\ tracked = << >>
  /\ results = << >>
  /\ hasMore = FALSE

-----------------------------------------------------------------------------
(* One commit.                                                              *)

\* changedLines: the text of the added and of the deleted lines.
ChangedLines(change) ==
  {change.script[i].text : i \in {j \in DOMAIN change.script : change.script[j].mark # " "}}

\* Of the names of a file the pattern's own, or one a newer commit renamed.
Follows(i, change, paths) == ({predicates[i].Value} \cup paths) \cap Names(change) # {}

\* matchFileChange, what it answers and what it tracks.
FileHit(i, change, paths) ==
  IF request.follow THEN Follows(i, change, paths) ELSE predicates[i].Value = change.path

TrackOnce(i, change, paths) ==   \* mutant: a rename is followed from the pattern's own name only
  paths \cup (IF IsRename(change) /\ predicates[i].Value \in Names(change) THEN {change.old} ELSE {})

Track(i, change, paths) ==
  IF ~request.follow \/ predicates[i].Source # "file" THEN paths
  ELSE paths \cup ({predicates[i].Value} \cap {change.path})
             \cup (IF IsRename(change) /\ Follows(i, change, paths) THEN {change.old} ELSE {})

MessageHits(c) ==
  [i \in DOMAIN predicates |->
     predicates[i].Source = "msg" /\ predicates[i].Value \in history[c].text]

Hits(c, change, paths) ==
  [i \in DOMAIN predicates |->
     CASE predicates[i].Source = "msg" -> MessageHits(c)[i]
       [] predicates[i].Source = "file" -> FileHit(i, change, paths[i])
       [] predicates[i].Source = "diff" -> predicates[i].Value \in ChangedLines(change)]

MatchSources(hits) == {predicates[i].Source : i \in {j \in DOMAIN hits : hits[j]}}

\* One more change of a commit: what is tracked and found of it so far.
ScanChange(found, c, change) ==
  LET hits == Hits(c, change, found.tracked)
      own == MatchSources(hits) \ {"msg"}
      match == evaluateSearchExpression(predicates, hits)
  IN [tracked |-> [i \in DOMAIN predicates |-> Track(i, change, found.tracked[i])],
      matched |-> found.matched \/ match,
      sources |-> found.sources \cup (IF match THEN MatchSources(hits) ELSE {}),
      files |-> IF match /\ own # {}
                THEN Append(found.files, [path |-> change.path, sources |-> own])
                ELSE found.files]

\* The message of a commit.
ScanMessage(c) ==
  LET match == evaluateSearchExpression(predicates, MessageHits(c))
  IN [tracked |-> tracked, matched |-> match, files |-> << >>,
      sources |-> IF match THEN MatchSources(MessageHits(c)) ELSE {}]

\* The message of a commit and, if a pattern looks at them, its changes.
Scan(c) ==
  LET files == FilesOf(history[c])
      found[k \in 0..Len(files)] ==
        IF k = 0 THEN ScanMessage(c) ELSE ScanChange(found[k - 1], c, files[k])
  IN found[IF Uses({"file", "diff"}) THEN Len(files) ELSE 0]

-----------------------------------------------------------------------------
(* The steps of a search.  Each but the first and the last runs Git.        *)

Listing(author) ==
  {p \in Positions : p >= tip /\ author \in {AnyAuthor, history[p].author}}

Newest(set) == CHOOSE p \in set : \A q \in set : p <= q

OldestFirst ==   \* mutant: the batches come from the other end
  {p \in left : Cardinality({q \in left : q > p}) < BatchSize}

NextBatch == {p \in left : Cardinality({q \in left : q < p}) < BatchSize}

Begin ==
  /\ stage = "opening"
  /\ stage' = IF Valid THEN "listing" ELSE "refused"
  /\ tracked' = [i \in DOMAIN request.predicates |-> {}]
  /\ UNCHANGED <<eligible, commits, tips, left, batch, results, hasMore>>

List ==
  /\ stage = "listing"
  /\ ~cancelled
  /\ eligible' = Listing(request.author)
  /\ commits' = eligible'
  /\ left' = commits'
  /\ tips' = <<tip>>
  /\ stage' = IF request.follow /\ request.author # AnyAuthor THEN "listing traversal" ELSE "walking"
  /\ UNCHANGED <<batch, tracked, results, hasMore>>

ListTraversal ==
  /\ stage = "listing traversal"
  /\ ~cancelled
  /\ commits' = Listing(AnyAuthor)
  /\ left' = commits'
  /\ tips' = Append(tips, tip)
  /\ stage' = "walking"
  /\ UNCHANGED <<eligible, batch, tracked, results, hasMore>>

ReadBatch ==
  /\ stage = "walking"
  /\ ~cancelled
  /\ batch = {}
  /\ left # {}
  /\ batch' = NextBatch
  /\ left' = left \ NextBatch
  /\ UNCHANGED <<stage, eligible, commits, tips, tracked, results, hasMore>>

Result(c, found) == [commit |-> c, sources |-> found.sources, files |-> found.files]

\* A commit the filter excludes is scanned for its renames only.
Visit ==
  LET c == Newest(batch)
      found == Scan(c)
      matched == c \in eligible /\ found.matched
  IN /\ stage = "walking"
     /\ ~cancelled
     /\ batch # {}
     /\ batch' = batch \ {c}
     /\ tracked' = found.tracked
     /\ IF matched /\ Len(results) >= Limit
          THEN hasMore' = TRUE /\ stage' = "found" /\ UNCHANGED results
          ELSE /\ results' = IF matched THEN Append(results, Result(c, found)) ELSE results
               /\ UNCHANGED <<hasMore, stage>>
     /\ UNCHANGED <<eligible, commits, tips, left>>

Finish ==
  /\ stage = "walking"
  /\ batch = {}
  /\ left = {}
  /\ stage' = "found"
  /\ UNCHANGED <<eligible, commits, tips, left, batch, tracked, results, hasMore>>

\* A visit asks Git for the diffs of an eligible commit if a pattern needs them.
ReadsDiff(c) == c \in eligible /\ FilesOf(history[c]) # << >> /\ Uses({"diff"})

\* A Git process fails, or ends with the context.
Fail ==
  /\ \/ stage \in {"listing", "listing traversal"}
     \/ stage = "walking" /\ batch = {} /\ left # {}
     \/ stage = "walking" /\ batch # {} /\ (cancelled \/ ReadsDiff(Newest(batch)))
  /\ stage' = IF cancelled THEN "cancelled" ELSE "error"
  /\ UNCHANGED <<eligible, commits, tips, left, batch, tracked, results, hasMore>>

\* searchRun looks at the context once more.
Deliver ==
  /\ stage = "found"
  /\ stage' = IF cancelled THEN "cancelled" ELSE "answered"
  /\ UNCHANGED <<eligible, commits, tips, left, batch, tracked, results, hasMore>>

SearchStep == Begin \/ List \/ ListTraversal \/ ReadBatch \/ Visit \/ Finish \/ Fail \/ Deliver

SearchNext ==
  \/ SearchStep /\ UNCHANGED environmentVars
  \/ (RefsMove \/ Cancel) /\ UNCHANGED searchVars

SearchSpec ==
  HistoryInit /\ request.method = "search.run" /\ SearchInit
    /\ [][SearchNext]_<<environmentVars, stage, searchVars>>

-----------------------------------------------------------------------------
(* Properties.                                                              *)

TypeOK ==
  /\ moves \in 0..MaxMoves
  /\ tip \in Positions
  /\ seen \subseteq Positions
  /\ cancelled \in BOOLEAN
  /\ eligible \subseteq Positions
  /\ commits \subseteq Positions
  /\ left \subseteq commits
  /\ batch \subseteq commits
  /\ hasMore \in BOOLEAN
  /\ history \in Seq(ToSet(history))
  /\ results \in Seq(ToSet(results))

\* Nothing is visited before the listing is complete.  Then every commit is
\* waiting to be read, waiting to be visited or visited, and they go in order.
WalkInOrder ==
  /\ stage \in {"opening", "listing", "listing traversal"} => batch = {} /\ results = << >>
  /\ \A p \in batch, q \in left : p < q
  /\ \A p \in batch \cup left, q \in commits \ (batch \cup left) : q < p

\* The results are different commits that the filter admits, from the newest
\* to the oldest, none still to be visited and never more than asked for; more
\* is promised only when the page is full, and no page is without a place.
ResultsInOrder ==
  /\ stage \in {"listing", "listing traversal", "walking"} => request.limit >= 0
  /\ \A k \in DOMAIN results : k <= Limit
  /\ \A j, k \in DOMAIN results : j < k => results[j].commit < results[k].commit
  /\ \A k \in DOMAIN results : results[k].commit \in (commits \cap eligible) \ (batch \cup left)
  /\ hasMore => Len(results) = Limit /\ stage \in {"found"} \cup Ended

IInv == TypeOK /\ WalkInOrder /\ ResultsInOrder

\* What a search means, without a walk, a stack, batches or tracked paths.
\* A file pattern with rename following stands for a path and, from a rename
\* of a file it stands for, for the name that file had before.
Walked == {p \in Positions : p >= tips[Len(tips)]}
Changes == UNION {{p} \X DOMAIN FilesOf(history[p]) : p \in Walked}
ChangeAt(n) == FilesOf(history[n[1]])[n[2]]
After(m, n) == m[1] < n[1] \/ (m[1] = n[1] /\ m[2] < n[2])

InLineage(value) ==
  LET hit[n \in Changes] ==
        \/ value \in Names(ChangeAt(n))
        \/ \E m \in Changes : /\ After(m, n)
                              /\ IsRename(ChangeAt(m))
                              /\ ChangeAt(m).old \in Names(ChangeAt(n))
                              /\ hit[m]
  IN hit

\* Whether a pattern matches the k-th change of a commit, or the commit alone.
Matches(p, c, k) ==
  \/ p.Source = "msg" /\ p.Value \in history[c].text
  \/ p.Source = "diff" /\ k # 0 /\ p.Value \in ChangedLines(FilesOf(history[c])[k])
  \/ /\ p.Source = "file" /\ k # 0
     /\ IF request.follow THEN InLineage(p.Value)[<<c, k>>]
                          ELSE p.Value = FilesOf(history[c])[k].path

\* The sources that match at a change of a commit, or at the commit alone.
MatchesAt(c, k) ==
  LET hits == [i \in DOMAIN predicates |-> Matches(predicates[i], c, k)]
  IN IF Meaning(predicates, hits) THEN MatchSources(hits) ELSE {}

\* What a search should tell of a commit: the sources that match anywhere in it,
\* and in the order of the commit the files that match by more than its message.
ExpectedSources(c) == UNION {MatchesAt(c, k) : k \in 0..Len(FilesOf(history[c]))}

ExpectedFiles(c) == {k \in DOMAIN FilesOf(history[c]) : MatchesAt(c, k) \ {"msg"} # {}}

Tells(result) ==
  LET c == result.commit IN
  /\ result.sources = ExpectedSources(c)
  /\ \E place \in [DOMAIN result.files -> ExpectedFiles(c)] :
       /\ \A k \in ExpectedFiles(c) : \E j \in DOMAIN result.files : place[j] = k
       /\ \A j, k \in DOMAIN result.files : j < k => place[j] < place[k]
       /\ \A j \in DOMAIN result.files :
            result.files[j] = [path |-> FilesOf(history[c])[place[j]].path,
                               sources |-> MatchesAt(c, place[j]) \ {"msg"}]

\* The commits that the two listings admit.
Admitted == {p \in Positions : /\ \A k \in DOMAIN tips : p >= tips[k]
                               /\ request.author \in {AnyAuthor, history[p].author}}

\* An answer tells of every commit in it what it should, leaves out only commits
\* that do not match or come after a full page, and says there are more exactly
\* when there are: whatever the batches, the renames and the moves of the name
\* while it is computed, it is the answer for the commits of the listings.
AnswerExact ==
  LET others == Admitted \ {results[k].commit : k \in DOMAIN results}
      matching == {c \in others : ExpectedSources(c) # {}}
  IN stage = "answered" /\ tips # << >> =>
       /\ \A k \in DOMAIN results : Tells(results[k])
       /\ \A k \in DOMAIN results : results[k].sources # {} /\ results[k].commit \in Admitted
       /\ \A c \in matching, k \in DOMAIN results : results[k].commit < c
       /\ hasMore = (matching # {})

\* The stack machine computes what the expression means for every outcome of
\* its patterns: "and" before "or", parentheses first, and equals from the left.
EvaluatesAsWritten ==
  stage = "listing" =>
    \A hits \in [DOMAIN predicates -> BOOLEAN] :
      evaluateSearchExpression(predicates, hits) = Meaning(predicates, hits)
=============================================================================
