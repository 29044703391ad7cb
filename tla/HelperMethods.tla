---------------------------- MODULE HelperMethods ----------------------------
(***************************************************************************)
(* The helper's requests about one file: internal/vscodehelper,            *)
(* blame.lines, history.file and revision.content (methods.go) and         *)
(* diff.file (search_diff.go).                                             *)
(*                                                                         *)
(* Each is a sequence of Git processes.  The first one resolves the name   *)
(* of a revision to a commit, and the others must ask about that commit,   *)
(* for the name may stand for another one by then.  A blame without a      *)
(* revision looks at the file in the working tree instead, which the user  *)
(* may save at any time.                                                   *)
(***************************************************************************)
EXTENDS MovingHistory, DiffRanges

CONSTANTS
  Name,            \* a revision given by name: HEAD or a branch
  NoRevision,      \* no revision: the working tree, or HEAD for a history
  NoContents,      \* no unsaved contents
  MaxBlameLines,   \* maxBlameLines, 2000
  DefaultHistory,  \* defaultHistoryLimit, 100
  MaxHistory,      \* maxHistoryLimit, 500
  DefaultContext,  \* defaultDiffContext, 3
  MaxContext,      \* maxDiffContext, 100
  MaxSize          \* bound: lines of the file in the working tree

ASSUME MethodsAssumption ==
  /\ MaxBlameLines \in Nat /\ DefaultHistory \in Nat /\ MaxHistory \in Nat
  /\ DefaultContext \in Nat \ {0} /\ MaxContext \in Nat /\ MaxSize \in Nat
  /\ \A c \in Cases : c.request.method = "blame.lines" =>
       /\ c.request.first \in Int /\ c.request.last \in Int
       /\ c.request.contents \in Nat \cup {NoContents}
  /\ \A c \in Cases : c.request.method = "diff.file" =>
       /\ c.request.context \in Int
       /\ c.request.revision \in {Name, NoRevision} \cup DOMAIN c.history

\* A commit changes a path once, and of a file it deletes it keeps no line.
ASSUME ChangesAssumption ==
  \A c \in Cases : \A p \in DOMAIN c.history :
    LET changes == c.history[p].changes IN
    /\ changes \in Seq(ToSet(changes))
    /\ \A j, k \in DOMAIN changes : changes[j].path = changes[k].path => j = k
    /\ \A k \in DOMAIN changes : LET script == changes[k].script IN
         /\ script \in Seq(ToSet(script))
         /\ \A i \in DOMAIN script :
              /\ script[i].mark \in {" ", "+", "-"}
              /\ changes[k].status = "D" => script[i].mark = "-"

VARIABLES
  saved,     \* lines of the file in the working tree
  commit,    \* the commit the revision was resolved to
  found,     \* what the handler has read so far
  answer     \* the result

methodVars == <<saved, commit, found, answer>>

FileMethods == {"blame.lines", "history.file", "diff.file", "revision.content"}
None == << >>
ByName == request.revision = Name \/ (request.method = "history.file" /\ request.revision = NoRevision)
AtRevision == ByName \/ request.revision # NoRevision
Clamped(value, default, most) == IF value = 0 THEN default ELSE IF value > most THEN most ELSE value

-----------------------------------------------------------------------------
(* Git, of the commits of a history.                                        *)

\* The script that gave a path the text it has at commit c, or None.
Touching(h, c, path) ==
  {p \in DOMAIN h : p >= c /\ \E k \in DOMAIN h[p].changes : path \in Names(h[p].changes[k])}

BlobAt(h, c, path) ==
  LET p == CHOOSE p \in Touching(h, c, path) : \A q \in Touching(h, c, path) : p <= q
      givers == {k \in DOMAIN h[p].changes : /\ h[p].changes[k].path = path
                                              /\ h[p].changes[k].status # "D"}
  IN IF Touching(h, c, path) = {} \/ givers = {} THEN None
     ELSE <<h[p].changes[CHOOSE k \in givers : TRUE].script>>

Exists(h, c, path) == BlobAt(h, c, path) # None
LinesAt(h, c, path) == LineCount(BlobAt(h, c, path)[1])

\* git log --follow: the commits that changed the file, under the name it had.
LogFollow(h, c, path, most) ==
  LET Walk(walk, p) ==
        LET mine == {k \in DOMAIN h[p].changes : h[p].changes[k].path = walk.name}
            change == h[p].changes[CHOOSE k \in mine : TRUE]
        IN IF p < c \/ mine = {} \/ Len(walk.log) = most THEN walk
           ELSE [log |-> Append(walk.log, p), name |-> IF IsRename(change) THEN change.old ELSE walk.name]
  IN FoldLeftDomain(Walk, [log |-> << >>, name |-> path], h).log

\* git diff-tree with the commit and its first parent on stdin.
FilesAt(h, c) == [k \in DOMAIN h[c].changes |->
                    [status |-> h[c].changes[k].status, path |-> h[c].changes[k].path,
                     old |-> h[c].changes[k].old]]

\* git blame -L first,last stops at the end of the text, and fails after it.
BlameLines(count) == request.first..(IF request.last < count THEN request.last ELSE count)

-----------------------------------------------------------------------------

MethodsInit ==
  /\ saved = MaxSize
  /\ commit = 0
  /\ found = None
  /\ answer = None

\* The user saves the file.
Save ==
  /\ stage \notin Ended
  /\ moves < MaxMoves
  /\ moves' = moves + 1
  /\ saved' \in 0..MaxSize \ {saved}
  /\ UNCHANGED <<history, request, tip, seen, cancelled, stage, commit, found, answer>>

\* The checks each handler makes of its parameters.
ValidParams ==
  CASE request.method = "blame.lines" ->
         /\ 1 <= request.first
         /\ request.first <= request.last
         /\ request.last - request.first + 1 <= MaxBlameLines
    [] request.method = "history.file" -> request.limit >= 0
    [] request.method = "diff.file" -> request.context \in 0..MaxContext /\ AtRevision
    [] request.method = "revision.content" -> AtRevision

Reach(next) == stage' = next /\ UNCHANGED <<environmentVars, saved>>
To(next) == ~cancelled /\ Reach(next)   \* with the context still alive

\* openRepository and validateRelativePath.
Open ==
  /\ stage = "opening"
  /\ IF ~ValidParams THEN Reach("refused")
     ELSE IF AtRevision THEN To("resolving") ELSE To("tracking")
  /\ UNCHANGED <<commit, found, answer>>

\* resolveRevision: git rev-parse --verify.
resolveRevision ==
  /\ stage = "resolving"
  /\ commit' = IF ByName THEN tip ELSE request.revision
  /\ To(CASE request.method = "blame.lines" -> "reading source"
          [] request.method = "history.file" -> "reading log"
          [] request.method = "diff.file" -> "reading files"
          [] request.method = "revision.content" -> "reading blob")
  /\ UNCHANGED <<found, answer>>

\* revisionContent: readRevisionBlob.
ReadBlob ==
  /\ stage = "reading blob"
  /\ IF Exists(history, commit, request.path)
       THEN To("answered") /\ answer' = BlobAt(history, commit, request.path)
       ELSE To("refused") /\ UNCHANGED answer
  /\ UNCHANGED <<commit, found>>

\* blameLines: git ls-files --error-unmatch.
CheckTracked ==
  /\ stage = "tracking"
  /\ To("reading source") \/ To("refused")
  /\ UNCHANGED <<commit, found, answer>>

\* blameLines: the unsaved contents, the blob or the file, for its line count.
SourceCount == IF request.contents # NoContents THEN request.contents
               ELSE IF AtRevision THEN LinesAt(history, commit, request.path) ELSE saved

ReadSource ==
  LET missing == AtRevision /\ ~Exists(history, commit, request.path) IN
  /\ stage = "reading source"
  /\ To(IF missing \/ request.last > SourceCount THEN "refused" ELSE "blaming")
  /\ UNCHANGED <<commit, found, answer>>

BlameUncounted ==   \* mutant: the number of lines that Git returned is not checked
  /\ stage = "blaming"
  /\ found' = <<BlameLines(SourceCount)>>
  /\ To("reading metadata")
  /\ UNCHANGED <<commit, answer>>

\* blameLines: git blame reads the text again.
Blame ==
  LET lines == BlameLines(SourceCount) IN
  /\ stage = "blaming"
  /\ found' = <<lines>>
  /\ To(IF Cardinality(lines) = request.last - request.first + 1 THEN "reading metadata" ELSE "error")
  /\ UNCHANGED <<commit, answer>>

\* readBlameCommitMetadata: a failure leaves the answer without it, and no process
\* runs if all lines are of the working tree.
ReadMetadata ==
  /\ stage = "reading metadata"
  /\ \/ To("answered")
     \/ (AtRevision => request.contents # NoContents) /\ Reach("answered")
  /\ answer' = found
  /\ UNCHANGED <<commit, found>>

\* fileHistory: git log --follow.
ReadLog ==
  /\ stage = "reading log"
  /\ found' = LogFollow(history, commit, request.path, Clamped(request.limit, DefaultHistory, MaxHistory))
  /\ To("reading files")
  /\ UNCHANGED <<commit, answer>>

\* fileHistory: readCommitFilesBatch, for all commits at once.
ReadLogFiles ==
  /\ stage = "reading files"
  /\ request.method = "history.file"
  /\ answer' = [k \in DOMAIN found |-> [commit |-> found[k], files |-> FilesAt(history, found[k])]]
  /\ To("answered")
  /\ UNCHANGED <<commit, found>>

\* selectDiffChange: the first change of the path, of the old path if one is given.
Selected(h, r, c) ==
  {k \in DOMAIN h[c].changes :
     h[c].changes[k].path = r.path /\ r.old \in {"", h[c].changes[k].old}}

selectDiffChange(h, r, c) ==
  h[c].changes[CHOOSE k \in Selected(h, r, c) : \A j \in Selected(h, r, c) : k <= j]

\* diffFile: firstParent, readCommitFilesBatch and selectDiffChange.
ReadChange ==
  /\ stage = "reading files"
  /\ request.method = "diff.file"
  /\ IF Selected(history, request, commit) = {}
       THEN To("refused") /\ UNCHANGED found
       ELSE To("reading diff") /\ found' = <<selectDiffChange(history, request, commit)>>
  /\ UNCHANGED <<commit, answer>>

\* diffFile: the patch of that change, and the line count of its target.
Ranges(h, r, change, c) ==
  parseUnifiedRanges(UnifiedDiff(change.script, Clamped(r.context, DefaultContext, MaxContext)),
                     IF Exists(h, c, change.path) THEN LinesAt(h, c, change.path) ELSE 0)

ReadDiffByName ==   \* mutant: the target is read by the name, not by the commit
  /\ stage = "reading diff"
  /\ answer' = <<[change |-> found[1], ranges |-> Ranges(history, request, found[1], tip)]>>
  /\ To("answered")
  /\ UNCHANGED <<commit, found>>

ReadDiff ==
  /\ stage = "reading diff"
  /\ answer' = <<[change |-> found[1], ranges |-> Ranges(history, request, found[1], commit)]>>
  /\ To("answered")
  /\ UNCHANGED <<commit, found>>

\* A Git process fails, or ends with the context.
FailRead ==
  /\ stage \notin Ended
  /\ stage = "opening" => ValidParams
  /\ cancelled \/ stage # "reading metadata"
  /\ stage' = IF cancelled THEN "cancelled" ELSE "error"
  /\ UNCHANGED <<environmentVars, methodVars>>

MethodStep ==
  \/ Open \/ resolveRevision \/ FailRead
  \/ CheckTracked \/ ReadSource \/ Blame \/ ReadMetadata
  \/ ReadLog \/ ReadLogFiles
  \/ ReadChange \/ ReadDiff
  \/ ReadBlob

MethodsNext ==
  \/ MethodStep
  \/ Save
  \/ (RefsMove \/ Cancel) /\ UNCHANGED methodVars

MethodsSpec ==
  HistoryInit /\ request.method \in FileMethods /\ MethodsInit
    /\ [][MethodsNext]_<<environmentVars, stage, methodVars>>

-----------------------------------------------------------------------------
(* Properties.                                                              *)

\* The commits a revision may be taken for: any its name stood for meanwhile.
Asked == IF ByName THEN seen ELSE {request.revision}

\* What a request tells of one commit.
AnswerAt(h, r, c) ==
  CASE r.method = "revision.content" -> BlobAt(h, c, r.path)
    [] r.method = "blame.lines" -> <<r.first..r.last>>
    [] r.method = "history.file" ->
         LET log == LogFollow(h, c, r.path, Clamped(r.limit, DefaultHistory, MaxHistory))
         IN [k \in DOMAIN log |-> [commit |-> log[k], files |-> FilesAt(h, log[k])]]
    [] r.method = "diff.file" ->
         LET change == selectDiffChange(h, r, c)
         IN <<[change |-> change, ranges |-> Ranges(h, r, change, c)]>>

\* An answer about a revision is the answer for one commit, and for one its name
\* stood for during the request, although every Git process of the request asks
\* on its own while the name moves.
OneRevision ==
  stage = "answered" /\ request.method \in FileMethods /\ AtRevision =>
    \E c \in Asked : answer = AnswerAt(history, request, c)

\* A blame covers exactly the lines asked for, although Git reads the file again
\* after the helper has counted its lines, and the user may have saved between.
BlameIsWhole ==
  stage = "answered" /\ request.method = "blame.lines" =>
    answer = <<request.first..request.last>>

\* The ranges and anchors of a diff are the lines that were added and the places
\* where lines are gone, whatever hunks Git makes of the change.
RangesDescribe ==
  stage = "answered" /\ request.method = "diff.file" =>
    Describes(answer[1].ranges, answer[1].change.script)
=============================================================================
