# GitGit in TLA+

GitGit is a Git history browser: a desktop application (a Go backend bound to a
Svelte frontend by Wails) and a VS Code extension (TypeScript) that talks to a
helper process (Go) over JSON-RPC on its standard streams.  Both run the system's
`git`.  This directory holds TLA+ specifications of the parts of it in which the order of
events decides, the TLC configurations that check them on small instances, and
theorems about them that TLAPS checks for every value of the constants.

    tlc -config DesktopService_switch.cfg MCDesktopService.tla
    tlapm DesktopService_proofs.tla

Paths below are relative to `src/`.

## 1. Inventory

| Part | State it keeps | Operations | What is hard |
|---|---|---|---|
| Desktop service, coordination (`internal/desktop/operations.go`, `service.go`) | active repository, switching flag, generation, map of cancel functions, latest operation of each read surface, search slot and id, `rewriteMu` | Open; reads (History, CommitDetail, ...); Search; mutations (Sync, Pull, RewriteCommits, worktree changes); CancelSearch; CancelOperations | every call is a goroutine; cancel functions are collected under the mutex and called outside it |
| Commit rewrite (`commit_rewrite.go`) | branch tips, HEAD, index, backup refs, temporary worktrees | prepare the edit stack; replay in a temporary worktree; install by dry run, backup, leased move, worktree update, verification; rollback | other Git processes between any two commands, deadline kills, cancellation, crash |
| Caches (`cache.go`, `persistent_cache.go`) | per-repository fingerprint and bounded maps; a Pebble store written without sync | lookup, read Git, store, evict, restart | Git is read outside the lock while refs move; a crash keeps a prefix of the writes |
| Worktree changes (`service.go`, `worktree_mutation.go`, `internal/app/worktree.go`) | worktrees and their sparse-checkouts, branches | remove merged worktrees with their branches, create, move, sparse set, expand, contract, disable | check and act apart; a failure midway; paths below paths |
| Project registry (`project_store.go`) | a JSON file | add, add many, favourite, remove, prune | read-modify-rename by two processes |
| Desktop shell (`apps/desktop/app.go`) | none of its own | bindings, startup, shutdown | - |
| Desktop frontend (`apps/desktop/frontend/src`) | view state, request ids | presentation; discards stale answers by request id | late answers |
| Search engine (`internal/app/search.go`) | the paths each pattern has followed so far, the page | list commits once or twice, read them in batches, walk them from the newest to the oldest, evaluate an expression of patterns | renames across batches and across commits the filter leaves out; two listings of a moving branch; the limit; a stack machine for expressions |
| Git runner (`internal/gitexec/runner.go`) | none | run git under a context | killed after its effect |
| Helper server (`internal/vscodehelper/server.go`) | cancellation map, sink with a sticky error, wait group | read lines, one goroutine per request, progress, answers, cancel, drain | cancel and answer cross; full pipe; end of input |
| Helper methods (`methods.go`, `search_diff.go`) | none | discover, refs, blame, history, content, search, diff | several Git processes about a name that moves and a file that is saved; ranges of a diff |
| Helper client (`apps/vscode/src/helper/client.ts`) | pending map, next id, disposed flag | request, cancel, accept line, exit, dispose, initialize timeout | late answers, process death, buffered output |
| Runtime and search view (`extension.ts`, `search/view.ts`, `search/model.ts`) | refresh generation, running start, helper, phase, repository; draft, active request, results | refresh, grant trust, search, cancel, clear | refreshes overlap across awaits; searches overlap with them |
| Editor controllers (`editor/controllers.ts`) | timer, generations, cancellation sources, the selection and its prepared document, the suppressed one, decorations in every editor | blame, highlight (select, restore, update, clear), file history | answers, openings and refreshes awaited while editors, texts, repositories and the selection change |
| Result tree, expressions (`search/tree-model.ts`, `search/expression.ts`) | none | pure functions | - |

How they interact.  The frontend calls the shell's methods, each of which calls
the desktop service in a goroutine of its own; the service runs Git, reads and
fills the caches, and takes `rewriteMu` for whatever changes the repository.  The extension's
runtime owns at most one helper client; the search view and the editor
controllers use the client that the runtime shows them; the client and the helper server share two
pipes and nothing else.  The two halves (desktop and VS Code) share no process
and no file.

What makes each part correct:

* coordination: no call that still counts works on a repository that is not the
  active one; the newest Open wins; the newest read of a surface wins; a running
  search can be stopped; nobody waits for ever;
* rewrite: no commit becomes unreachable; the rewrite is installed wholly or not
  at all; nothing is dropped from the stack;
* worktree changes: a branch is deleted only while it is merged; a removal takes all of the
  selection or nothing; no worktree goes with another; local changes stay inside the selection;
* caches: no answer older than the refs at the request; bounded memory;
* server: one answer for each request, after its progress; the map holds the requests in
  flight; the end of the input drains;
* client: each promise is settled, once, with the answer to its own request;
* runtime and view: the newest target wins; one helper, owned; the results shown belong to
  the repository and the draft they are shown for;
* search engine: the answer is what the expression means for the commits listed, neither batches
  nor renames nor the limit show in it;
* helper methods: an answer is about one revision, and a blame about all lines asked for;
* editors: what stays on show belongs to the text, the revision and the repository it is shown with.

The hazards that these properties are about are listed, each at its line, in
`PROJECT.json` under `hazards`.

## 2. Modules

| Module | Models | Checked by | Proved in |
|---|---|---|---|
| `DesktopService` | coordination | `desktop_switch`, `desktop_search` | `DesktopService_proofs` |
| `RepositorySession` | what coordination promises (abstract) | as `SessionSpec` of `desktop_switch` | refinement in `DesktopService_proofs` |
| `CommitRewrite` | rewrite | `rewrite_race`, `rewrite_queue` | `CommitRewrite_proofs` |
| `Worktrees` | worktree changes | `worktrees` | `Worktrees_proofs` |
| `RefCache` | caches | `cache_refs`, `cache_detail` | `RefCache_proofs` |
| `HelperServer` | server, with any peer | `helper_server` | `HelperServer_proofs` |
| `HelperProtocol` | client, composed with `HelperServer` | `helper_protocol` | `HelperProtocol_proofs` |
| `MovingHistory` | a history, and a name in it that moves | by the modules below | with them |
| `SearchExpression` | the expression of a search | `helper_reads` | `HelperReads_proofs` |
| `SearchEngine` | a search | `helper_reads` | `HelperReads_proofs` |
| `DiffRanges` | from the lines of a diff to ranges and anchors | `helper_reads` | `HelperReads_proofs` |
| `HelperMethods` | the helper's requests about a file | `helper_reads` | `HelperReads_proofs` |
| `HelperReads` | one request of `SearchEngine` or `HelperMethods`, composed with the user | `helper_reads` | `HelperReads_proofs` |
| `Repositories` | the repository roots that the next two speak of | with them | with them |
| `ExtensionSession` | runtime and search view | `extension_session` | `Extension_proofs` |
| `EditorSession` | blame and highlight in the editors | `editor_session` | `Extension_proofs` |

`MC*` modules give TLC its instances.  `DesktopService` is the environment of
`CommitRewrite` and `Worktrees` (a mutation there is one `Work` step; here it is all the
steps of a rewrite or of a worktree change) and `HelperProtocol` is that of `ExtensionSession` (there a
call of the client is an answer or a failure; its `EverySettles` is the fairness
`ExtensionSession` assumes of it).  `HelperReads` is what a request of `HelperServer` does between
`Return` and its answer, and `ExtensionSession` the steps behind `SessionChanges` of `EditorSession`:
that the session changes only while the newest refresh is unfinished, which `SessionChanges` has as its guard, is
proved of `ExtensionSession` (`SessionChangesInTurn`).

### DesktopService

The variables are the fields of `Service`; an operation id is the call itself,
since ids are never used twice.  `operations`, `latest` and `searchSlot` name the
calls whose cancel functions the maps and `searchCancel` hold; `doomed[c]` is
what call `c` has taken out of them under the mutex and has not called yet, and `cancelled` the
contexts whose cancel function has run.  One action is one critical section of
`Service.mu` or one Git command:

| Action | Code |
|---|---|
| `RequestMutation`, `BeginOperation` | `rewriteMu.Lock`, `beginOperationWithKey` |
| `ReadRepository` | `currentRepository` |
| `Work`, `FinishOperation` | the call's Git work, the deferred `finish` |
| `RefuseSearch`, `RegisterSearch`, `EndSearch`, `ReleaseSearch` | `SearchWithProgress` |
| `ReserveSwitch` ... `FailSwitch` | `Open`, with `reserveRepositorySwitch`, `beginReservedRepositorySwitch`, `completeRepositorySwitch`, `failRepositorySwitch` |
| `CancelOperations`, `CancelSearch` | the methods of these names |
| `CallCancel` | one collected cancel function is called, outside the mutex |

A call runs once; another request is another element of `Calls`.  `Lost(c)` says
that `c` is cancelled or that somebody has condemned it and will cancel it:
between the two the source gives no guarantee of the order, so the properties
speak of calls that still count.

`RepositorySession` is the promise: the active repository is replaced only while
no counting call is attached to another one, and a surface has one counting call.

### CommitRewrite

State: branch tips, HEAD, the commit whose tree the index has, whether files that nobody edited
differ from the index (`stale`), a stale lock, whether
local changes overlap the rewrite, backups, the commit graph made so far (first
parents and which commits are merges), registered temporary worktrees; for each
request its reviewed stack and where it stands.  Trees are abstracted by their
commits.  `User*` actions are other Git commands run between any two steps: commit, merge,
switch, any move of a branch, edits.  A command under a context can be killed
before its effect (`FailInstall`, `FailTree`, `FailRollback`) or after it (the second disjuncts of `WriteBackup` and
`MoveBranch`, `InstallTree` once expired, `RollbackRef`, `RollbackTree`), and `read-tree -m -u` also halfway: it writes the files
first and the index last, so one that stops between leaves files of both trees under the old index (`StopsHalfway`), and perhaps
`index.lock`.  `Cancel(i)` is CancelOperations of process `i`, `Crash(i)` its
death.  From `DryRun` on the context is `WithoutCancel` with a deadline, hence
`Expire`.

Two variables are histories.  `found[r]` is what `r` found of refs, HEAD, index, files and lock when it began, as long as
nobody else has changed any of them (`Disturb`); `halfway` has the requests whose own worktree update stopped halfway.  With
them `AllOrNothing` says of each answer what it leaves, measured by what was found:

| Answer | What is left |
|---|---|
| success, or "branch moved concurrently" after the update (`installed`, `uncertain`) | `Installed`: the branch is on the new head, the index with it, all else as found |
| the worktree could not be updated (`rolledBack`) | `Back`: the branch is on the old head, the index as found, and the files too but for those the update left halfway |
| any error before (`refused`) | what was found; if the deadline killed the move of the branch when it was done, that move and nothing else |
| "rollback also failed" (`torn`) | nothing is promised |

Where something was staged, "with it" and "as found" allow the staged tree and its merges with the two (`IndexFrom`): such an
index is `Mixed`, and the model does not look into it.

### Worktrees

`branch`, `registered`, `present` and `tree` are what Git and the disk have; `snap`,
`pinned` and `heads` are what a request has read of them.  `rewriteMu` admits one request
at a time, and `stage` says where it stands; one action is one Git command, or the
reading of the disk, with the checks on what it answers.

| Action | Code |
|---|---|
| `RemoveBegins`, `ReadDefault`, `CheckTarget`, `CheckHead` | the first half of `RemoveMergedWorktrees`, for every target |
| `RemoveTree`, `DeleteBranch` | its second loop: `git worktree remove`, then both refs in one `update-ref` transaction |
| `CreateBegins` ... `AddTree` | `CreateWorktree`, with both checks of the destination, and `Add` |
| `MoveBegins` ... `MoveTree` | `MoveWorktree`, `Move` |
| `SparseBegins`, `CheckSparse`, `ListSparse` | `mutateWorktreeSparse` |
| `ExpandReads`, `ContractReads`, `SetReads`, `Probe`, `WriteSparse` | `SparseExpand`, `SparseContract`, `SparseSet`, `SparseDisable`, each of which reads the state again |
| `Fail` | a cancelled context or a failing Git command, at any stage |
| `User` | another Git command: commit, reset, branch -d, switch, lock, edits, sparse-checkout, worktree add and remove, rm |

`disturbed` is a history: the user acted, or a command failed, since the snapshot.
`nested` is another: the user, or a race with the user, put a worktree below another
one.  Git gives a branch to one worktree at a time without `--force` (`docs/worktree.md` relies on it), hence
`Held` is injective on branches and `CheckedOut` guards what takes one; `git worktree add -b` of an unborn branch that
another worktree stands on makes the branch and then fails.  The two histories say under which circumstances a promise is made.  `git worktree remove` takes
all that lies below the path, an ignored worktree included, which is why the containment rules of
`worktreeDestinationIsFree` matter.

### RefCache

`refLog[R]` is the history of the refs of a repository, and what a Git command
reads is the position in it at which it ran, so "older" can be said.  A read goes
through the stages of its method (scope, then page; or commits together; or a
detail), each a lookup in memory, then in the store, then in Git, then stored in
both.  `durable` is what the disk has of `store`: Pebble's writes are not synced,
and `Flush` makes them durable in their order.

### HelperServer and HelperProtocol

`HelperServer`: the reader loop (`Read*`, `Return`), a goroutine for each
request (`Report`, `HandlerReturns`, `ReportDone`, `Respond`, `FinishRequest`),
the map, the sink, and two bounded pipes; its peer may send anything, repeated
ids, null ids, notifications, junk and oversized lines included.  `HelperProtocol` is
`INSTANCE HelperServer` with the client as the peer.  Each of the client's handlers is one step
(the event loop); the child's death, its exit event and its buffered output come in any
order.

### ExtensionSession

One step is what one event does up to its next `await`.  `refresh` is
`Refresh`, with `waiting` for those that wait for `starting`; `refreshTrusted` is
`HelperStarts`, `HelperFailsToStart`, `DiscoverResolves`, `DiscoverRejects`; every `setState` runs
the view's `runtimeChanged` in the same step, as the event emitter does.  Of the
refreshes that wait for one start only the newest is kept, since the others return at
their generation check whatever the order in which they wake.

### SearchEngine and SearchExpression

The state is that of the function `SearchWithProgress`: `eligible` and `commits` are its two listings,
`left` and `batch` the commits not read and not visited, `tracked` the paths of `searchTracking`.

| Action | Code |
|---|---|
| `Begin` | the checks of `searchRun`, `validateSearchOptions`, `compileSearchPredicates` |
| `List`, `ListTraversal` | `git log` with the filter; with rename following and a filter, once more without it |
| `ReadBatch` | `git diff-tree --stdin` for the next batch |
| `Visit` | the loop's body: renames tracked, expression evaluated, the page or `hasMore` |
| `Finish`, `Deliver`, `Fail` | the end, the last look at the context, a failing or cancelled Git command |

A commit is an author, the word its message has, its changes and whether it is a merge; a pattern matches
or does not.  `evaluateSearchExpression` is the stack machine, step by step;
`Meaning` says what an expression means by recursion over positions.  `Tells` says what a result should
tell of its commit: the sources that match anywhere in it (`ExpectedSources`), and in the order of the commit the files that
match by more than its message (`ExpectedFiles`), with a path's lineage (`InLineage`) in place of the tracked paths.  Neither
`Meaning` nor `Tells` has anything of the code's loops, batches or stacks.

### HelperMethods, DiffRanges and HelperReads

One action is one Git process of `blameLines`, `fileHistory`, `revisionContent` or `diffFile`, with the
checks on what it answers; `tip` may move and `saved` may change between any two.  The
revision is resolved first (`resolveRevision`), and `commit` is what the later processes are given.  What
Git answers of a commit is an operator on the history (`BlobAt`, `LogFollow`, `FilesAt`).
`DiffRanges` makes Git's hunks of a script of kept, added and deleted lines, and parses them as `parseUnifiedRanges` does.  An
anchor marks where lines of the old text are gone, whether deleted or replaced.  Left out are the lines that a diff of one path has in no
hunk: the empty record after the last newline, which the parser passes over (`search_diff.go:618`), and its `default` case, the end of a
hunk (`:637`); a context line that is empty has a leading space in Git's diff, as the comment there assumes.
Requests of the helper only read, hence `HelperReads` runs one at a time.

### EditorSession

One step is one event of VS Code with all the listeners' code, or what one answer does
up to the next `await`.

| Action | Code |
|---|---|
| `Activate`, `Close`, `EditText`, `Move`, `RefreshAgain`, `SessionChanges`, `RefreshContinues` | the events `extension.ts` passes to both controllers, and its refresh |
| `BlameUpdate`, `BlameAnswers`, `BlameFails` | `LineBlameController.update` when its timer fires, and after its request |
| `Select`, `DiffLoaded`, `ContentLoaded`, `DocumentOpened`, `ShowReturns` | `select` and `openDocumentIfCurrent`, await by await |
| `DocumentShown` | VS Code shows a document it was told to show, wanted or not |
| `RefreshContinues`, `Restored` | `restore`, with the gate that suppresses one revision |
| `ContentCompared`, `DiffAnswers`, `UpdateFails` | `update` of the highlight |
| `ClearByUser`, `LoadFails` | `clearByUser`, `clear` |

`load` is the one select or restore, and `upd` the one update, that can still do something: an
older one finds its token cancelled or its generation passed and returns.  `marks` and `blamed` are per column,
since decorations are those of an editor.

## 3. Runs

| Run | Question | Bounds | Properties |
|---|---|---|---|
| `desktop_switch` | do overlapping Opens, reads of one surface, a mutation and CancelOperations keep every counting call on the active repository? | 2 Opens, 2 reads on one surface, 1 mutation, 1 CancelOperations, 2 repositories | `LiveWorkIsCurrent`, `MutationsStayCurrent`, `LatestWins`, `SwitchingIsOwned`, `SessionSpec` |
| `desktop_search` | are searches reachable, and does everything return? | 2 Opens, 2 searches, 1 CancelSearch | `IInv`, `CallsReturn` |
| `rewrite_race` | do two processes and a user on one branch keep every tip, and does an undisturbed rewrite leave what it answers? | 2 requests in 2 processes, 3 commits, 2 branches, 1 user command, 1 commit in a stack | `IInv`, `KeepsTips`, `AllOrNothing` |
| `rewrite_queue` | does a longer stack, behind another rewrite, lose nothing and return? | 2 requests in 1 process, 2 commits in a stack | `NothingDropped`, `AppliesReturn` |
| `worktrees` | what do two requests of any kind leave behind when a user acts between their steps? | 2 requests, 1 user command, 2 targets in a removal, 4 paths of which one lies in another, 3 branches, 4 commits, 2 directories | `IInv`, `DeletedIsMerged`, `WholeOrNothing`, `SparesOthers`, `SparseSpares` |
| `cache_refs` | is a ref-dependent answer ever older than its request? | 2 reads, 2 repositories of which 1 fits in memory, 2 keys, 1 entry for each namespace, 3 states of the refs in all, 1 restart | `IInv`, `NeverOlder` |
| `cache_detail` | do commit details follow the refs? (**violated**) | as above, details only, no restart | `DetailsFollowRefs` |
| `helper_server` | does the server keep its map, its lines and its drain with any peer? | 2 requests that may share the only id, 1 progress line each, pipes of 1 line | `IInv`, `CancellationsExact`, `LinesInOrder`, `NilMeansAnswered`, `Drains` |
| `helper_protocol` | do client and server agree across cancellation, death and full pipes? | 3 calls (initialize is the first), 2 pending, only the final progress line, pipes of 1 line | `PendingIsOpen`, `NeverDuplicate`, `CancelledByCaller`, `SettlesOnce`, `EverySettles` |
| `helper_reads` | is a search's answer what its parameters mean, and every other answer about one revision, while the name moves and the file is saved? | all histories of 3 commits of 5 kinds under 9 searches; all expressions of 4 patterns; all histories of 3 commits of 4 kinds under the requests about a file; all scripts of up to 5 lines; 1 move, batches and pages of 1 or 2 | `IInv`, `AnswerExact`, `EvaluatesAsWritten`, `OneRevision`, `BlameIsWhole`, `RangesDescribe` |
| `extension_session` | what do overlapping refreshes and searches leave on show? | 3 refreshes, 2 searches, 2 roots, 3 targets, 3 drafts of which 1 is invalid | `IInv`, `LoadingEnds` |
| `editor_session` | what stays on show in the editors when everything awaited has come? | 2 editor groups, 2 files and 2 revisions in 2 repositories, 1 of the revisions a deletion, 2 texts, 4 events of the user | `EditorInv`, `BlameAtRest`, `MarksAtRest` |

`IInv` of `ExtensionSession` has the newest target, the ownership of the helper, the results' repository
and draft, and the cancellation of superseded searches as named conjuncts; `IInv` of `DesktopService` has
the reachability of a running search; `EditorInv` of `EditorSession` has, as `SuppressedIsClear`, that a highlight cleared
by the user stays away.

Why the bounds are enough to meet the hazards: the properties of coordination
relate two calls, of which one may be overtaken, so two of a kind with one of
each other kind reach each of them; two rewrites and one user command are the least
with which a lease can fail after the backup; two requests are a creation or a move and
the removal after it, and one user command is what comes between a check and its use; the caches evict with one
entry and the stamp is replaced with two states of the refs, and the third state makes a
return to an older fingerprint possible; pipes of one line
block at once; three refreshes are one that runs, one that waits and one that overtakes it; three
commits are two batches, or a rename between a match and what it renamed, and a page of one or two leaves some out;
four patterns have both joins on either side of a group; four events of the user are a selection, a change
under it, and the way back, in two groups.  That the
properties do not depend on the bounds is what the proofs are for.

Every property of a passing run fails under at least one listed mutant of the code
(`PROJECT.json`, `mutants`); the operators commented `mutant` in the modules are these mutated
forms and no part of the specifications.

Deadlock is checked for `DesktopService`, where the end of all calls is an
action of its own (`Quiescent`).  Elsewhere the system may really stop: the bounded
requests are used up, the server returns, the client is stopped.

### Fairness

* `DesktopService`: a call that was made goes on, since goroutines are scheduled
  and Git commands end; a free `rewriteMu` goes to one of its waiters, whichever (no
  order among them is assumed).  No call is obliged to be made.
* `CommitRewrite`: the steps of a request that was sent; never a review, a cancellation or a crash.
* `HelperServer`: the reader, the goroutines, and a peer that drains its output;
  the peer need not send or close.
* `HelperProtocol`: the event loop, the server, the exit event of a dead child, and
  the death of a child that was killed.
* `ExtensionSession`: a start, a discovery and a search each get an answer or a failure
  (`EverySettles`, and the initialize timeout).

### What the violated run shows

* `cache_detail`: a commit's detail contains its ref decorations, and its cache
  key does not contain the refs, so a moved ref is not seen (`service.go:758`,
  `cache.go:141`); `docs/overview.md:127` promises invalidation by the ref
  fingerprint.

### Limits that the models have and no run is about

* A `read-tree -m -u` of the installation that stops halfway, at a full disk or at the deadline, has overwritten clean files and
  left the index; the rollback (`commit_rewrite.go:480`) merges from the new head to the old, finds the index on the old already,
  and succeeds without touching these files, which then show as local changes.  Nothing in the repository promises otherwise, and `Back`
  says exactly this.
* The deadline may kill `update-ref` when it has moved the branch: the answer is "move branch with lease" (`commit_rewrite.go:442`), the
  branch is on the new head, the worktree on the old, and the recovery ref has the tip.
* `CancelSearch` cancels the function in `searchCancel`.  A search that has begun its operation and
  has not registered yet (`service.go:901`) is missed and runs to its end; `docs/search.md:136` says Cancel
  stops the previous search and its Git process.
* The user turns sparse-checkout off in a terminal while the dialog shows it on, and submits an added
  directory: `SparseExpand` finds it off and calls `SparseSet` (`internal/app/worktree.go:352`), which probes for local
  changes only when it is on, and `worktree_mutation.go:422` makes the probe of a first selection for `set` only.  Hence
  `SparseSpares` speaks of set and contract.
* With rename following and a filter a search lists commits twice, and the name may move between
  (`docs/search.md:132` speaks of one `git log`); `Admitted` is the intersection of the two, and
  `AnswerExact` is about it.
* A match of the message alone tells no file, and so does a merge in a search, although diff and history compare a merge with its
  first parent.
* A blame that is awaited during an edit is shown until the edit's own update 220 ms later
  (`controllers.ts:97`); `docs/vscode.md:57` says a changed document discards earlier results.  `BlameAtRest` is
  about what stays.
* A discovery that is stale and fails leaves the helper it had started running
  (`extension.ts:172`) until a later refresh takes it over or disposes of it.
* `select` and `restore` leave an awaited `update` of the previous selection alone, whose marks may
  reappear until the new selection's own update (`controllers.ts:435`; `docs/vscode.md:91` says they are removed); `applyDecorations` clears no other editor; and a document VS Code
  was told to show is shown although another has been selected meanwhile, and its `restore` takes the place
  of the newer selection.  `MarksAtRest` is about the active editor when nothing is awaited.

## 4. Proofs

For all values of the constants, under the modules' named `ASSUME`s only.

* `DesktopService_proofs`: `IInv` is inductive, and with it `LiveWorkIsCurrent`,
  `MutationsStayCurrent`, `LatestWins`, `SwitchingIsOwned`,
  the reachability of a running search, and that `Spec` implements `RepositorySession`.
  The argument needs more than the properties: the tables hold every begun call that is not
  condemned (`TablesInv`), so a switch, which condemns all that the tables
  hold, leaves none that counts; while an Open looks for its repository every call that
  uses the old one is lost (`SwitchInv`); the lock's holder is known by its place
  (`LockInv`); the search in the slot has the newest ticket (`SlotInv`), so
  a finishing search clears the slot only of itself.
* `CommitRewrite_proofs`: `Sound` is inductive, and `IInv`, which adds `OnlyAdded` and `OnPlan` to it.
  `KeepsTips` and `AllOrNothing` follow from `Sound` as action properties: from the backup on
  the replaced head is in `backups` (`BackedUp`), replacements are fresh objects
  (`FreshReplacements`), and what an
  undisturbed request finds at each of its steps is a function of what it found when it began (`InstallInSteps`): the same until the
  branch is moved, then that with the branch moved (`Moved`), then with the index (`Installed`), and on the way back the branch
  first and the index with or after it, with the files it has left halfway itself.  `NothingDropped` follows from the rest: what is validated has the commits of the
  reviewed range (`Reviewed`), the replacements made so far lie on the base one on the other
  (`Replayed`), and no commit made since, by whomever, changes an older history (`OnlyAdded`).  What `Chain` computes is proved by
  taking the shortest history that is a counterexample: each beginning of a history is the history of its last commit
  (`ChainPrefix`), so two histories part once (`AboveFits`), and the history of the last replacement is that of the base and the
  replacements (`ReplayedChain`).  It rests on the assumption that the repository the model
  starts with has no commit that is its own ancestor (`HistoryEnds`).
* `Worktrees_proofs`: `Sound` is inductive, and `OnCourse` is given `Sound`; `IInv` is both.  `DeletedIsMerged`,
  `SparesOthers`, `WholeOrNothing` and `SparseSpares` follow as action properties.  `Sound` says what each stage has
  established: the targets a removal has passed are linked worktrees on other branches than the default one and their
  recorded heads are contained in the pinned default head (`Checked`), so the refs that
  `update-ref` verifies are a merged branch and the default branch it is merged into; a checked destination
  is apart from all worktrees of the snapshot, which are Git's own until the user acts
  (`Destined`), so an undisturbed creation or move nests nothing (`NoneNested`) and a removal finds
  nothing below its path.  `OnCourse` says what an undisturbed request may rely on: what it has checked is still so, each
  checked worktree has its branch to itself, and removing one leaves the others as they were, so Git refuses none
  after the first; whichever way a selection comes to be written, a probe has found the changes inside it.
  `WholeOrNothing` rests on the assumption that `Held` gives no branch to two worktrees; were it dropped,
  Git would refuse the second of two such targets after the first has gone.
* `HelperServer_proofs`: `IInv` is inductive: which lines were written at each stage
  (`LinesByStage`), answers past their stage (`AnsweredByStage`), and silence after Serve returned
  (`ReturnedIsQuiet`) give `CancellationsExact`, `LinesInOrder` and
  `NilMeansAnswered`.
* `HelperProtocol_proofs`: `PendingIsOpen` is inductive as it stands (its conjuncts
  on the client's phase are the strengthening), and gives `SettlesOnce`.  `PipeInv` follows a request from the
  client's counter through the input pipe, the reader and the map to its goroutine: an id names one request wherever
  it is, the map leads from an id to the request that carries it, and a cancellation on the pipe is of a call that its
  caller has cancelled.  `NeverDuplicate` and `CancelledByCaller` are what it says where the reader acts on a line.
* `RefCache_proofs`: `IInv` and `NeverOlder`.  `FreshInv` says that every value in memory, in the database or on disk was
  read while the refs were, or had been, in the state it is filed under, and that a read under
  way began with refs in its fingerprint's state and read Git later; so `Lookup` finds nothing older under
  the read's own fingerprint, and `Store` files nothing newer than now under it.  A value that stays is
  never made older by a log that grows (`GrowGood`).  `WithinInv` says that each order list has the keys of its map, once, so
  what is trimmed is the oldest of both.  Fresh means since the *first* time the refs were in that state: a
  return to an earlier state revives what was read between, and nothing stronger holds.
* `HelperReads_proofs`, of searches: `IInv`, inductive as it stands: batches are taken from the newest
  (`BatchIsNewest`), so all read commits precede all that are left, all visited ones precede those, and a page that only grows at its end
  is ordered and without repetition.  Of files: `OneRevision` and `BlameIsWhole`.  `Reading` says at each stage that the
  resolved commit is one the name has stood for, and what has been found is what that commit answers; a blame goes on
  only with as many lines as were asked for, and lines of an interval within an interval of that size are all
  of it (`BlameCounts`).  `SearchSpec` and `MethodsSpec` are the specifications of the two, and `Spec` of `HelperReads`,
  which runs one or the other, keeps both invariants: neither request touches what the other is about.
* `HelperReads_proofs`, of the expression: `EvaluatesAsWritten`, for expressions of any length and nesting.  A join's rank is its
  depth and precedence; a part of the expression may be split at any join of the lowest rank, since equal ranks are the same
  operator and that is associative (`SplitsAnywhere`).  After each predicate the value stack holds the
  meanings of consecutive parts, cut where a pending join is, with rising ranks, and the operator stack those joins among the open
  parentheses (`Stacked`).  A pop joins the last two parts (`Pop`), closing a group pops until no cut is inside it
  (`GroupsClose`), a join pops while what is pending binds as tightly (`JoinPushed`), and at the end one part is left
  (`EndIsMeaning`).
* `HelperReads_proofs`, of the ranges: `RangesDescribe`, for scripts of any length and any context.  `ReadUpTo` is what the
  parser knows when the diff has been read up to a line of the script: its line number is that of the new file, and the ranges
  so far, with the run it has open, are the lines added so far.  It holds again after each line that a hunk shows
  (`LineReadOn`), each that no hunk shows (`HiddenLinePassed`) and at each header, which closes the open run
  (`HeaderRead`), so it holds at the end (`DiffIsRead`).  The argument needs `DefaultContext` to be positive, as it is in the
  code: without a context line two neighbouring hunks could touch, and one range be read as two.  It assumes of
  the histories what Git promises (`ChangesAssumption`): a path is changed once in a commit, the mark of a line is one of three,
  and a deleted file has deleted lines only.
* `HelperReads_proofs`, of what an answer tells: `AnswerExact`, with `Telling` as the invariant.  The paths tracked after some changes are
  the old names of the renames among them that the path's lineage goes through (`Known`), and with these a change is hit
  exactly if it is in the lineage (`RenamesAreFollowed`); this needs the commits to be visited in the order of the walk without a
  gap, which `IInv` gives, and with rename following that the walk has all commits, excluded ones as well (`Listings`).  So
  a commit is found to match what it should (`ScanTells`), and the page tells of each commit visited so far what it
  should, and promises more only for one it leaves out (`PageTells`).  The code asks an expression of the message and of each
  file in turn; that an expression none of whose patterns match is false (`MeaningNeedsAMatch`) is why a result
  always tells a source.  That `InLineage`, recursive in the model, satisfies its own equation is shown of a least fixed
  point (`LineageIsFixed`, `LineageIs`).

In these three, what a recursive function computes for every input is proved without the library's induction theorems, which take an
operator as a parameter: but for `InLineage` the functions have a natural number as argument or measure, a function that satisfies
the defining equation up to `n` is extended to `n + 1`, and a least number for which there is none is a contradiction
(`LeastOf`; for instance `MeansFurther` and `MeansAny`, `ScansFurther` and `ScansAny`).
* `Extension_proofs`, of `ExtensionSession`: `IInv` is inductive.  `RefreshOnCourse` is the strengthening: a discovery that has
  not been overtaken has the newest target and the client that is the runtime's, and a client that starts belongs to the
  discovery that waits for it.  The view's invariant is preserved by every `runtimeChanged` whatever the
  runtime does between (`Told`, `ToldFits`), so the two are proved apart.  With `RuntimeInv`, only a refresh that begins or a
  discovery that is not stale changes the session (`SessionChangesInTurn`): a stale one finds the phase not
  ready and leaves it so.
* `Extension_proofs`, of `EditorSession`: `EditorInv` with `BlameAtRest` is inductive, and `MarksAtRest` follows.
  `BlameOnCourse` says that an awaited blame either has an update scheduled behind it or is of the active editor, its
  text and its lines.  `HighlightOnCourse` needs to know which loads still end with an update of the active editor
  (`Updates`): as long as one does the marks may be anything, and when none does, an update that is awaited is of the selection, a
  working file it has passed `ContentCompared` with has the text of the revision, and marks at rest are of the selection.
  Most handlers end in `update`, in `clear`, in a load or in nothing, and come down to one lemma each
  (`UpToDateFits`, `BlankFits`, `LoadingFits`, `HighlightKept`).

Every invariant and every action property of a passing run is stated by a theorem.  Only model-checked: everything under
fairness (`CallsReturn`, `AppliesReturn`, `Drains`, `EverySettles`, `LoadingEnds`), which is out of the prover's reach, as
`ENABLED` is.

## 5. Not modelled

* The parsing of Git's output, and what the desktop service's reads make of it: pure data.
* Of searches: globs, regular expressions and case (a pattern matches or not), dates (as authors, they
  admit a commit or do not), all refs as the scope, progress.
* Of the helper's methods: discovery and refs, one Git read each; encodings and size limits; ranges of a
  diff with a file that ends without a newline.
* Of the editors: file history, the content provider of revision documents, review links and the ranges drawn.
* The project registry: two instances may lose each other's change (`project_store.go:76`), which nothing promises
  against; within one instance a mutex orders the calls.
* Of worktrees: the snapshot is read in one step although it is many Git commands; bare worktrees, the
  commits of detached heads, the sync modes of `Add` (the desktop service passes none), the user's `--force`,
  a worktree below another one that does not ignore it, and a removal that is killed with
  half of the files gone.
* Presentation, packaging, workflows, scripts.
* Remote workspaces (`unsupported` phase): no step leads into or out of it within a session.
* Quick-pick editing of filters in the search view; it changes the draft only, as `Edit` does.

## 6. Plan

Done: coordination, rewrite, worktree changes, caches, server and protocol, extension session, searches,
the helper's requests about files, blame and highlight in the editors.

Done of the proofs: every safety property that a run checks.

Next, in this order:

1. `FrontendRequests` - the request ids of the desktop frontend against late answers,
   composed with what `DesktopService` promises.
2. `ProjectStore` - two processes on the registry file, crash before the rename.

New modules take their runs from those whose questions one instance can answer
(`rewrite_queue` with `rewrite_race`; `desktop_search` with `desktop_switch`).
