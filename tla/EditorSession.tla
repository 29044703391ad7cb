----------------------------- MODULE EditorSession -----------------------------
(***************************************************************************)
(* What the extension shows in the editors: the blame of a line and the    *)
(* highlight of a selected commit (apps/vscode/src/editor/controllers.ts,  *)
(* LineBlameController and CommitHighlightController), with the refresh of *)
(* extension.ts that tells them of the repository.                         *)
(*                                                                         *)
(* One step is one event of VS Code with all its listeners, or what one    *)
(* answer does up to the next await.  A call whose token is cancelled is   *)
(* rejected at once (HelperProtocol), and its continuation does nothing:   *)
(* there is one call of each controller that can still do something.      *)
(* The read-only document of a revision is named by its selection.         *)
(***************************************************************************)
EXTENDS Repositories, Integers, FiniteSets

CONSTANTS
  Columns,      \* editor groups, each with one visible editor at most
  Files,        \* working files
  Selections,   \* what can be selected: a file of a commit
  Deleted,      \* the selections whose commit deletes the file
  Root,         \* [Files \cup Selections -> Roots]
  Path,         \* [Selections -> Files]: the working file of the same path
  Contents,     \* texts of a working file
  Saved,        \* [Files -> Contents]: the texts on disk when the extension starts
  Blob,         \* [Selections -> Contents]: the file in its commit
  Windows,      \* the lines blame can be asked for
  MaxEvents     \* bound: what the user does

ASSUME EditorAssumption ==
  /\ Deleted \subseteq Selections
  /\ Files \cap Selections = {}
  /\ None \notin Columns \cup Files \cup Selections \cup Roots \cup Contents \cup Windows
  /\ Root \in [Files \cup Selections -> Roots]
  /\ Path \in [Selections -> Files]
  /\ Saved \in [Files -> Contents]
  /\ Blob \in [Selections -> Contents]
  /\ MaxEvents \in Nat

VARIABLES
  shown,       \* what each column shows
  active,      \* the column of the active editor
  content,     \* the text of each working file
  window,      \* the lines to blame under the cursor, mode and visible ranges
  session,     \* the repository of the runtime
  refreshing,  \* the newest refresh waits for the runtime
  shows,       \* documents VS Code has been told to show
  events,      \* what the user has done so far
  timer,       \* LineBlameController: an update is scheduled
  asked,       \* the blame that is awaited
  blamed,      \* what each column shows of a blame
  highlight    \* CommitHighlightController

editorVars == <<shown, active, content, window, session, refreshing, shows, events>>
blameVars == <<timer, asked, blamed>>
allEditorVars == <<editorVars, blameVars, highlight>>

Documents == Files \cup Selections
NoCall == [doc |-> None]
NoLoad == [of |-> None]

\* activeTextEditor's document.
Document(s, a) == IF a = None THEN None ELSE s[a]

-----------------------------------------------------------------------------
(* CommitHighlightController: what its methods make of its fields.          *)

clearDecorations(h) == [h EXCEPT !.marks = [c \in Columns |-> None]]

clear(h) ==
  clearDecorations([h EXCEPT !.selection = None, !.root = None, !.prepared = None,
                             !.load = NoLoad, !.upd = NoCall])

applyDecorations(h, column, selection) == [h EXCEPT !.marks[column] = selection, !.upd = NoCall]

\* update() up to its first await, for a document in a column and a session.
update(h, doc, column, root) ==
  LET idle == [h EXCEPT !.upd = NoCall]
      asks == [doc |-> doc, column |-> column, selection |-> h.selection, prepared |-> h.prepared # None,
               stage |-> IF doc \in Files THEN "content" ELSE "diff"]
  IN CASE None \in {doc, root, h.selection} -> clearDecorations(idle)
       [] None \notin {doc, root, h.selection} /\ h.root # root -> clear(h)
       [] None \notin {doc, root, h.selection} /\ h.root = root ->
            IF Root[doc] # root \/ doc \notin {h.selection, Path[h.selection]} THEN clearDecorations(idle)
            ELSE IF doc = h.selection /\ h.prepared # None THEN applyDecorations(h, column, h.selection)
            ELSE [h EXCEPT !.upd = asks]

\* select() up to its first await: the update that is awaited goes on.
select(h, s, root) ==
  LET started == [h EXCEPT !.suppressed = None, !.load = NoLoad] IN
  IF root = None THEN clear(started)
  ELSE clearDecorations([started EXCEPT !.selection = None, !.root = None, !.prepared = None,
                                        !.load = [of |-> s, root |-> root, stage |-> "diff"]])

RestoresAlways(h, s, column, root) ==   \* mutant: restore() does not ask the gate
  IF h.prepared = s /\ h.root = root /\ h.selection = s THEN update(h, s, column, root)
  ELSE clearDecorations([h EXCEPT !.selection = s, !.root = root, !.prepared = None,
                                  !.load = [of |-> s, root |-> root, stage |-> "restoring"]])

\* restore() up to its first await.  RevisionRestoreGate suppresses one document.
restore(h, s, column, root) ==
  LET allowed == [h EXCEPT !.suppressed = None] IN
  IF h.suppressed = s THEN clearDecorations(h)
  ELSE IF h.prepared = s /\ h.root = root /\ h.selection = s THEN update(allowed, s, column, root)
  ELSE clearDecorations([allowed EXCEPT !.selection = s, !.root = root, !.prepared = None,
                                        !.load = [of |-> s, root |-> root, stage |-> "restoring"]])

-----------------------------------------------------------------------------
EditorInit ==
  /\ shown = [c \in Columns |-> None]
  /\ active = None
  /\ content = Saved
  /\ window \in Windows \cup {None}
  /\ session = None
  /\ refreshing = TRUE
  /\ shows = {}
  /\ events = 0
  /\ timer = FALSE
  /\ asked = NoCall
  /\ blamed = [c \in Columns |-> None]
  /\ highlight = [selection |-> None, root |-> None, prepared |-> None, suppressed |-> None,
                  load |-> NoLoad, upd |-> NoCall, marks |-> [c \in Columns |-> None]]

-----------------------------------------------------------------------------
(* The events of VS Code and what the listeners do about them.              *)

Happens == events < MaxEvents /\ events' = events + 1

\* Decorations go with the editor they are in.
Left(marks, s) == [c \in Columns |-> IF s[c] = shown[c] THEN marks[c] ELSE None]

\* The editors become s, with a active: onDidChangeActiveTextEditor.
Focus(s, a) ==
  /\ shown' = s
  /\ active' = a
  /\ refreshing' = TRUE
  /\ timer' = TRUE
  /\ blamed' = [c \in Columns |-> IF c = a THEN Left(blamed, s)[c] ELSE None]
  /\ highlight' = update([highlight EXCEPT !.marks = Left(@, s)], Document(s, a), a, session)
  /\ UNCHANGED <<content, window, session, asked>>

\* The user opens a document in a column, or goes to where it is open.
Activate(c, d) ==
  /\ Happens
  /\ shown[c] # d \/ active # c
  /\ Focus([shown EXCEPT ![c] = d], c)
  /\ UNCHANGED shows

\* The user closes an editor; after the active one another becomes active, or none.
Close(c) ==
  LET closed == [shown EXCEPT ![c] = None] IN
  /\ Happens
  /\ shown[c] # None
  /\ IF active = c
       THEN \E a \in {b \in Columns : closed[b] # None} \cup {None} : Focus(closed, a)
       ELSE /\ shown' = closed
            /\ blamed' = Left(blamed, closed)
            /\ highlight' = [highlight EXCEPT !.marks = Left(@, closed)]
            /\ UNCHANGED <<active, content, window, session, refreshing, timer, asked>>
  /\ UNCHANGED shows

\* A working file changes: its active editor is scheduled for a blame, and a
\* highlight that is selected is cleared.
EditText(f, text) ==
  /\ Happens
  /\ content[f] # text
  /\ content' = [content EXCEPT ![f] = text]
  /\ IF Document(shown, active) = f
       THEN /\ timer' = TRUE
            /\ highlight' = IF highlight.selection = None THEN highlight ELSE clear(highlight)
       ELSE UNCHANGED <<timer, highlight>>
  /\ UNCHANGED <<shown, active, window, session, refreshing, shows, asked, blamed>>

\* The cursor moves, the editor scrolls, or the blame is configured.
Move(w) ==
  /\ Happens
  /\ window # w
  /\ window' = w
  /\ timer' = TRUE
  /\ UNCHANGED <<shown, active, content, session, refreshing, shows, asked, blamed, highlight>>

\* The command Refresh, or trust that is granted.
RefreshAgain ==
  /\ Happens
  /\ refreshing' = TRUE
  /\ UNCHANGED <<shown, active, content, window, session, shows, blameVars, highlight>>

\* The user selects a file of a commit in a tree.
Select(s) ==
  /\ Happens
  /\ highlight' = select(highlight, s, session)
  /\ UNCHANGED <<shown, active, content, window, session, refreshing, shows, blameVars>>

\* clearByUser.
ClearByUser ==
  LET doc == Document(shown, active)
      uri == IF doc \in Selections THEN doc ELSE highlight.prepared
  IN /\ Happens
     /\ highlight' = [clear(highlight) EXCEPT !.suppressed = uri]
     /\ UNCHANGED <<shown, active, content, window, session, refreshing, shows, blameVars>>

\* The runtime on its way to the newest target (ExtensionSession).
SessionChanges ==
  /\ refreshing
  /\ session' \in (Roots \cup {None}) \ {session}
  /\ UNCHANGED <<shown, active, content, window, refreshing, shows, events, blameVars, highlight>>

\* The newest refresh goes on after runtime.refresh.
RefreshContinues ==
  LET doc == Document(shown, active) IN
  /\ refreshing
  /\ refreshing' = FALSE
  /\ IF session = None
       THEN /\ asked' = NoCall
            /\ blamed' = [c \in Columns |-> None]
            /\ highlight' = clear(highlight)
            /\ UNCHANGED timer
       ELSE /\ timer' = TRUE
            /\ highlight' = IF doc \in Selections /\ Root[doc] = session
                              THEN restore(highlight, doc, active, session)
                              ELSE update(highlight, doc, active, session)
            /\ UNCHANGED <<asked, blamed>>
  /\ UNCHANGED <<shown, active, content, window, session, shows, events>>

-----------------------------------------------------------------------------
(* LineBlameController.                                                     *)

\* Its update(), when the timer fires: the call before it is cancelled.
BlameUpdate ==
  LET doc == Document(shown, active) IN
  /\ timer
  /\ timer' = FALSE
  /\ IF doc \in Files /\ session # None /\ Root[doc] = session /\ window # None
       THEN /\ asked' = [doc |-> doc, column |-> active, text |-> content[doc], window |-> window,
                         root |-> session]
            /\ UNCHANGED blamed
       ELSE /\ asked' = NoCall
            /\ blamed' = IF active = None THEN blamed ELSE [blamed EXCEPT ![active] = None]
  /\ UNCHANGED <<editorVars, highlight>>

AppliesAnywhere ==   \* mutant: an answer is shown in the editor it was asked for
  /\ asked # NoCall
  /\ asked' = NoCall
  /\ blamed' = [blamed EXCEPT ![asked.column] =
                  [text |-> asked.text, window |-> asked.window, root |-> asked.root]]
  /\ UNCHANGED <<editorVars, timer, highlight>>

\* The answer is about the text that was sent, or about what has been saved since.
BlameAnswers ==
  /\ asked # NoCall
  /\ asked' = NoCall
  /\ IF active = asked.column /\ shown[active] = asked.doc
       THEN \E text \in {asked.text, content[asked.doc]} :
              blamed' = [blamed EXCEPT ![active] =
                           [text |-> text, window |-> asked.window, root |-> asked.root]]
       ELSE UNCHANGED blamed
  /\ UNCHANGED <<editorVars, timer, highlight>>

BlameFails ==
  /\ asked # NoCall
  /\ asked' = NoCall
  /\ blamed' = [blamed EXCEPT ![asked.column] = IF shown[asked.column] = asked.doc THEN None ELSE @]
  /\ UNCHANGED <<editorVars, timer, highlight>>

-----------------------------------------------------------------------------
(* CommitHighlightController, after its awaits.                             *)

Load == highlight.load
Loading(stage) == Load # NoLoad /\ Load.stage = stage

Quiet == UNCHANGED <<shown, active, content, window, session, refreshing, events, blameVars>>

\* select: diff.file, then revision.content, of the first parent if the commit
\* deletes the file.  A commit of another repository is refused.
DiffLoaded ==
  /\ Loading("diff")
  /\ Root[Load.of] = Load.root
  /\ highlight' = [highlight EXCEPT !.load.stage = IF Load.of \in Deleted THEN "preimage" ELSE "content"]
  /\ UNCHANGED shows
  /\ Quiet

ContentLoaded ==
  /\ Loading("content") \/ Loading("preimage")
  /\ highlight' = [highlight EXCEPT !.selection = Load.of, !.root = Load.root, !.prepared = Load.of,
                                    !.load.stage = "opening"]
  /\ UNCHANGED shows
  /\ Quiet

\* openDocumentIfCurrent: what is opened is shown if it is still wanted.
DocumentOpened ==
  /\ Loading("opening")
  /\ highlight' = [highlight EXCEPT !.load.stage = "showing"]
  /\ shows' = shows \cup {Load.of}
  /\ Quiet

\* VS Code shows it, in the active column, whether it is still wanted or not.
DocumentShown(s, c) ==
  /\ s \in shows
  /\ active \in {None, c}
  /\ shows' = shows \ {s}
  /\ IF Document(shown, active) = s
       THEN UNCHANGED <<shown, active, refreshing, content, window, session, blameVars, highlight>>
       ELSE Focus([shown EXCEPT ![c] = s], c)
  /\ UNCHANGED events

ShowReturns ==
  /\ Loading("showing")
  /\ Load.of \notin shows
  /\ LET done == [highlight EXCEPT !.load = NoLoad] IN
     highlight' = IF Document(shown, active) = Load.of THEN update(done, Load.of, active, session) ELSE done
  /\ UNCHANGED shows
  /\ Quiet

\* restore: its diff.file.
Restored ==
  /\ Loading("restoring")
  /\ LET done == [highlight EXCEPT !.load = NoLoad] IN
     highlight' = IF Document(shown, active) = Load.of
                    THEN update([done EXCEPT !.prepared = Load.of], Load.of, active, session)
                    ELSE done
  /\ UNCHANGED shows
  /\ Quiet

LoadFails ==
  /\ Load # NoLoad
  /\ highlight' = clear(highlight)
  /\ shows' = IF Load.stage = "showing" THEN shows \ {Load.of} ELSE shows
  /\ Quiet

Upd == highlight.upd
Updating(stage) == Upd # NoCall /\ Upd.stage = stage
Abandoned == [highlight EXCEPT !.upd = NoCall]
Elsewhere == ~(active = Upd.column /\ shown[active] = Upd.doc)

AnyContent ==   \* mutant: the text of the working file is not compared
  /\ Updating("content")
  /\ Upd.selection \notin Deleted
  /\ highlight' = IF Elsewhere THEN Abandoned
                  ELSE IF Upd.prepared THEN applyDecorations(highlight, Upd.column, Upd.selection)
                  ELSE [highlight EXCEPT !.upd.stage = "diff"]
  /\ UNCHANGED shows
  /\ Quiet

\* update: revision.content, which must be the text of the working file.
ContentCompared ==
  /\ Updating("content")
  /\ Upd.selection \notin Deleted
  /\ highlight' = IF Elsewhere THEN Abandoned
                  ELSE IF content[Upd.doc] # Blob[Upd.selection] THEN clearDecorations(Abandoned)
                  ELSE IF Upd.prepared THEN applyDecorations(highlight, Upd.column, Upd.selection)
                  ELSE [highlight EXCEPT !.upd.stage = "diff"]
  /\ UNCHANGED shows
  /\ Quiet

\* update: diff.file.
DiffAnswers ==
  /\ Updating("diff")
  /\ highlight' = IF Elsewhere THEN Abandoned
                  ELSE applyDecorations(highlight, Upd.column, Upd.selection)
  /\ UNCHANGED shows
  /\ Quiet

UpdateFails ==
  /\ Upd # NoCall
  /\ highlight' = clearDecorations(Abandoned)
  /\ UNCHANGED shows
  /\ Quiet

-----------------------------------------------------------------------------
EditorNext ==
  \/ \E c \in Columns : Close(c) \/ \E d \in Documents : Activate(c, d)
  \/ \E f \in Files, text \in Contents : EditText(f, text)
  \/ \E w \in Windows \cup {None} : Move(w)
  \/ RefreshAgain
  \/ \E s \in Selections : Select(s) \/ \E c \in Columns : DocumentShown(s, c)
  \/ ClearByUser
  \/ SessionChanges
  \/ RefreshContinues
  \/ BlameUpdate \/ BlameAnswers \/ BlameFails
  \/ DiffLoaded \/ ContentLoaded \/ DocumentOpened \/ ShowReturns \/ Restored \/ LoadFails
  \/ ContentCompared \/ DiffAnswers \/ UpdateFails

EditorSpec == EditorInit /\ [][EditorNext]_allEditorVars

-----------------------------------------------------------------------------
(* Properties.                                                              *)

EditorTypeOK ==
  /\ shown \in [Columns -> Documents \cup {None}]
  /\ active \in {c \in Columns : shown[c] # None} \cup {None}
  /\ content \in [Files -> Contents]
  /\ window \in Windows \cup {None}
  /\ session \in Roots \cup {None}
  /\ refreshing \in BOOLEAN
  /\ shows \subseteq Selections
  /\ events \in 0..MaxEvents
  /\ timer \in BOOLEAN
  /\ asked \in [doc : Files, column : Columns, text : Contents, window : Windows, root : Roots]
               \cup {NoCall}
  /\ blamed \in [Columns -> [text : Contents, window : Windows, root : Roots] \cup {None}]
  /\ highlight \in
       [selection : Selections \cup {None}, root : Roots \cup {None}, prepared : Selections \cup {None},
        suppressed : Selections \cup {None},
        load : [of : Selections, root : Roots,
                stage : {"diff", "content", "preimage", "opening", "showing", "restoring"}] \cup {NoLoad},
        upd : [doc : Documents, column : Columns, selection : Selections, prepared : BOOLEAN,
               stage : {"content", "diff"}] \cup {NoCall},
        marks : [Columns -> Selections \cup {None}]]

\* "Document, active editor or repository changes discard earlier results"
\* (docs/vscode.md): whenever no update is scheduled or awaited, a blame is shown
\* in the active editor only, and it is the one of its text, of the lines that are
\* to be blamed and of the session's repository.
BlameAtRest ==
  ~timer /\ asked = NoCall /\ ~refreshing =>
    \A c \in Columns : blamed[c] # None =>
      /\ c = active
      /\ shown[c] \in Files
      /\ Root[shown[c]] = session
      /\ blamed[c] = [text |-> content[shown[c]], window |-> window, root |-> session]

\* Whenever nothing is awaited, the active editor is highlighted for the selected
\* commit of the session's repository or not at all: it shows the document of that
\* revision, or the working file with exactly its text.
MarksAtRest ==
  LET mark == IF active = None THEN None ELSE highlight.marks[active] IN
  Load = NoLoad /\ Upd = NoCall /\ ~refreshing /\ mark # None =>
    /\ mark = highlight.selection
    /\ highlight.root = session
    /\ Root[shown[active]] = session
    /\ shown[active] # mark =>
         shown[active] = Path[mark] /\ content[shown[active]] = Blob[mark]

\* A revision whose highlight the user has cleared stays without one, and nothing
\* that was awaited brings any back, until another one is selected or restored.
SuppressedIsClear ==
  highlight.suppressed # None =>
    /\ highlight.selection = None
    /\ Load = NoLoad
    /\ Upd = NoCall
    /\ \A c \in Columns : highlight.marks[c] = None

-----------------------------------------------------------------------------
(* What the next-state relation preserves.                                  *)

\* A blame is in the active editor; the one that is awaited, unless an update is
\* scheduled, is of that editor and its text, and of the session's repository
\* unless a refresh is on its way.
BlameOnCourse ==
  /\ \A c \in Columns : blamed[c] # None => c = active
  /\ asked # NoCall /\ ~timer =>
       /\ active = asked.column
       /\ shown[active] = asked.doc
       /\ asked.text = content[asked.doc]
       /\ asked.window = window
       /\ Root[asked.doc] = asked.root
       /\ ~refreshing => asked.root = session

\* A document a selection is highlighted in.
Fits(doc, selection) ==
  /\ Root[doc] = highlight.root
  /\ doc \in {selection, Path[selection]}

\* A load that ends with an update of the active editor, or with the editor of
\* the document that it has opened.
Updates ==
  /\ Load # NoLoad
  /\ \/ Load.stage \notin {"showing", "restoring"}
     \/ Load.stage = "showing" /\ Load.of \in shows
     \/ Document(shown, active) = Load.of

\* An update is of the active editor.  Unless a load still ends with one, it is of
\* the selection, whose text a working file has once it is compared; a highlight at
\* rest is of the selection; and the repository is the session's unless a refresh
\* is on its way.
HighlightOnCourse ==
  /\ Upd # NoCall => active = Upd.column /\ shown[active] = Upd.doc
  /\ Upd # NoCall => (Upd.stage = "content" => Upd.doc \in Files)
  /\ ~Updates /\ Upd # NoCall =>
       /\ Upd.selection = highlight.selection
       /\ Fits(Upd.doc, Upd.selection)
       /\ Upd.stage = "diff" /\ Upd.doc # Upd.selection => content[Upd.doc] = Blob[Upd.selection]
       /\ ~refreshing => highlight.root = session
  /\ ~Updates /\ Upd = NoCall /\ active # None =>
       LET mark == highlight.marks[active] IN
       mark # None =>
         /\ mark = highlight.selection
         /\ Fits(shown[active], mark)
         /\ shown[active] # mark => content[shown[active]] = Blob[mark]
         /\ ~refreshing => highlight.root = session

\* What every step preserves, with BlameAtRest.  MarksAtRest follows from it.
EditorInv == EditorTypeOK /\ SuppressedIsClear /\ BlameOnCourse /\ HighlightOnCourse
=============================================================================
