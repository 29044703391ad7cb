--------------------------- MODULE RepositorySession ---------------------------
(***************************************************************************)
(* What the desktop backend promises about its single active repository,   *)
(* whatever the interleaving of its API calls: the active repository is    *)
(* replaced only when no call that still counts is attached to another     *)
(* one, and of the calls that share a read surface only one counts.  A     *)
(* call stops counting when it answers or when it is condemned to be       *)
(* cancelled.  DesktopService implements this specification.               *)
(***************************************************************************)
CONSTANTS
  Calls,     \* API calls that read or change the active repository
  Repos,     \* repositories the user may open
  NoRepo,    \* no repository
  Surfaces,  \* read surfaces on which the latest request wins
  Surface    \* Surface[c] is the surface of c, or a value outside Surfaces

VARIABLES
  current,   \* the active repository
  attached   \* attached[c] is the repository c counts for, or NoRepo

sessionVars == <<current, attached>>

SessionInit ==
  /\ current = NoRepo
  /\ attached = [c \in Calls |-> NoRepo]

\* A call starts to count for the active repository, alone on its surface.
Attach(c) ==
  /\ current # NoRepo
  /\ \A d \in Calls \ {c} :
        Surface[c] \in Surfaces /\ Surface[d] = Surface[c] => attached[d] = NoRepo
  /\ attached' = [attached EXCEPT ![c] = current]
  /\ UNCHANGED current

\* Some calls answer, or are condemned: they count no more.
Detach(S) ==
  /\ attached' = [c \in Calls |-> IF c \in S THEN NoRepo ELSE attached[c]]
  /\ UNCHANGED current

\* The active repository is replaced while nobody counts for another one.
Install(r) ==
  /\ \A c \in Calls : attached[c] = NoRepo
  /\ current' = r
  /\ UNCHANGED attached

SessionNext ==
  \/ \E c \in Calls : Attach(c)
  \/ \E S \in SUBSET Calls : Detach(S)
  \/ \E r \in Repos : Install(r)

SessionSpec == SessionInit /\ [][SessionNext]_sessionVars
================================================================================
