----------------------------- MODULE HelperReads -----------------------------
(***************************************************************************)
(* One request of the helper that reads the repository, a search or a      *)
(* request about a file, while the user works in it.  The helper runs its  *)
(* requests side by side (HelperServer); reading, they do not meet.        *)
(***************************************************************************)
EXTENDS SearchEngine, HelperMethods

readVars == <<environmentVars, stage, searchVars, methodVars>>

Init == HistoryInit /\ SearchInit /\ MethodsInit

Next ==
  \/ request.method = "search.run" /\ SearchNext /\ UNCHANGED methodVars
  \/ request.method \in FileMethods /\ MethodsNext /\ UNCHANGED searchVars

Spec == Init /\ [][Next]_readVars
=============================================================================
