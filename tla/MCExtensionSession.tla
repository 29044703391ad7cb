------------------------- MODULE MCExtensionSession -------------------------
EXTENDS ExtensionSession, TLC

CONSTANTS R1, R2, Dir, D1, D2, Bad

\* A directory of some repository, a root, and a revision's target that has to be
\* found from either of two candidates.
MCTargets ==
  {[candidates |-> <<Dir>>, expected |-> None],
   [candidates |-> <<R2>>, expected |-> None],
   [candidates |-> <<Dir, R2>>, expected |-> R2]}
=============================================================================
