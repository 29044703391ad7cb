----------------------------- MODULE Repositories -----------------------------
(***************************************************************************)
(* What the parts of the extension agree on.                               *)
(***************************************************************************)

CONSTANTS
  Roots,   \* repository roots
  None     \* undefined
=============================================================================
