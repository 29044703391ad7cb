---------------------------- MODULE MCDesktopService ----------------------------
(* Instances of DesktopService: which calls the environment makes.          *)
EXTENDS DesktopService, TLC

CONSTANTS OnHistory   \* the reads of the surface "history"

MCSurfaces == {"history"}

MCSurface == [c \in Calls |-> IF c \in OnHistory THEN "history" ELSE NoSurface]

\* Calls of one kind differ only in name, where no surface tells them apart.
Symmetric == Permutations(Opens) \cup Permutations(Searches)
               \cup Permutations(Mutations) \cup Permutations(Repos)
================================================================================
