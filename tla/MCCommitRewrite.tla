---------------------------- MODULE MCCommitRewrite ----------------------------
(* Instances of CommitRewrite: main has two commits above the root c0, dev  *)
(* has one.  "apart" and "together" say which process serves a request.     *)
EXTENDS CommitRewrite, TLC

CONSTANTS c0, c1, c2, main, dev, r1, r2, p1, p2

MCOriginParent == c0 :> None @@ c1 :> c0 @@ c2 :> c1
MCOriginRefs   == main :> c2 @@ dev :> c1

Apart    == r1 :> p1 @@ r2 :> p2
Together == r1 :> p1 @@ r2 :> p1
================================================================================
