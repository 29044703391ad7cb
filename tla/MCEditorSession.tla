--------------------------- MODULE MCEditorSession ---------------------------
EXTENDS EditorSession, TLC

CONSTANTS F, G, s1, s2, R1, R2, c1, c2

MCRoot == F :> R1 @@ G :> R2 @@ s1 :> R1 @@ s2 :> R1
MCPath == s1 :> F @@ s2 :> F
MCSaved == F :> c1 @@ G :> c1
MCBlob == s1 :> c1 @@ s2 :> c2
=============================================================================
