---------------------------- MODULE MCVSCodeBuffer ----------------------------
(* Small instances of VSCodeBuffer for TLC.                                 *)
EXTENDS VSCodeBuffer, TLC

CONSTANTS e1, e2, l1, l2, w1, w2

OneWindow == [t \in {e1, e2, l1, l2} |-> w1]

\* Each window captures one event and runs one retry loop.
TwoWindows == e1 :> w1 @@ l1 :> w1 @@ e2 :> w2 @@ l2 :> w2
=============================================================================
