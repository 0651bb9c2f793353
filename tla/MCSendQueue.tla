----------------------------- MODULE MCSendQueue -----------------------------
(* SendQueue with a ring of eight cells and messages of three and five.    *)
EXTENDS SendQueue, TLC

CONSTANTS p1, p2, m1, m2

Lengths == m1 :> 1 @@ m2 :> 3
=============================================================================
