------------------------- MODULE MCSessionIndexHook -------------------------
(* Instances of SessionIndexHook for TLC. *)
EXTENDS SessionIndexHook, TLC

CONSTANTS r1, r2, r3, w0, w1, t1

\* The default range moves with the date.
MovingRange == [d \in Days |-> IF d = 0 THEN w0 ELSE w1]

Symmetry == Permutations(Requests)
=============================================================================
