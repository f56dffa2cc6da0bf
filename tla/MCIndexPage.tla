----------------------------- MODULE MCIndexPage -----------------------------
(* Instances of IndexPage for TLC. *)
EXTENDS IndexPage, TLC

CONSTANTS r1, r2, r3, w0, w1, t1, p1, p2

OneRange == [d \in Days |-> w0]

Symmetry == Permutations(Requests) \cup Permutations(Posts)
=============================================================================
