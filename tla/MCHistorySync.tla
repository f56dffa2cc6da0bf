--------------------------- MODULE MCHistorySync ---------------------------
(***************************************************************************)
(* Instances of HistorySync for TLC.                                       *)
(***************************************************************************)
EXTENDS HistorySync, TLC

CONSTANTS r1, r2, r3, i1, i2, d1

\* Two sources with ids of their own.
OneId == 1 :> i1
OneIdEach == 1 :> i1 @@ 2 :> i2
\* Both sources declare the same id: a legacy file of a migrated session.
SameId == 1 :> i1 @@ 2 :> i1

Symmetry == Permutations(Requests)
=============================================================================
