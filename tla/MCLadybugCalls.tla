--------------------------- MODULE MCLadybugCalls ---------------------------
(* An instance of LadybugCalls for TLC.                                     *)
EXTENDS LadybugCalls, TLC

CONSTANTS world, s1, b1, p1, c1, c2

ConnSymmetry == Permutations(Conns)

StoreView == <<store, lastId, restarts, db>>
=============================================================================
