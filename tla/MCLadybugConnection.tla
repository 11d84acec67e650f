------------------------ MODULE MCLadybugConnection ------------------------
(* An instance of LadybugConnection for TLC.                                *)
EXTENDS LadybugConnection, TLC

CONSTANTS b1, b2, dx, bad

TwoTables == <<"Scope", "HAS_REVISION">>

BackendSymmetry == Permutations({b1, b2})
=============================================================================
