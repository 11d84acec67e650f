---------------------------- MODULE MCMemoryCore ----------------------------
(* Instances of MemoryCore for TLC.                                         *)
EXTENDS MemoryCore, TLC

CONSTANTS world, s1, b1, b2, p1

\* No guard reads the outcome, and no property but its type: states that
\* differ only in it are one state of the search.
StoreView == <<store, lastId, restarts>>

BeliefSymmetry == Permutations({b1, b2})
=============================================================================
