---------------------------- MODULE MCMemoryUnit ----------------------------
(* Instances of MemoryUnit for TLC.                                         *)
EXTENDS MemoryUnit

CONSTANTS world, s1, b1, p1
=============================================================================
