----------------------------- MODULE MCCascade -----------------------------
(* Instances of MemoryWalk, and of Cascade in it, for TLC.                  *)
EXTENDS MemoryWalk

CONSTANTS world, s1, b1, p1

\* A depth below zero, the bounds of a graph of three nodes.
SomeDepths == -1 .. 2
=============================================================================
