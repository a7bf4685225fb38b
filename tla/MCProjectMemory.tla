-------------------------- MODULE MCProjectMemory --------------------------
(* Instances of ProjectMemory for TLC. *)
EXTENDS ProjectMemory, TLC

CONSTANTS p1, p2, adr1, adr2, bad

Symmetry == Permutations({p1, p2}) \cup Permutations({adr1, adr2})
=============================================================================
