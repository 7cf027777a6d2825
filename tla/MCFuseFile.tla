------------------------------ MODULE MCFuseFile ------------------------------
(* Instances of FuseFile for TLC. *)
EXTENDS FuseFile, TLC

CONSTANTS p1, p2, x, y

\* Neither requests nor blocks are told apart.
Alike == {f @@ g : f \in Permutations(Procs), g \in Permutations(Blocks)}
=============================================================================
