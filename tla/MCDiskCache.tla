----------------------------- MODULE MCDiskCache -----------------------------
(* Instances of DiskCache for TLC. *)
EXTENDS DiskCache, TLC

CONSTANTS p1, p2, k1, k2, k3, small, large

\* Two small values fill a cache of two bytes; the large one is larger than it.
Sizes == [v \in {small, large} |-> IF v = small THEN 1 ELSE 3]

\* No operation tells goroutines or keys apart.
Alike == {f @@ g : f \in Permutations(Procs), g \in Permutations(Keys)}
=============================================================================
