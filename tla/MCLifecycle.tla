---------------------------- MODULE MCLifecycle -----------------------------
(* Lifecycle with the sets that TLC needs: interchangeable nodes.          *)
EXTENDS Lifecycle, TLC

NodeSymmetry == Permutations(Nodes)
=============================================================================
