---------------------------- MODULE MCDataStore ----------------------------
(* Bounds for the durable store. *)
EXTENDS DataStore, TLC

Symmetry == Permutations(Store) \cup Permutations(Cell)
=============================================================================
