----------------------------- MODULE MCPipeline -----------------------------
(* Pipeline with interchangeable replicas, cells and names. *)
EXTENDS Pipeline, TLC

Symmetry == Permutations(Instance) \cup Permutations(Cell) \cup Permutations(Name)
=============================================================================
