--------------------------- MODULE MCSnapshotter ----------------------------
(* Snapshotter with the constants of its cfg files. *)
EXTENDS Snapshotter
=============================================================================
