------------------------------ MODULE MCWorker ------------------------------
(* Worker on a buffer of two lines and batches of at most two. *)
EXTENDS Worker

MCLineBytes(n) == 1
=============================================================================
