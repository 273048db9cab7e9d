--------------------------- MODULE MCKeyValidator ---------------------------
(* KeyValidator on one key (entries of different keys do not interact). *)
EXTENDS KeyValidator, TLC

Callers == Permutations(Caller)
=============================================================================
