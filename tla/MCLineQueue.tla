---------------------------- MODULE MCLineQueue -----------------------------
(* LineQueue on a buffer of three lines and batches of at most three; every *)
(* fourth line is so long that it closes its batch with one other.          *)
EXTENDS LineQueue

MCLineBytes(n) == IF n % 4 = 0 THEN 4 ELSE 1
=============================================================================
