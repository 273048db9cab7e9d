--------------------------- MODULE MCControlPlane ---------------------------
(* The control plane with two accounts and two keys; two GitHub accounts,   *)
(* a Google account and one address in two spellings; two callers who know  *)
(* different IMO numbers of a vessel; and two clients of the map.  The sets *)
(* of one size share their model values, so that few permutations serve     *)
(* every part.                                                              *)
EXTENDS ControlService, TLC

MCProviderOf(i) == IF i = "o" THEN "google" ELSE "github"
MCLowerCase(a) == IF a = "A@" THEN "a@" ELSE a

Symmetry == Permutations(User) \cup Permutations(Key)
=============================================================================
