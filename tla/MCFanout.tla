------------------------------ MODULE MCFanout ------------------------------
(* Fanout in a world of 8 x 8, covered by at most four cells a box: one box *)
(* that refines to four cells of two characters, one so large that its      *)
(* cover stays coarse and shadows two of them, and a position in each part. *)
EXTENDS Fanout

MCPosition == {<<1, 1>>, <<3, 4>>}
MCBoxes == {FromCorners(<<0, 3>>, <<3, -1>>), FromCorners(<<2, 2>>, <<6, 6>>)}
MCTypeFilters == {{}, {"static"}}
=============================================================================
