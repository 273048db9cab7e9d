----------------------------- MODULE DropOldest -----------------------------
(***************************************************************************)
(* What the worker's line buffer promises, without locks or permits.       *)
(*                                                                         *)
(* Lines are numbered in the order the reader puts them.  The buffer holds *)
(* the consecutive lines oldest..put, never more than Capacity of them: a  *)
(* put into a full buffer gives up the oldest line, in the same step.  The *)
(* writer takes lines one by one, always the oldest, and hands them on in  *)
(* batches.                                                                *)
(***************************************************************************)
EXTENDS Integers, Sequences

CONSTANTS Capacity, MaxPushed

VARIABLES
  put,      \* lines put so far; the newest line has this number
  oldest,   \* the oldest line in the buffer; put + 1 when it is empty
  batch     \* the lines taken since the last batch was handed on

vars == <<put, oldest, batch>>

Init == put = 0 /\ oldest = 1 /\ batch = <<>>

Put ==
  /\ put < MaxPushed
  /\ put' = put + 1
  /\ oldest' = IF put - oldest + 1 >= Capacity THEN oldest + 1 ELSE oldest
  /\ UNCHANGED batch

Take ==
  /\ oldest <= put
  /\ oldest' = oldest + 1
  /\ batch' = Append(batch, oldest)
  /\ UNCHANGED put

HandOn ==
  /\ batch # <<>>
  /\ batch' = <<>>
  /\ UNCHANGED <<put, oldest>>

Next == Put \/ Take \/ HandOn

Safe == Init /\ [][Next]_vars

\* A buffered line is taken or given up, and a batch is handed on.
Spec == Safe /\ WF_vars(Take) /\ WF_vars(HandOn)
=============================================================================
