----------------------------- MODULE MCArchiver -----------------------------
(* The archiver that flushes at two rows and buffers at most three, and the *)
(* importer of three days' dumps of two batches each, within a window of    *)
(* two days.                                                                *)
EXTENDS ArchiverService
=============================================================================
