---------------------------- MODULE MCWriterLock ----------------------------
(* WriterLock on small process trees: every tree, every choice of holders. *)
EXTENDS WriterLock
=============================================================================
