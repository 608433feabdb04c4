------------------------- MODULE MCIngestionBuffer -------------------------
(* The instance of IngestionBuffer for TLC is all in the cfg files. *)
EXTENDS IngestionBuffer
=============================================================================
