------------------------- MODULE MCConcurrentQueue -------------------------
(***************************************************************************)
(* ConcurrentQueue for TLC.                                                *)
(***************************************************************************)
EXTENDS ConcurrentQueue

=============================================================================
