---------------------------- MODULE MCMindTrace ----------------------------
(***************************************************************************)
(* MindTrace for TLC.                                                      *)
(***************************************************************************)
EXTENDS MindTrace

=============================================================================
