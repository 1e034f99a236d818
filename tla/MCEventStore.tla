---------------------------- MODULE MCEventStore ----------------------------
(***************************************************************************)
(* EventStore for TLC.                                                     *)
(***************************************************************************)
EXTENDS EventStore, TLC

Symmetry == Permutations(Conns) \cup Permutations(Events)

=============================================================================
