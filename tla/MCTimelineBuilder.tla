------------------------- MODULE MCTimelineBuilder -------------------------
(***************************************************************************)
(* TimelineBuilder for TLC: every list of up to four events.               *)
(***************************************************************************)
EXTENDS TimelineBuilder, TLC

Symmetry == Permutations(Apps)

=============================================================================
