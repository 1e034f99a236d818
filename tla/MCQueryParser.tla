--------------------------- MODULE MCQueryParser ---------------------------
(***************************************************************************)
(* QueryParser for TLC: the first second and the last two of eight days    *)
(* in a row in November 2026.                                              *)
(***************************************************************************)
EXTENDS QueryParser

MCClocks == {(20770 + d) * 86400 + s : d \in 0..7, s \in {0, 86398, 86399}}

=============================================================================
