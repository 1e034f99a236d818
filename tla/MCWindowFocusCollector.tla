----------------------- MODULE MCWindowFocusCollector -----------------------
(***************************************************************************)
(* WindowFocusCollector for TLC.  The owner may stop for good after its    *)
(* last stop(): the bound on start() is then reached.                      *)
(***************************************************************************)
EXTENDS WindowFocusCollector

=============================================================================
