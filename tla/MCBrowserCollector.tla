------------------------ MODULE MCBrowserCollector ------------------------
(***************************************************************************)
(* BrowserCollector for TLC.                                               *)
(***************************************************************************)
EXTENDS BrowserCollector

=============================================================================
