------------------------------ MODULE MCSearch ------------------------------
(***************************************************************************)
(* Search for TLC: an hour is two ticks of the clock, "log" is a substring *)
(* of "login", and "main.cpp" one of "domain.cpp".                         *)
(***************************************************************************)
EXTENDS Search, TLC

CONSTANTS early, late, log, login, main_cpp, domain_cpp, opened, modified

Pair(x, y)  == (early :> x) @@ (late :> y)
MCStamp     == Pair(1, 2)
MCKeywords  == Pair({log}, {login})
MCApp       == Pair({main_cpp}, {domain_cpp})
MCType      == Pair(opened, modified)
MCWithin    == {<<w, w>> : w \in {log, login, main_cpp, domain_cpp}}
                 \cup {<<log, login>>, <<main_cpp, domain_cpp>>}

=============================================================================
