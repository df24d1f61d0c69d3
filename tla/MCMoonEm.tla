------------------------------ MODULE MCMoonEm ------------------------------
(***************************************************************************)
(* Instances of MoonEm with every receiver loop.                            *)
(***************************************************************************)
EXTENDS MoonEm

MC_LOOPS == SwLoops \union HwLoops
=============================================================================
