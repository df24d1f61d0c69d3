-------------------------- MODULE MCMoonEmLossModel -------------------------
(***************************************************************************)
(* Loss models with random numbers of four bits.                            *)
(***************************************************************************)
EXTENDS MoonEmLoss
=============================================================================
