-------------------------- MODULE MCMoonSniffLive ---------------------------
(***************************************************************************)
(* MoonSniffLive for TLC: three packets, two of which may carry the same    *)
(* identifier, and identifiers that share a slot.                           *)
(***************************************************************************)
EXTENDS MoonSniffLive

MCPreTs == [n \in 1 .. MaxPackets |-> 10 * n]

=============================================================================
