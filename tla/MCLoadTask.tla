----------------------------- MODULE MCLoadTask -----------------------------
(***************************************************************************)
(* The rate limiter and its users for TLC: arrays and batches of two, a ring *)
(* of three packets, a restart after two idle ticks, no limit, a limit of 0, *)
(* and limits below and above an array.                                     *)
(***************************************************************************)
EXTENDS LoadTask

MC_DataLimits == {NoLimit, 0, 1, 3, 4}

=============================================================================
