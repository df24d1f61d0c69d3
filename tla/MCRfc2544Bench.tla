--------------------------- MODULE MCRfc2544Bench ---------------------------
(***************************************************************************)
(* Instance of the throughput and frame loss benchmarks: a link rate of 20, *)
(* one frame per load task.                                                 *)
(***************************************************************************)
EXTENDS Rfc2544Bench
=============================================================================
