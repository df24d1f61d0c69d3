------------------------------ MODULE Rfc2544 -------------------------------
(***************************************************************************)
(* What the benchmarks of the RFC 2544 suite (rfc2544/benchmarks) have in   *)
(* common: each measures a device under test several times, with frames on  *)
(* their way through the device, until MoonGen is stopped.                  *)
(***************************************************************************)
CONSTANTS GRANULARITIES,   \* granularity, the finest step of a search or sweep
          NUM_ITERATIONS   \* numIterations

VARIABLES running,     \* dpdk.running
          iteration,
          results,     \* one entry per measurement
          in_dut       \* frames inside the device under test
=============================================================================
