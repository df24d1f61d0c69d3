------------------------- MODULE MCLaunchTimestamp --------------------------
(***************************************************************************)
(* LaunchTimestamp for TLC: 3 ns for 2 bytes, batches of at most two        *)
(* packets.  MIN_PACKET_SIZE is above both filler sizes, as with the default *)
(* rate that launchTimer's new leaves crc-ratecontrol with: gaps below 11   *)
(* bytes are carried over.  The loop starts with 14 bytes on the wire, so   *)
(* the goals are far too late, slightly late, on time and far ahead.        *)
(***************************************************************************)
EXTENDS LaunchTimestamp

MCPackets == [goal : {5, 20, 31, 44, 60}, len : {2}]
MCBufs == UNION {[1 .. n -> MCPackets] : n \in 1 .. 2}

=============================================================================
