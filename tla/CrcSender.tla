----------------------------- MODULE CrcSender ------------------------------
(***************************************************************************)
(* The direct users of RateLimiterCRC: rateLimiterCRC:sendWithDelay of      *)
(* lua/crc-ratecontrol.lua with packets whose gap pkt:setDelay has set, and *)
(* a C++ caller that may delete entries of the batch and change the filler  *)
(* size between calls.                                                      *)
(***************************************************************************)
EXTENDS CrcRateControl

CONSTANTS
  Loads,      \* batches a caller may pass
  Empties,    \* numbers of fillers passed to empty_delay
  MaxFrames   \* no new call once so many frames have been made

ASSUME SenderAssumption ==
  /\ Loads \subseteq Seq(LoadPacket \cup {NULL})
  /\ Empties \subseteq Nat
  /\ MaxFrames \in Nat

sendWithDelay(load) ==
  /\ tx.n + lost.n < MaxFrames
  /\ send_packets(load)

Fill(num) ==
  /\ tx.n + lost.n < MaxFrames
  /\ empty_delay(num)

SenderNext ==
  \/ \E load \in Loads : sendWithDelay(load)
  \/ \E num \in Empties : Fill(num)
  \/ \E size \in InvalidSizes : set_invalid_packet_size(size)
  \/ SendPacketsStep

SenderSpec == CrcInit /\ [][SenderNext]_crcVars /\ WF_crcVars(SendPacketsStep)

=============================================================================
