-------------------------- MODULE MCMoonSniffFiles --------------------------
(***************************************************************************)
(* Three packets with timestamps of four bits, so that every wrap between   *)
(* two packets and between the taps happens.                                *)
(***************************************************************************)
EXTENDS MoonSniffFiles

Pkt(gap, lat, pre, post, len) ==
  [gap |-> gap, lat |-> lat, pre |-> pre, post |-> post, len |-> len]

\* Latencies below and above half a word and below zero; a packet lost in the
\* device, unstamped at a tap, and one too short for the sequence number.
MC_PACKETS ==
  {Pkt(2, 7, TRUE, "yes", 72), Pkt(6, 9, TRUE, "yes", 80),
   Pkt(3, -1, TRUE, "yes", 72), Pkt(2, 0, TRUE, "lost", 72),
   Pkt(6, 3, FALSE, "yes", 72), Pkt(6, 3, TRUE, "no", 40)}

\* All traces that begin at 10, the packets one gap after the other.
MC_TRACES ==
  {[k \in 1 .. NUM_PKTS |->
      [at |-> 10 + SumOf([j \in 1 .. k |-> p[j].gap], k), lat |-> p[k].lat,
       pre |-> p[k].pre, post |-> p[k].post, len |-> p[k].len]] :
     p \in [1 .. NUM_PKTS -> MC_PACKETS]}

MC_THRESH == -2
=============================================================================
