---------------------------- MODULE MCFlowTasks -----------------------------
(***************************************************************************)
(* Command lines with one and two flows on two devices.                     *)
(***************************************************************************)
EXTENDS FlowTasks

Flow(tx, rx, options) ==
  [tx |-> tx, rx |-> rx, arp |-> "arp" \in options, ts |-> "ts" \in options,
   limit |-> "limit" \in options, udp |-> "udp" \in options, mac |-> "mac" \in options]

MC_CONFIGS ==
  {\* a flow with ARP and one with timestamps
   <<Flow(<<0>>, <<>>, {"arp", "mac", "limit"}), Flow(<<1>>, <<1>>, {"ts", "limit"})>>,
   \* a flow with two senders
   <<Flow(<<0, 1>>, <<1>>, {"arp", "mac", "limit"})>>,
   \* a flow sent twice on one device beside one received twice on another
   <<Flow(<<0, 0>>, <<>>, {}), Flow(<<>>, <<1, 1>>, {"arp"})>>,
   \* everything, until the program is stopped
   <<Flow(<<0>>, <<1>>, {"arp", "mac", "ts", "udp"})>>,
   \* timestamps for UDP and for other packets
   <<Flow(<<0>>, <<1>>, {"ts", "udp"}), Flow(<<1>>, <<0>>, {"ts", "limit"})>>,
   \* a second ARP flow on a device needs no MAC, the first on another does
   <<Flow(<<0>>, <<>>, {"arp", "mac"}), Flow(<<0, 1>>, <<>>, {"arp"})>>,
   \* nothing to send
   <<Flow(<<>>, <<1>>, {"limit"})>>}
=============================================================================
