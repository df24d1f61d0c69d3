------------------------------ MODULE FlowLife ------------------------------
(***************************************************************************)
(* What the interface promises about the life of its flows, whatever task   *)
(* does what: a flow is idle, active, then over, and a monitor (a task that *)
(* counts, measures, answers ARP requests or prints statistics for flows)   *)
(* stays until each of its flows has been over, or the program is stopped.  *)
(* A flow that is sent by several tasks may come back after it was over.    *)
(***************************************************************************)
CONSTANT
  Stubborn       \* monitors that do not ask whether the program is stopped

VARIABLES
  watched,       \* watched[m]: the flows of monitor m
  several,       \* flows sent by more than one task
  life,          \* life[f]: "idle", "active" or "over"
  ended,         \* flows that have been over
  watching,      \* monitors at work
  stopped

setup == <<watched, several>>
vars == <<setup, life, ended, watching, stopped>>

Init ==
  /\ life = [f \in DOMAIN life |-> "idle"]
  /\ ended = {} /\ watching = {} /\ stopped = FALSE

Begin(f) ==
  /\ life[f] = "idle" \/ (f \in several /\ life[f] = "over")
  /\ life' = [life EXCEPT ![f] = "active"]
  /\ UNCHANGED <<setup, ended, watching, stopped>>

End(f) ==
  /\ life[f] = "active"
  /\ life' = [life EXCEPT ![f] = "over"]
  /\ ended' = ended \union {f}
  /\ UNCHANGED <<setup, watching, stopped>>

\* Monitors are started one by one, or several with one task.
Join ==
  /\ watching \subseteq watching' /\ watching' \subseteq DOMAIN watched
  /\ UNCHANGED <<setup, life, ended, stopped>>

\* They leave likewise.
Leave ==
  /\ watching' \subseteq watching
  /\ \A m \in watching \ watching' :
       watched[m] \subseteq ended \/ (stopped /\ m \notin Stubborn)
  /\ UNCHANGED <<setup, life, ended, stopped>>

Stop ==
  /\ stopped' = TRUE
  /\ UNCHANGED <<setup, life, ended, watching>>

Next ==
  \/ \E f \in DOMAIN life : Begin(f) \/ End(f)
  \/ Join \/ Leave \/ Stop

Spec == Init /\ [][Next]_vars
=============================================================================
