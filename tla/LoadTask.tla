------------------------------ MODULE LoadTask ------------------------------
(***************************************************************************)
(* The load task of the flow interface (interface/threads/load.lua) on top  *)
(* of a software rate limiter: it fills arrays of packets, counts them,     *)
(* hands them to the limiter until the data limit or the time limit of the  *)
(* flow is reached, and stops the limiter.  Or no flow is loaded, and the    *)
(* limiter serves a script (examples/l3-load-latency.lua and its like).     *)
(***************************************************************************)
EXTENDS SoftwareRateLimiter

CONSTANTS
  BUFS,        \* packets of one array
  DataLimits   \* values of the option dataLimit, in packets, or NoLimit

NoLimit == -1

ASSUME LoadAssumption ==
  /\ BUFS \in Nat \ {0} /\ BUFS <= RING_SIZE
  /\ DataLimits \subseteq Nat \cup {NoLimit}

VARIABLES
  at,         \* where loadThread stands
  dataLimit,  \* the option
  data,       \* packets left of it
  expired,    \* the timer of the option timeLimit has run out
  counted     \* packets counted by the flow's counter

taskVars == <<at, dataLimit, data, expired, counted>>
loadVars == <<vars, taskVars>>

LoadInit ==
  /\ LimiterInit
  /\ \/ at = "loop" /\ mode # "custom" /\ dataLimit \in DataLimits
     \/ at = "script" /\ dataLimit = NoLimit
  /\ data = dataLimit
  /\ expired = FALSE
  /\ counted = 0

-----------------------------------------------------------------------------
\* The flow's packets are alike, but for their number.
Bufs(n) == [k \in 1 .. n |-> [id |-> Len(accepted) + k, gap |-> 0]]

\* The loop condition holds: the array is filled and counted, the limit
\* checked.  Without a limit the counter is bounded.
Fill ==
  /\ at = "loop"
  /\ running /\ ~expired
  /\ dataLimit = NoLimit => counted + BUFS <= MaxPackets
  /\ counted' = counted + BUFS
  /\ data' = IF dataLimit # NoLimit THEN data - BUFS ELSE data
  /\ at' = IF dataLimit # NoLimit /\ data' <= 0 THEN "last" ELSE "send"
  /\ UNCHANGED <<vars, dataLimit, expired>>

\* It does not hold any more.
LeaveLoop ==
  /\ at = "loop"
  /\ ~running \/ expired
  /\ at' = "stop"
  /\ UNCHANGED <<vars, dataLimit, data, expired, counted>>

\* sendQueue:send(bufs)
SendArray ==
  /\ at = "send"
  /\ enqueue(Bufs(BUFS))
  /\ at' = "loop"
  /\ UNCHANGED <<limiterVars, now, dataLimit, data, expired, counted>>

SendLast_WholeArray ==
  /\ at = "last"
  /\ enqueue(Bufs(BUFS))
  /\ at' = "stop"
  /\ UNCHANGED <<limiterVars, now, dataLimit, data, expired, counted>>

\* sendQueue:sendN(bufs, bufs.size + data), then break
SendLast ==
  /\ at = "last"
  /\ enqueue(Bufs(BUFS + data))
  /\ at' = "stop"
  /\ UNCHANGED <<limiterVars, now, dataLimit, data, expired, counted>>

\* The ring has no room for the array; or no packet is to be sent, and the number
\* of packets enqueued, which is what the ring answers, looks like a failure.
SendFails ==
  /\ \/ at = "send" /\ Len(ring) + BUFS > RING_SIZE /\ at' = "retry"
     \/ /\ at = "last" /\ at' = "retryLast"
        /\ Len(ring) + BUFS + data > RING_SIZE \/ BUFS + data = 0
  /\ UNCHANGED <<vars, dataLimit, data, expired, counted>>

\* until not mg.running()
AfterRetry ==
  /\ at \in {"retry", "retryLast"}
  /\ at' = IF running THEN (IF at = "retry" THEN "send" ELSE "last")
           ELSE (IF at = "retry" THEN "loop" ELSE "stop")
  /\ UNCHANGED <<vars, dataLimit, data, expired, counted>>

\* sendQueue:stop()
StopQueue ==
  /\ at = "stop"
  /\ SetStop
  /\ at' = "done"
  /\ UNCHANGED <<limiterVars, now, dataLimit, data, expired, counted>>

Load ==
  \/ Fill \/ LeaveLoop \/ SendArray \/ SendLast \/ SendFails \/ AfterRetry
  \/ StopQueue

\* timer:running() turns false.
Expire ==
  /\ ~expired /\ at # "script"
  /\ expired' = TRUE
  /\ UNCHANGED <<vars, at, dataLimit, data, counted>>

LoadNext ==
  \/ Load \/ Expire
  \/ at = "script" /\ Script /\ UNCHANGED taskVars
  \/ (Limiter \/ Tick \/ Shutdown) /\ UNCHANGED taskVars

LoadSpec ==
  /\ LoadInit /\ [][LoadNext]_loadVars
  /\ WF_loadVars(Load)
  /\ WF_loadVars(Limiter /\ UNCHANGED taskVars)
  /\ WF_loadVars(Tick /\ UNCHANGED taskVars)

-----------------------------------------------------------------------------
LoadTypeOK ==
  /\ LimiterTypeOK
  /\ at \in {"loop", "send", "last", "retry", "retryLast", "stop", "done",
            "script"}
  /\ dataLimit \in DataLimits \cup {NoLimit}
  /\ data \in Int
  /\ expired \in BOOLEAN
  /\ counted \in Nat

\* Never more packets than the data limit reach the limiter; when the task
\* ends and neither the program nor the time limit ended it, exactly as many.
LimitRespected ==
  dataLimit # NoLimit =>
    /\ Len(accepted) <= dataLimit
    /\ at \in {"stop", "done"} /\ running /\ ~expired => Len(accepted) = dataLimit

\* "the actual amount of packets sent is the setting of this option" (the
\* description of dataLimit), for one queue: once the task and its limiter are
\* done while the program runs on, and the NIC did not refuse a packet, the NIC
\* got as many.
DataLimitSent ==
  at = "done" /\ pc = "done" /\ running /\ ~expired /\ InHand = <<>>
    => Len(sent) = dataLimit

\* The load task and its limiter end once a limit is reached or the program
\* ends, and so does the limiter a script has told to stop; until then the
\* halving of the batch in the mode custom leaves no packet behind in the ring.
\* (With a limit of 0 the task may repeat its sendN until the program ends.)
LoadEnds ==
  /\ (dataLimit # 0 /\ (dataLimit # NoLimit \/ expired)) \/ stop \/ ~running
       ~> (at \in {"done", "script"} /\ pc = "done")
  /\ mode = "custom" /\ ring # <<>> ~> (ring = <<>> \/ ~ctl_running)

=============================================================================
