----------------------------- MODULE MoonEmLoss -----------------------------
(***************************************************************************)
(* The loss models of MoonEm (src/moonem_common.h), with the parameters     *)
(* examples/moonem.lua and lua/loss-model.lua give them.  A uint64_t has M  *)
(* values; wyhash64 may return any of them.                                 *)
(***************************************************************************)
EXTENDS Integers, Sequences, FiniteSets

CONSTANTS M,       \* number of values of a uint64_t
          PERCENT  \* percentages a user may give

ASSUME LossAssumption == M \in Nat \ {0} /\ PERCENT \subseteq 0 .. 100

VARIABLES
  loss_type, args, \* what the user configured
  parameters,      \* config.loss_model_parameters; config.loss for "UNIFORM"
  state,           \* loss_state[1]
  dropped          \* history: what became of the last packet

vars == <<loss_type, args, parameters, state, dropped>>

Draws == 0 .. M - 1

scale_to_uint64_Permille(val) == (M * val) \div 1000

\* A negative product wraps around; below the range of an int64_t, to which LuaJIT
\* converts it first, it becomes the smallest one.
scale_to_uint64(val) ==
  CASE val = 100 -> M - 1
    [] val \in 0 .. 99 -> (M * val) \div 100
    [] val < 0 /\ val >= -50 -> (M - (M * (-val)) \div 100) % M
    [] val < -50 -> M \div 2

\* Gilbert-Elliot: p [r [1-h [1-k]]], with defaults for what is not given.
GeParameters(a) ==
  LET n == Len(a) IN
  <<a[1],
    IF n < 2 THEN 100 - a[1] ELSE a[2],
    IF n < 3 THEN 100 ELSE a[3],
    IF n < 4 THEN 0 ELSE a[4]>>

\* NetEm: a = p13, p31, p32, p23, p14; two parameters for each state.
NetemParameters(a) ==
  <<100 - a[1] - a[5], 100 - a[5],
    100 - a[4], a[4],
    100 - a[2] - a[3], a[3],
    0, 100>>

Scaled(p) == [k \in DOMAIN p |-> scale_to_uint64(p[k])]

\* Each is checked to be a percentage, the probabilities of leaving a state to add
\* up to at most 100 are not.
NetemArgs == [1 .. 5 -> PERCENT]

Init ==
  /\ \/ /\ loss_type = "UNIFORM"
        /\ args \in [1 .. 1 -> PERCENT \ {0}]
        /\ parameters = Scaled(args)
     \/ /\ loss_type = "GE"
        /\ args \in UNION {[1 .. n -> PERCENT] : n \in 1 .. 4}
        /\ parameters = Scaled(GeParameters(args))
     \/ /\ loss_type = "NETEM"
        /\ args \in NetemArgs
        /\ parameters = Scaled(NetemParameters(args))
  /\ state = 0 /\ dropped = FALSE

-----------------------------------------------------------------------------
\* wyhash64(loss_state) < config.loss
uniform_drop ==
  /\ loss_type = "UNIFORM"
  /\ \E x \in Draws : dropped' = (x < parameters[1])
  /\ UNCHANGED state

\* 0 is the bad state of the Gilbert-Elliot model, 1 the good one.
GeNext(s, x) ==
  IF (s = 1 /\ x < parameters[1]) \/ (s = 0 /\ x >= parameters[2]) THEN 0 ELSE 1

ge_drop ==
  /\ loss_type = "GE"
  /\ \E x, y \in Draws :
       /\ state' = GeNext(state, x)
       /\ dropped' = (y < IF state' = 0 THEN parameters[3] ELSE parameters[4])

q1 == 0
q2 == 1
q3 == 2
q4 == 3

\* What reading loss_model_parameters[k] can return: the script fills eight
\* entries, the C struct has five and does not define what lies behind.
Parameter(k) == IF k < 5 THEN {parameters[k + 1]} ELSE Draws

\* state ^ 3 and state ^ 2; the sum of the two parameters wraps around.
NetemNext(s, x, stay, keep) ==
  IF x < stay THEN s
  ELSE IF x < (stay + keep) % M THEN 3 - s
  ELSE (s + 2) % 4

netem_drop_OldState ==
  /\ loss_type = "NETEM"
  /\ \E x \in Draws, stay \in Parameter(2 * state), keep \in Parameter(2 * state + 1) :
       state' = NetemNext(state, x, stay, keep)
  /\ dropped' = ~(state < q3)

netem_drop ==
  LET drop12_keep34 == state < q3 IN
  /\ loss_type = "NETEM"
  /\ \E x \in Draws, stay \in Parameter(2 * state), keep \in Parameter(2 * state + 1) :
       /\ state' = NetemNext(state, x, stay, keep)
       /\ dropped' = IF x < stay THEN ~drop12_keep34 ELSE drop12_keep34

\* applyLoss, for one packet.
applyLoss ==
  /\ uniform_drop \/ ge_drop \/ netem_drop
  /\ UNCHANGED <<loss_type, args, parameters>>

Spec == Init /\ [][applyLoss]_vars

-----------------------------------------------------------------------------
\* NetEm: a packet is lost exactly when the chain is in q3 or q4 after it; both
\* return statements of netem_drop say so in terms of the state before it.  And
\* without a loss probability in the good state, a Gilbert-Elliot chain loses
\* packets only while it is in the bad state after the packet's draw.
LossFollowsState ==
  /\ loss_type = "NETEM" => (dropped <=> state \in {q3, q4})
  /\ loss_type = "GE" /\ (Len(args) < 4 \/ args[4] = 0) /\ dropped => state = 0

\* The draws of S are the given percentage of all draws, give or take one draw:
\* scaling rounds down, and 100 percent falls short by the one draw a uint64_t
\* cannot express.
Share(S, percent) == 100 * Cardinality(S) \in percent * M - 100 .. percent * M + 100

\* Percentage with which a NetEm chain is to leave a state.
Leaving(s) ==
  CASE s = q1 -> args[1] + args[5] [] s = q2 -> args[4] [] s = q3 -> args[2] + args[3]

\* The chains change state, and the uniform model drops, as often as the user's
\* percentages say.  For NetEm, how often a state is left at all, if the
\* probabilities of leaving it add up to at most 100; and how often q2 is left for
\* q3, unless the sum of its two parameters wraps, as with 50 percent.  (What q1
\* and q3 are left for is not as configured: the second parameter of q1 is no
\* probability of leaving it, that of q3 is not in the struct.)
SharesAsConfigured ==
  /\ loss_type = "UNIFORM" => Share({x \in Draws : x < parameters[1]}, args[1])
  /\ loss_type = "GE" =>
       /\ Share({x \in Draws : GeNext(1, x) = 0}, args[1])
       /\ Share({x \in Draws : GeNext(0, x) = 1},
                IF Len(args) = 1 THEN 100 - args[1] ELSE args[2])
  /\ loss_type = "NETEM" =>
       /\ \A s \in {q1, q2, q3} : Leaving(s) <= 100 =>
            Share({x \in Draws : \E keep \in Parameter(2 * s + 1) :
                     NetemNext(s, x, parameters[2 * s + 1], keep) = s},
                  100 - Leaving(s))
       /\ parameters[3] + parameters[4] < M =>
            Share({x \in Draws : NetemNext(q2, x, parameters[3], parameters[4]) = q3},
                  args[4])

=============================================================================
