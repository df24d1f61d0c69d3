-------------------------- MODULE MoonEmLoss_proofs -------------------------
(***************************************************************************)
(* The loss models drop packets in the states, and as often, as configured, *)
(* for every width of the random numbers and all percentages.               *)
(***************************************************************************)
EXTENDS MoonEmLoss, TLAPS, FiniteSetTheorems

\* What the user configured and what the scripts made of it, which no packet
\* changes, and where the chain can be.
LossInv ==
  /\ \/ /\ loss_type = "UNIFORM"
        /\ args \in [1 .. 1 -> PERCENT \ {0}]
        /\ parameters = Scaled(args)
     \/ /\ loss_type = "GE"
        /\ args \in UNION {[1 .. n -> PERCENT] : n \in 1 .. 4}
        /\ parameters = Scaled(GeParameters(args))
     \/ /\ loss_type = "NETEM"
        /\ args \in NetemArgs
        /\ parameters = Scaled(NetemParameters(args))
  /\ state \in 0 .. 3
  /\ LossFollowsState

-----------------------------------------------------------------------------
\* A percentage, scaled to a uint64_t, is a value of one, and off by at most one.
LEMMA ScaleExact ==
  ASSUME NEW v \in 0 .. 100
  PROVE  /\ scale_to_uint64(v) \in 0 .. M - 1
         /\ 100 * scale_to_uint64(v) \in v * M - 100 .. v * M + 100
         /\ v = 0 => scale_to_uint64(v) = 0
<1>1. CASE v = 100
  BY <1>1, LossAssumption DEF scale_to_uint64
<1>2. CASE v # 100
  <2>1. M * v \in Nat /\ v * M = M * v /\ M * v <= 99 * M /\ (v = 0 => M * v = 0)
    BY <1>2, LossAssumption
  <2>2. PICK t \in Nat : t = M * v
    BY <2>1
  <2>3. /\ t \div 100 \in Nat /\ 100 * (t \div 100) <= t /\ t < 100 * (t \div 100) + 100
        /\ t = 0 => t \div 100 = 0
    OBVIOUS
  <2>4. t \div 100 <= M - 1
    BY <2>1, <2>2, <2>3, LossAssumption
  <2>5. scale_to_uint64(v) = t \div 100
    BY <1>2, <2>2 DEF scale_to_uint64
  <2>6. QED
    BY <2>1, <2>2, <2>3, <2>4, <2>5, LossAssumption
<1>3. QED
  BY <1>1, <1>2

\* As many draws lie below a threshold as the threshold says.
LEMMA DrawsBelow ==
  ASSUME NEW p \in 0 .. M - 1
  PROVE  Cardinality({x \in Draws : x < p}) = p
<1>1. {x \in Draws : x < p} = 0 .. p - 1
  BY LossAssumption DEF Draws
<1>2. Cardinality(0 .. p - 1) = IF 0 > p - 1 THEN 0 ELSE (p - 1) - 0 + 1
  BY LossAssumption, FS_Interval
<1>3. Cardinality(0 .. p - 1) = p
  BY <1>2, LossAssumption
<1>4. QED
  BY <1>1, <1>3, Zenon

LEMMA ShareBelow ==
  ASSUME NEW v \in 0 .. 100
  PROVE  Share({x \in Draws : x < scale_to_uint64(v)}, v)
<1>1. Cardinality({x \in Draws : x < scale_to_uint64(v)}) = scale_to_uint64(v)
  BY ScaleExact, DrawsBelow, Zenon
<1>2. QED
  BY <1>1, ScaleExact DEF Share

\* The thresholds of the Gilbert-Elliot chain.
LEMMA GeThresholds ==
  ASSUME LossInv, loss_type = "GE"
  PROVE  /\ args[1] \in 0 .. 100 /\ parameters[1] = scale_to_uint64(args[1])
         /\ \E v \in 0 .. 100 : /\ v = IF Len(args) = 1 THEN 100 - args[1] ELSE args[2]
                                /\ parameters[2] = scale_to_uint64(v)
         /\ (Len(args) < 4 \/ args[4] = 0) => parameters[4] = 0
<1>0. args \in UNION {[1 .. n -> PERCENT] : n \in 1 .. 4}
  BY Zenon DEF LossInv
<1>1. PICK n \in 1 .. 4 : args \in [1 .. n -> PERCENT]
  BY <1>0, Zenon
<1>2. Len(args) = n /\ \A k \in 1 .. n : args[k] \in 0 .. 100
  <2>1. args \in Seq(PERCENT) /\ DOMAIN args = 1 .. n /\ n \in Nat
    BY <1>1
  <2>2. Len(args) \in Nat /\ 1 .. Len(args) = 1 .. n
    BY <2>1
  <2>3. Len(args) = n
    BY <2>1, <2>2
  <2>4. QED
    BY <1>1, <2>3, LossAssumption, Zenon
<1> DEFINE g == GeParameters(args)
<1>3. /\ DOMAIN g = 1 .. 4
      /\ g[1] = args[1] /\ g[2] = (IF n < 2 THEN 100 - args[1] ELSE args[2])
      /\ g[4] = IF n < 4 THEN 0 ELSE args[4]
  BY <1>2 DEF GeParameters
<1>4. parameters = Scaled(g)
  BY Zenon DEF LossInv
<1> HIDE DEF g
<1>5. \A k \in 1 .. 4 : parameters[k] = scale_to_uint64(g[k])
  BY <1>3, <1>4 DEF Scaled
<1>6. (n < 4 \/ args[4] = 0) => parameters[4] = 0
  <2>1. 0 \in 0 .. 100 /\ 4 \in 1 .. 4
    OBVIOUS
  <2>2. scale_to_uint64(0) = 0
    BY <2>1, ScaleExact, Zenon
  <2>3. QED
    BY <1>3, <1>5, <2>1, <2>2, Zenon
<1>7. 1 \in 1 .. n /\ 1 \in 1 .. 4 /\ 2 \in 1 .. 4 /\ (~(n < 2) => 2 \in 1 .. n)
      /\ (n < 2 <=> n = 1)
  OBVIOUS
<1>8. args[1] \in 0 .. 100 /\ g[2] \in 0 .. 100
  <2>1. args[1] \in 0 .. 100 /\ (~(n < 2) => args[2] \in 0 .. 100)
    BY <1>2, <1>7, Zenon
  <2>2. 100 - args[1] \in 0 .. 100
    BY <2>1
  <2>3. QED
    BY <1>3, <2>1, <2>2, Zenon
<1>9. /\ g[2] = IF Len(args) = 1 THEN 100 - args[1] ELSE args[2]
      /\ parameters[1] = scale_to_uint64(args[1]) /\ parameters[2] = scale_to_uint64(g[2])
  BY <1>2, <1>3, <1>5, <1>7
<1>10. QED
  BY <1>2, <1>6, <1>8, <1>9, Zenon

\* The chance of staying in each of the NetEm states that has its parameters.
LEMMA NetemThresholds ==
  ASSUME LossInv, loss_type = "NETEM"
  PROVE  /\ \A s \in {q1, q2, q3} : Leaving(s) <= 100 =>
              \E v \in 0 .. 100 : /\ parameters[2 * s + 1] = scale_to_uint64(v)
                                  /\ v = 100 - Leaving(s)
         /\ args[4] \in 0 .. 100
         /\ parameters[3] = scale_to_uint64(100 - args[4])
         /\ parameters[4] = scale_to_uint64(args[4])
<1>1. /\ args[1] \in 0 .. 100 /\ args[2] \in 0 .. 100 /\ args[3] \in 0 .. 100
      /\ args[4] \in 0 .. 100 /\ args[5] \in 0 .. 100
  <2>1. args \in NetemArgs
    BY Zenon DEF LossInv
  <2>2. args \in [1 .. 5 -> PERCENT]
    BY <2>1, Zenon DEF NetemArgs
  <2>3. \A k \in 1 .. 5 : args[k] \in 0 .. 100
    BY <2>2, LossAssumption, Zenon
  <2>4. 1 \in 1 .. 5 /\ 2 \in 1 .. 5 /\ 3 \in 1 .. 5 /\ 4 \in 1 .. 5 /\ 5 \in 1 .. 5
    OBVIOUS
  <2>5. QED
    BY <2>3, <2>4, Zenon
<1> DEFINE g == NetemParameters(args)
<1>2. /\ DOMAIN g = 1 .. 8
      /\ g[1] = 100 - args[1] - args[5] /\ g[3] = 100 - args[4] /\ g[4] = args[4]
      /\ g[5] = 100 - args[2] - args[3]
  BY DEF NetemParameters
<1>3. parameters = Scaled(g)
  BY Zenon DEF LossInv
<1> HIDE DEF g
<1>4. \A k \in 1 .. 8 : parameters[k] = scale_to_uint64(g[k])
  BY <1>2, <1>3 DEF Scaled
<1>5. ASSUME NEW s \in {q1, q2, q3}, Leaving(s) <= 100
      PROVE  g[2 * s + 1] \in 0 .. 100 /\ g[2 * s + 1] = 100 - Leaving(s)
  <2>1. CASE s = q1
    <3>1. Leaving(s) = args[1] + args[5] /\ 2 * s + 1 = 1
      BY <2>1 DEF Leaving, q1, q2, q3
    <3>2. args[1] + args[5] <= 100
      BY <1>5, <3>1, Zenon
    <3>3. PICK a, b \in 0 .. 100 : a = args[1] /\ b = args[5]
      BY <1>1, Zenon
    <3>4. a + b <= 100 /\ g[1] = 100 - a - b
      BY <1>2, <3>2, <3>3, Zenon
    <3>5. g[1] \in 0 .. 100 /\ g[1] = 100 - (a + b)
      BY <3>4
    <3>6. QED
      BY <3>1, <3>3, <3>5, Zenon
  <2>2. CASE s = q2
    <3>1. Leaving(s) = args[4] /\ 2 * s + 1 = 3
      BY <2>2 DEF Leaving, q1, q2, q3
    <3>2. g[3] \in 0 .. 100 /\ g[3] = 100 - args[4]
      BY <1>1, <1>2
    <3>3. QED
      BY <3>1, <3>2, Zenon
  <2>3. CASE s = q3
    <3>1. Leaving(s) = args[2] + args[3] /\ 2 * s + 1 = 5
      BY <2>3 DEF Leaving, q1, q2, q3
    <3>2. args[2] + args[3] <= 100
      BY <1>5, <3>1, Zenon
    <3>3. PICK a, b \in 0 .. 100 : a = args[2] /\ b = args[3]
      BY <1>1, Zenon
    <3>4. a + b <= 100 /\ g[5] = 100 - a - b
      BY <1>2, <3>2, <3>3, Zenon
    <3>5. g[5] \in 0 .. 100 /\ g[5] = 100 - (a + b)
      BY <3>4
    <3>6. QED
      BY <3>1, <3>3, <3>5, Zenon
  <2>4. QED
    BY <2>1, <2>2, <2>3, Zenon
<1>6. 3 \in 1 .. 8 /\ 4 \in 1 .. 8 /\ \A s \in {q1, q2, q3} : 2 * s + 1 \in 1 .. 8
  BY DEF q1, q2, q3
<1>7. ASSUME NEW s \in {q1, q2, q3}, Leaving(s) <= 100
      PROVE  \E v \in 0 .. 100 : /\ parameters[2 * s + 1] = scale_to_uint64(v)
                                  /\ v = 100 - Leaving(s)
  <2>1. parameters[2 * s + 1] = scale_to_uint64(g[2 * s + 1])
    BY <1>4, <1>6, Zenon
  <2>2. QED
    BY <1>5, <1>7, <2>1, Zenon
<1>8. /\ args[4] \in 0 .. 100 /\ parameters[3] = scale_to_uint64(100 - args[4])
      /\ parameters[4] = scale_to_uint64(args[4])
  BY <1>1, <1>2, <1>4, <1>6
<1>9. QED
  BY <1>7, <1>8

LEMMA DrawsBetween ==
  ASSUME NEW p \in 0 .. M - 1, NEW q \in 0 .. M - 1, p + q < M
  PROVE  Cardinality({x \in Draws : ~(x < p) /\ x < p + q}) = q
<1>1. {x \in Draws : ~(x < p) /\ x < p + q} = p .. p + q - 1
  BY LossAssumption DEF Draws
<1>2. Cardinality(p .. p + q - 1) = IF p > p + q - 1 THEN 0 ELSE (p + q - 1) - p + 1
  BY LossAssumption, FS_Interval
<1>3. Cardinality(p .. p + q - 1) = q
  BY <1>2, LossAssumption
<1>4. QED
  BY <1>1, <1>3, Zenon

\* Without a wrap the draws between the two thresholds lead from q2 to q3.
LEMMA SecondToThird ==
  ASSUME LossInv, loss_type = "NETEM", parameters[3] + parameters[4] < M
  PROVE  Share({x \in Draws : NetemNext(q2, x, parameters[3], parameters[4]) = q3}, args[4])
<1>1. /\ args[4] \in 0 .. 100 /\ parameters[3] = scale_to_uint64(100 - args[4])
      /\ parameters[4] = scale_to_uint64(args[4])
  BY NetemThresholds, Zenon
<1>2. 100 - args[4] \in 0 .. 100
  BY <1>1
<1>3. PICK p \in 0 .. M - 1 : p = parameters[3]
  BY <1>1, <1>2, ScaleExact, Zenon
<1>4. PICK q \in 0 .. M - 1 : q = parameters[4]
  BY <1>1, ScaleExact, Zenon
<1>5. p + q < M /\ (p + q) % M = p + q
  BY <1>3, <1>4, LossAssumption
<1>6. \A x \in Draws : NetemNext(q2, x, p, q) = q3 <=> ~(x < p) /\ x < p + q
  BY <1>5 DEF NetemNext, q2, q3
<1>7. {x \in Draws : NetemNext(q2, x, parameters[3], parameters[4]) = q3}
        = {x \in Draws : ~(x < p) /\ x < p + q}
  BY <1>3, <1>4, <1>6, Zenon
<1>8. Cardinality({x \in Draws : ~(x < p) /\ x < p + q}) = q
  BY <1>5, DrawsBetween, Zenon
<1>9. 100 * q \in args[4] * M - 100 .. args[4] * M + 100
  BY <1>1, <1>4, ScaleExact, Zenon
<1>10. QED
  BY <1>7, <1>8, <1>9, Zenon DEF Share

-----------------------------------------------------------------------------
LEMMA LossInit == Init => LossInv
<1> SUFFICES ASSUME Init PROVE LossInv
  OBVIOUS
<1>1. state = 0 /\ dropped = FALSE /\ state \in 0 .. 3
  BY DEF Init
<1>2. LossFollowsState
  BY <1>1 DEF LossFollowsState, q3, q4
<1>3. QED
  BY <1>1, <1>2, Zenon DEF Init, LossInv

LEMMA LossStep ==
  ASSUME LossInv, [applyLoss]_vars
  PROVE  LossInv'
<1>1. state \in 0 .. 3 /\ LossFollowsState
  BY Zenon DEF LossInv
<1>2. SUFFICES ASSUME applyLoss PROVE LossInv'
  <2>1. CASE UNCHANGED vars
    BY <2>1, Zenon DEF vars, LossInv, LossFollowsState
  <2>2. QED
    BY <2>1
<1>3. UNCHANGED <<loss_type, args, parameters>>
  BY <1>2 DEF applyLoss
<1>4. SUFFICES state' \in 0 .. 3 /\ LossFollowsState'
  BY <1>3, Zenon DEF LossInv
<1>5. CASE uniform_drop
  BY <1>1, <1>3, <1>5 DEF uniform_drop, LossFollowsState
<1>6. CASE ge_drop
  <2>1. PICK x, y \in Draws : /\ state' = GeNext(state, x)
                             /\ dropped' = (y < IF state' = 0 THEN parameters[3] ELSE parameters[4])
    BY <1>6 DEF ge_drop
  <2>2. loss_type = "GE"
    BY <1>6 DEF ge_drop
  <2>3. state' \in {0, 1}
    BY <2>1 DEF GeNext
  <2>4. (Len(args) < 4 \/ args[4] = 0) => parameters[4] = 0
    BY <2>2, GeThresholds
  <2>5. (Len(args) < 4 \/ args[4] = 0) /\ dropped' => state' = 0
    <3>1. ~(y < 0)
      BY LossAssumption DEF Draws
    <3>2. state' # 0 => dropped' = (y < parameters[4])
      BY <2>1, Zenon
    <3>3. QED
      BY <2>4, <3>1, <3>2, Zenon
  <2>6. QED
    BY <1>3, <2>2, <2>3, <2>5 DEF LossFollowsState
<1>7. CASE netem_drop
  <2>1. PICK x \in Draws, stay \in Parameter(2 * state), keep \in Parameter(2 * state + 1) :
          /\ state' = NetemNext(state, x, stay, keep)
          /\ dropped' = IF x < stay THEN ~(state < q3) ELSE state < q3
    BY <1>7 DEF netem_drop
  <2>2. loss_type = "NETEM"
    BY <1>7 DEF netem_drop
  <2>3. \/ x < stay /\ state' = state
        \/ ~(x < stay) /\ state' = 3 - state
        \/ ~(x < stay) /\ state' = (state + 2) % 4
    BY <2>1 DEF NetemNext
  <2>4. state' \in 0 .. 3 /\ (dropped' <=> state' \in {2, 3})
    <3>1. /\ state < 2 => ~(state \in {2, 3}) /\ 3 - state \in {2, 3} /\ (state + 2) % 4 \in {2, 3}
          /\ ~(state < 2) => state \in {2, 3} /\ 3 - state \in {0, 1} /\ (state + 2) % 4 \in {0, 1}
      BY <1>1
    <3>2. \A k \in {0, 1} : k \in 0 .. 3 /\ k \notin {2, 3}
      OBVIOUS
    <3>3. \A k \in {2, 3} : k \in 0 .. 3
      OBVIOUS
    <3>4. dropped' = IF x < stay THEN ~(state < 2) ELSE state < 2
      BY <2>1, Zenon DEF q3
    <3>5. QED
      BY <1>1, <2>3, <3>1, <3>2, <3>3, <3>4, Zenon
  <2>5. QED
    BY <1>3, <2>2, <2>4 DEF LossFollowsState, q3, q4
<1>8. QED
  BY <1>2, <1>5, <1>6, <1>7 DEF applyLoss

LEMMA LossAlways == Spec => []LossInv
<1>1. Init => LossInv
  BY LossInit
<1>2. LossInv /\ [applyLoss]_vars => LossInv'
  BY LossStep
<1>3. QED
  BY <1>1, <1>2, PTL DEF Spec

\* The NetEm chain loses exactly the packets after which it is in q3 or q4, though
\* netem_drop reads two of the parameters behind the end of their array, and a
\* Gilbert-Elliot chain without loss in the good state only those after which it
\* is in the bad one.
THEOREM LossesFollowChain == Spec => []LossFollowsState
<1>1. LossInv => LossFollowsState
  BY DEF LossInv
<1>2. QED
  BY <1>1, LossAlways, PTL

\* The thresholds the scripts compute from the user's percentages make the uniform
\* model drop, and the chains change state, on that share of the random numbers,
\* to within one of the M values of a uint64_t: for NetEm that a state is left at
\* all, and, without a wrap, that q2 is left for q3.
THEOREM SharesFollowConfiguration == Spec => []SharesAsConfigured
<1>1. ASSUME LossInv PROVE SharesAsConfigured
  <2>1. loss_type = "UNIFORM" => Share({x \in Draws : x < parameters[1]}, args[1])
    <3> SUFFICES ASSUME loss_type = "UNIFORM"
                 PROVE  Share({x \in Draws : x < parameters[1]}, args[1])
      OBVIOUS
    <3>1. args \in [1 .. 1 -> PERCENT \ {0}] /\ parameters = Scaled(args)
      BY <1>1 DEF LossInv
    <3>2. args[1] \in 0 .. 100 /\ parameters[1] = scale_to_uint64(args[1])
      <4>1. 1 \in 1 .. 1 /\ DOMAIN args = 1 .. 1
        BY <3>1
      <4>2. args[1] \in PERCENT
        BY <3>1, <4>1, Zenon
      <4>3. QED
        BY <3>1, <4>1, <4>2, LossAssumption, Zenon DEF Scaled
    <3>3. QED
      BY <3>2, ShareBelow, Zenon
  <2>2. ASSUME loss_type = "GE"
        PROVE  /\ Share({x \in Draws : GeNext(1, x) = 0}, args[1])
               /\ Share({x \in Draws : GeNext(0, x) = 1},
                        IF Len(args) = 1 THEN 100 - args[1] ELSE args[2])
    <3>1. PICK v \in 0 .. 100 : /\ v = IF Len(args) = 1 THEN 100 - args[1] ELSE args[2]
                               /\ parameters[2] = scale_to_uint64(v)
      BY <1>1, <2>2, GeThresholds, Zenon
    <3>2. args[1] \in 0 .. 100 /\ parameters[1] = scale_to_uint64(args[1])
      BY <1>1, <2>2, GeThresholds, Zenon
    <3>3. parameters[2] \in Int /\ \A x \in Draws : x \in Int
      BY <3>1, ScaleExact, LossAssumption DEF Draws
    <3>4. {x \in Draws : GeNext(1, x) = 0} = {x \in Draws : x < parameters[1]}
      BY DEF GeNext
    <3>5. {x \in Draws : GeNext(0, x) = 1} = {x \in Draws : x < parameters[2]}
      BY <3>3 DEF GeNext
    <3>6. QED
      BY <3>1, <3>2, <3>4, <3>5, ShareBelow, Zenon
  <2>3. ASSUME loss_type = "NETEM", NEW s \in {q1, q2, q3}, Leaving(s) <= 100
        PROVE  Share({x \in Draws : \E keep \in Parameter(2 * s + 1) :
                        NetemNext(s, x, parameters[2 * s + 1], keep) = s},
                     100 - Leaving(s))
    <3>1. PICK v \in 0 .. 100 : /\ parameters[2 * s + 1] = scale_to_uint64(v)
                               /\ v = 100 - Leaving(s)
      BY <1>1, <2>3, NetemThresholds
    <3>2. \E keep : keep \in Parameter(2 * s + 1)
      <4>1. 0 \in Draws
        BY LossAssumption DEF Draws
      <4>2. QED
        BY <4>1, Zenon DEF Parameter
    <3>3. \A x, keep : NetemNext(s, x, parameters[2 * s + 1], keep) = s
                        <=> x < parameters[2 * s + 1]
      BY DEF NetemNext, q1, q2, q3
    <3>4. {x \in Draws : \E keep \in Parameter(2 * s + 1) :
             NetemNext(s, x, parameters[2 * s + 1], keep) = s}
          = {x \in Draws : x < parameters[2 * s + 1]}
      BY <3>2, <3>3, Zenon
    <3>5. QED
      BY <3>1, <3>4, ShareBelow, Zenon
  <2>4. QED
    BY <1>1, <2>1, <2>2, <2>3, SecondToThird, Zenon DEF SharesAsConfigured
<1>2. LossInv => SharesAsConfigured
  BY <1>1
<1>3. QED
  BY <1>2, LossAlways, PTL

=============================================================================
