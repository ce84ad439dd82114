------------------------- MODULE ActuatorStageProofs -------------------------
(***************************************************************************)
(* Proofs about ActuatorStage, for any number of channels and threads, any *)
(* commands and any configuration whose ranges are not empty.              *)
(***************************************************************************)
EXTENDS ActuatorStage, TLAPS

\* How far one update may move a channel.
Reach(c) == IF max_step[c] <= 0 THEN 0 ELSE max_step[c]

\* Every channel of pose q is within one update of pose p.
Near(p, q) == \A c \in Channels : Abs(q[c] - p[c]) <= Reach(c)

InRange(pose) == \A c \in Channels : min_out[c] <= pose[c] /\ pose[c] <= max_out[c]

\* What a thread carries to the driver is the history, and it is one update
\* away from what the servos hold.
IInv ==
    /\ TypeOK
    /\ haveLast => InRange(last)
    /\ passing = {} \/ \E t \in Threads : passing = {t}
    /\ passing # {} => running /\ haveLast /\ \A t \in passing : safe[t] = last
    /\ passing = {} /\ running /\ ~fresh => haveLast /\ servo = Output(last)
    /\ passing # {} /\ ~fresh => Near(servo, Output(last))
    /\ ServoInRange

-----------------------------------------------------------------------------
(* The arithmetic.                                                         *)

\* A clamped value lies in a range that is not empty, and clamping brings no
\* two values further apart.
LEMMA ClampLaws ==
    ASSUME NEW lo \in Int, NEW hi \in Int, lo <= hi, NEW v \in Int, NEW w \in Int
    PROVE  /\ Clamp(v, lo, hi) \in Int
           /\ lo <= Clamp(v, lo, hi) /\ Clamp(v, lo, hi) <= hi
           /\ lo <= v /\ v <= hi => Clamp(v, lo, hi) = v
           /\ Abs(Clamp(v, lo, hi) - Clamp(w, lo, hi)) <= Abs(v - w)
  BY DEF Clamp, Abs

\* A limited step ends within reach of where it began.
LEMMA StepLaws ==
    ASSUME NEW target \in Int, NEW prev \in Int, NEW step \in Int
    PROVE  /\ limitStep(target, prev, step) \in Int
           /\ Abs(limitStep(target, prev, step) - prev) <= IF step <= 0 THEN 0 ELSE step
  BY DEF limitStep, Abs

\* The defensive second clamp does not undo the step limit.
LEMMA ConditionedLaws ==
    ASSUME NEW target \in Pose, TypeOK, haveLast => InRange(last)
    PROVE  /\ Conditioned(target) \in Pose
           /\ InRange(Conditioned(target))
           /\ haveLast => Near(last, Conditioned(target))
<1> DEFINE Clamped(c) == Clamp(target[c], min_out[c], max_out[c])
           Limited(c) == limitStep(Clamped(c), last[c], max_step[c])
           Result(c) == IF haveLast THEN Clamp(Limited(c), min_out[c], max_out[c])
                        ELSE Clamped(c)
<1>1. Conditioned(target) = [c \in Channels |-> Result(c)]
  BY DEF Conditioned
<1>2. ASSUME NEW c \in Channels
      PROVE  /\ Result(c) \in Int
             /\ min_out[c] <= Result(c) /\ Result(c) <= max_out[c]
             /\ haveLast => Abs(Result(c) - last[c]) <= Reach(c)
  <2>1. /\ min_out[c] \in Int /\ max_out[c] \in Int /\ min_out[c] <= max_out[c]
        /\ max_step[c] \in Int /\ last[c] \in Int /\ target[c] \in Int
    BY StageAssumption DEF TypeOK, Pose
  <2>2. Clamped(c) \in Int /\ min_out[c] <= Clamped(c) /\ Clamped(c) <= max_out[c]
    BY <2>1, ClampLaws
  <2>3. Limited(c) \in Int /\ Abs(Limited(c) - last[c]) <= Reach(c)
    BY <2>1, <2>2, StepLaws DEF Reach
  <2>4. CASE haveLast
    <3>1. /\ Result(c) \in Int
          /\ min_out[c] <= Result(c) /\ Result(c) <= max_out[c]
          /\ Abs(Result(c) - Clamp(last[c], min_out[c], max_out[c]))
               <= Abs(Limited(c) - last[c])
      <4> HIDE DEF Limited
      <4> QED BY <2>1, <2>3, <2>4, ClampLaws
    <3>2. Clamp(last[c], min_out[c], max_out[c]) = last[c]
      BY <2>1, <2>4, ClampLaws DEF InRange
    <3>3. Abs(Result(c) - last[c]) <= Reach(c)
      <4> HIDE DEF Result, Limited
      <4> QED BY <2>1, <2>3, <3>1, <3>2 DEF Abs, Reach
    <3> QED BY <3>1, <3>3
  <2>5. CASE ~haveLast
    BY <2>2, <2>5
  <2> QED BY <2>4, <2>5
<1> HIDE DEF Result
<1> QED BY <1>1, <1>2 DEF Pose, InRange, Near

\* The driver's own clamp and inversion preserve nearness and stay in range.
LEMMA OutputLaws ==
    ASSUME NEW p \in Pose, NEW q \in Pose
    PROVE  /\ Output(p) \in Pose
           /\ \A c \in Channels : min_deg[c] <= Output(p)[c] /\ Output(p)[c] <= max_deg[c]
           /\ Near(p, q) => Near(Output(p), Output(q))
<1> DEFINE Deg(r, c) == Clamp(r[c], min_deg[c], max_deg[c])
           Out(r, c) == IF ~invert[c] THEN Deg(r, c)
                        ELSE IF max_deg[c] - min_deg[c] <= 0 THEN min_deg[c]
                        ELSE max_deg[c] - (Deg(r, c) - min_deg[c])
<1>1. /\ Output(p) = [c \in Channels |-> Out(p, c)]
      /\ Output(q) = [c \in Channels |-> Out(q, c)]
  BY DEF Output
<1>2. ASSUME NEW c \in Channels
      PROVE  /\ Out(p, c) \in Int
             /\ min_deg[c] <= Out(p, c) /\ Out(p, c) <= max_deg[c]
             /\ Abs(Out(q, c) - Out(p, c)) <= Abs(q[c] - p[c])
             /\ Abs(q[c] - p[c]) \in Int /\ Abs(Out(q, c) - Out(p, c)) \in Int
             /\ Reach(c) \in Int
  <2>1. /\ min_deg[c] \in Int /\ max_deg[c] \in Int /\ min_deg[c] <= max_deg[c]
        /\ invert[c] \in BOOLEAN /\ p[c] \in Int /\ q[c] \in Int /\ max_step[c] \in Int
    BY StageAssumption DEF Pose
  <2>2. /\ Deg(p, c) \in Int /\ min_deg[c] <= Deg(p, c) /\ Deg(p, c) <= max_deg[c]
        /\ Deg(q, c) \in Int /\ min_deg[c] <= Deg(q, c) /\ Deg(q, c) <= max_deg[c]
        /\ Abs(Deg(q, c) - Deg(p, c)) <= Abs(q[c] - p[c])
    BY <2>1, ClampLaws
  <2> HIDE DEF Deg
  <2> QED BY <2>1, <2>2 DEF Abs, Reach
<1> HIDE DEF Out
<1>3. ASSUME Near(p, q) PROVE Near(Output(p), Output(q))
  <2>1. SUFFICES ASSUME NEW c \in Channels
                 PROVE  Abs(Output(q)[c] - Output(p)[c]) <= Reach(c)
    BY DEF Near
  <2>2. Output(q)[c] = Out(q, c) /\ Output(p)[c] = Out(p, c)
    BY <1>1
  <2>3. Abs(q[c] - p[c]) <= Reach(c)
    BY <1>3 DEF Near
  <2> QED BY <1>2, <2>2, <2>3
<1> QED BY <1>1, <1>2, <1>3 DEF Pose

-----------------------------------------------------------------------------
(* The inductive invariant, with what each step does to the servos.        *)

\* The pose ServoDriver parks in is a pose.
LEMMA NeutralPose == Output(neutral_deg) \in Pose
                     /\ \A c \in Channels : /\ min_deg[c] <= Output(neutral_deg)[c]
                                            /\ Output(neutral_deg)[c] <= max_deg[c]
  BY StageAssumption, OutputLaws DEF Pose

\* The constructors establish the invariant.
LEMMA InitInv == Init => IInv
<1> SUFFICES ASSUME Init PROVE IInv
  OBVIOUS
<1>1. [c \in Channels |-> 0] \in Pose
  BY DEF Pose
<1>2. servo \in Pose /\ ServoInRange
  BY NeutralPose DEF Init, ServoInRange
<1>3. TypeOK
  BY <1>1, <1>2 DEF Init, TypeOK
<1> QED BY <1>2, <1>3 DEF Init, IInv

\* What SlewRespected says of a step.
SlewStep == running /\ running' /\ ~fresh => Near(servo, servo')

\* A pose is near itself.
LEMMA NearSelf == ASSUME NEW p \in Pose PROVE Near(p, p)
<1> SUFFICES ASSUME NEW c \in Channels PROVE Abs(p[c] - p[c]) <= Reach(c)
  BY DEF Near
<1>1. p[c] \in Int /\ max_step[c] \in Int
  BY StageAssumption DEF Pose
<1> QED BY <1>1 DEF Abs, Reach

\* The locked half of ActuatorManager::onCommand() keeps the invariant: the
\* conditioned command is at most one slew step from the history.
LEMMA CommandStep ==
    ASSUME IInv, NEW t \in Threads, NEW target \in Targets, Command(t, target)
    PROVE  IInv' /\ SlewStep
<1> DEFINE new == Conditioned(target)
<1>1. target \in Pose
  BY StageAssumption DEF Pose
<1>2. new \in Pose /\ InRange(new) /\ (haveLast => Near(last, new))
  BY <1>1, ConditionedLaws DEF IInv
<1>3. /\ safe' = [safe EXCEPT ![t] = new] /\ last' = new /\ haveLast' = TRUE
      /\ passing' = {t} /\ passing = {}
      /\ running' = running /\ servo' = servo /\ fresh' = fresh /\ running
  BY DEF Command, IInv, TypeOK
<1> HIDE DEF new
<1>4. TypeOK' /\ safe'[t] = last' /\ ServoInRange'
  BY <1>2, <1>3 DEF IInv, TypeOK, ServoInRange
<1>5. ~fresh => Near(servo', Output(last'))
  BY <1>2, <1>3, OutputLaws DEF IInv, TypeOK
<1>6. IInv'
  BY <1>2, <1>3, <1>4, <1>5 DEF IInv, InRange
<1>7. SlewStep
  BY <1>3, NearSelf DEF SlewStep, IInv, TypeOK
<1> QED BY <1>6, <1>7

\* ServoDriver::apply() keeps the invariant and moves each servo by one slew
\* step at most: the history becomes what the servos hold.
LEMMA ApplyStep ==
    ASSUME IInv, NEW t \in Threads, Apply(t)
    PROVE  IInv' /\ SlewStep
<1>1. /\ passing = {t} /\ passing' = {} /\ safe[t] = last /\ running /\ haveLast
      /\ servo' = Output(last) /\ fresh' = FALSE
      /\ running' = running /\ haveLast' = haveLast /\ last' = last /\ safe' = safe
  BY DEF Apply, IInv
<1>2. last \in Pose /\ Output(last) \in Pose
      /\ \A c \in Channels : min_deg[c] <= Output(last)[c] /\ Output(last)[c] <= max_deg[c]
  BY OutputLaws DEF IInv, TypeOK
<1>3. TypeOK' /\ ServoInRange'
  BY <1>1, <1>2 DEF IInv, TypeOK, ServoInRange
<1>4. Output(last)' = Output(last) /\ (InRange(last) => InRange(last)')
  BY <1>1 DEF Output, InRange
<1>5. IInv'
  BY <1>1, <1>3, <1>4 DEF IInv
<1>6. SlewStep
  BY <1>1 DEF SlewStep, IInv
<1> QED BY <1>5, <1>6

\* Every step keeps the invariant and the slew limit.
LEMMA NextInv == IInv /\ [Next]_vars => IInv' /\ (SlewStep \/ UNCHANGED servo)
<1> SUFFICES ASSUME IInv, [Next]_vars PROVE IInv' /\ (SlewStep \/ UNCHANGED servo)
  OBVIOUS
<1>1. CASE Start
  <2>1. IInv'
    <3>1. last' \in Pose
      BY <1>1 DEF Start, Pose
    <3>2. servo' \in Pose /\ ServoInRange'
      BY <1>1, NeutralPose DEF Start, ServoInRange
    <3>3. TypeOK' /\ passing = {} /\ passing' = {}
      BY <1>1, <3>1, <3>2 DEF Start, TypeOK, IInv
    <3> QED BY <1>1, <3>2, <3>3 DEF Start, IInv
  <2>2. SlewStep
    BY <1>1 DEF Start, SlewStep
  <2> QED BY <2>1, <2>2
<1>2. CASE Stop
  <2>1. IInv'
    BY <1>2, NeutralPose DEF Stop, IInv, TypeOK, ServoInRange, InRange
  <2>2. SlewStep
    BY <1>2 DEF Stop, SlewStep
  <2> QED BY <2>1, <2>2
<1>3. ASSUME NEW t \in Threads, Apply(t) PROVE IInv' /\ SlewStep
  BY <1>3, ApplyStep
<1>4. ASSUME NEW t \in Threads, NEW target \in Targets, Command(t, target)
      PROVE  IInv' /\ SlewStep
  BY <1>4, CommandStep
<1>5. CASE UNCHANGED vars
  BY <1>5 DEF vars, IInv, TypeOK, InRange, Near, Output, ServoInRange
<1> QED BY <1>1, <1>2, <1>3, <1>4, <1>5 DEF Next

\* The invariant holds in every reachable state.
LEMMA Invariance == Spec => []IInv
<1>1. IInv /\ [Next]_vars => IInv'
  BY NextInv
<1> QED BY InitInv, <1>1, PTL DEF Spec

-----------------------------------------------------------------------------
\* The slew history of ActuatorManager is the angle the servos hold.
THEOREM HistoryFollowsServo == Spec => []HistoryIsServo
<1>1. IInv => HistoryIsServo BY DEF IInv, HistoryIsServo
<1> QED BY Invariance, <1>1, PTL

\* No servo leaves the range of its channel.
THEOREM ServoStaysInRange == Spec => []ServoInRange
<1>1. IInv => ServoInRange BY DEF IInv
<1> QED BY Invariance, <1>1, PTL

\* No update moves a channel further than max_step, whatever is commanded.
THEOREM SlewIsRespected == Spec => SlewRespected
<1>1. IInv /\ [Next]_vars =>
        [ running /\ running' /\ ~fresh =>
            \A c \in Channels :
              Abs(servo'[c] - servo[c]) <= IF max_step[c] <= 0 THEN 0 ELSE max_step[c] ]_servo
  BY NextInv DEF SlewStep, Near, Reach
<1> QED BY Invariance, <1>1, PTL DEF Spec, SlewRespected

=============================================================================
