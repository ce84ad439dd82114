---------------------------- MODULE GuidanceProofs ----------------------------
(***************************************************************************)
(* Theorems about the way from a measurement to the servo angles, for any  *)
(* geometry, images and parameters that the assumptions admit.             *)
(***************************************************************************)
EXTENDS Guidance, FiniteSetTheorems, TLAPS

\* What a step does to the solver: it solves the setpoint that was corrected last,
\* for a measurement that is remembered, or leaves everything alone.
Measures == /\ Solve(corrected')
            /\ input'.kind # "none"
Rests    == UNCHANGED <<kinematicsVars, input, setpoint, corrected>>

LEMMA MeasuresOrRests == ASSUME [Next]_vars PROVE Measures \/ Rests
<1>1. ASSUME NEW f \in Frames, Frame(f) PROVE Measures
  <2>1. Solve(corrected') /\ input' = [kind |-> "frame", frame |-> f, threshold |-> threshold]
    BY <1>1 DEF Frame, Send
  <2> QED BY <2>1 DEF Measures
<1>2. ASSUME NEW tilt \in Voltages, NEW pan \in Voltages, Pot(tilt, pan) PROVE Measures
  BY <1>2 DEF Pot, Send, Measures
<1>3. ASSUME NEW tilt \in GuiValues, NEW pan \in GuiValues, Gui(tilt, pan) PROVE Measures
  BY <1>3 DEF Gui, Send, Measures
<1>4. ASSUME NEW tilt \in Tilts, ImuSample(tilt) PROVE Rests
  BY <1>4 DEF ImuSample, Rests
<1>5. CASE EnterManual \/ ExitManual
  BY <1>5 DEF EnterManual, ExitManual, Rests
<1>6. ASSUME NEW t \in Thresholds, SetTrackerThreshold(t) PROVE Rests
  BY <1>6 DEF SetTrackerThreshold, Rests
<1>7. ASSUME NEW c \in Confidences, SetMinConfidence(c) PROVE Rests
  BY <1>7 DEF SetMinConfidence, Rests
<1>8. CASE UNCHANGED vars
  BY <1>8 DEF vars, Rests
<1> QED BY <1>1, <1>2, <1>3, <1>4, <1>5, <1>6, <1>7, <1>8 DEF Next

-----------------------------------------------------------------------------
(* Legs out of reach: the last command is what the solver remembers.       *)

KinInv == valid \in BOOLEAN /\ command.targets = lastValid

\* A setpoint moves no leg that cannot be solved.
LEMMA SolveKeeps ==
    ASSUME NEW sp, KinInv, Solve(sp)
    PROVE  /\ KinInv'
           /\ \A leg \in Legs : ~valid \/ ~Reachable(sp, leg) =>
                                    command'.targets[leg] = command.targets[leg]
           /\ (command'.status = "Ok") = (valid /\ \A leg \in Legs : Reachable(sp, leg))
<1>1. CASE valid
  BY <1>1 DEF KinInv, Solve
<1>2. CASE ~valid
  BY <1>2 DEF KinInv, Solve
<1> QED BY <1>1, <1>2

LEMMA KinInvariant == Spec => []KinInv
<1>1. GuidanceInit => KinInv
  BY GuidanceAssumption DEF GuidanceInit, Init, KinInv
<1>2. KinInv /\ [Next]_vars => KinInv'
  BY MeasuresOrRests, SolveKeeps DEF Measures, Rests, KinInv, kinematicsVars
<1> QED BY <1>1, <1>2, PTL DEF Spec

\* A leg that cannot be solved, and every leg of an impossible platform, stays
\* where the last command put it, and the status says so.
THEOREM UnsolvedLegsStay == Spec => FallbackHolds
<1>1. KinInv /\ [Next]_vars =>
      [(command' # command) =>
           /\ \A leg \in Legs : ~valid \/ ~Reachable(corrected', leg) =>
                                    command'.targets[leg] = command.targets[leg]
           /\ (command'.status = "Ok") =
                  (valid /\ \A leg \in Legs : Reachable(corrected', leg))]_vars
  BY MeasuresOrRests, SolveKeeps DEF Measures, Rests, kinematicsVars
<1> QED BY <1>1, KinInvariant, PTL DEF Spec, FallbackHolds

-----------------------------------------------------------------------------
(* Frames: what is remembered of the last one.                             *)

FrameInv ==
    input.kind = "frame" => input.frame \in Frames /\ isFrameValid(input.frame)

LEMMA BrightIsFinite ==
    ASSUME NEW f \in Frames, NEW t
    PROVE  IsFiniteSet(Bright(f, t)) /\ Cardinality(Bright(f, t)) \in Nat
<1>1. f.width - 1 \in Int /\ f.height - 1 \in Int
  BY GuidanceAssumption
<1>2. IsFiniteSet(0 .. f.width - 1) /\ IsFiniteSet(0 .. f.height - 1)
  BY <1>1, FS_Interval
<1>3. IsFiniteSet(Pixels(f))
  BY <1>2, FS_Product DEF Pixels
<1>4. Bright(f, t) \subseteq Pixels(f)
  BY DEF Bright
<1>5. IsFiniteSet(Bright(f, t))
  BY <1>3, <1>4, FS_Subset
<1> QED BY <1>5, FS_CardinalityType

LEMMA FrameInvariant == Spec => []FrameInv
<1>1. GuidanceInit => FrameInv
  BY DEF GuidanceInit, FrameInv
<1>2. FrameInv /\ [Next]_vars => FrameInv'
  <2> SUFFICES ASSUME FrameInv, [Next]_vars PROVE FrameInv'
    OBVIOUS
  <2>1. ASSUME NEW f \in Frames, Frame(f) PROVE FrameInv'
    BY <2>1 DEF Frame, FrameInv
  <2>2. ASSUME NEW tilt \in Voltages, NEW pan \in Voltages, Pot(tilt, pan) PROVE FrameInv'
    BY <2>2 DEF Pot, FrameInv
  <2>3. ASSUME NEW tilt \in GuiValues, NEW pan \in GuiValues, Gui(tilt, pan) PROVE FrameInv'
    BY <2>3 DEF Gui, FrameInv
  <2>4. CASE UNCHANGED input
    BY <2>4 DEF FrameInv
  <2> QED
    BY <2>1, <2>2, <2>3, <2>4
    DEF Next, vars, ImuSample, EnterManual, ExitManual, SetTrackerThreshold, SetMinConfidence
<1> QED BY <1>1, <1>2, PTL DEF Spec

-----------------------------------------------------------------------------
(* Sums: the centroid weighs the pixels in an order of the machine's.       *)

\* Induction over the natural numbers as a fact about a set, from the pigeonhole
\* principle: below a number that is missed, the successor would map 0..n into 1..n.
LEMMA SetInduction ==
    ASSUME NEW P \in SUBSET Nat, 0 \in P, \A n \in P : n + 1 \in P
    PROVE  P = Nat
<1> SUFFICES ASSUME NEW n \in Nat, n \notin P PROVE FALSE
  OBVIOUS
<1> DEFINE up == [x \in 0 .. n |-> IF x \in P THEN x + 1 ELSE x]
<1>1. up \in [0 .. n -> 1 .. n]
  <2> SUFFICES ASSUME NEW x \in 0 .. n PROVE (IF x \in P THEN x + 1 ELSE x) \in 1 .. n
    OBVIOUS
  <2> QED OBVIOUS
<1>2. /\ IsFiniteSet(0 .. n) /\ Cardinality(0 .. n) = n + 1
      /\ IsFiniteSet(1 .. n) /\ Cardinality(1 .. n) = n
  BY FS_Interval
<1>3. PICK x, y \in 0 .. n : x # y /\ up[x] = up[y]
  <2>1. Cardinality(1 .. n) < Cardinality(0 .. n)
    BY <1>2
  <2> HIDE DEF up
  <2> QED BY <1>1, <1>2, <2>1, FS_PigeonHole, Zenon
<1> QED BY <1>3

\* The sum over a finite set is what its recursive equation says.
Sums(f, S, total) ==
    total = [T \in SUBSET S |->
                IF T = {} THEN 0
                ELSE f[CHOOSE x \in T : TRUE] + total[T \ {CHOOSE x \in T : TRUE}]]

LEMMA SumsExist ==
    ASSUME NEW S, IsFiniteSet(S), NEW f
    PROVE  \E total : Sums(f, S, total)
<1> DEFINE Upto(n) == {T \in SUBSET S : Cardinality(T) <= n}
           First(T) == CHOOSE x \in T : TRUE
           Step(T, h) == IF T = {} THEN 0 ELSE f[First(T)] + h[T \ {First(T)}]
           Solves(n) == \E h : h = [T \in Upto(n) |-> Step(T, h)]
           P == {n \in Nat : Solves(n)}
<1>0. \A T \in SUBSET S : /\ IsFiniteSet(T) /\ Cardinality(T) \in Nat
                          /\ Cardinality(T) = 0 <=> T = {}
                          /\ Cardinality(T) <= Cardinality(S)
  BY FS_Subset, FS_CardinalityType, FS_EmptySet
<1>1. \A T \in SUBSET S : T # {} => /\ First(T) \in T
                                    /\ Cardinality(T \ {First(T)}) = Cardinality(T) - 1
  BY <1>0, FS_RemoveElement
<1> HIDE DEF First
<1>2. 0 \in P
  <2> DEFINE h == [T \in Upto(0) |-> 0]
  <2>1. h = [T \in Upto(0) |-> Step(T, h)]
    BY <1>0
  <2> QED BY <2>1
<1>3. ASSUME NEW n \in P PROVE n + 1 \in P
  <2> PICK h : h = [T \in Upto(n) |-> Step(T, h)]
    OBVIOUS
  <2> DEFINE g == [T \in Upto(n + 1) |-> Step(T, h)]
  <2>1. ASSUME NEW T \in Upto(n + 1) PROVE Step(T, h) = Step(T, g)
    <3>1. CASE T = {}
      BY <3>1
    <3>2. CASE T # {}
      <4> DEFINE R == T \ {First(T)}
      <4>1. R \in Upto(n) /\ R \in Upto(n + 1)
        BY <3>2, <1>0, <1>1
      <4>2. h[R] = Step(R, h) /\ g[R] = Step(R, h)
        BY <4>1
      <4> QED BY <4>2, <3>2
    <3> QED BY <3>1, <3>2
  <2>2. g = [T \in Upto(n + 1) |-> Step(T, g)]
    BY <2>1
  <2>3. Solves(n + 1)
    <3> HIDE DEF g, Upto, Step
    <3> QED BY <2>2
  <2>4. n + 1 \in Nat
    OBVIOUS
  <2> QED BY <2>3, <2>4, Zenon
<1>4. Cardinality(S) \in P
  <2> HIDE DEF P
  <2>1. P \in SUBSET Nat
    BY DEF P
  <2> QED BY <1>2, <1>3, <2>1, SetInduction, FS_CardinalityType
<1>5. Upto(Cardinality(S)) = SUBSET S
  BY <1>0
<1> QED BY <1>4, <1>5 DEF Sums, First

LEMMA SumEquation ==
    ASSUME NEW S, IsFiniteSet(S), NEW f
    PROVE  \E total : /\ Sums(f, S, total)
                      /\ SumFunctionOnSet(f, S) = total[S]
<1> DEFINE total == CHOOSE t : Sums(f, S, t)
<1>1. Sums(f, S, total)
  BY SumsExist
<1>2. SumFunctionOnSet(f, S) = total[S]
  BY Zenon DEF SumFunctionOnSet, FoldFunctionOnSet, MapThenFoldSet, Sums
<1> HIDE DEF total
<1> QED BY <1>1, <1>2

\* Terms that are integers have an integer sum, and a bound between the terms of
\* two functions is one between their sums.
LEMMA SumsCompare ==
    ASSUME NEW S, IsFiniteSet(S), NEW a, NEW b, NEW k \in Int, NEW m \in Int,
           \A x \in S : a[x] \in Int /\ b[x] \in Int /\ k * a[x] <= m * b[x]
    PROVE  /\ SumFunctionOnSet(a, S) \in Int /\ SumFunctionOnSet(b, S) \in Int
           /\ k * SumFunctionOnSet(a, S) <= m * SumFunctionOnSet(b, S)
<1> PICK A : Sums(a, S, A) /\ SumFunctionOnSet(a, S) = A[S]
  BY SumEquation
<1> PICK B : Sums(b, S, B) /\ SumFunctionOnSet(b, S) = B[S]
  BY SumEquation
<1> DEFINE First(T) == CHOOSE x \in T : TRUE
           Compares(T) == A[T] \in Int /\ B[T] \in Int /\ k * A[T] <= m * B[T]
           P == {n \in Nat : \A T \in SUBSET S : Cardinality(T) <= n => Compares(T)}
<1>0. \A T \in SUBSET S : /\ IsFiniteSet(T) /\ Cardinality(T) \in Nat
                          /\ Cardinality(T) = 0 <=> T = {}
  BY FS_Subset, FS_CardinalityType, FS_EmptySet
<1>1. \A T \in SUBSET S : T # {} => /\ First(T) \in T
                                    /\ Cardinality(T \ {First(T)}) = Cardinality(T) - 1
  BY <1>0, FS_RemoveElement
<1>2. \A T \in SUBSET S :
         /\ T = {} => A[T] = 0 /\ B[T] = 0
         /\ T # {} => /\ A[T] = a[First(T)] + A[T \ {First(T)}]
                      /\ B[T] = b[First(T)] + B[T \ {First(T)}]
  BY DEF Sums
<1>n. k * 0 = 0 /\ m * 0 = 0
  OBVIOUS
<1> HIDE DEF First
<1>3. 0 \in P
  <2> SUFFICES ASSUME NEW T \in SUBSET S, T = {} PROVE Compares(T)
    BY <1>0
  <2>1. A[T] = 0 /\ B[T] = 0
    BY <1>2
  <2> QED BY <2>1, <1>n
<1>4. ASSUME NEW n \in P PROVE n + 1 \in P
  <2> SUFFICES ASSUME NEW T \in SUBSET S, Cardinality(T) <= n + 1 PROVE Compares(T)
    OBVIOUS
  <2>1. CASE T = {}
    <3>1. A[T] = 0 /\ B[T] = 0
      BY <2>1, <1>2
    <3> QED BY <3>1, <1>n
  <2>2. CASE T # {}
    <3> DEFINE R == T \ {First(T)}
               x == First(T)
    <3>1. Compares(R) /\ x \in S
      BY <2>2, <1>0, <1>1
    <3>2. A[T] = a[x] + A[R] /\ B[T] = b[x] + B[R]
      BY <2>2, <1>2
    <3>3. a[x] \in Int /\ b[x] \in Int /\ k * a[x] <= m * b[x]
      BY <3>1
    <3> HIDE DEF x, R
    <3>4. /\ k * (a[x] + A[R]) = k * a[x] + k * A[R]
          /\ m * (b[x] + B[R]) = m * b[x] + m * B[R]
      BY <3>1, <3>3
    <3>5. /\ k * a[x] \in Int /\ m * b[x] \in Int
          /\ k * A[R] \in Int /\ m * B[R] \in Int
      BY <3>1, <3>3
    <3> QED BY <3>1, <3>2, <3>3, <3>4, <3>5
  <2> QED BY <2>1, <2>2
<1>5. Cardinality(S) \in P
  <2> HIDE DEF P
  <2>1. P \in SUBSET Nat
    BY DEF P
  <2> QED BY <1>3, <1>4, <2>1, SetInduction, FS_CardinalityType
<1>6. Cardinality(S) <= Cardinality(S)
  BY FS_CardinalityType
<1> QED BY <1>5, <1>6

\* The sign of an error survives deadband, gain and limit.
LEMMA DriveKeepsSign ==
    ASSUME NEW num \in Int, NEW den \in Int, den > 0
    PROVE  /\ num >= 0 => Drive(num, den) >= 0
           /\ num <= 0 => Drive(num, den) <= 0
<1> DEFINE over == Abs(num) * 100 - Deadband * den
           span == (100 - Deadband) * den
           push == (Gain * over) \div span
<1>1. Abs(num) \in Nat /\ Deadband * den \in Nat
  BY GuidanceAssumption DEF Abs
<1>2. over \in Int /\ (Abs(num) * 100 < Deadband * den \/ over \in Nat)
  BY <1>1
<1>3. span \in Nat \ {0}
  <2>1. 100 - Deadband \in Nat \ {0}
    BY GuidanceAssumption
  <2> QED BY <2>1
<1>4. over \in Nat => push \in Nat /\ (num = 0 => push = 0)
  <2>1. num = 0 /\ over \in Nat => over = 0
    BY <1>1 DEF Abs
  <2> HIDE DEF over, span
  <2>2. /\ over \in Nat => Gain * over \in Nat
        /\ over = 0 => Gain * over = 0
    BY GuidanceAssumption
  <2> QED BY <2>1, <2>2, <1>3
<1>5. Drive(num, den) = IF Abs(num) * 100 < Deadband * den THEN 0
                        ELSE Within(Signed(num, push), MaxAngle)
  BY DEF Drive
<1>6. CASE Abs(num) * 100 < Deadband * den
  BY <1>5, <1>6
<1>7. CASE /\ push \in Nat /\ (num = 0 => push = 0)
           /\ Drive(num, den) = Within(Signed(num, push), MaxAngle)
  <2> HIDE DEF push
  <2>1. num >= 0 => Signed(num, push) \in Nat
    BY <1>7 DEF Signed
  <2>2. num <= 0 => Signed(num, push) \in Int /\ Signed(num, push) <= 0
    BY <1>7 DEF Signed
  <2> QED BY <1>7, <2>1, <2>2, GuidanceAssumption DEF Within
<1> QED BY <1>2, <1>4, <1>5, <1>6, <1>7

\* The numerator of the centroid on one axis is on the side of the middle where
\* every bright pixel is.
LEMMA CentroidSide ==
    ASSUME NEW f \in Frames, NEW t, NEW i \in {1, 2}, NEW size \in Int
    PROVE  LET bright == Bright(f, t)
               weight == SumFunctionOnSet(f.luma, bright)
               moment == SumFunctionOnSet([p \in bright |-> f.luma[p] * p[i]], bright)
           IN  /\ weight \in Int /\ moment \in Int
               /\ (\A p \in bright : 2 * p[i] >= size) => 2 * moment >= size * weight
               /\ (\A p \in bright : 2 * (p[i] + 1) <= size) => 2 * moment <= size * weight
<1> DEFINE bright == Bright(f, t)
           arm == [p \in bright |-> f.luma[p] * p[i]]
           weight == SumFunctionOnSet(f.luma, bright)
           moment == SumFunctionOnSet(arm, bright)
<1>1. IsFiniteSet(bright)
  BY BrightIsFinite
<1>2. \A p \in bright : f.luma[p] \in Nat /\ p[i] \in Nat
  <2>1. f.width - 1 \in Int /\ f.height - 1 \in Int
    BY GuidanceAssumption
  <2>2. \A p \in Pixels(f) : p[1] \in Nat /\ p[2] \in Nat
    BY <2>1 DEF Pixels
  <2> QED BY <2>2, GuidanceAssumption DEF Bright
<1>3. \A p \in bright : arm[p] = f.luma[p] * p[i] /\ arm[p] \in Nat
  BY <1>2
<1> HIDE DEF arm, bright
<1>4. weight \in Int /\ moment \in Int
  <2>1. \A p \in bright : f.luma[p] \in Int /\ arm[p] \in Int /\ 0 * f.luma[p] <= 0 * arm[p]
    BY <1>2, <1>3
  <2> QED BY <1>1, <2>1, SumsCompare
<1>5. ASSUME \A p \in bright : 2 * p[i] >= size
      PROVE  size * weight <= 2 * moment
  <2>1. ASSUME NEW p \in bright
        PROVE  f.luma[p] \in Int /\ arm[p] \in Int /\ size * f.luma[p] <= 2 * arm[p]
    <3>1. PICK n, q : n = f.luma[p] /\ q = p[i]
      OBVIOUS
    <3>2. n \in Nat /\ q \in Nat /\ size <= 2 * q /\ arm[p] = n * q
      BY <3>1, <1>2, <1>3, <1>5
    <3>3. size * n <= (2 * q) * n /\ (2 * q) * n = 2 * (n * q) /\ n * q \in Int
      BY <3>2
    <3> QED BY <3>1, <3>2, <3>3
  <2> QED BY <1>1, <2>1, SumsCompare
<1>6. ASSUME \A p \in bright : 2 * (p[i] + 1) <= size
      PROVE  2 * moment <= size * weight
  <2>1. ASSUME NEW p \in bright
        PROVE  f.luma[p] \in Int /\ arm[p] \in Int /\ 2 * arm[p] <= size * f.luma[p]
    <3>1. PICK n, q : n = f.luma[p] /\ q = p[i]
      OBVIOUS
    <3>2. n \in Nat /\ q \in Nat /\ 2 * q <= size /\ arm[p] = n * q
      BY <3>1, <1>2, <1>3, <1>6
    <3>3. (2 * q) * n <= size * n /\ (2 * q) * n = 2 * (n * q) /\ n * q \in Int
      BY <3>2
    <3> QED BY <3>1, <3>2, <3>3
  <2> QED BY <1>1, <2>1, SumsCompare
<1> QED BY <1>4, <1>5, <1>6 DEF arm, bright

\* The setpoint of an estimate is on the side where the bright pixels are.
OnTheSideOf(bright, sp) ==
    /\ (\A p \in bright : 2 * p[1] >= ImageWidth) => sp.pan >= 0
    /\ (\A p \in bright : 2 * (p[1] + 1) <= ImageWidth) => sp.pan <= 0
    /\ (\A p \in bright : 2 * p[2] >= ImageHeight) => sp.tilt >= 0
    /\ (\A p \in bright : 2 * (p[2] + 1) <= ImageHeight) => sp.tilt <= 0

LEMMA AxisSteers ==
    ASSUME NEW size \in Int, size > 0, NEW weight \in Int, weight > 0, NEW moment \in Int
    PROVE  LET drive == Drive(2 * moment - size * weight, size * weight)
           IN  /\ 2 * moment >= size * weight => drive >= 0
               /\ 2 * moment <= size * weight => drive <= 0
<1> PICK den : den = size * weight
  OBVIOUS
<1>1. den \in Int /\ den > 0
  OBVIOUS
<1>2. 2 * moment - den \in Int
  BY <1>1
<1>3. /\ 2 * moment - den >= 0 => Drive(2 * moment - den, den) >= 0
      /\ 2 * moment - den <= 0 => Drive(2 * moment - den, den) <= 0
  BY <1>1, <1>2, DriveKeepsSign
<1> QED BY <1>1, <1>3

LEMMA EstimateSteers ==
    ASSUME NEW f \in Frames, NEW t
    PROVE  OnTheSideOf(Bright(f, t), OnEstimate(Estimate(f, t)))
<1> DEFINE bright == Bright(f, t)
           weight == SumFunctionOnSet(f.luma, bright)
           wx == SumFunctionOnSet([p \in bright |-> f.luma[p] * p[1]], bright)
           wy == SumFunctionOnSet([p \in bright |-> f.luma[p] * p[2]], bright)
           est == Estimate(f, t)
           sp == OnEstimate(est)
<1>1. weight \in Int /\ wx \in Int /\ wy \in Int
  BY CentroidSide
<1>2. /\ (\A p \in bright : 2 * p[1] >= ImageWidth) => 2 * wx >= ImageWidth * weight
      /\ (\A p \in bright : 2 * (p[1] + 1) <= ImageWidth) => 2 * wx <= ImageWidth * weight
  BY CentroidSide, GuidanceAssumption
<1>3. /\ (\A p \in bright : 2 * p[2] >= ImageHeight) => 2 * wy >= ImageHeight * weight
      /\ (\A p \in bright : 2 * (p[2] + 1) <= ImageHeight) => 2 * wy <= ImageHeight * weight
  BY CentroidSide, GuidanceAssumption
<1>4. CASE sp = Neutral
  BY <1>4 DEF Neutral, OnTheSideOf
<1>5. ASSUME sp # Neutral
      PROVE  /\ ImageWidth > 0 /\ ImageHeight > 0 /\ weight > 0
             /\ sp.pan = Drive(2 * wx - ImageWidth * weight, ImageWidth * weight)
             /\ sp.tilt = Drive(2 * wy - ImageHeight * weight, ImageHeight * weight)
  <2>1. est # NoSun
    BY <1>5, GuidanceAssumption DEF OnEstimate, NoSun
  <2>2. weight > 0 /\ est.wx = wx /\ est.wy = wy /\ est.weight = weight
    BY <2>1, <1>1 DEF Estimate
  <2> HIDE DEF est, weight, wx, wy
  <2> QED BY <1>5, <2>2, GuidanceAssumption DEF OnEstimate
<1> HIDE DEF bright, weight, wx, wy, est, sp
<1>6. ASSUME sp # Neutral PROVE OnTheSideOf(bright, sp)
  <2>1. /\ 2 * wx >= ImageWidth * weight => sp.pan >= 0
        /\ 2 * wx <= ImageWidth * weight => sp.pan <= 0
    BY <1>1, <1>5, <1>6, AxisSteers, GuidanceAssumption
  <2>2. /\ 2 * wy >= ImageHeight * weight => sp.tilt >= 0
        /\ 2 * wy <= ImageHeight * weight => sp.tilt <= 0
    BY <1>1, <1>5, <1>6, AxisSteers, GuidanceAssumption
  <2> QED BY <2>1, <2>2, <1>2, <1>3 DEF OnTheSideOf
<1> QED BY <1>4, <1>6 DEF bright, est, sp

\* A sun on one side of the image never drives the platform to the other side.
THEOREM SunSteersItsWay == Spec => []SteersTowardsSun
<1>1. GuidanceInit => SteersTowardsSun
  BY DEF GuidanceInit, SteersTowardsSun
<1>2. ASSUME SteersTowardsSun, [Next]_vars PROVE SteersTowardsSun'
  <2>1. ASSUME NEW f \in Frames, Frame(f) PROVE SteersTowardsSun'
    <3>1. /\ input'.frame = f /\ input'.threshold = threshold
          /\ setpoint' = OnEstimate(Estimate(f, threshold))
      BY <2>1 DEF Frame, Send
    <3>2. OnTheSideOf(Bright(f, threshold), setpoint')
      BY <3>1, EstimateSteers
    <3>3. Bright(f, threshold) = {p \in Pixels(f) : f.luma[p] >= threshold}
      BY DEF Bright
    <3> QED BY <3>1, <3>2, <3>3 DEF SteersTowardsSun, OnTheSideOf
  <2>2. ASSUME NEW tilt \in Voltages, NEW pan \in Voltages, Pot(tilt, pan)
        PROVE SteersTowardsSun'
    BY <2>2 DEF Pot, SteersTowardsSun
  <2>3. ASSUME NEW tilt \in GuiValues, NEW pan \in GuiValues, Gui(tilt, pan)
        PROVE SteersTowardsSun'
    BY <2>3 DEF Gui, SteersTowardsSun
  <2>4. CASE UNCHANGED <<input, setpoint>>
    BY <1>2, <2>4 DEF SteersTowardsSun
  <2> QED BY <1>2, <2>1, <2>2, <2>3, <2>4
          DEF Next, ImuSample, EnterManual, ExitManual, SetTrackerThreshold,
              SetMinConfidence, vars
<1> QED BY <1>1, <1>2, PTL DEF Spec

-----------------------------------------------------------------------------
(* What intensityAt_() reads.                                              *)

\* A product grows with its first factor.
LEMMA Grows == ASSUME NEW a \in Int, NEW b \in Int, NEW c \in Nat, a <= b
               PROVE  a * c <= b * c /\ (0 <= a => 0 <= a * c)
  OBVIOUS

LEMMA NextMultiple == ASSUME NEW a \in Int, NEW b \in Int
                      PROVE  (a + 1) * b = a * b + b /\ a * b \in Int /\ a * b = b * a
  OBVIOUS

LEMMA PixelInside ==
    ASSUME NEW f \in Frames, isFrameValid(f), NEW p \in Pixels(f)
    PROVE  BytesRead(f, p) \subseteq 0 .. f.size - 1
<1> DEFINE x == p[1]
           y == p[2]
<1>1. /\ f.width \in Int /\ f.height \in Int /\ f.size \in Int
      /\ f.stride \in Nat /\ f.bpp \in Nat
      /\ x \in Int /\ 0 <= x /\ x + 1 <= f.width
      /\ y \in Int /\ 0 <= y /\ y + 1 <= f.height
  BY GuidanceAssumption DEF isFrameValid, Pixels
<1> HIDE DEF x, y
<1>2. (x + 1) * f.bpp <= f.width * f.bpp /\ 0 <= x * f.bpp
  BY <1>1, Grows
<1>3. (y + 1) * f.stride <= f.height * f.stride /\ 0 <= y * f.stride
  BY <1>1, Grows
<1>4. f.width * f.bpp <= f.stride /\ f.stride * f.height <= f.size
  BY DEF isFrameValid
<1>5. /\ (x + 1) * f.bpp = x * f.bpp + f.bpp /\ x * f.bpp \in Int
      /\ (y + 1) * f.stride = y * f.stride + f.stride /\ y * f.stride \in Int
      /\ f.height * f.stride = f.stride * f.height
      /\ f.width * f.bpp \in Int /\ f.stride * f.height \in Int
  <2>1. x \in Int /\ y \in Int /\ f.bpp \in Int /\ f.stride \in Int /\ f.width \in Int /\ f.height \in Int
    BY <1>1
  <2> QED BY <2>1, NextMultiple, Zenon
<1> DEFINE column == x * f.bpp
           row == y * f.stride
           first == row + column
<1>6. first \in Int /\ 0 <= first /\ first + f.bpp <= f.size
  <2> DEFINE line == f.width * f.bpp
             whole == f.stride * f.height
  <2>1. /\ column \in Int /\ row \in Int /\ line \in Int /\ whole \in Int
        /\ 0 <= column /\ column + f.bpp <= line /\ line <= f.stride
        /\ 0 <= row /\ row + f.stride <= whole /\ whole <= f.size
    BY <1>2, <1>3, <1>4, <1>5
  <2> HIDE DEF column, row, line, whole
  <2> QED BY <1>1, <2>1
<1>7. BytesRead(f, p) = first .. first + f.bpp - 1
  BY DEF BytesRead, x, y
<1> HIDE DEF first
<1> QED BY <1>1, <1>6, <1>7

\* No byte outside the buffer of an accepted frame is read, for any geometry that
\* a frame may claim.
THEOREM ReadsStayInside == Spec => []ReadsInside
<1>1. FrameInv => ReadsInside
  BY PixelInside DEF FrameInv, ReadsInside
<1> QED BY <1>1, FrameInvariant, PTL

-----------------------------------------------------------------------------
(* Branches: a leg settles in an upright solution and stays there.         *)

\* For any pose, a leg has two angles or none.
TwoAngles == \A sp : \A leg \in Legs : Branches(sp, leg) \in {<<>>} \cup (Int \X Int)

LEMMA Wraps == ASSUME NEW q \in Int PROVE wrapAngle(q) \in -180 .. 179
  BY DEF wrapAngle

LEMMA HornIsBranch ==
    ASSUME NEW b \in Int \X Int, NEW prev
    PROVE  /\ Horn(b, prev) \in {wrapAngle(b[1]), wrapAngle(b[2])}
           /\ Upward(wrapAngle(b[1])) \/ Upward(wrapAngle(b[2])) => Upward(Horn(b, prev))
<1> DEFINE w1 == wrapAngle(b[1])
           w2 == wrapAngle(b[2])
           near == chooseClosest(b[1], b[2], prev)
           other == otherBranch(b[1], b[2], near)
<1>1. w1 \in -180 .. 179 /\ w2 \in -180 .. 179
  BY Wraps
<1>2. near \in {w1, w2}
  BY DEF chooseClosest
<1>3. other = IF Distance(near, w1) < Distance(near, w2) THEN w2 ELSE w1
  BY DEF otherBranch
<1>4. Horn(b, prev) = IF Upward(near) THEN near ELSE other
  BY DEF Horn
<1> HIDE DEF w1, w2, near, other
<1>5. near = w1 => /\ Horn(b, prev) \in {w1, w2}
                   /\ Upward(w1) \/ Upward(w2) => Upward(Horn(b, prev))
  BY <1>1, <1>3, <1>4 DEF Distance, Upward
<1>6. near = w2 => /\ Horn(b, prev) \in {w1, w2}
                   /\ Upward(w1) \/ Upward(w2) => Upward(Horn(b, prev))
  BY <1>1, <1>3, <1>4 DEF Distance, Upward
<1>7. /\ Horn(b, prev) \in {w1, w2}
      /\ Upward(w1) \/ Upward(w2) => Upward(Horn(b, prev))
  BY <1>2, <1>5, <1>6
<1> QED BY <1>7 DEF w1, w2

LEMMA HornStays ==
    ASSUME NEW b \in Int \X Int, NEW q \in {wrapAngle(b[1]), wrapAngle(b[2])}, Upward(q)
    PROVE  Horn(b, q) = q
<1> DEFINE w1 == wrapAngle(b[1])
           w2 == wrapAngle(b[2])
           near == chooseClosest(b[1], b[2], q)
<1>1. w1 \in -180 .. 179 /\ w2 \in -180 .. 179
  BY Wraps
<1>2. near = IF Distance(w1, q) <= Distance(w2, q) THEN w1 ELSE w2
  BY DEF chooseClosest
<1>3. q \in {w1, w2}
  OBVIOUS
<1>4. near = q
  <2> HIDE DEF w1, w2, near
  <2> QED BY <1>1, <1>2, <1>3 DEF Distance
<1> QED BY <1>4 DEF Horn

\* Where the legs are after a measurement.
PoseInv ==
    valid /\ input.kind # "none" =>
        \A leg \in Legs : Reachable(corrected, leg) =>
            /\ qPrev[leg] \in {wrapAngle(Branches(corrected, leg)[1]),
                               wrapAngle(Branches(corrected, leg)[2])}
            /\ Upward(qPrev[leg]) \/ Uprights(corrected, leg) = {}
            /\ command.targets[leg] = Servo(qPrev[leg])

LEMMA SolveSettles ==
    ASSUME TwoAngles, KinInv, Measures
    PROVE  PoseInv'
<1> SUFFICES ASSUME valid, NEW leg \in Legs, Reachable(corrected', leg)
             PROVE  /\ qPrev'[leg] \in {wrapAngle(Branches(corrected', leg)[1]),
                                        wrapAngle(Branches(corrected', leg)[2])}
                    /\ Upward(qPrev'[leg]) \/ Uprights(corrected', leg) = {}
                    /\ command'.targets[leg] = Servo(qPrev'[leg])
  BY DEF PoseInv, Measures, Solve, Reachable, Uprights
<1> DEFINE b == Branches(corrected', leg)
<1>1. b \in Int \X Int
  BY DEF TwoAngles, Reachable
<1>2. qPrev'[leg] = Horn(b, qPrev[leg]) /\ command'.targets[leg] = Servo(Horn(b, qPrev[leg]))
  BY DEF Measures, Solve
<1>3. Upward(wrapAngle(b[1])) \/ Upward(wrapAngle(b[2])) \/ Uprights(corrected', leg) = {}
  BY DEF Uprights
<1> QED BY <1>1, <1>2, <1>3, HornIsBranch

LEMMA PoseInvariant == ASSUME TwoAngles PROVE Spec => []PoseInv
<1>1. GuidanceInit => PoseInv
  BY DEF GuidanceInit, PoseInv
<1>2. KinInv /\ PoseInv /\ [Next]_vars => PoseInv'
  <2> SUFFICES ASSUME KinInv, PoseInv, [Next]_vars PROVE PoseInv'
    OBVIOUS
  <2>1. CASE Measures
    BY <2>1, SolveSettles
  <2>2. CASE Rests
    BY <2>2 DEF Rests, kinematicsVars, PoseInv, Reachable, Uprights
  <2> QED BY <2>1, <2>2, MeasuresOrRests
<1> QED BY <1>1, <1>2, KinInvariant, PTL DEF Spec

\* The command of a leg with a single upright solution is the angle of that one,
\* whatever poses came before, for any geometry in which a leg has two angles or none.
THEOREM PoseAloneDecides == ASSUME TwoAngles PROVE Spec => []PoseDecides
<1>1. PoseInv => PoseDecides
  <2> SUFFICES ASSUME PoseInv, valid, input.kind # "none", NEW leg \in Legs,
                      NEW q \in Uprights(corrected, leg), Uprights(corrected, leg) = {q}
               PROVE  command.targets[leg] = Servo(q)
    BY DEF PoseDecides
  <2> DEFINE b == Branches(corrected, leg)
  <2>1. Reachable(corrected, leg)
    BY DEF Uprights
  <2>2. /\ qPrev[leg] \in {wrapAngle(b[1]), wrapAngle(b[2])} /\ Upward(qPrev[leg])
        /\ command.targets[leg] = Servo(qPrev[leg])
    BY <2>1 DEF PoseInv
  <2>3. qPrev[leg] \in Uprights(corrected, leg)
    BY <2>1, <2>2 DEF Uprights
  <2> QED BY <2>2, <2>3
<1> QED BY <1>1, PoseInvariant, PTL

\* A leg with an upright solution, or out of reach, does not move while one pose is
\* asked for again and again, whichever of its solutions it came to stand in.
THEOREM LegsAreSteady == ASSUME TwoAngles PROVE Spec => Repeatable
<1>1. KinInv /\ PoseInv /\ [Next]_vars =>
      [(input.kind # "none" /\ corrected' = corrected) =>
           \A leg \in Legs : ~Reachable(corrected, leg) \/ Uprights(corrected, leg) # {}
                             => command'.targets[leg] = command.targets[leg]]_vars
  <2> SUFFICES ASSUME KinInv, PoseInv, [Next]_vars,
                      input.kind # "none", corrected' = corrected, NEW leg \in Legs,
                      ~Reachable(corrected, leg) \/ Uprights(corrected, leg) # {}
               PROVE  command'.targets[leg] = command.targets[leg]
    OBVIOUS
  <2>1. CASE Rests
    BY <2>1 DEF Rests, kinematicsVars
  <2>2. CASE Measures /\ ~(valid /\ Reachable(corrected, leg))
    BY <2>2, SolveKeeps DEF Measures, KinInv
  <2>3. CASE Measures /\ valid /\ Reachable(corrected, leg)
    <3> DEFINE b == Branches(corrected, leg)
    <3>1. b \in Int \X Int
      BY <2>3 DEF TwoAngles, Reachable
    <3>2. /\ qPrev[leg] \in {wrapAngle(b[1]), wrapAngle(b[2])} /\ Upward(qPrev[leg])
          /\ command.targets[leg] = Servo(qPrev[leg])
      BY <2>3 DEF PoseInv
    <3>3. Horn(b, qPrev[leg]) = qPrev[leg]
      BY <3>1, <3>2, HornStays
    <3>4. command'.targets[leg] = Servo(Horn(b, qPrev[leg]))
      BY <2>3 DEF Measures, Solve
    <3> QED BY <3>2, <3>3, <3>4
  <2> QED BY <2>1, <2>2, <2>3, MeasuresOrRests
<1> QED BY <1>1, KinInvariant, PoseInvariant, PTL DEF Spec, Repeatable

-----------------------------------------------------------------------------
(* Potentiometers: converter, scaling, mapping and limits, one by one.     *)

\* The full scale that is asked for is one the converter has, whose resolution is a
\* whole fraction of the unit, and the supply lies below it.
ScaleFits == FullScale \in {4096, 2048, 1024, 512, 256} /\ Supply \in 1 .. FullScale - 1

LEMMA RangeAsAsked == ASSUME ScaleFits PROVE pgaRange = FullScale
<1> DEFINE fits == {i \in 1..6 : FullScale >= Ranges[i]}
<1>1. PICK k \in 2..6 : FullScale = Ranges[k]
  BY DEF ScaleFits, Ranges
<1>2. \A i \in 1..6 : i \in fits <=> i >= k
  BY <1>1 DEF Ranges
<1>3. (CHOOSE i \in fits : \A j \in fits : i <= j) = k
  BY <1>2
<1> QED BY <1>1, <1>2, <1>3 DEF pgaRange

\* What the program measures is the voltage, up to the last code.
LEMMA MeasuresVolts ==
    ASSUME ScaleFits, NEW v \in Int
    PROVE  Measured(v) = IF v < FullScale THEN v ELSE FullScale - 1
<1>1. Code(v) = LET code == (v * 32768) \div FullScale
                IN  IF code > 32767 THEN 32767 ELSE code
  BY RangeAsAsked DEF Code
<1>2. Measured(v) = (Code(v) * FullScale) \div 32768
  BY DEF Measured, ScaleFits
<1>3. CASE FullScale = 4096 BY <1>1, <1>2, <1>3
<1>4. CASE FullScale = 2048 BY <1>1, <1>2, <1>4
<1>5. CASE FullScale = 1024 BY <1>1, <1>2, <1>5
<1>6. CASE FullScale = 512  BY <1>1, <1>2, <1>6
<1>7. CASE FullScale = 256  BY <1>1, <1>2, <1>7
<1> QED BY <1>3, <1>4, <1>5, <1>6, <1>7 DEF ScaleFits

\* The ends and the middle of the supply are those of the normalised range.
LEMMA NormalisedEnds ==
    ASSUME ScaleFits, NEW v \in Int
    PROVE  /\ Normalised(v) \in -100 .. 100
           /\ v = 0 => Normalised(v) = -100
           /\ v >= Supply => Normalised(v) = 100
           /\ 2 * v = Supply => Normalised(v) = 0
<1> DEFINE inside == IF v < 0 THEN 0 ELSE IF v > Supply THEN Supply ELSE v
           part == (inside * 200) \div Supply
<1>1. Supply \in Nat \ {0} /\ inside \in 0 .. Supply
  BY DEF ScaleFits
<1>2. Normalised(v) = part - 100
  BY <1>1 DEF Normalised
<1>3. part \in 0 .. 200
  <2> HIDE DEF inside
  <2>1. part \in Int /\ Supply * part <= inside * 200 /\ inside * 200 < Supply * part + Supply
    BY <1>1, SMT
  <2>2. part <= 200
    <3>1. SUFFICES ASSUME part >= 201 PROVE FALSE
      BY <2>1
    <3>2. Supply * part >= Supply * 201
      BY <1>1, <2>1, <3>1, SMT
    <3> QED BY <1>1, <2>1, <3>2
  <2>3. part >= 0
    <3>1. SUFFICES ASSUME part + 1 <= 0 PROVE FALSE
      BY <2>1
    <3>2. Supply * (part + 1) <= 0 /\ Supply * (part + 1) = Supply * part + Supply
      BY <1>1, <2>1, <3>1, SMT
    <3> QED BY <1>1, <2>1, <3>2
  <2> QED BY <2>1, <2>2, <2>3
<1>4. v = 0 => part = 0
  BY <1>1
<1>5. v >= Supply => part = 200
  <2>1. v >= Supply => inside = Supply
    BY <1>1
  <2>2. (Supply * 200) \div Supply = 200
    BY <1>1, SMT
  <2> QED BY <2>1, <2>2
<1>6. 2 * v = Supply => part = 100
  <2>1. 2 * v = Supply => inside * 200 = Supply * 100
    BY <1>1
  <2>2. (Supply * 100) \div Supply = 100
    BY <1>1, SMT
  <2> QED BY <2>1, <2>2
<1> QED BY <1>2, <1>3, <1>4, <1>5, <1>6

\* The deadband keeps them, and the two ends stay opposite.
LEMMA ShapedEnds ==
    /\ Shaped(0) = 0 /\ Shaped(100) = 100 /\ Shaped(-100) = -100
    /\ \A n \in -100 .. 100 : Shaped(n) \in Int
<1>1. PotDeadband \in 0..99
  BY GuidanceAssumption
<1>2. ((100 - PotDeadband) * 100) \div (100 - PotDeadband) = 100
  <2>1. \A d \in Nat \ {0} : (d * 100) \div d = 100
    BY SMT
  <2> QED BY <1>1, <2>1
<1>3. ASSUME NEW n \in -100 .. 100 PROVE Shaped(n) \in Int
  <2>1. ((Abs(n) - PotDeadband) * 100) \div (100 - PotDeadband) \in Int
    BY <1>1 DEF Abs
  <2> QED BY <2>1, <1>1 DEF Shaped, Within, Signed
<1> QED BY <1>1, <1>2, <1>3 DEF Shaped, Abs, Signed, Within

\* The angle of one axis, and that of an inverted one.
LEMMA PotAngles ==
    ASSUME ScaleFits, NEW v \in Int
    PROVE  /\ v = 0 => PotAngle(v, FALSE) = -Within(MaxManual, MaxAngle)
           /\ v >= Supply => PotAngle(v, FALSE) = Within(MaxManual, MaxAngle)
           /\ 2 * v = Supply => PotAngle(v, FALSE) = 0
           /\ PotAngle(v, TRUE) = -PotAngle(v, FALSE)
<1> DEFINE angle(n) == Within(Signed(n, (Abs(n) * MaxManual) \div 100), MaxAngle)
<1>1. PICK m \in Int : m = Measured(v) /\ m = IF v < FullScale THEN v ELSE FullScale - 1
  BY MeasuresVolts DEF ScaleFits
<1>2. PICK n \in Int : n = Shaped(Normalised(m))
  BY NormalisedEnds, ShapedEnds
<1>3. PotAngle(v, FALSE) = angle(n) /\ PotAngle(v, TRUE) = angle(-n)
  BY <1>1, <1>2 DEF PotAngle
<1>4. /\ v = 0 => n = -100
      /\ v >= Supply => n = 100
      /\ 2 * v = Supply => n = 0
  BY <1>1, <1>2, NormalisedEnds, ShapedEnds DEF ScaleFits
<1>5. MaxManual \in Nat /\ MaxAngle \in Nat
  BY GuidanceAssumption
<1>6. /\ angle(-100) = -Within(MaxManual, MaxAngle)
      /\ angle(100) = Within(MaxManual, MaxAngle)
      /\ angle(0) = 0
  BY <1>5 DEF Within, Signed, Abs
<1>7. angle(-n) = -angle(n)
  <2>1. PICK a \in Nat : a = (Abs(n) * MaxManual) \div 100 /\ a = (Abs(-n) * MaxManual) \div 100
                          /\ (n = 0 => a = 0)
    <3>1. Abs(n) \in Nat /\ Abs(-n) = Abs(n) /\ (n = 0 => Abs(n) = 0)
      BY DEF Abs
    <3>2. PICK b \in Nat : b = Abs(n) * MaxManual /\ (n = 0 => b = 0)
      BY <1>5, <3>1, SMT
    <3> QED BY <3>1, <3>2
  <2> QED BY <1>5, <2>1 DEF Within, Signed
<1> QED BY <1>3, <1>4, <1>6, <1>7

\* The whole travel of a potentiometer is the whole manual range, when the full
\* scale of the configuration is one of the converter's.
THEOREM PotsReachTheirEnds == ASSUME ScaleFits PROVE Spec => []PotTravel
<1>1. GuidanceInit => PotTravel
  BY DEF GuidanceInit, PotTravel
<1>2. PotTravel /\ [Next]_vars => PotTravel'
  <2> SUFFICES ASSUME PotTravel, [Next]_vars PROVE PotTravel'
    OBVIOUS
  <2>1. ASSUME NEW f \in Frames, Frame(f) PROVE PotTravel'
    BY <2>1 DEF Frame, PotTravel
  <2>2. ASSUME NEW tilt \in Voltages, NEW pan \in Voltages, Pot(tilt, pan) PROVE PotTravel'
    <3>1. /\ input'.tilt = tilt /\ input'.pan = pan
          /\ setpoint'.tilt = PotAngle(tilt, InvertTilt) /\ setpoint'.pan = PotAngle(pan, FALSE)
      BY <2>2 DEF Pot, Send, FromPot
    <3>2. tilt \in Int /\ pan \in Int
      BY GuidanceAssumption
    <3>3. PotAngle(tilt, InvertTilt) = IF InvertTilt THEN -PotAngle(tilt, FALSE)
                                                     ELSE PotAngle(tilt, FALSE)
      BY <3>2, PotAngles DEF PotAngle
    <3> QED BY <3>1, <3>2, <3>3, PotAngles DEF PotTravel
  <2>3. ASSUME NEW tilt \in GuiValues, NEW pan \in GuiValues, Gui(tilt, pan) PROVE PotTravel'
    BY <2>3 DEF Gui, PotTravel
  <2>4. CASE UNCHANGED <<input, setpoint>>
    BY <2>4 DEF PotTravel
  <2> QED
    BY <2>1, <2>2, <2>3, <2>4
    DEF Next, vars, ImuSample, EnterManual, ExitManual, SetTrackerThreshold, SetMinConfidence
<1> QED BY <1>1, <1>2, PTL DEF Spec

=============================================================================
