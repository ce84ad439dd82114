------------------------------ MODULE SunTracker ------------------------------
(***************************************************************************)
(* SunTracker::onFrame() as a function from a frame to an estimate: the    *)
(* brightness-weighted centroid of the pixels at or above the threshold.   *)
(* A frame is a record of its geometry, the length of its buffer and the   *)
(* luma of each pixel; a centroid is kept as numerators over one weight.   *)
(***************************************************************************)
EXTENDS Integers, FiniteSets, Functions

CONSTANTS
    MinPixels,        (* cfg_.min_pixels                                    *)
    ConfidenceScale   (* cfg_.confidence_scale, in percent                  *)

Clamped(v, lo, hi) == IF v < lo THEN lo ELSE IF v > hi THEN hi ELSE v

Pixels(f) == (0 .. f.width - 1) \X (0 .. f.height - 1)

\* Mutant of isFrameValid: the padding of the rows is not checked.
isFrameValidUnpadded(f) ==
    /\ f.width > 0 /\ f.height > 0
    /\ f.stride > 0
    /\ f.size >= f.stride * f.height

isFrameValid(f) ==
    /\ f.width > 0 /\ f.height > 0
    /\ f.stride > 0
    /\ f.stride >= f.width * f.bpp
    /\ f.size >= f.stride * f.height

\* The bytes intensityAt_() reads for one pixel.
BytesRead(f, p) ==
    LET first == p[2] * f.stride + p[1] * f.bpp IN first .. first + f.bpp - 1

Bright(f, threshold) == {p \in Pixels(f) : f.luma[p] >= threshold}

NoSun == [seen |-> FALSE, wx |-> 0, wy |-> 0, weight |-> 1, confidence |-> 0]

\* Ten times min_pixels give full confidence, min_pixels none.
Confidence(count) ==
    LET least == IF MinPixels < 1 THEN 1 ELSE MinPixels
        ratio == Clamped(((count - least) * 100) \div (9 * least), 0, 100)
    IN  Clamped((ratio * ConfidenceScale) \div 100, 0, 100)

Estimate(f, threshold) ==
    LET bright == Bright(f, threshold)
        weight == SumFunctionOnSet(f.luma, bright)
    IN  IF Cardinality(bright) < MinPixels \/ weight <= 0 THEN NoSun
        ELSE [seen |-> TRUE,
              wx |-> SumFunctionOnSet([p \in bright |-> f.luma[p] * p[1]], bright),
              wy |-> SumFunctionOnSet([p \in bright |-> f.luma[p] * p[2]], bright),
              weight |-> weight,
              confidence |-> Confidence(Cardinality(bright))]

=============================================================================
