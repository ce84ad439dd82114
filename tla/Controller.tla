------------------------------ MODULE Controller ------------------------------
(***************************************************************************)
(* What turns an estimate, a potentiometer voltage or a GUI value into a   *)
(* bounded setpoint: Controller, ManualInputMapper, ManualImuCoordinator   *)
(* and the scaling of ADS1115ManualInput; and ImuFeedbackMapper, which     *)
(* corrects a setpoint.  Angles are integers in a unit of the instance,    *)
(* voltages are in millivolts; a quotient is rounded towards zero.         *)
(***************************************************************************)
EXTENDS Integers

CONSTANTS
    ImageWidth, ImageHeight,   (* cfg_.image_width, cfg_.image_height       *)
    Gain,                      (* k_pan = k_tilt, in units at full error    *)
    Deadband,                  (* cfg_.deadband, in percent                 *)
    MaxAngle,                  (* max_pan_rad = max_tilt_rad                *)
    ControllerMinConfidence,   (* the Controller's own min_confidence       *)
    FullScale,                 (* settings_.full_scale_voltage              *)
    Supply,                    (* pot_supply_voltage                        *)
    PotDeadband,               (* tilt_deadband_norm, in percent            *)
    MaxManual,                 (* max_manual_tilt_deg                       *)
    InvertTilt,                (* invert_tilt                               *)
    ImuGain, ImuDeadband, MaxCorrection     (* ImuFeedbackMapper::Config    *)

Abs(n) == IF n < 0 THEN -n ELSE n
Signed(n, magnitude) == IF n < 0 THEN -magnitude ELSE magnitude
Within(v, limit) == IF v < -limit THEN -limit ELSE IF v > limit THEN limit ELSE v

Neutral == [tilt |-> 0, pan |-> 0]

-----------------------------------------------------------------------------
(* Controller.                                                             *)

\* Mutant of Drive: the error is taken from the sun to the middle.
DriveReversed(num, den) ==
    IF Abs(num) * 100 < Deadband * den THEN 0
    ELSE Within(Signed(-num, (Gain * (Abs(num) * 100 - Deadband * den))
                             \div ((100 - Deadband) * den)), MaxAngle)

\* One axis: the error num/den from the middle of the image, the deadband,
\* the gain and the limit.
Drive(num, den) ==
    IF Abs(num) * 100 < Deadband * den THEN 0
    ELSE Within(Signed(num, (Gain * (Abs(num) * 100 - Deadband * den))
                            \div ((100 - Deadband) * den)), MaxAngle)

OnEstimate(est) ==
    IF \/ est.confidence < ControllerMinConfidence
       \/ ImageWidth <= 0 \/ ImageHeight <= 0
    THEN Neutral
    ELSE [tilt |-> Drive(2 * est.wy - ImageHeight * est.weight, ImageHeight * est.weight),
          pan  |-> Drive(2 * est.wx - ImageWidth * est.weight, ImageWidth * est.weight)]

-----------------------------------------------------------------------------
(* Potentiometers and GUI.                                                 *)

Ranges == <<6144, 4096, 2048, 1024, 512, 256>>

\* Mutant of pgaRange: a range that is asked for exactly is missed.
pgaRangeBelow ==
    LET fits == {i \in 1..6 : FullScale > Ranges[i]}
    IN  IF fits = {} THEN 256 ELSE Ranges[CHOOSE i \in fits : \A j \in fits : i <= j]

\* pgaBits_(): the widest range that is not wider than asked for.
pgaRange ==
    LET fits == {i \in 1..6 : FullScale >= Ranges[i]}
    IN  IF fits = {} THEN 256 ELSE Ranges[CHOOSE i \in fits : \A j \in fits : i <= j]

\* The converter: a signed 16-bit code that saturates.
Code(volts) ==
    LET code == (volts * 32768) \div pgaRange IN IF code > 32767 THEN 32767 ELSE code

\* readLatestConversion_() and fullScaleVoltage_().
Measured(volts) ==
    (Code(volts) * (IF FullScale > 0 THEN FullScale ELSE 4096)) \div 32768

\* voltageToNormalised(), in percent.
Normalised(volts) ==
    LET supply == IF Supply > 0 THEN Supply ELSE 3300
        inside == IF volts < 0 THEN 0 ELSE IF volts > supply THEN supply ELSE volts
    IN  (inside * 200) \div supply - 100

\* applyDeadband() and clampUnit().
Shaped(norm) ==
    IF Abs(norm) <= PotDeadband THEN 0
    ELSE Within(Signed(norm, ((Abs(norm) - PotDeadband) * 100) \div (100 - PotDeadband)), 100)

\* map() and buildManualSetpointFromPot() for one axis.
PotAngle(volts, invert) ==
    LET norm == Shaped(Normalised(Measured(volts)))
        turned == IF invert THEN -norm ELSE norm
    IN  Within(Signed(turned, (Abs(turned) * MaxManual) \div 100), MaxAngle)

FromPot(tilt, pan) == [tilt |-> PotAngle(tilt, InvertTilt), pan |-> PotAngle(pan, FALSE)]

\* setSetpoint() and buildManualSetpointFromGui() clamp to the same limits.
FromGui(tilt, pan) == [tilt |-> Within(tilt, MaxAngle), pan |-> Within(pan, MaxAngle)]

-----------------------------------------------------------------------------
(* ImuFeedbackMapper.                                                      *)

Correction(error) ==
    IF Abs(error) <= ImuDeadband THEN 0
    ELSE Within(Signed(error, (ImuGain * (Abs(error) - ImuDeadband)) \div 100), MaxCorrection)

\* The result is not clamped again.
Corrected(sp, valid, measured) ==
    IF valid THEN [sp EXCEPT !.tilt = @ + Correction(@ - measured)] ELSE sp

=============================================================================
