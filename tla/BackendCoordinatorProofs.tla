----------------------- MODULE BackendCoordinatorProofs -----------------------
(***************************************************************************)
(* Theorems about the potentiometer input and the IMU under their          *)
(* coordinator: nothing left running, no bus closed under its user, whole  *)
(* samples, and corrections of the session, for any configurations, any    *)
(* number of samples given up and any number of edges that wait.           *)
(***************************************************************************)
EXTENDS BackendCoordinator, SequenceTheorems, TLAPS

-----------------------------------------------------------------------------
(* The inductive invariants.                                               *)

\* ADS1115ManualInput: bus, lock, flag and GPIO thread follow the owner.
AdsInv ==
    /\ owner \in Ads!OwnerPoints
    /\ gpio \in Ads!GpioPoints
    /\ edges \in Nat
    /\ owner = "down" => gpio = "off" /\ ~bus /\ ~running
    /\ owner \in {"pinned", "converting", "armed", "failed"} => gpio = "idle" /\ bus /\ ~running
    /\ owner = "up" => gpio # "off" /\ bus /\ running
    /\ owner = "stopping" => gpio # "off" /\ bus /\ ~running
    /\ owner = "close" => gpio = "off" /\ ~running

\* One conversion at a time, of the channel that phase_ names: under way, or
\* its edge raised, or its edge taken; what was read is what came before it.
ChannelInv ==
    (rested /\ gpio # "off") =>
        /\ phase \in 1..Len(Ads!Phases)
        /\ owner \in {"pinned", "failed"} =>
               phase = 1 /\ gpio = "idle" /\ converting = "none" /\ edges = 0
        /\ converting # "none" =>
               converting = Ads!Phases[phase] /\ edges = 0 /\ gpio # "lock"
        /\ edges > 0 => edges = 1 /\ result = Ads!Phases[phase] /\ gpio # "lock"
        /\ gpio = "lock" => result = Ads!Phases[phase]
        /\ gpio = "emit" => phase = 1 /\ parts = Ads!Phases
        /\ gpio # "emit" => parts = IF phase = 1 THEN <<>>
                                    ELSE IF phase = 2 THEN <<"tilt">> ELSE <<"tilt", "pan">>

\* Mpu6050Publisher: the same for the IMU.
ImuInv ==
    /\ imuOwner \in {"down", "opened", "initialised", "armed", "up", "stopping",
                     "close", "clear", "failed"}
    /\ imuPin \in {"off", "idle", "status", "burst", "emit"}
    /\ imuOwner \in {"down", "failed"} => imuPin = "off" /\ ~imuBus /\ ~imuRunning
    /\ imuOwner \in {"opened", "initialised"} => imuPin = "off" /\ imuBus /\ ~imuRunning
    /\ imuOwner = "armed" => imuPin = "idle" /\ imuBus /\ ~imuRunning
    /\ imuOwner \in {"up", "stopping"} => imuPin # "off" /\ imuBus
    /\ imuOwner \in {"close", "clear"} => imuPin = "off"
    /\ imuOwner = "clear" => ~imuBus

\* BackendCoordinator: which call may find which backend where.
CallInv ==
    /\ call \in {"down", "startManual"} => owner = "down" /\ imuOwner = "down"
    /\ call = "manualStarting" => owner \in {"pinned", "converting", "armed", "failed", "up", "down"}
                                  /\ imuOwner = "down"
    /\ call = "startImu" => owner \in {"up", "down"} /\ imuOwner = "down"
    /\ call = "imuStarting" => owner \in {"up", "down"} /\ imuOwner \in
                               {"opened", "initialised", "armed", "failed", "up", "down"}
    /\ call \in {"up", "stopImu"} => owner \in {"up", "down"} /\ imuOwner \in {"up", "down"}
    /\ call = "imuStopping" => owner \in {"up", "down"}
                               /\ imuOwner \in {"stopping", "close", "clear", "down"}
    /\ call = "stopManual" => owner \in {"up", "down"} /\ imuOwner = "down"
    /\ call = "manualStopping" => owner \in {"stopping", "close", "down"} /\ imuOwner = "down"
    /\ call \in {"down", "startManual", "manualStarting", "startImu", "imuStarting",
                 "up", "stopImu", "imuStopping", "stopManual", "manualStopping"}

\* ManualImuCoordinator: the sample, if there is one, was taken in this session.
SampleInv ==
    /\ session \in {"even", "odd"}
    /\ latest \in {"none", session}
    /\ correction \in {"none", session}

BackendsInv == AdsInv /\ ChannelInv /\ ImuInv /\ CallInv /\ SampleInv

-----------------------------------------------------------------------------
(* The steps of ADS1115ManualInput.                                        *)

AdsStep == Ads!Prepare \/ Ads!ClearRunning \/ Ads!StartStep \/ Ads!StopStep
           \/ Ads!GpioStep \/ Ads!ConversionDone

LEMMA AdsKept ==
    ASSUME AdsInv, AdsStep
    PROVE  AdsInv'
<1> USE DEF AdsInv, Ads!OwnerPoints, Ads!GpioPoints, Ads!OwnerGo
<1>1. CASE Ads!Prepare         BY <1>1 DEF Ads!Prepare
<1>2. CASE Ads!ClearRunning    BY <1>2 DEF Ads!ClearRunning
<1>3. CASE Ads!FirstConversion BY <1>3 DEF Ads!FirstConversion
<1>4. CASE Ads!AbandonStart    BY <1>4 DEF Ads!AbandonStart
<1>5. CASE Ads!Arm             BY <1>5 DEF Ads!Arm
<1>6. CASE Ads!SetRunning      BY <1>6 DEF Ads!SetRunning
<1>7. CASE Ads!JoinPin         BY <1>7 DEF Ads!JoinPin
<1>8. CASE Ads!CloseBus        BY <1>8 DEF Ads!CloseBus
<1>9. CASE Ads!TakeEdge        BY <1>9 DEF Ads!TakeEdge
<1>10. CASE Ads!Ignore         BY <1>10 DEF Ads!Ignore
<1>11. CASE Ads!ReadFails      BY <1>11 DEF Ads!ReadFails
<1>12. CASE Ads!Read           BY <1>12 DEF Ads!Read
<1>13. CASE Ads!Emit           BY <1>13 DEF Ads!Emit
<1>14. CASE Ads!ConversionDone BY <1>14 DEF Ads!ConversionDone
<1> QED
  BY <1>1, <1>2, <1>3, <1>4, <1>5, <1>6, <1>7, <1>8, <1>9, <1>10, <1>11, <1>12, <1>13, <1>14
  DEF AdsStep, Ads!StartStep, Ads!StopStep, Ads!GpioStep

\* A sequence that goes on as s and ends in e is s with e appended.
LEMMA AppendIs ==
    ASSUME NEW S, NEW s \in Seq(S), NEW e \in S, NEW t \in Seq(S),
           Len(t) = Len(s) + 1, \A i \in 1..Len(s) : t[i] = s[i], t[Len(s) + 1] = e
    PROVE  Append(s, e) = t
<1> DEFINE a == Append(s, e)
<1>1. /\ a \in Seq(S) /\ Len(a) = Len(s) + 1
      /\ \A i \in 1..Len(s) : a[i] = s[i]
      /\ a[Len(s) + 1] = e
  BY AppendProperties
<1>2. Len(s) \in Nat
  OBVIOUS
<1> HIDE DEF a
<1>3. \A i \in 1..Len(a) : a[i] = t[i]
  BY <1>1, <1>2
<1>4. a = t
  BY <1>1, <1>3, SeqEqual
<1> QED BY <1>4 DEF a

\* Appending the next channel to the channels read so far.
LEMMA SampleGrows ==
    /\ Append(<<"tilt">>, "pan") = <<"tilt", "pan">>
    /\ Append(<<"tilt", "pan">>, "spare") = <<"tilt", "pan", "spare">>
<1>1. \A S : \A s, t \in Seq(S) : \A e \in S :
          Len(t) = Len(s) + 1 /\ (\A i \in 1..Len(s) : t[i] = s[i]) /\ t[Len(s) + 1] = e
          => Append(s, e) = t
  BY AppendIs
<1>2. Append(<<"tilt">>, "pan") = <<"tilt", "pan">>
  <2>1. /\ <<"tilt">> \in Seq({"tilt", "pan", "spare"})
        /\ <<"tilt", "pan">> \in Seq({"tilt", "pan", "spare"})
        /\ "pan" \in {"tilt", "pan", "spare"}
        /\ Len(<<"tilt", "pan">>) = Len(<<"tilt">>) + 1
        /\ \A i \in 1..Len(<<"tilt">>) : <<"tilt", "pan">>[i] = <<"tilt">>[i]
        /\ <<"tilt", "pan">>[Len(<<"tilt">>) + 1] = "pan"
    OBVIOUS
  <2> QED BY <1>1, <2>1, Zenon
<1>3. Append(<<"tilt", "pan">>, "spare") = <<"tilt", "pan", "spare">>
  <2>1. /\ <<"tilt", "pan">> \in Seq({"tilt", "pan", "spare"})
        /\ <<"tilt", "pan", "spare">> \in Seq({"tilt", "pan", "spare"})
        /\ "spare" \in {"tilt", "pan", "spare"}
        /\ Len(<<"tilt", "pan", "spare">>) = Len(<<"tilt", "pan">>) + 1
        /\ \A i \in 1..Len(<<"tilt", "pan">>) :
               <<"tilt", "pan", "spare">>[i] = <<"tilt", "pan">>[i]
        /\ <<"tilt", "pan", "spare">>[Len(<<"tilt", "pan">>) + 1] = "spare"
    OBVIOUS
  <2> QED BY <1>1, <2>1, Zenon
<1> QED BY <1>2, <1>3

LEMMA ChannelsKept ==
    ASSUME AdsInv, ChannelInv, AdsStep
    PROVE  ChannelInv'
<1> USE DEF AdsInv, ChannelInv, Ads!OwnerPoints, Ads!GpioPoints, Ads!OwnerGo
<1>0. /\ Ads!Phases \in {<<"tilt", "pan">>, <<"tilt", "pan", "spare">>}
      /\ Len(Ads!Phases) \in {2, 3}
      /\ Ads!Phases[1] = "tilt" /\ Ads!Phases[2] = "pan"
      /\ Len(Ads!Phases) = 2 => Ads!Phases = <<"tilt", "pan">>
      /\ Len(Ads!Phases) = 3 => Ads!Phases = <<"tilt", "pan", "spare">>
      /\ Ads!Phases' = Ads!Phases
  BY DEF Ads!Phases
<1>1. CASE Ads!Prepare
  <2>1. rested' => converting = "none"
    BY <1>1, Zenon DEF Ads!Prepare
  <2> QED BY <1>0, <1>1, <2>1 DEF Ads!Prepare
<1>2. CASE Ads!ClearRunning    BY <1>0, <1>2 DEF Ads!ClearRunning
<1>3. CASE Ads!FirstConversion BY <1>0, <1>3 DEF Ads!FirstConversion
<1>4. CASE Ads!AbandonStart    BY <1>0, <1>4 DEF Ads!AbandonStart
<1>5. CASE Ads!Arm             BY <1>0, <1>5 DEF Ads!Arm
<1>6. CASE Ads!SetRunning      BY <1>0, <1>6 DEF Ads!SetRunning
<1>7. CASE Ads!JoinPin         BY <1>0, <1>7 DEF Ads!JoinPin
<1>8. CASE Ads!CloseBus        BY <1>0, <1>8 DEF Ads!CloseBus
<1>9. CASE Ads!TakeEdge        BY <1>0, <1>9 DEF Ads!TakeEdge
<1>10. CASE Ads!Ignore         BY <1>0, <1>10 DEF Ads!Ignore
<1>11. CASE Ads!ReadFails      BY <1>0, <1>11 DEF Ads!ReadFails
<1>12. CASE Ads!Read
  <2> SUFFICES ASSUME rested PROVE ChannelInv'
    BY <1>12 DEF Ads!Read
  <2>0. gpio = "lock" /\ owner = "up"
    BY <1>12 DEF Ads!Read
  <2>1. /\ converting = "none" /\ edges = 0
        /\ result = Ads!Phases[phase] /\ phase \in 1..Len(Ads!Phases)
        /\ parts = IF phase = 1 THEN <<>> ELSE IF phase = 2 THEN <<"tilt">> ELSE <<"tilt", "pan">>
    BY <2>0
  <2>2. /\ UNCHANGED <<owner, edges, result, rested>>
        /\ phase' = (IF phase = Len(Ads!Phases) THEN 1 ELSE phase + 1)
        /\ parts' = Append(parts, result)
        /\ gpio' = (IF phase = Len(Ads!Phases) THEN "emit" ELSE "idle")
        /\ converting' = Ads!Phases[phase'] \/ converting' = "none"
    <3> HIDE DEF AdsInv, ChannelInv
    <3> QED BY <1>12, <2>1 DEF Ads!Read
  <2>7. Append(<<>>, "tilt") = <<"tilt">>
    BY SMT
  <2>8. Append(<<"tilt">>, "pan") = <<"tilt", "pan">>
    BY SampleGrows
  <2>9. Append(<<"tilt", "pan">>, "spare") = <<"tilt", "pan", "spare">>
    BY SampleGrows
  <2>3. Ads!Phases = <<"tilt", "pan", "spare">> => Ads!Phases[3] = "spare"
    OBVIOUS
  <2>4. CASE phase = 1
    BY <1>0, <2>0, <2>1, <2>2, <2>4, <2>7
  <2>5. CASE phase = 2
    BY <1>0, <2>0, <2>1, <2>2, <2>5, <2>8
  <2>6. CASE phase = 3
    BY <1>0, <2>0, <2>1, <2>2, <2>3, <2>6, <2>9
  <2> QED BY <1>0, <2>1, <2>4, <2>5, <2>6
<1>13. CASE Ads!Emit           BY <1>0, <1>13 DEF Ads!Emit
<1>14. CASE Ads!ConversionDone BY <1>0, <1>14 DEF Ads!ConversionDone
<1> QED
  BY <1>1, <1>2, <1>3, <1>4, <1>5, <1>6, <1>7, <1>8, <1>9, <1>10, <1>11, <1>12, <1>13, <1>14
  DEF AdsStep, Ads!StartStep, Ads!StopStep, Ads!GpioStep

-----------------------------------------------------------------------------
(* The steps of Mpu6050Publisher.                                          *)

ImuStep == Imu!Open \/ Imu!Stop \/ Imu!StartStep \/ Imu!StopStep
           \/ Imu!ReadStep \/ Imu!Emit \/ Imu!Measure

LEMMA ImuKept ==
    ASSUME ImuInv, ImuStep
    PROVE  ImuInv'
<1> USE DEF ImuInv, Imu!OwnerGo, Imu!PinGo
<1>1. CASE Imu!Open        BY <1>1 DEF Imu!Open
<1>2. CASE Imu!Initialise  BY <1>2 DEF Imu!Initialise
<1>3. CASE Imu!Arm         BY <1>3 DEF Imu!Arm
<1>4. CASE Imu!SetRunning  BY <1>4 DEF Imu!SetRunning
<1>5. CASE Imu!Abandon     BY <1>5 DEF Imu!Abandon
<1>6. CASE Imu!Stop        BY <1>6 DEF Imu!Stop
<1>7. CASE Imu!Join        BY <1>7 DEF Imu!Join
<1>8. CASE Imu!Close       BY <1>8 DEF Imu!Close
<1>9. CASE Imu!Clear       BY <1>9 DEF Imu!Clear
<1>10. CASE Imu!Measure    BY <1>10 DEF Imu!Measure
<1>11. CASE Imu!TakeEdge   BY <1>11 DEF Imu!TakeEdge
<1>12. CASE Imu!ReadStatus BY <1>12 DEF Imu!ReadStatus
<1>13. CASE Imu!ReadBurst  BY <1>13 DEF Imu!ReadBurst
<1>14. CASE Imu!Emit       BY <1>14 DEF Imu!Emit
<1> QED
  BY <1>1, <1>2, <1>3, <1>4, <1>5, <1>6, <1>7, <1>8, <1>9, <1>10, <1>11, <1>12, <1>13, <1>14
  DEF ImuStep, Imu!StartStep, Imu!StopStep, Imu!ReadStep

-----------------------------------------------------------------------------
(* The composition.                                                        *)

LEMMA BackendsInit == Init => BackendsInv
  BY DEF Init, BackendsInv, AdsInv, ChannelInv, ImuInv, CallInv, SampleInv, Ads!Init,
         Imu!Init, Ads!OwnerPoints, Ads!GpioPoints

\* Every step of the coordinator is a step of the potentiometer input or leaves it
\* alone, and the same for the IMU.
LEMMA StepsOfEach ==
    ASSUME [Next]_vars
    PROVE  /\ AdsStep \/ UNCHANGED adsVars
           /\ ImuStep \/ UNCHANGED imuVars
<1> USE DEF AdsStep, ImuStep
<1>1. CASE Start \/ Stop \/ SkipManual \/ ManualRefused \/ ManualStarted \/ ImuStarted
           \/ ImuStopped \/ ManualStopped
  BY <1>1 DEF Start, Stop, SkipManual, ManualRefused, ManualStarted, ImuStarted, ImuStopped,
              ManualStopped
<1>2. CASE StartManual \/ StartImu \/ StopImu \/ StopManual
  BY <1>2 DEF StartManual, StartImu, StopImu, StopManual
<1>3. CASE AdsOwnerStep \/ AdsPinStep \/ AdsConverts
  BY <1>3 DEF AdsOwnerStep, AdsPinStep, AdsConverts, PotSample, Ads!GpioStep
<1>4. CASE ImuOwnerStep \/ ImuPinStep \/ ImuMeasures
  BY <1>4 DEF ImuOwnerStep, ImuPinStep, ImuMeasures, ImuSample
<1>5. CASE UNCHANGED vars
  BY <1>5 DEF vars
<1> QED BY <1>1, <1>2, <1>3, <1>4, <1>5 DEF Next, CallStep

LEMMA BackendsKept == ASSUME BackendsInv, [Next]_vars
                      PROVE  AdsInv' /\ ChannelInv' /\ ImuInv'
<1>1. AdsInv' /\ ChannelInv'
  <2>1. CASE AdsStep
    BY <2>1, AdsKept, ChannelsKept DEF BackendsInv
  <2>2. CASE UNCHANGED adsVars
    BY <2>2 DEF BackendsInv, AdsInv, ChannelInv, adsVars, Ads!Phases
  <2> QED BY <2>1, <2>2, StepsOfEach
<1>2. ImuInv'
  <2>1. CASE ImuStep
    BY <2>1, ImuKept DEF BackendsInv
  <2>2. CASE UNCHANGED imuVars
    BY <2>2 DEF BackendsInv, ImuInv, imuVars
  <2> QED BY <2>1, <2>2, StepsOfEach
<1> QED BY <1>1, <1>2

LEMMA SamplesKept == ASSUME SampleInv, [Next]_vars
                     PROVE  SampleInv'
<1> USE DEF SampleInv
<1>1. CASE Start
  BY <1>1 DEF Start, Reset
<1>2. CASE UNCHANGED <<session, latest, correction>>
  BY <1>2
<1>3. CASE PotSample
  BY <1>3 DEF PotSample, ApplyImuCorrection
<1>4. CASE ImuSample
  BY <1>4 DEF ImuSample, UpdateImuSample
<1>5. \/ Start \/ PotSample \/ ImuSample
      \/ UNCHANGED <<session, latest, correction>>
  BY DEF Next, CallStep, vars, callVars, Stop, SkipManual, ManualRefused, ManualStarted,
         ImuStarted, ImuStopped, ManualStopped, StartManual, StartImu, StopImu, StopManual,
         AdsOwnerStep, AdsPinStep, AdsConverts, ImuOwnerStep, ImuPinStep, ImuMeasures
<1> QED BY <1>1, <1>2, <1>3, <1>4, <1>5

\* A call goes on only when the backend it waits for has come to rest.
LEMMA CallsKept == ASSUME CallInv, [Next]_vars
                   PROVE  CallInv'
<1> USE DEF CallInv, Ads!OwnerGo, Imu!OwnerGo, Go, GiveUp, adsVars, imuVars, callVars
<1>1. CASE Start          BY <1>1 DEF Start
<1>2. CASE Stop           BY <1>2 DEF Stop
<1>3. CASE SkipManual     BY <1>3 DEF SkipManual
<1>4. CASE StartManual    BY <1>4 DEF StartManual, Ads!Prepare
<1>5. CASE ManualRefused  BY <1>5 DEF ManualRefused
<1>6. CASE ManualStarted  BY <1>6 DEF ManualStarted
<1>7. CASE StartImu       BY <1>7 DEF StartImu, Imu!Open
<1>8. CASE ImuStarted     BY <1>8 DEF ImuStarted
<1>9. CASE StopImu        BY <1>9 DEF StopImu, Imu!Stop
<1>10. CASE ImuStopped    BY <1>10 DEF ImuStopped
<1>11. CASE StopManual    BY <1>11 DEF StopManual, Ads!ClearRunning
<1>12. CASE ManualStopped BY <1>12 DEF ManualStopped
<1>13. CASE AdsOwnerStep
  BY <1>13 DEF AdsOwnerStep, Ads!StartStep, Ads!StopStep, Ads!FirstConversion,
               Ads!AbandonStart, Ads!Arm, Ads!SetRunning, Ads!JoinPin, Ads!CloseBus
<1>14. CASE ImuOwnerStep
  BY <1>14 DEF ImuOwnerStep, Imu!StartStep, Imu!StopStep, Imu!Initialise, Imu!Arm,
               Imu!SetRunning, Imu!Abandon, Imu!Join, Imu!Close, Imu!Clear
<1>15. CASE UNCHANGED <<call, owner, imuOwner>>
  BY <1>15
<1>16. CASE AdsPinStep \/ AdsConverts \/ ImuPinStep \/ ImuMeasures
  <2>1. UNCHANGED <<call, owner, imuOwner>>
    BY <1>16 DEF AdsPinStep, AdsConverts, PotSample, ImuPinStep, ImuMeasures, ImuSample,
                 Ads!TakeEdge, Ads!Ignore, Ads!ReadFails, Ads!Read, Ads!Emit,
                 Ads!ConversionDone, Imu!ReadStep, Imu!TakeEdge, Imu!ReadStatus,
                 Imu!ReadBurst, Imu!Emit, Imu!Measure
  <2> QED BY <2>1, <1>15
<1>17. CASE UNCHANGED vars
  BY <1>15, <1>17 DEF vars
<1> QED
  BY <1>1, <1>2, <1>3, <1>4, <1>5, <1>6, <1>7, <1>8, <1>9, <1>10, <1>11, <1>12, <1>13, <1>14,
     <1>16, <1>17
  DEF Next, CallStep

LEMMA BackendsInvariant == Spec => []BackendsInv
<1>1. BackendsInv /\ [Next]_vars => BackendsInv'
  BY BackendsKept, SamplesKept, CallsKept DEF BackendsInv
<1> QED BY <1>1, BackendsInit, PTL DEF Spec

\* After stop(), and after a start() that failed at any step of either backend,
\* there is no GPIO thread and no open bus.
THEOREM StopsLeaveNothing == Spec => []NothingLeftRunning
<1>1. BackendsInv => NothingLeftRunning
  BY DEF BackendsInv, AdsInv, ImuInv, CallInv, NothingLeftRunning
<1> QED BY <1>1, BackendsInvariant, PTL

\* No setpoint is corrected with the attitude of an earlier session.
THEOREM CorrectionsAreFresh == Spec => []CorrectionOfSession
<1>1. BackendsInv => CorrectionOfSession
  BY DEF BackendsInv, SampleInv, CorrectionOfSession
<1> QED BY <1>1, BackendsInvariant, PTL

\* A potentiometer sample is one reading of each channel in their order, if the
\* converter was at rest when start() was called.
THEOREM SamplesAreWhole == Spec => []SampleIsWhole
<1>1. BackendsInv => SampleIsWhole
  BY DEF BackendsInv, ChannelInv, SampleIsWhole, Ads!SampleIsWhole
<1> QED BY <1>1, BackendsInvariant, PTL

\* No bus is closed while a GPIO thread uses it.
THEOREM BusesOutliveUse == Spec => []BusOutlivesUse
<1>1. BackendsInv => BusOutlivesUse
  BY DEF BackendsInv, AdsInv, ImuInv, BusOutlivesUse, Ads!BusOutlivesUse, Imu!BusOutlivesUse,
         Ads!OwnerPoints
<1> QED BY <1>1, BackendsInvariant, PTL

-----------------------------------------------------------------------------
(* The contract with SystemManager.                                        *)

\* A call waits only for a backend that was requested, and goes on to the IMU
\* only with the potentiometers up.
RequestInv ==
    /\ call = "manualStarting" => "manual" \in requested
    /\ call = "imuStarting" => "imu" \in requested
    /\ call \in {"startImu", "imuStarting"} /\ "manual" \in requested => owner = "up"

LEMMA RequestsKept == ASSUME BackendsInv, RequestInv, [Next]_vars
                      PROVE  RequestInv'
<1> USE DEF RequestInv, Go, GiveUp, Ads!OwnerGo
<1>1. CASE Start \/ Stop \/ SkipManual \/ ManualRefused \/ ManualStarted \/ ImuStarted
           \/ ImuStopped \/ ManualStopped
  BY <1>1 DEF Start, Stop, SkipManual, ManualRefused, ManualStarted, ImuStarted, ImuStopped,
              ManualStopped, adsVars
<1>2. CASE StartManual \/ StopManual
  BY <1>2 DEF StartManual, StopManual, Ads!Prepare, Ads!ClearRunning
<1>3. CASE StartImu \/ StopImu
  BY <1>3 DEF StartImu, StopImu, adsVars
<1>4. CASE AdsOwnerStep
  <2>1. call \in {"startImu", "imuStarting"} => owner \in {"up", "down"}
    BY DEF BackendsInv, CallInv
  <2> QED
    BY <1>4, <2>1 DEF AdsOwnerStep, callVars, Ads!StartStep, Ads!StopStep, Ads!FirstConversion,
       Ads!AbandonStart, Ads!Arm, Ads!SetRunning, Ads!JoinPin, Ads!CloseBus
<1>5. CASE UNCHANGED <<call, owner, requested>>
  BY <1>5
<1>6. CASE AdsPinStep \/ AdsConverts \/ ImuOwnerStep \/ ImuPinStep \/ ImuMeasures
           \/ UNCHANGED vars
  <2>1. UNCHANGED <<call, owner, requested>>
    BY <1>6 DEF AdsPinStep, AdsConverts, PotSample, ImuOwnerStep, ImuPinStep, ImuMeasures,
       ImuSample, Ads!TakeEdge, Ads!Ignore, Ads!ReadFails, Ads!Read, Ads!Emit,
       Ads!ConversionDone, vars, callVars, adsVars
  <2> QED BY <1>5, <2>1
<1> QED BY <1>1, <1>2, <1>3, <1>4, <1>6 DEF Next, CallStep

LEMMA RequestsInvariant == Spec => []RequestInv
<1>1. Init => RequestInv
  BY DEF Init, RequestInv
<1> QED BY <1>1, RequestsKept, BackendsInvariant, PTL DEF Spec

\* Where a backend is at rest, SystemManager sees it off or on.
Views ==
    /\ owner = "down" => PotView = "off"
    /\ owner \in {"up", "stopping"} => PotView # "off"
    /\ owner \in {"pinned", "converting", "armed", "failed"} => PotView = "on"
    /\ owner = "close" => PotView # "calling"
    /\ imuOwner \in {"down", "failed"} => ImuView = "off"
    /\ imuOwner \in {"opened", "initialised", "armed"} => ImuView = "on"
    /\ imuOwner \in {"up", "stopping"} => ImuView # "off"
    /\ imuOwner \in {"close", "clear"} => ImuView # "calling"
    /\ PotView \in {"off", "on", "calling"} /\ ImuView \in {"off", "on", "calling"}

LEMMA ViewsAtRest == BackendsInv => Views
  BY DEF BackendsInv, AdsInv, ImuInv, PotView, ImuView, Views

Contracted == [Contract!Next]_(Contract!vars)

LEMMA CallsAreContracted ==
    ASSUME AdsInv, CallInv, Views, Views', RequestInv, Start \/ Stop \/ CallStep
    PROVE  Contracted
<1> USE DEF CallInv, RequestInv, Go, GiveUp, Ads!OwnerGo, Imu!OwnerGo
<1>0. /\ UNCHANGED adsVars => UNCHANGED <<owner, PotView>>
      /\ UNCHANGED imuVars => UNCHANGED <<imuOwner, ImuView>>
  BY DEF PotView, ImuView, adsVars, imuVars
<1>1. CASE Start
  <2>1. Contract!Start
    BY <1>0, <1>1 DEF Start, Contract!Start, Phase
  <2> QED BY <2>1 DEF Contracted, Contract!Next
<1>2. CASE Stop
  <2>1. Contract!Stop
    BY <1>0, <1>2 DEF Stop, Contract!Stop, Phase
  <2> QED BY <2>1 DEF Contracted, Contract!Next
<1>3. CASE SkipManual
  BY <1>0, <1>3 DEF SkipManual, Contracted, Contract!vars, Phase
<1>4. CASE StartManual
  <2>1. Contract!PotUp
    BY <1>0, <1>4 DEF StartManual, Ads!Prepare, Views, Contract!PotUp, Phase
  <2> QED BY <2>1 DEF Contracted, Contract!Next
<1>5. CASE ManualRefused
  <2>1. Contract!Fail
    BY <1>0, <1>5 DEF ManualRefused, Views, Contract!Fail, Phase
  <2> QED BY <2>1 DEF Contracted, Contract!Next
<1>6. CASE ManualStarted
  <2>1. CASE owner = "up"
    BY <1>0, <1>6, <2>1 DEF ManualStarted, Contracted, Contract!vars, Phase
  <2>2. CASE owner # "up"
    <3>1. Contract!Fail
      BY <1>0, <1>6, <2>2 DEF ManualStarted, Views, Contract!Fail, Phase
    <3> QED BY <3>1 DEF Contracted, Contract!Next
  <2> QED BY <2>1, <2>2
<1>7. CASE StartImu
  <2>1. CASE "imu" \notin requested
    <3>1. Contract!Succeed
      BY <1>0, <1>7, <2>1 DEF StartImu, Views, Contract!Succeed, Phase
    <3> QED BY <3>1 DEF Contracted, Contract!Next
  <2>2. CASE "imu" \in requested /\ imuOwner' = "opened"
    <3>1. Contract!ImuUp
      BY <1>0, <1>7, <2>2 DEF StartImu, Imu!Open, Views, Contract!ImuUp, Phase
    <3> QED BY <3>1 DEF Contracted, Contract!Next
  <2>3. CASE "imu" \in requested /\ imuOwner' = "failed"
    BY <1>0, <1>7, <2>3 DEF StartImu, Imu!Open, Views, Contracted, Contract!vars, Phase
  <2> QED BY <1>7, <2>1, <2>2, <2>3 DEF StartImu, Imu!Open
<1>8. CASE ImuStarted
  <2>1. CASE imuOwner = "up" \/ mode # "Live"
    <3>1. Contract!Succeed
      BY <1>0, <1>8, <2>1 DEF ImuStarted, Views, Contract!Succeed, Phase
    <3> QED BY <3>1 DEF Contracted, Contract!Next
  <2>2. CASE imuOwner # "up" /\ mode = "Live"
    <3>1. Contract!Fail
      BY <1>0, <1>8, <2>2 DEF ImuStarted, Views, Contract!Fail, Phase
    <3> QED BY <3>1 DEF Contracted, Contract!Next
  <2> QED BY <2>1, <2>2
<1>9. CASE StopImu
  <2>1. UNCHANGED <<PotView, ImuView, requested, mode, Phase>>
    BY <1>0, <1>9 DEF StopImu, Imu!Stop, ImuView, Phase
  <2> QED BY <2>1 DEF Contracted, Contract!vars
<1>10. CASE ImuStopped
  BY <1>0, <1>10 DEF ImuStopped, Contracted, Contract!vars, Phase
<1>11. CASE StopManual
  <2>1. CASE owner = "up"
    <3>1. UNCHANGED <<PotView, ImuView, requested, mode, Phase>>
      <4>1. gpio # "off"
        BY <2>1 DEF AdsInv
      <4> QED BY <1>0, <1>11, <2>1, <4>1 DEF StopManual, Ads!ClearRunning, PotView, Phase
    <3> QED BY <3>1 DEF Contracted, Contract!vars
  <2>2. CASE owner # "up"
    <3>1. Contract!Done
      BY <1>0, <1>11, <2>2 DEF StopManual, Views, Contract!Done, Phase
    <3> QED BY <3>1 DEF Contracted, Contract!Next
  <2> QED BY <2>1, <2>2
<1>12. CASE ManualStopped
  <2>1. Contract!Done
    BY <1>0, <1>12 DEF ManualStopped, Views, Contract!Done, Phase
  <2> QED BY <2>1 DEF Contracted, Contract!Next
<1> QED
  BY <1>1, <1>2, <1>3, <1>4, <1>5, <1>6, <1>7, <1>8, <1>9, <1>10, <1>11, <1>12 DEF CallStep

\* The potentiometer input goes down only in a call, with no callback inside and
\* without the IMU.
LEMMA PotIsContracted ==
    ASSUME AdsInv, CallInv, Views, Views', AdsOwnerStep \/ AdsPinStep \/ AdsConverts
    PROVE  Contracted
<1> USE DEF CallInv, AdsInv, Ads!OwnerGo
<1>0. UNCHANGED <<Phase, ImuView, requested, mode>>
  BY DEF AdsOwnerStep, AdsPinStep, AdsConverts, PotSample, callVars, imuVars, Phase, ImuView
<1>1. CASE Ads!FirstConversion \/ Ads!Arm \/ Ads!SetRunning \/ Ads!JoinPin \/ Ads!TakeEdge
           \/ Ads!Ignore \/ Ads!ReadFails \/ Ads!ConversionDone
  <2>1. UNCHANGED PotView
    BY <1>1 DEF PotView, Ads!FirstConversion, Ads!Arm, Ads!SetRunning, Ads!JoinPin,
       Ads!TakeEdge, Ads!Ignore, Ads!ReadFails, Ads!ConversionDone
  <2> QED BY <1>0, <2>1 DEF Contracted, Contract!vars
<1>2. CASE Ads!AbandonStart \/ Ads!CloseBus
  <2>1. PotView # "calling" /\ PotView' = "off" /\ ImuView = "off"
    BY <1>2 DEF Ads!AbandonStart, Ads!CloseBus, Views
  <2>2. Phase \in {"starting", "stopping"}
    BY <1>2 DEF Ads!AbandonStart, Ads!CloseBus, Phase
  <2>3. CASE PotView = "off"
    BY <1>0, <2>1, <2>3 DEF Contracted, Contract!vars
  <2>4. CASE PotView # "off"
    <3>1. Contract!PotDown
      BY <1>0, <2>1, <2>2, <2>4 DEF Contract!PotDown, Views
    <3> QED BY <3>1 DEF Contracted, Contract!Next
  <2> QED BY <2>3, <2>4
<1>3. CASE Ads!Read
  <2>1. PotView = "on" /\ Phase # "down"
    BY <1>3 DEF Ads!Read, PotView, Phase
  <2>2. PotView' \in {"on", "calling"}
    BY <1>3 DEF Ads!Read, PotView
  <2>3. CASE PotView' = "on"
    BY <1>0, <2>1, <2>3 DEF Contracted, Contract!vars
  <2>4. CASE PotView' = "calling"
    <3>1. Contract!PotCall
      BY <1>0, <2>1, <2>4 DEF Contract!PotCall
    <3> QED BY <3>1 DEF Contracted, Contract!Next
  <2> QED BY <2>2, <2>3, <2>4
<1>4. CASE Ads!Emit
  <2>1. Contract!PotReturn
    BY <1>0, <1>4 DEF Ads!Emit, PotView, Contract!PotReturn
  <2> QED BY <2>1 DEF Contracted, Contract!Next
<1> QED
  BY <1>1, <1>2, <1>3, <1>4
  DEF AdsOwnerStep, AdsPinStep, AdsConverts, PotSample, Ads!StartStep, Ads!StopStep

LEMMA ImuIsContracted ==
    ASSUME ImuInv, CallInv, Views, Views', ImuOwnerStep \/ ImuPinStep \/ ImuMeasures
    PROVE  Contracted
<1> USE DEF CallInv, ImuInv, Imu!OwnerGo, Imu!PinGo
<1>0. UNCHANGED <<Phase, PotView, requested, mode>>
  BY DEF ImuOwnerStep, ImuPinStep, ImuMeasures, ImuSample, callVars, adsVars, Phase, PotView
<1>1. CASE UNCHANGED ImuView
  BY <1>0, <1>1 DEF Contracted, Contract!vars
<1>2. CASE Imu!SetRunning \/ Imu!TakeEdge \/ Imu!ReadStatus \/ Imu!Measure
  <2>1. UNCHANGED ImuView
    BY <1>2 DEF ImuView, Imu!SetRunning, Imu!TakeEdge, Imu!ReadStatus, Imu!Measure
  <2> QED BY <1>1, <2>1
<1>3. CASE Imu!Initialise \/ Imu!Arm \/ Imu!Abandon \/ Imu!Join \/ Imu!Close \/ Imu!Clear
  <2>1. ImuView' # "calling" /\ ImuView # "calling" /\ (ImuView = "off" => ImuView' = "off")
    BY <1>3 DEF Imu!Initialise, Imu!Arm, Imu!Abandon, Imu!Join, Imu!Close, Imu!Clear, ImuView
  <2>2. Phase \in {"starting", "stopping"}
    BY <1>3 DEF Imu!Initialise, Imu!Arm, Imu!Abandon, Imu!Join, Imu!Close, Imu!Clear, Phase
  <2>3. CASE ImuView = "on" /\ ImuView' = "off"
    <3>1. Contract!ImuDown
      BY <1>0, <2>2, <2>3 DEF Contract!ImuDown
    <3> QED BY <3>1 DEF Contracted, Contract!Next
  <2> QED BY <1>1, <2>1, <2>3 DEF Views
<1>4. CASE Imu!ReadBurst
  <2>1. ImuView = "on" /\ Phase # "down" /\ ImuView' \in {"on", "calling"}
    BY <1>4 DEF Imu!ReadBurst, ImuView, Phase
  <2>2. CASE ImuView' = "calling"
    <3>1. Contract!ImuCall
      BY <1>0, <2>1, <2>2 DEF Contract!ImuCall
    <3> QED BY <3>1 DEF Contracted, Contract!Next
  <2> QED BY <1>1, <2>1, <2>2
<1>5. CASE Imu!Emit
  <2>1. Contract!ImuReturn
    BY <1>0, <1>5 DEF Imu!Emit, ImuView, Contract!ImuReturn
  <2> QED BY <2>1 DEF Contracted, Contract!Next
<1> QED
  BY <1>2, <1>3, <1>4, <1>5
  DEF ImuOwnerStep, ImuPinStep, ImuMeasures, ImuSample, Imu!StartStep, Imu!StopStep,
      Imu!ReadStep

\* The two devices under their coordinator, whatever fails in either, keep the
\* contract SystemManager is written for: pots first and IMU last, no callback
\* outside of the session, and LIVE with the IMU only.
THEOREM BackendsKeepContract == Spec => BackendSpec
<1>1. Init => Contract!Init
  BY DEF Init, Contract!Init, Ads!Init, Imu!Init, Phase, PotView, ImuView
<1>2. ASSUME BackendsInv, BackendsInv', RequestInv, [Next]_vars
      PROVE  Contracted
  <2>1. Views /\ Views'
    BY <1>2, ViewsAtRest, PTL
  <2>2. CASE UNCHANGED vars
    BY <2>2 DEF vars, callVars, adsVars, imuVars, Contracted, Contract!vars, Phase, PotView,
       ImuView
  <2>3. CASE Next
    BY <1>2, <2>1, <2>3, CallsAreContracted, PotIsContracted, ImuIsContracted
    DEF Next, BackendsInv
  <2> QED BY <1>2, <2>2, <2>3
<1> QED
  BY <1>1, <1>2, BackendsInvariant, RequestsInvariant, PTL
  DEF Spec, BackendSpec, Contract!Spec, Contracted

-----------------------------------------------------------------------------
(* The chain of conversions, and the joins.                                *)

\* start() holds mutex_ from its first conversion to the end of its failure;
\* from then on one conversion calls for the next.
ChainInv ==
    /\ mutex = "owner" <=> owner \in {"converting", "failed"}
    /\ mutex \in {"free", "owner"}
    /\ phase \in 1..Len(Ads!Phases)
    /\ ~silenced =>
         /\ owner \in {"converting", "armed"} => converting # "none" \/ edges > 0
         /\ owner \in {"armed", "up"} => awaiting
         /\ owner = "up" => converting # "none" \/ edges > 0 \/ gpio = "lock"

LEMMA ChainKept ==
    ASSUME AdsInv, ChainInv, AdsStep
    PROVE  ChainInv'
<1> USE DEF AdsInv, ChainInv, Ads!OwnerPoints, Ads!GpioPoints, Ads!OwnerGo
<1>0. /\ \A n \in 1..Len(Ads!Phases) : Ads!Phases[n] # "none"
      /\ Len(Ads!Phases) \in {2, 3}
      /\ Ads!Phases' = Ads!Phases
  BY DEF Ads!Phases
<1> HIDE DEF Ads!Phases
<1>1. CASE Ads!Prepare         BY <1>0, <1>1 DEF Ads!Prepare
<1>2. CASE Ads!ClearRunning    BY <1>0, <1>2 DEF Ads!ClearRunning
<1>3. CASE Ads!FirstConversion BY <1>0, <1>3 DEF Ads!FirstConversion
<1>4. CASE Ads!AbandonStart    BY <1>0, <1>4 DEF Ads!AbandonStart
<1>5. CASE Ads!Arm             BY <1>0, <1>5 DEF Ads!Arm
<1>6. CASE Ads!SetRunning      BY <1>0, <1>6 DEF Ads!SetRunning
<1>7. CASE Ads!JoinPin         BY <1>0, <1>7 DEF Ads!JoinPin
<1>8. CASE Ads!CloseBus        BY <1>0, <1>8 DEF Ads!CloseBus
<1>9. CASE Ads!TakeEdge        BY <1>0, <1>9 DEF Ads!TakeEdge
<1>10. CASE Ads!Ignore         BY <1>0, <1>10 DEF Ads!Ignore
<1>11. CASE Ads!ReadFails      BY <1>0, <1>11 DEF Ads!ReadFails
<1>12. CASE Ads!Read
  <2>1. phase' \in 1..Len(Ads!Phases)
    BY <1>0, <1>12 DEF Ads!Read
  <2>2. ~silenced' => ~silenced /\ converting' # "none" /\ awaiting' = awaiting
    BY <1>0, <1>12, <2>1 DEF Ads!Read
  <2>3. UNCHANGED <<owner, mutex>>
    BY <1>12 DEF Ads!Read
  <2> QED BY <1>0, <2>1, <2>2, <2>3
<1>13. CASE Ads!Emit           BY <1>0, <1>13 DEF Ads!Emit
<1>14. CASE Ads!ConversionDone BY <1>0, <1>14 DEF Ads!ConversionDone
<1> QED
  BY <1>1, <1>2, <1>3, <1>4, <1>5, <1>6, <1>7, <1>8, <1>9, <1>10, <1>11, <1>12, <1>13, <1>14
  DEF AdsStep, Ads!StartStep, Ads!StopStep, Ads!GpioStep

LEMMA ChainInvariant == Spec => []ChainInv
<1>1. Init => ChainInv
  BY DEF Init, ChainInv, Ads!Init, Ads!Phases
<1>2. ASSUME BackendsInv, ChainInv, [Next]_vars
      PROVE  ChainInv'
  <2>1. CASE AdsStep
    BY <1>2, <2>1, ChainKept DEF BackendsInv
  <2>2. CASE UNCHANGED adsVars
    BY <1>2, <2>2 DEF ChainInv, adsVars, Ads!Phases
  <2> QED BY <1>2, <2>1, <2>2, StepsOfEach
<1> QED BY <1>1, <1>2, BackendsInvariant, PTL DEF Spec

\* Every sample calls for the next: nothing but an edge that was ignored or a bus
\* that failed ends the chain of conversions.
THEOREM ChainGoesOn == Spec => []ChainUnbroken
<1>1. ChainInv => ChainUnbroken
  BY DEF ChainInv, ChainUnbroken, Ads!ChainUnbroken
<1> QED BY <1>1, ChainInvariant, PTL

\* The handler an owner joins never waits for a mutex that this owner holds.
THEOREM HandlersCanFinish == Spec => []JoinsNotBlocked
<1>1. ChainInv /\ BackendsInv => JoinsNotBlocked
  BY DEF ChainInv, BackendsInv, AdsInv, JoinsNotBlocked, Ads!JoinsNotBlocked
<1> QED BY <1>1, ChainInvariant, BackendsInvariant, PTL

=============================================================================
