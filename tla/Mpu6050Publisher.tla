--------------------------- MODULE Mpu6050Publisher ---------------------------
(***************************************************************************)
(* Mpu6050Publisher: an IMU that measures at its own rate and raises an    *)
(* edge for each measurement; the thread of GPIOPin reads the status and   *)
(* the sample registers, gives up the first samples, and hands on the      *)
(* rest.  Unlike the potentiometer input nothing has to be started again   *)
(* after a failed read.                                                    *)
(*                                                                         *)
(* Threads: the owner (BackendCoordinator, on the application thread) and  *)
(* the thread of GPIOPin.  External: the sensor, and GPIOPin as in         *)
(* ADS1115ManualInput, except that both edges of a pulse are taken.        *)
(***************************************************************************)
EXTENDS Naturals

CONSTANTS
    StartupDiscard,   (* config_.startup_discard_samples                    *)
    MaxEdges          (* bound on the edges that wait for the thread        *)

VARIABLES
    imuOwner,    (* where the owner is                                      *)
    imuRunning,  (* running_                                                *)
    imuBus,      (* device_.isOpen()                                        *)
    imuPin,      (* where the GPIO thread is                                *)
    imuEdges,    (* edges raised and not yet taken                          *)
    ready,       (* data-ready bit of INT_STATUS                            *)
    discard      (* discard_remaining_                                      *)

TypeOK ==
    /\ imuOwner \in {"down", "opened", "initialised", "armed", "up", "stopping",
                     "close", "clear", "failed"}
    /\ imuRunning \in BOOLEAN /\ imuBus \in BOOLEAN /\ ready \in BOOLEAN
    /\ imuPin \in {"off", "idle", "status", "burst", "emit"}
    /\ imuEdges \in 0..MaxEdges
    /\ discard \in 0..StartupDiscard

Init ==
    /\ imuOwner = "down" /\ imuPin = "off"
    /\ imuRunning = FALSE /\ imuBus = FALSE /\ ready = FALSE
    /\ imuEdges = 0 /\ discard = 0

OwnerGo(from, to) == imuOwner = from /\ imuOwner' = to
PinGo(from, to)   == imuPin = from /\ imuPin' = to

-----------------------------------------------------------------------------
(* start()                                                                 *)

Open ==
    /\ ~imuRunning /\ imuOwner = "down"
    /\ \/ imuOwner' = "opened" /\ imuBus' = TRUE
       \/ imuOwner' = "failed" /\ UNCHANGED imuBus
    /\ UNCHANGED <<imuRunning, imuPin, imuEdges, ready, discard>>

\* The identity and six registers; any of the transfers may fail.
Initialise ==
    /\ imuOwner = "opened"
    /\ \/ imuOwner' = "initialised" /\ discard' = StartupDiscard /\ UNCHANGED imuBus
       \/ imuOwner' = "failed" /\ imuBus' = FALSE /\ UNCHANGED discard
    /\ UNCHANGED <<imuRunning, imuPin, imuEdges, ready>>

\* The GPIO line is requested and its thread started, or it throws.
Arm ==
    /\ imuOwner = "initialised"
    /\ \/ imuOwner' = "armed" /\ imuPin' = "idle" /\ UNCHANGED imuBus
       \/ imuOwner' = "failed" /\ imuBus' = FALSE /\ UNCHANGED imuPin
    /\ imuEdges' = 0
    /\ UNCHANGED <<imuRunning, ready, discard>>

SetRunning ==
    /\ OwnerGo("armed", "up")
    /\ imuRunning' = TRUE
    /\ UNCHANGED <<imuBus, imuPin, imuEdges, ready, discard>>

\* stop() of an object that is not running: the destructor after a failed start.
Abandon ==
    /\ OwnerGo("failed", "down")
    /\ imuBus' = FALSE
    /\ discard' = 0
    /\ UNCHANGED <<imuRunning, imuPin, imuEdges, ready>>

-----------------------------------------------------------------------------
(* stop(): running_ is cleared last, so samples go on until the join.      *)

Stop ==
    /\ imuRunning
    /\ OwnerGo("up", "stopping")
    /\ UNCHANGED <<imuRunning, imuBus, imuPin, imuEdges, ready, discard>>

Join ==
    /\ OwnerGo("stopping", "close")
    /\ PinGo("idle", "off")
    /\ imuEdges' = 0
    /\ UNCHANGED <<imuRunning, imuBus, ready, discard>>

Close ==
    /\ OwnerGo("close", "clear")
    /\ imuBus' = FALSE
    /\ UNCHANGED <<imuRunning, imuPin, imuEdges, ready, discard>>

Clear ==
    /\ OwnerGo("clear", "down")
    /\ imuRunning' = FALSE
    /\ discard' = 0
    /\ UNCHANGED <<imuBus, imuPin, imuEdges, ready>>

-----------------------------------------------------------------------------
(* The sensor and the GPIO thread.                                         *)

\* A measurement completes; no edge reaches a line that is not requested.
Measure ==
    /\ imuEdges < MaxEdges
    /\ ready' = TRUE
    /\ imuEdges' = IF imuPin = "off" THEN 0 ELSE imuEdges + 1
    /\ UNCHANGED <<imuOwner, imuRunning, imuBus, imuPin, discard>>

\* GPIOPin::stop() lets its thread finish the callback it is in, and no other.
TakeEdge ==
    /\ imuPin = "idle" /\ imuEdges > 0 /\ imuOwner # "stopping"
    /\ imuPin' = IF imuRunning THEN "status" ELSE "idle"
    /\ imuEdges' = imuEdges - 1
    /\ UNCHANGED <<imuOwner, imuRunning, imuBus, ready, discard>>

\* Reading INT_STATUS clears it.
ReadStatus ==
    /\ imuPin = "status"
    /\ \/ imuPin' = (IF ready THEN "burst" ELSE "idle") /\ ready' = FALSE
       \/ imuPin' = "idle" /\ UNCHANGED ready
    /\ UNCHANGED <<imuOwner, imuRunning, imuBus, imuEdges, discard>>

\* The burst is read and either given up, while the sensor settles, or handed
\* on; or it fails.
ReadBurst ==
    /\ imuPin = "burst"
    /\ \/ discard > 0 /\ imuPin' = "idle" /\ discard' = discard - 1
       \/ discard = 0 /\ imuPin' = "emit" /\ UNCHANGED discard
       \/ imuPin' = "idle" /\ UNCHANGED discard
    /\ UNCHANGED <<imuOwner, imuRunning, imuBus, imuEdges, ready>>

Emit ==
    /\ PinGo("emit", "idle")
    /\ UNCHANGED <<imuOwner, imuRunning, imuBus, imuEdges, ready, discard>>

-----------------------------------------------------------------------------
StartStep == Initialise \/ Arm \/ SetRunning \/ Abandon
StopStep  == Join \/ Close \/ Clear
ReadStep  == TakeEdge \/ ReadStatus \/ ReadBurst

-----------------------------------------------------------------------------
(* Properties.                                                             *)

\* stop() closes the device only when the GPIO thread no longer reads it, and a
\* callback never outlives stop().
BusOutlivesUse ==
    imuPin \in {"status", "burst", "emit"} => imuBus /\ imuOwner \in {"up", "stopping"}

=============================================================================
