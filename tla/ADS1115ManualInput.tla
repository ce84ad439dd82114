-------------------------- MODULE ADS1115ManualInput --------------------------
(***************************************************************************)
(* ADS1115ManualInput: single-shot conversions, one channel after the      *)
(* other, each started when the ALERT/RDY edge of the one before has been  *)
(* handled.  Nothing but an edge makes it go on.                           *)
(*                                                                         *)
(* Threads: the owner (SystemManager's application thread) in start() and  *)
(* stop(), and the thread of GPIOPin, which takes edges one by one and     *)
(* runs the callback.  External: the converter (a written configuration    *)
(* starts a conversion in place of any other; its end raises an edge) and  *)
(* GPIOPin (only edges after start() are delivered; stop() joins).         *)
(***************************************************************************)
EXTENDS Naturals, Sequences

CONSTANT HasSpare   (* settings_.spare_channel is not 0xFF                  *)

VARIABLES
    owner,      (* where the owner is                                       *)
    mutex,      (* who holds mutex_                                         *)
    running,    (* running_                                                 *)
    awaiting,   (* awaiting_conversion_                                     *)
    phase,      (* phase_                                                   *)
    bus,        (* the I2C descriptor is open                               *)
    gpio,       (* where the GPIO thread is                                 *)
    edges,      (* edges raised and not yet taken                           *)
    converting, (* the channel under conversion                             *)
    result,     (* the channel the conversion register holds                *)
    parts,      (* channels read into current_sample_ since the last one    *)
    silenced,   (* history: an edge was ignored, or the bus failed          *)
    rested      (* history: the converter was at rest when start() began    *)

vars == <<owner, mutex, running, awaiting, phase, bus, gpio, edges, converting,
          result, parts, silenced, rested>>

Phases == IF HasSpare THEN <<"tilt", "pan", "spare">> ELSE <<"tilt", "pan">>
Channels == {"tilt", "pan", "spare"}

OwnerPoints == {"down", "pinned", "converting", "armed", "up", "failed", "stopping", "close"}
GpioPoints  == {"off", "idle", "lock", "emit"}

TypeOK ==
    /\ owner \in OwnerPoints /\ gpio \in GpioPoints
    /\ mutex \in {"free", "owner"}
    /\ running \in BOOLEAN /\ awaiting \in BOOLEAN /\ bus \in BOOLEAN
    /\ edges \in 0..2 /\ silenced \in BOOLEAN /\ rested \in BOOLEAN
    /\ phase \in 1..3
    /\ converting \in Channels \cup {"none"} /\ result \in Channels \cup {"none"}
    /\ parts \in Seq(Channels \cup {"none"}) /\ Len(parts) <= Len(Phases)

Init ==
    /\ owner = "down" /\ gpio = "off" /\ mutex = "free"
    /\ running = FALSE /\ awaiting = FALSE /\ bus = FALSE
    /\ phase = 1
    /\ edges = 0 /\ converting = "none" /\ result = "none"
    /\ parts = <<>>
    /\ silenced = FALSE /\ rested = TRUE

OwnerGo(from, to) == owner = from /\ owner' = to

-----------------------------------------------------------------------------
(* start()                                                                 *)

\* Mutant of Prepare: the phase is the one stop() left.
PrepareInPhase ==
    /\ ~running
    /\ OwnerGo("down", "pinned")
    /\ bus' = TRUE
    /\ parts' = <<>>
    /\ awaiting' = FALSE
    /\ gpio' = "idle" /\ edges' = 0
    /\ silenced' = FALSE /\ rested' = (converting = "none")
    /\ UNCHANGED <<mutex, running, phase, converting, result>>

\* The bus, the comparator thresholds and the GPIO line; a failure of any of
\* them closes what was opened and changes nothing.
Prepare ==
    /\ ~running
    /\ OwnerGo("down", "pinned")
    /\ bus' = TRUE
    /\ phase' = 1 /\ parts' = <<>>
    /\ awaiting' = FALSE
    /\ gpio' = "idle" /\ edges' = 0
    /\ silenced' = FALSE /\ rested' = (converting = "none")
    /\ UNCHANGED <<mutex, running, converting, result>>

\* The first conversion is started under mutex_ ...
FirstConversion ==
    /\ owner = "pinned" /\ mutex = "free"
    /\ mutex' = "owner"
    /\ \/ owner' = "converting" /\ converting' = Phases[1]
       \/ owner' = "failed" /\ UNCHANGED converting
    /\ UNCHANGED <<running, awaiting, phase, bus, gpio, edges, result, parts, silenced, rested>>

\* Mutant of AbandonStart: the conversion is tried again until it starts.
RetryStart ==
    /\ OwnerGo("failed", "pinned")
    /\ mutex' = "free"
    /\ UNCHANGED <<running, awaiting, phase, bus, gpio, edges, converting, result, parts,
                   silenced, rested>>

\* ... or start() fails: the GPIO thread is joined with mutex_ held.
AbandonStart ==
    /\ OwnerGo("failed", "down")
    /\ gpio = "idle"
    /\ gpio' = "off" /\ edges' = 0
    /\ bus' = FALSE
    /\ mutex' = "free"
    /\ UNCHANGED <<running, awaiting, phase, converting, result, parts, silenced, rested>>

\* Mutant of Arm: awaiting_conversion_ is not set.
ArmUnset ==
    /\ OwnerGo("converting", "armed")
    /\ mutex' = "free"
    /\ UNCHANGED <<running, awaiting, phase, bus, gpio, edges, converting, result, parts,
                   silenced, rested>>

\* awaiting_conversion_ is set, and the lock released.
Arm ==
    /\ OwnerGo("converting", "armed")
    /\ awaiting' = TRUE
    /\ mutex' = "free"
    /\ UNCHANGED <<running, phase, bus, gpio, edges, converting, result, parts, silenced, rested>>

SetRunning ==
    /\ OwnerGo("armed", "up")
    /\ running' = TRUE
    /\ UNCHANGED <<mutex, awaiting, phase, bus, gpio, edges, converting, result, parts, silenced, rested>>

-----------------------------------------------------------------------------
(* stop()                                                                  *)

ClearRunning ==
    /\ OwnerGo("up", "stopping")
    /\ running' = FALSE
    /\ UNCHANGED <<mutex, awaiting, phase, bus, gpio, edges, converting, result, parts, silenced, rested>>

\* Mutant of JoinPin: the thread is not waited for.
DetachPin ==
    /\ OwnerGo("stopping", "close")
    /\ edges' = 0
    /\ UNCHANGED <<mutex, running, awaiting, phase, bus, gpio, converting, result, parts, silenced, rested>>

JoinPin ==
    /\ OwnerGo("stopping", "close")
    /\ gpio = "idle"
    /\ gpio' = "off" /\ edges' = 0
    /\ UNCHANGED <<mutex, running, awaiting, phase, bus, converting, result, parts, silenced, rested>>

CloseBus ==
    /\ OwnerGo("close", "down")
    /\ bus' = FALSE
    /\ UNCHANGED <<mutex, running, awaiting, phase, gpio, edges, converting, result, parts, silenced, rested>>

-----------------------------------------------------------------------------
(* The converter and the GPIO thread.                                      *)

\* A conversion ends; the edge is lost when no line is requested.
ConversionDone ==
    /\ converting # "none"
    /\ result' = converting
    /\ converting' = "none"
    /\ edges' = IF gpio = "off" THEN 0 ELSE edges + 1
    /\ UNCHANGED <<owner, mutex, running, awaiting, phase, bus, gpio, parts, silenced, rested>>

\* The callback of the pin: an edge that comes before running_ is set is ignored.
TakeEdge ==
    /\ gpio = "idle" /\ edges > 0
    /\ edges' = edges - 1
    /\ IF running THEN gpio' = "lock" /\ UNCHANGED silenced
       ELSE gpio' = "idle" /\ silenced' = TRUE
    /\ UNCHANGED <<owner, mutex, running, awaiting, phase, bus, converting, result, parts, rested>>

\* onDataReady_(), no longer running or not awaiting a conversion.
Ignore ==
    /\ gpio = "lock" /\ mutex = "free"
    /\ ~running \/ ~awaiting
    /\ gpio' = "idle"
    /\ UNCHANGED <<owner, mutex, running, awaiting, phase, bus, edges, converting, result,
                   parts, silenced, rested>>

\* The read fails: no sample, and no further conversion.
ReadFails ==
    /\ gpio = "lock" /\ mutex = "free"
    /\ running /\ awaiting
    /\ awaiting' = FALSE
    /\ gpio' = "idle"
    /\ silenced' = TRUE
    /\ UNCHANGED <<owner, mutex, running, phase, bus, edges, converting, result, parts, rested>>

\* The read succeeds: the phase advances, the last one completes the sample, and
\* the next conversion is started, if the bus allows it.
Read ==
    LET whole == phase = Len(Phases)
        next  == IF whole THEN 1 ELSE phase + 1
    IN  /\ gpio = "lock" /\ mutex = "free"
        /\ running /\ awaiting
        /\ phase' = next
        /\ parts' = Append(parts, result)
        /\ gpio' = IF whole THEN "emit" ELSE "idle"
        /\ \/ converting' = Phases[next] /\ UNCHANGED <<awaiting, silenced>>
           \/ awaiting' = FALSE /\ silenced' = TRUE /\ UNCHANGED converting
        /\ UNCHANGED <<owner, mutex, running, bus, edges, result, rested>>

\* The sample goes to the callback, outside the lock.
Emit ==
    /\ gpio = "emit"
    /\ gpio' = "idle"
    /\ parts' = <<>>
    /\ UNCHANGED <<owner, mutex, running, awaiting, phase, bus, edges, converting, result,
                   silenced, rested>>

-----------------------------------------------------------------------------
StartStep == FirstConversion \/ AbandonStart \/ Arm \/ SetRunning
StopStep  == JoinPin \/ CloseBus
GpioStep  == TakeEdge \/ Ignore \/ ReadFails \/ Read \/ Emit

Next == Prepare \/ ClearRunning \/ StartStep \/ StopStep \/ GpioStep \/ ConversionDone

\* The threads are scheduled and the converter converts; nothing obliges the
\* owner to start or stop.
Fairness ==
    /\ WF_vars(StartStep) /\ WF_vars(StopStep)
    /\ WF_vars(GpioStep) /\ WF_vars(ConversionDone)

Spec == Init /\ [][Next]_vars /\ Fairness

-----------------------------------------------------------------------------
(* Properties.                                                             *)

\* A sample that is handed on consists of one conversion of each channel, in
\* their order, whatever failed or was lost on the way, unless a conversion of
\* the session before was still going on when start() was called.
SampleIsWhole == gpio = "emit" /\ rested => parts = Phases

\* stop() takes the bus away only when the GPIO thread no longer uses it, and a
\* callback never outlives stop().
BusOutlivesUse == gpio \in {"lock", "emit"} => bus /\ owner \in {"up", "stopping"}

\* The chain is never broken in silence: while the input is up and nothing has
\* silenced it, a conversion is under way, or its edge is waiting, or the handler
\* is about to read it and to start the next.
ChainUnbroken ==
    owner = "up" /\ ~silenced =>
        converting # "none" \/ edges > 0 \/ (gpio = "lock" /\ awaiting)

\* Nobody joins the GPIO thread while holding what its handler waits for.
JoinsNotBlocked == owner \in {"failed", "stopping"} /\ gpio = "lock" => mutex = "free"

\* A start() that fails joins the GPIO thread while it holds mutex_, and stop()
\* while a handler runs; both return all the same.
CallsReturn == owner \notin {"down", "up"} ~> owner \in {"down", "up"}

\* Samples keep coming while the input is up and nothing silenced it.
SamplesCome ==
    owner = "up" /\ ~silenced ~> gpio = "emit" \/ owner # "up" \/ silenced

=============================================================================
