--------------------------- MODULE LatencyMonitor ---------------------------
(***************************************************************************)
(* LatencyMonitor and the calls the pipeline makes to it.  Stamps are kept *)
(* per frame id; onActuate() closes the entry and, when it is complete,    *)
(* makes a record of it.  Ids come from two counters: the camera's, which  *)
(* the simulated camera restarts with every session, and                   *)
(* next_synthetic_frame_id_ for park, neutral and manual commands.  Both   *)
(* begin at 1, and nothing resets the monitor.                             *)
(*                                                                         *)
(* What travels through the pipeline is a trace: a frame or a command with *)
(* its session and its id.  A stamp is the trace that left it, so that a   *)
(* record shows whose times it is made of.                                 *)
(***************************************************************************)
EXTENDS LatestQueue, FiniteSets

CONSTANTS
    MaxId,          (* bound on ids                                         *)
    MaxSession,     (* bound on start()                                     *)
    Limit,          (* cap_map_size_ (1024 in the code)                     *)
    FrameCap, CmdCap,
    ManualThreads   (* threads that send manual commands                    *)

ASSUME MonitorAssumption ==
    /\ MaxId \in Nat /\ MaxSession \in Nat /\ Limit \in Nat
    /\ FrameCap \in Nat \ {0} /\ CmdCap \in Nat \ {0}
    /\ "control" \notin ManualThreads

Ids == 1..MaxId
Workers == {"control"} \cup ManualThreads

Trace == [kind : {"frame", "manual", "park"}, session : 1..MaxSession, id : Ids]
None == [kind |-> "none", session |-> 0, id |-> 0]

\* StageTimes; an entry without a stamp is an entry that is not in the map.
Stages == {"capture", "estimate", "control"}
NoStamp == [s \in Stages |-> None]
NoRecord == [stamps |-> NoStamp, actuate |-> None]

VARIABLES
    inflight,       (* inflight_                                            *)
    record,         (* the completed record made last                       *)
    session, on,    (* start() calls so far; the pipeline is running        *)
    parked,         (* applyParkOnce_() is done                             *)
    nextFrame,      (* the camera's frame id                                *)
    nextSynthetic,  (* next_synthetic_frame_id_                             *)
    frameQ, cmdQ,
    hand,           (* the trace each worker is handling                    *)
    stamped         (* it has called onControl() for it                     *)

vars == <<inflight, record, session, on, parked, nextFrame, nextSynthetic,
          frameQ, cmdQ, hand, stamped>>

TypeOK ==
    /\ inflight \in [Ids -> [Stages -> Trace \cup {None}]]
    /\ record \in [stamps : [Stages -> Trace], actuate : Trace] \cup {NoRecord}
    /\ session \in 0..MaxSession /\ on \in BOOLEAN /\ parked \in BOOLEAN
    /\ nextFrame \in Nat /\ nextSynthetic \in Nat
    /\ frameQ \in Seq(Trace) /\ cmdQ \in Seq(Trace)
    /\ hand \in [Workers -> Trace \cup {None}]
    /\ stamped \in [Workers -> BOOLEAN]

Init ==
    /\ inflight = [i \in Ids |-> NoStamp]
    /\ record = NoRecord
    /\ session = 0 /\ on = FALSE /\ parked = FALSE
    /\ nextFrame = 1 /\ nextSynthetic = 1
    /\ frameQ = <<>> /\ cmdQ = <<>>
    /\ hand = [w \in Workers |-> None]
    /\ stamped = [w \in Workers |-> FALSE]

-----------------------------------------------------------------------------
(* The monitor.                                                            *)

Present(map) == {i \in DOMAIN map : map[i] # NoStamp}

\* pruneLocked_(): the entries with the smallest ids go.
Pruned(map) ==
    [i \in DOMAIN map |->
        IF Cardinality({j \in Present(map) : j >= i}) <= Limit THEN map[i] ELSE NoStamp]

\* recordStageLocked_()
Stamp(trace, stage) == inflight' = Pruned([inflight EXCEPT ![trace.id][stage] = trace])

\* onActuate()
Close(trace) ==
    LET stamps == inflight[trace.id]
    IN  /\ inflight' = [inflight EXCEPT ![trace.id] = NoStamp]
        /\ record' = IF None \in {stamps[s] : s \in Stages} THEN record
                     ELSE [stamps |-> stamps, actuate |-> trace]

-----------------------------------------------------------------------------
(* The pipeline, as far as it stamps.                                      *)

Tracing(kind, id) == [kind |-> kind, session |-> session, id |-> id]

\* Mutant of Start: the command queue keeps what the last session left.
StartUncleared ==
    /\ ~on /\ session < MaxSession
    /\ session' = session + 1
    /\ on' = TRUE /\ parked' = FALSE
    /\ nextFrame' = 1
    /\ frameQ' = <<>>
    /\ UNCHANGED <<inflight, record, nextSynthetic, cmdQ, hand, stamped>>

\* start() up to the camera, whose ids begin again.
Start ==
    /\ ~on /\ session < MaxSession
    /\ session' = session + 1
    /\ on' = TRUE /\ parked' = FALSE
    /\ nextFrame' = 1
    /\ frameQ' = <<>> /\ cmdQ' = <<>>
    /\ UNCHANGED <<inflight, record, nextSynthetic, hand, stamped>>

\* applyParkOnce_(): a synthetic command goes straight to the actuator stage.
Park ==
    /\ on /\ ~parked
    /\ nextSynthetic \in Ids
    /\ Close(Tracing("park", nextSynthetic))
    /\ nextSynthetic' = nextSynthetic + 1
    /\ parked' = TRUE
    /\ UNCHANGED <<session, on, nextFrame, frameQ, cmdQ, hand, stamped>>

\* onFrame_()
Capture ==
    /\ on
    /\ nextFrame \in Ids
    /\ Stamp(Tracing("frame", nextFrame), "capture")
    /\ frameQ' = KeepLatest(frameQ, FrameCap, Tracing("frame", nextFrame))
    /\ nextFrame' = nextFrame + 1
    /\ UNCHANGED <<record, session, on, parked, nextSynthetic, cmdQ, hand, stamped>>

\* controlLoop_() drains a frame outside the automatic states, or a malformed one.
Drain ==
    /\ on /\ hand["control"] = None
    /\ frameQ # <<>>
    /\ frameQ' = Tail(frameQ)
    /\ UNCHANGED <<inflight, record, session, on, parked, nextFrame, nextSynthetic,
                   cmdQ, hand, stamped>>

\* The estimate callback.
Estimate ==
    /\ on /\ parked /\ hand["control"] = None
    /\ frameQ # <<>>
    /\ Stamp(Head(frameQ), "estimate")
    /\ hand' = [hand EXCEPT !["control"] = Head(frameQ)]
    /\ frameQ' = Tail(frameQ)
    /\ UNCHANGED <<record, session, on, parked, nextFrame, nextSynthetic, cmdQ, stamped>>

\* onManualPotSample_() and dispatch_() draw an id for the setpoint they build.
DrawManual(w) ==
    /\ on /\ parked /\ hand[w] = None
    /\ nextSynthetic \in Ids
    /\ hand' = [hand EXCEPT ![w] = Tracing("manual", nextSynthetic)]
    /\ nextSynthetic' = nextSynthetic + 1
    /\ UNCHANGED <<inflight, record, session, on, parked, nextFrame, frameQ, cmdQ, stamped>>

\* The setpoint callback, or the manual path: onControl().
Control(w) ==
    /\ hand[w] # None /\ ~stamped[w]
    /\ Stamp(hand[w], "control")
    /\ stamped' = [stamped EXCEPT ![w] = TRUE]
    /\ UNCHANGED <<record, session, on, parked, nextFrame, nextSynthetic, frameQ, cmdQ, hand>>

\* The solver's command is queued, or the worker gave up: the mode has changed,
\* the system is stopping, or the geometry is invalid.
Release(w) ==
    /\ hand[w] # None
    /\ hand' = [hand EXCEPT ![w] = None]
    /\ stamped' = [stamped EXCEPT ![w] = FALSE]
    /\ \/ cmdQ' = cmdQ
       \/ on /\ stamped[w] /\ cmdQ' = KeepLatest(cmdQ, CmdCap, hand[w])
    /\ UNCHANGED <<inflight, record, session, on, parked, nextFrame, nextSynthetic, frameQ>>

\* Mutant of Actuate: the newest command first.
ActuateNewest ==
    /\ on /\ cmdQ # <<>>
    /\ Close(cmdQ[Len(cmdQ)])
    /\ cmdQ' = SubSeq(cmdQ, 1, Len(cmdQ) - 1)
    /\ UNCHANGED <<session, on, parked, nextFrame, nextSynthetic, frameQ, hand, stamped>>

\* actuatorLoop_() and the safe-command callback.
Actuate ==
    /\ on /\ cmdQ # <<>>
    /\ Close(Head(cmdQ))
    /\ cmdQ' = Tail(cmdQ)
    /\ UNCHANGED <<session, on, parked, nextFrame, nextSynthetic, frameQ, hand, stamped>>

\* stop(): the actuator thread may drop one command when it finds running_ false;
\* the neutral setpoint takes an id, but its command is rejected; one leftover, if
\* any, is applied, and the next start() clears the rest.
Stop ==
    /\ on /\ parked
    /\ \A w \in Workers : hand[w] = None
    /\ on' = FALSE
    /\ nextSynthetic' = nextSynthetic + 1
    /\ \E q \in {cmdQ} \cup {Tail(r) : r \in {cmdQ} \ {<<>>}} :
          IF q = <<>> THEN cmdQ' = q /\ UNCHANGED <<inflight, record>>
          ELSE Close(Head(q)) /\ cmdQ' = Tail(q)
    /\ UNCHANGED <<session, parked, nextFrame, frameQ, hand, stamped>>

Next ==
    \/ Start \/ Park \/ Capture \/ Drain \/ Estimate \/ Actuate \/ Stop
    \/ \E w \in ManualThreads : DrawManual(w)
    \/ \E w \in Workers : Control(w) \/ Release(w)

Spec == Init /\ [][Next]_vars

-----------------------------------------------------------------------------
(* Properties.                                                             *)

\* pruneLocked_() keeps the map within its capacity after every stamp.
InflightBounded == Cardinality(Present(inflight)) <= Limit

\* Without manual commands, a record that a frame's command closes has only that
\* frame's times, although ids are used again in every session, commands are
\* dropped, and entries are neither reset nor closed when that happens.
FramesNotMixed ==
    record.actuate.kind = "frame" =>
        \A s \in Stages : record.stamps[s] = record.actuate

\* Within a session the records of frames are made in the order of capture.
RecordsInOrder ==
    [][ LET closed == record.actuate
            closing == record'.actuate
        IN  closed.kind = "frame" /\ closing.kind = "frame" /\ closed.session = closing.session
              => closed.id < closing.id ]_record

=============================================================================
