------------------------- MODULE LatencyMonitorProofs -------------------------
(***************************************************************************)
(* Theorems about the records of LatencyMonitor when only frames move the  *)
(* platform: whose times they are made of, and in which order.  They hold  *)
(* for any capacities, any number of sessions and any size of the map.     *)
(***************************************************************************)
EXTENDS LatencyMonitor, SequenceTheorems, TLAPS

-----------------------------------------------------------------------------
(* Queues of traces.                                                       *)

\* Ids increase along a queue.
Climbs(q) == \A i, j \in 1..Len(q) : i < j => q[i].id < q[j].id

LEMMA TailShifts ==
    ASSUME NEW S, NEW q \in Seq(S), q # <<>>
    PROVE  /\ Len(q) \in Nat \ {0} /\ Head(q) = q[1] /\ q[1] \in S
           /\ Tail(q) \in Seq(S) /\ Len(Tail(q)) = Len(q) - 1
           /\ \A i \in 1..Len(Tail(q)) : i + 1 \in 1..Len(q) /\ Tail(q)[i] = q[i + 1]
  OBVIOUS

\* What is in a queue after push_latest(): the item, and what was in it before.
Kept(k, q, e) ==
    /\ 1 <= Len(k) /\ k[Len(k)] = e
    /\ \/ /\ Len(k) = Len(q) + 1
          /\ \A i \in 1..Len(q) : k[i] = q[i]
       \/ /\ Len(k) = Len(q)
          /\ \A i \in 1..Len(q) - 1 : k[i] = q[i + 1]

LEMMA KeepsLatest ==
    ASSUME NEW S, NEW q \in Seq(S), NEW c \in Nat \ {0}, NEW e \in S
    PROVE  KeepLatest(q, c, e) \in Seq(S) /\ Kept(KeepLatest(q, c, e), q, e)
<1> USE DEF Kept
<1>1. CASE HasRoom(q, c)
  BY <1>1, AppendProperties DEF KeepLatest
<1>2. CASE ~HasRoom(q, c)
  <2>1. q # <<>>
    BY <1>2 DEF HasRoom
  <2> DEFINE t == Tail(q)
  <2>2. t \in Seq(S) /\ Len(t) = Len(q) - 1 /\ Len(q) \in Nat \ {0}
        /\ \A i \in 1..Len(t) : t[i] = q[i + 1]
    BY <2>1, TailShifts
  <2>3. KeepLatest(q, c, e) = Append(t, e)
    BY <1>2 DEF KeepLatest
  <2> HIDE DEF t
  <2>4. /\ Append(t, e) \in Seq(S) /\ Len(Append(t, e)) = Len(t) + 1
        /\ \A i \in 1..Len(t) : Append(t, e)[i] = t[i]
        /\ Append(t, e)[Len(t) + 1] = e
    BY <2>2, AppendProperties
  <2> QED BY <2>2, <2>3, <2>4
<1> QED BY <1>1, <1>2

-----------------------------------------------------------------------------
(* The invariant.                                                          *)

Frames == [kind : {"frame"}, session : {session} \cap 1..MaxSession, id : Ids]

held == hand["control"]

TypeInv ==
    /\ ManualThreads = {}
    /\ session \in Nat /\ nextFrame \in Nat
    /\ IF on THEN session \in 1..MaxSession ELSE held = None
    /\ inflight \in [Ids -> [Stages -> Trace \cup {None}]]
    /\ frameQ \in Seq(Frames) /\ cmdQ \in Seq(Frames)
    /\ hand \in [{"control"} -> Frames \cup {None}]
    /\ stamped \in [{"control"} -> BOOLEAN]
    /\ stamped["control"] => held # None
    /\ record.actuate.kind = "frame" => record.actuate.session \in 0..session
                                        /\ record.actuate.id \in Ids

\* Commands come before the frame in hand, and that before the frames that wait.
OrderInv ==
    /\ Climbs(cmdQ) /\ Climbs(frameQ)
    /\ \A i \in 1..Len(cmdQ) : cmdQ[i].id < nextFrame
    /\ \A j \in 1..Len(frameQ) : frameQ[j].id < nextFrame
    /\ \A i \in 1..Len(cmdQ), j \in 1..Len(frameQ) : cmdQ[i].id < frameQ[j].id
    /\ held # None =>
          /\ held.id < nextFrame
          /\ \A i \in 1..Len(cmdQ) : cmdQ[i].id < held.id
          /\ \A j \in 1..Len(frameQ) : held.id < frameQ[j].id

\* What the monitor has of a trace in the pipeline is its own, or gone.
Owns(t, stage) == inflight[t.id][stage] \in {t, None}
OwnsNext(t, stage) == inflight'[t.id][stage] \in {t, None}

StampInv ==
    /\ \A j \in 1..Len(frameQ) : Owns(frameQ[j], "capture")
    /\ held # None => Owns(held, "capture") /\ Owns(held, "estimate")
    /\ stamped["control"] => Owns(held, "control")
    /\ \A i \in 1..Len(cmdQ) : \A s \in Stages : Owns(cmdQ[i], s)

\* The frame recorded last is older than what is still on its way.
RecentInv ==
    record.actuate.kind = "frame" /\ record.actuate.session = session =>
        /\ record.actuate.id < nextFrame
        /\ \A i \in 1..Len(cmdQ) : record.actuate.id < cmdQ[i].id
        /\ \A j \in 1..Len(frameQ) : record.actuate.id < frameQ[j].id
        /\ held # None => record.actuate.id < held.id

MonitorInv == TypeInv /\ OrderInv /\ StampInv /\ RecentInv /\ FramesNotMixed

-----------------------------------------------------------------------------
(* The monitor.                                                            *)

InflightType == [Ids -> [Stages -> Trace \cup {None}]]

LEMMA PrunedGives ==
    ASSUME NEW m \in InflightType
    PROVE  Pruned(m) \in InflightType
           /\ \A i \in Ids, s \in Stages : Pruned(m)[i][s] \in {None, m[i][s]}
<1>1. NoStamp \in [Stages -> Trace \cup {None}] /\ \A s \in Stages : NoStamp[s] = None
  BY DEF NoStamp
<1>2. DOMAIN m = Ids /\ \A i \in Ids : m[i] \in [Stages -> Trace \cup {None}]
  BY DEF InflightType
<1>3. \A i \in Ids : Pruned(m)[i] \in {m[i], NoStamp}
  BY <1>2 DEF Pruned
<1>4. Pruned(m) = [i \in Ids |-> Pruned(m)[i]]
  BY <1>2 DEF Pruned
<1>5. Pruned(m) \in InflightType
  BY <1>1, <1>2, <1>3, <1>4 DEF InflightType
<1> QED BY <1>1, <1>3, <1>5

LEMMA StampGives ==
    ASSUME inflight \in InflightType, NEW t \in Trace, NEW stage \in Stages, Stamp(t, stage)
    PROVE  /\ inflight' \in InflightType
           /\ \A i \in Ids, s \in Stages :
                 inflight'[i][s] \in {None, IF i = t.id /\ s = stage THEN t ELSE inflight[i][s]}
<1> DEFINE m == [inflight EXCEPT ![t.id][stage] = t]
<1>1. t.id \in Ids
  BY DEF Trace
<1>2. /\ m \in InflightType
      /\ \A i \in Ids, s \in Stages :
            m[i][s] = IF i = t.id /\ s = stage THEN t ELSE inflight[i][s]
  BY <1>1 DEF InflightType
<1>3. inflight' = Pruned(m)
  BY DEF Stamp
<1> HIDE DEF m
<1> QED BY <1>2, <1>3, PrunedGives

LEMMA CloseGives ==
    ASSUME inflight \in InflightType, NEW t \in Trace, Close(t)
    PROVE  /\ inflight' \in InflightType
           /\ \A i \in Ids, s \in Stages : inflight'[i][s] \in {None, inflight[i][s]}
           /\ \/ record' = record
              \/ /\ record'.actuate = t
                 /\ \A s \in Stages : /\ record'.stamps[s] = inflight[t.id][s]
                                      /\ record'.stamps[s] # None
<1>1. t.id \in Ids
  BY DEF Trace
<1>2. NoStamp \in [Stages -> Trace \cup {None}] /\ \A s \in Stages : NoStamp[s] = None
  BY DEF NoStamp
<1>3. /\ inflight' \in InflightType
      /\ \A i \in Ids : inflight'[i] \in {NoStamp, inflight[i]}
  BY <1>1, <1>2 DEF Close, InflightType
<1>4. \/ record' = record
      \/ /\ record'.actuate = t
         /\ \A s \in Stages : /\ record'.stamps[s] = inflight[t.id][s]
                              /\ record'.stamps[s] # None
  <2>1. CASE None \in {inflight[t.id][s] : s \in Stages}
    BY <2>1 DEF Close
  <2>2. CASE None \notin {inflight[t.id][s] : s \in Stages}
    BY <2>2 DEF Close
  <2> QED BY <2>1, <2>2
<1> QED BY <1>2, <1>3, <1>4

-----------------------------------------------------------------------------
(* The steps.                                                              *)

LEMMA FramesAreTraces == Frames \subseteq Trace /\ None \notin Frames
  BY DEF Frames, Trace, None

LEMMA OnlyControl == ASSUME ManualThreads = {} PROVE Workers = {"control"}
  BY DEF Workers

LEMMA MonitorInit == ASSUME ManualThreads = {}, Init PROVE MonitorInv
<1>1. /\ Workers = {"control"} /\ frameQ = <<>> /\ cmdQ = <<>> /\ held = None
      /\ ~stamped["control"] /\ record.actuate.kind = "none"
  BY OnlyControl DEF Init, held, NoRecord, None
<1>2. TypeInv
  <2>1. NoStamp \in [Stages -> Trace \cup {None}]
    BY DEF NoStamp
  <2> QED BY <1>1, <2>1 DEF Init, TypeInv, held, Frames
<1>3. OrderInv /\ StampInv /\ RecentInv /\ FramesNotMixed
  BY <1>1 DEF OrderInv, StampInv, RecentInv, FramesNotMixed, Climbs
<1> QED BY <1>2, <1>3 DEF MonitorInv

LEMMA StartKept == ASSUME MonitorInv, Start PROVE MonitorInv'
<1> USE DEF MonitorInv
<1>1. /\ ~on /\ held = None /\ held' = None /\ session' = session + 1 /\ session' \in 1..MaxSession
      /\ frameQ' = <<>> /\ cmdQ' = <<>> /\ nextFrame' = 1 /\ on'
      /\ UNCHANGED <<inflight, record, hand, stamped>>
  BY MonitorAssumption DEF Start, TypeInv, held
<1>2. TypeInv'
  BY <1>1 DEF TypeInv, Frames, held
<1>3. record.actuate.kind = "frame" => record.actuate.session # session'
  BY <1>1 DEF TypeInv
<1>4. OrderInv' /\ StampInv' /\ RecentInv' /\ FramesNotMixed'
  BY <1>1, <1>3 DEF TypeInv, OrderInv, StampInv, RecentInv, FramesNotMixed, Climbs, Owns
<1> QED BY <1>2, <1>4

\* A command closes its entry, or the park command one of the same id.
LEMMA ParkKept == ASSUME MonitorInv, Park PROVE MonitorInv'
<1> USE DEF MonitorInv
<1> DEFINE t == Tracing("park", nextSynthetic)
<1>1. t \in Trace /\ t.kind = "park"
  BY DEF TypeInv, Park, Tracing, Trace
<1>2. /\ Close(t)
      /\ UNCHANGED <<session, on, nextFrame, frameQ, cmdQ, hand, stamped>>
  BY DEF Park
<1> HIDE DEF t
<1>3. /\ inflight' \in InflightType
      /\ \A i \in Ids, s \in Stages : inflight'[i][s] \in {None, inflight[i][s]}
      /\ record' = record \/ record'.actuate = t
  BY <1>1, <1>2, CloseGives DEF TypeInv, InflightType
<1>4. TypeInv'
  BY <1>1, <1>2, <1>3 DEF TypeInv, InflightType, Frames, held
<1>5. OrderInv'
  BY <1>2 DEF OrderInv, Climbs, held
<1>6. StampInv'
  <2>1. \A f \in Frames, s \in Stages : Owns(f, s) => OwnsNext(f, s)
    BY <1>3 DEF Owns, OwnsNext, Frames
  <2>2. /\ \A i \in 1..Len(cmdQ) : cmdQ[i] \in Frames
        /\ \A i \in 1..Len(frameQ) : frameQ[i] \in Frames
        /\ held # None => held \in Frames
        /\ stamped["control"] => held # None
    BY DEF TypeInv, held
  <2>3. /\ \A j \in 1..Len(frameQ) : OwnsNext(frameQ[j], "capture")
        /\ held # None => OwnsNext(held, "capture") /\ OwnsNext(held, "estimate")
        /\ stamped["control"] => OwnsNext(held, "control")
        /\ \A i \in 1..Len(cmdQ) : \A s \in Stages : OwnsNext(cmdQ[i], s)
    BY <2>1, <2>2 DEF StampInv, Stages
  <2> QED BY <1>2, <2>3 DEF StampInv, Owns, OwnsNext, held
<1>7. RecentInv' /\ FramesNotMixed'
  BY <1>1, <1>2, <1>3 DEF RecentInv, FramesNotMixed, held
<1> QED BY <1>4, <1>5, <1>6, <1>7

LEMMA CaptureKept == ASSUME MonitorInv, Capture PROVE MonitorInv'
<1> USE DEF MonitorInv
<1>a. PICK t : t = Tracing("frame", nextFrame)
  OBVIOUS
<1>b. PICK k : k = KeepLatest(frameQ, FrameCap, t)
  OBVIOUS
<1>1. t \in Frames /\ t \in Trace /\ t.id = nextFrame /\ nextFrame \in Ids
  BY <1>a DEF TypeInv, Capture, Tracing, Trace, Frames
<1>2. /\ Stamp(t, "capture") /\ frameQ' = k /\ nextFrame' = nextFrame + 1 /\ on
      /\ UNCHANGED <<record, session, on, cmdQ, hand, stamped>>
  BY <1>a, <1>b DEF Capture
<1>3. /\ k \in Seq(Frames) /\ Len(k) \in Nat \ {0} /\ k[Len(k)] = t
      /\ \/ /\ Len(k) = Len(frameQ) + 1
            /\ \A i \in 1..Len(frameQ) : k[i] = frameQ[i]
         \/ /\ Len(k) = Len(frameQ)
            /\ \A i \in 1..Len(frameQ) - 1 : k[i] = frameQ[i + 1]
  <2>1. FrameCap \in Nat \ {0} /\ frameQ \in Seq(Frames)
    BY MonitorAssumption DEF TypeInv
  <2>2. k \in Seq(Frames) /\ Kept(k, frameQ, t)
    BY <1>b, <1>1, <2>1, KeepsLatest
  <2>3. Len(k) \in Nat
    BY <2>2
  <2> QED BY <2>2, <2>3 DEF Kept
<1>4. /\ inflight' \in InflightType
      /\ \A i \in Ids, s \in Stages :
            inflight'[i][s] \in {None, IF i = t.id /\ s = "capture" THEN t ELSE inflight[i][s]}
  BY <1>1, <1>2, StampGives DEF TypeInv, InflightType, Stages
<1>5. frameQ \in Seq(Frames) /\ Len(frameQ) \in Nat /\ nextFrame \in Nat
  BY DEF TypeInv
\* What is queued is the new frame, or was queued before.
<1>6. \A i \in 1..Len(k) : \/ i = Len(k) /\ k[i] = t
                           \/ i # Len(k) /\ \E j \in 1..Len(frameQ) : k[i] = frameQ[j]
  BY <1>3, <1>5
<1>7. TypeInv'
  BY <1>2, <1>3, <1>4 DEF TypeInv, InflightType, Frames, held
<1>8. Climbs(k)
  <2>1. \A i \in 1..Len(k) - 1 : k[i].id < k[Len(k)].id
    BY <1>1, <1>3, <1>5, <1>6 DEF OrderInv
  <2>2. \A i, j \in 1..Len(k) - 1 : i < j => k[i].id < k[j].id
    <3>1. CASE Len(k) = Len(frameQ) + 1 /\ \A i \in 1..Len(frameQ) : k[i] = frameQ[i]
      BY <1>5, <3>1 DEF OrderInv, Climbs
    <3>2. CASE Len(k) = Len(frameQ) /\ \A i \in 1..Len(frameQ) - 1 : k[i] = frameQ[i + 1]
      BY <1>5, <3>2 DEF OrderInv, Climbs
    <3> QED BY <1>3, <3>1, <3>2
  <2> QED BY <1>3, <2>1, <2>2 DEF Climbs
<1>9. OrderInv'
  <2>1. \A f \in Frames : f.id \in Nat
    BY DEF Frames, Ids
  <2>2. /\ \A i \in 1..Len(cmdQ) : cmdQ[i] \in Frames
        /\ \A i \in 1..Len(frameQ) : frameQ[i] \in Frames
        /\ held # None => held \in Frames
    BY DEF TypeInv, held
  <2>3. \A j \in 1..Len(k) : k[j].id < nextFrame'
    <3>1. \A j \in 1..Len(frameQ) : frameQ[j].id < nextFrame /\ frameQ[j].id \in Nat
      BY <2>1, <2>2 DEF OrderInv
    <3>2. TAKE j \in 1..Len(k)
    <3>3. k[j].id < nextFrame \/ k[j].id = nextFrame
      BY <1>1, <1>6, <3>1
    <3>4. k[j].id \in Nat
      BY <1>1, <1>5, <1>6, <3>1
    <3> QED BY <1>2, <1>5, <3>3, <3>4
  <2>4. \A i \in 1..Len(cmdQ), j \in 1..Len(k) : cmdQ[i].id < k[j].id
    BY <1>1, <1>6 DEF OrderInv
  <2>5. held # None => \A j \in 1..Len(k) : held.id < k[j].id
    BY <1>1, <1>6 DEF OrderInv
  <2>6. \A i \in 1..Len(cmdQ) : cmdQ[i].id < nextFrame'
    BY <1>2, <1>5, <2>1, <2>2 DEF OrderInv
  <2>7. held # None => held.id < nextFrame'
    BY <1>2, <1>5, <2>1, <2>2 DEF OrderInv
  <2>8. held' = held /\ cmdQ' = cmdQ /\ frameQ' = k
    BY <1>2 DEF held
  <2> QED BY <1>8, <2>3, <2>4, <2>5, <2>6, <2>7, <2>8 DEF OrderInv, Climbs
<1>10. StampInv'
  <2>1. \A f \in Frames, s \in Stages : f.id # t.id /\ Owns(f, s) => OwnsNext(f, s)
    BY <1>4 DEF Owns, OwnsNext, Frames
  <2>2. OwnsNext(t, "capture")
    BY <1>1, <1>4 DEF OwnsNext, Stages
  <2>3. /\ \A i \in 1..Len(cmdQ) : cmdQ[i] \in Frames
        /\ \A i \in 1..Len(frameQ) : frameQ[i] \in Frames
        /\ held # None => held \in Frames
        /\ stamped["control"] => held # None
    BY DEF TypeInv, held
  <2>4. \A f \in Frames : f.id < nextFrame => f.id # t.id
    BY <1>1, <1>5 DEF Frames, Ids
  <2>5. \A j \in 1..Len(k) : OwnsNext(k[j], "capture")
    BY <1>6, <2>1, <2>2, <2>3, <2>4 DEF StampInv, OrderInv, Stages
  <2>6. held # None => OwnsNext(held, "capture") /\ OwnsNext(held, "estimate")
    BY <2>1, <2>3, <2>4 DEF StampInv, OrderInv, Stages
  <2>7. stamped["control"] => OwnsNext(held, "control")
    BY <2>1, <2>3, <2>4 DEF StampInv, OrderInv, Stages
  <2>8. \A i \in 1..Len(cmdQ) : \A s \in Stages : OwnsNext(cmdQ[i], s)
    BY <2>1, <2>3, <2>4 DEF StampInv, OrderInv
  <2>9. hand' = hand /\ cmdQ' = cmdQ /\ frameQ' = k /\ stamped' = stamped
    BY <1>2
  <2> QED BY <2>5, <2>6, <2>7, <2>8, <2>9 DEF StampInv, Owns, OwnsNext, held
<1>11. RecentInv' /\ FramesNotMixed'
  <2>1. record.actuate.kind = "frame" => record.actuate.id \in Nat
    BY DEF TypeInv, Ids
  <2>2. held' = held
    BY <1>2 DEF held
  <2> QED BY <1>1, <1>2, <1>5, <1>6, <2>1, <2>2 DEF RecentInv, FramesNotMixed
<1> QED BY <1>7, <1>9, <1>10, <1>11

\* What is in the pipeline are frames of this session, with ids that compare.
LEMMA InPipeline ==
    ASSUME TypeInv
    PROVE  /\ \A f \in Frames : f.id \in Nat /\ f # None
           /\ \A i \in 1..Len(cmdQ) : cmdQ[i] \in Frames
           /\ \A i \in 1..Len(frameQ) : frameQ[i] \in Frames
           /\ held # None => held \in Frames
           /\ stamped["control"] => held # None
           /\ Len(cmdQ) \in Nat /\ Len(frameQ) \in Nat /\ nextFrame \in Nat
<1>1. \A f \in Frames : f.id \in Nat /\ f # None
  BY DEF Frames, Ids, None
<1> QED BY <1>1 DEF TypeInv, held

LEMMA DrainKept == ASSUME MonitorInv, Drain PROVE MonitorInv'
<1> USE DEF MonitorInv
<1>1. /\ frameQ \in Seq(Frames) /\ frameQ # <<>> /\ frameQ' = Tail(frameQ)
      /\ UNCHANGED <<inflight, record, session, on, nextFrame, cmdQ, hand, stamped>>
  BY DEF TypeInv, Drain
<1>2. /\ frameQ' \in Seq(Frames)
      /\ \A i \in 1..Len(frameQ') : i + 1 \in 1..Len(frameQ) /\ frameQ'[i] = frameQ[i + 1]
  BY <1>1, TailShifts
<1>3. TypeInv'
  BY <1>1, <1>2 DEF TypeInv, Frames, held
<1>4. OrderInv'
  BY <1>1, <1>2, InPipeline DEF OrderInv, Climbs, held
<1>5. StampInv' /\ RecentInv' /\ FramesNotMixed'
  BY <1>1, <1>2 DEF StampInv, RecentInv, FramesNotMixed, Owns, held
<1> QED BY <1>3, <1>4, <1>5

LEMMA EstimateKept == ASSUME MonitorInv, Estimate PROVE MonitorInv'
<1> USE DEF MonitorInv
<1>a. PICK t : t = Head(frameQ)
  OBVIOUS
<1>1. /\ frameQ \in Seq(Frames) /\ frameQ # <<>> /\ frameQ' = Tail(frameQ) /\ held = None /\ on
      /\ held' = t /\ hand' = [hand EXCEPT !["control"] = t] /\ Stamp(t, "estimate")
      /\ UNCHANGED <<record, session, on, nextFrame, cmdQ, stamped>>
  BY <1>a DEF TypeInv, Estimate, held
<1>2. /\ frameQ' \in Seq(Frames) /\ t = frameQ[1] /\ t \in Frames /\ 1 \in 1..Len(frameQ)
      /\ \A i \in 1..Len(frameQ') : i + 1 \in 1..Len(frameQ) /\ frameQ'[i] = frameQ[i + 1]
  BY <1>a, <1>1, TailShifts
<1>3. /\ inflight' \in InflightType
      /\ \A i \in Ids, s \in Stages :
            inflight'[i][s] \in {None, IF i = t.id /\ s = "estimate" THEN t ELSE inflight[i][s]}
  BY <1>1, <1>2, FramesAreTraces, StampGives DEF TypeInv, InflightType, Stages
<1>4. TypeInv'
  BY <1>1, <1>2, <1>3 DEF TypeInv, InflightType, Frames, held
<1>5. OrderInv'
  BY <1>1, <1>2, InPipeline DEF OrderInv, Climbs
<1>6. StampInv'
  <2>1. \A f \in Frames, s \in Stages :
            (f.id # t.id \/ s # "estimate") /\ Owns(f, s) => OwnsNext(f, s)
    BY <1>3 DEF Owns, OwnsNext, Frames
  <2>2. OwnsNext(t, "estimate")
    BY <1>2, <1>3 DEF OwnsNext, Stages, Frames
  <2>3. OwnsNext(t, "capture")
    BY <1>2, <2>1 DEF StampInv, Stages
  <2>4. \A i \in 1..Len(frameQ') : OwnsNext(frameQ'[i], "capture")
    BY <1>2, <2>1, InPipeline DEF StampInv, Stages
  <2>5. \A i \in 1..Len(cmdQ) : cmdQ[i].id # t.id
    BY <1>2, InPipeline DEF OrderInv
  <2>6. \A i \in 1..Len(cmdQ) : \A s \in Stages : OwnsNext(cmdQ[i], s)
    BY <2>1, <2>5, InPipeline DEF StampInv
  <2>7. ~stamped'["control"]
    BY <1>1 DEF TypeInv
  <2> QED BY <1>1, <2>2, <2>3, <2>4, <2>6, <2>7 DEF StampInv, Owns, OwnsNext
<1>7. RecentInv' /\ FramesNotMixed'
  BY <1>1, <1>2 DEF RecentInv, FramesNotMixed
<1> QED BY <1>4, <1>5, <1>6, <1>7

LEMMA ControlKept == ASSUME MonitorInv, Control("control") PROVE MonitorInv'
<1> USE DEF MonitorInv
<1>a. PICK t : t = held
  OBVIOUS
<1>1. /\ t \in Frames /\ held # None /\ held' = t /\ Stamp(t, "control")
      /\ stamped' = [stamped EXCEPT !["control"] = TRUE]
      /\ UNCHANGED <<record, session, on, nextFrame, frameQ, cmdQ, hand>>
  BY <1>a, InPipeline DEF Control, held
<1>2. /\ inflight' \in InflightType
      /\ \A i \in Ids, s \in Stages :
            inflight'[i][s] \in {None, IF i = t.id /\ s = "control" THEN t ELSE inflight[i][s]}
  BY <1>1, FramesAreTraces, StampGives DEF TypeInv, InflightType, Stages
<1>3. TypeInv'
  BY <1>1, <1>2 DEF TypeInv, InflightType, Frames, held
<1>4. OrderInv' /\ RecentInv' /\ FramesNotMixed'
  BY <1>a, <1>1 DEF OrderInv, RecentInv, FramesNotMixed, Climbs
<1>5. StampInv'
  <2>1. \A f \in Frames, s \in Stages :
            (f.id # t.id \/ s # "control") /\ Owns(f, s) => OwnsNext(f, s)
    BY <1>2 DEF Owns, OwnsNext, Frames
  <2>2. OwnsNext(t, "control")
    BY <1>1, <1>2 DEF OwnsNext, Stages, Frames
  <2>3. OwnsNext(t, "capture") /\ OwnsNext(t, "estimate")
    BY <1>a, <1>1, <2>1 DEF StampInv, Stages
  <2>4. \A i \in 1..Len(frameQ) : OwnsNext(frameQ[i], "capture")
    BY <2>1, InPipeline DEF StampInv, Stages
  <2>5. \A i \in 1..Len(cmdQ) : cmdQ[i].id # t.id
    BY <1>a, <1>1, InPipeline DEF OrderInv
  <2>6. \A i \in 1..Len(cmdQ) : \A s \in Stages : OwnsNext(cmdQ[i], s)
    BY <2>1, <2>5, InPipeline DEF StampInv
  <2> QED BY <1>1, <2>2, <2>3, <2>4, <2>6 DEF StampInv, Owns, OwnsNext
<1> QED BY <1>3, <1>4, <1>5

\* The command goes into the queue, behind those of older frames, or nowhere.
LEMMA ReleaseKept == ASSUME MonitorInv, Release("control") PROVE MonitorInv'
<1> USE DEF MonitorInv
<1>a. PICK t : t = held
  OBVIOUS
<1>b. PICK k : k = KeepLatest(cmdQ, CmdCap, t)
  OBVIOUS
<1>1. /\ t \in Frames /\ held # None /\ held' = None
      /\ hand' = [hand EXCEPT !["control"] = None]
      /\ stamped' = [stamped EXCEPT !["control"] = FALSE]
      /\ cmdQ' = cmdQ \/ (stamped["control"] /\ cmdQ' = k)
      /\ UNCHANGED <<inflight, record, session, on, nextFrame, frameQ>>
  BY <1>a, <1>b, InPipeline DEF Release, held, TypeInv
<1>2. /\ k \in Seq(Frames) /\ Len(k) \in Nat /\ 1 <= Len(k) /\ k[Len(k)] = t
      /\ \/ /\ Len(k) = Len(cmdQ) + 1
            /\ \A i \in 1..Len(cmdQ) : k[i] = cmdQ[i]
         \/ /\ Len(k) = Len(cmdQ)
            /\ \A i \in 1..Len(cmdQ) - 1 : k[i] = cmdQ[i + 1]
  <2>1. CmdCap \in Nat \ {0} /\ cmdQ \in Seq(Frames)
    BY MonitorAssumption DEF TypeInv
  <2>2. k \in Seq(Frames) /\ Kept(k, cmdQ, t)
    BY <1>b, <1>1, <2>1, KeepsLatest
  <2>3. Len(k) \in Nat
    BY <2>2
  <2> QED BY <2>2, <2>3 DEF Kept
<1>3. \A i \in 1..Len(k) : \/ i = Len(k) /\ k[i] = t
                           \/ i # Len(k) /\ \E j \in 1..Len(cmdQ) : k[i] = cmdQ[j]
  <2>1. Len(cmdQ) \in Nat
    BY DEF TypeInv
  <2>2. CASE Len(k) = Len(cmdQ) + 1 /\ \A i \in 1..Len(cmdQ) : k[i] = cmdQ[i]
    <3>1. \A i \in 1..Len(k) : i # Len(k) => i \in 1..Len(cmdQ)
      BY <2>1, <2>2
    <3> QED BY <1>2, <2>2, <3>1
  <2>3. CASE Len(k) = Len(cmdQ) /\ \A i \in 1..Len(cmdQ) - 1 : k[i] = cmdQ[i + 1]
    <3>1. \A i \in 1..Len(k) : i # Len(k) => i \in 1..Len(cmdQ) - 1 /\ i + 1 \in 1..Len(cmdQ)
      BY <2>1, <2>3
    <3> QED BY <1>2, <2>3, <3>1
  <2> QED BY <1>2, <2>2, <2>3
<1>4. Climbs(k)
  <2>1. \A i \in 1..Len(k) - 1 : k[i].id < k[Len(k)].id
    BY <1>a, <1>1, <1>2, <1>3 DEF OrderInv
  <2>2. \A i, j \in 1..Len(k) - 1 : i < j => k[i].id < k[j].id
    <3>1. CASE Len(k) = Len(cmdQ) + 1 /\ \A i \in 1..Len(cmdQ) : k[i] = cmdQ[i]
      BY <3>1, InPipeline DEF OrderInv, Climbs
    <3>2. CASE Len(k) = Len(cmdQ) /\ \A i \in 1..Len(cmdQ) - 1 : k[i] = cmdQ[i + 1]
      BY <3>2, InPipeline DEF OrderInv, Climbs
    <3> QED BY <1>2, <3>1, <3>2
  <2> QED BY <1>2, <2>1, <2>2 DEF Climbs
<1>5. ~stamped'["control"]
  BY <1>1 DEF TypeInv
<1>6. TypeInv'
  BY <1>1, <1>2 DEF TypeInv, Frames, held
<1>7. CASE cmdQ' = cmdQ
  <2>1. OrderInv'
    BY <1>1, <1>7 DEF OrderInv, Climbs
  <2>2. StampInv' /\ RecentInv' /\ FramesNotMixed'
    BY <1>1, <1>5, <1>7 DEF StampInv, RecentInv, FramesNotMixed, Owns
  <2> QED BY <1>6, <2>1, <2>2
<1>8. CASE stamped["control"] /\ cmdQ' = k
  <2>1. OrderInv'
    <3>1. \A i \in 1..Len(k) : k[i].id < nextFrame
      BY <1>a, <1>1, <1>3 DEF OrderInv
    <3>2. \A i \in 1..Len(k), j \in 1..Len(frameQ) : k[i].id < frameQ[j].id
      BY <1>a, <1>1, <1>3 DEF OrderInv
    <3> QED BY <1>1, <1>4, <1>8, <3>1, <3>2 DEF OrderInv, Climbs
  <2>2. StampInv'
    <3>1. \A s \in Stages : Owns(t, s)
      BY <1>a, <1>1, <1>8 DEF StampInv, Stages
    <3>2. \A i \in 1..Len(k) : \A s \in Stages : Owns(k[i], s)
      BY <1>3, <3>1 DEF StampInv
    <3> QED BY <1>1, <1>5, <1>8, <3>2 DEF StampInv, Owns
  <2>3. RecentInv' /\ FramesNotMixed'
    BY <1>a, <1>1, <1>3, <1>8 DEF RecentInv, FramesNotMixed
  <2> QED BY <1>6, <2>1, <2>2, <2>3
<1> QED BY <1>1, <1>7, <1>8

\* A command is applied, after n older ones were dropped.
CloseNext(q, n) ==
    /\ q \in Seq(Frames) /\ q # <<>>
    /\ \A i \in 1..Len(q) : i + n \in 1..Len(cmdQ) /\ q[i] = cmdQ[i + n]
    /\ Close(Head(q)) /\ cmdQ' = Tail(q)
    /\ UNCHANGED <<session, nextFrame, frameQ, hand, stamped>>
    /\ on' = on \/ (held = None /\ ~on')

LEMMA CloseKept == ASSUME MonitorInv, NEW q, NEW n \in Nat, CloseNext(q, n) PROVE MonitorInv'
<1> USE DEF MonitorInv
<1>a. PICK t : t = Head(q)
  OBVIOUS
<1>1. /\ q \in Seq(Frames) /\ q # <<>> /\ Close(t) /\ cmdQ' = Tail(q) /\ held' = held
      /\ \A i \in 1..Len(q) : i + n \in 1..Len(cmdQ) /\ q[i] = cmdQ[i + n]
      /\ UNCHANGED <<session, nextFrame, frameQ, hand, stamped>>
      /\ on' = on \/ (held = None /\ ~on')
  BY <1>a DEF CloseNext, held
<1>2. /\ cmdQ' \in Seq(Frames) /\ t = q[1] /\ t \in Frames /\ 1 \in 1..Len(q)
      /\ \A i \in 1..Len(cmdQ') : i + 1 \in 1..Len(q) /\ cmdQ'[i] = q[i + 1]
  BY <1>a, <1>1, TailShifts
<1>3. /\ 1 + n \in 1..Len(cmdQ) /\ t = cmdQ[1 + n]
      /\ \A i \in 1..Len(cmdQ') : i + 1 + n \in 1..Len(cmdQ) /\ cmdQ'[i] = cmdQ[i + 1 + n]
  BY <1>1, <1>2
<1>4. /\ inflight' \in InflightType
      /\ \A i \in Ids, s \in Stages : inflight'[i][s] \in {None, inflight[i][s]}
      /\ \/ record' = record
         \/ /\ record'.actuate = t
            /\ \A s \in Stages : /\ record'.stamps[s] = inflight[t.id][s]
                                 /\ record'.stamps[s] # None
  BY <1>1, <1>2, FramesAreTraces, CloseGives DEF TypeInv, InflightType
<1>5. TypeInv'
  <2>1. record'.actuate.kind = "frame" => record'.actuate.session \in 0..session
                                          /\ record'.actuate.id \in Ids
    BY <1>2, <1>4 DEF TypeInv, Frames
  <2>2. IF on' THEN session' \in 1..MaxSession ELSE held' = None
    BY <1>1 DEF TypeInv
  <2>3. Frames' = Frames
    BY <1>1 DEF Frames
  <2> QED BY <1>1, <1>2, <1>4, <2>1, <2>2, <2>3 DEF TypeInv, InflightType
<1>6. OrderInv'
  <2>a. Len(cmdQ') \in Nat /\ Climbs(cmdQ)
    BY <1>2 DEF OrderInv
  <2>b. \A i, j \in 1..Len(cmdQ') : i < j => i + 1 + n < j + 1 + n
    BY <2>a
  <2>1. Climbs(cmdQ')
    BY <1>3, <2>a, <2>b DEF Climbs
  <2> QED BY <1>1, <1>3, <2>1 DEF OrderInv, Climbs
<1>7. StampInv'
  <2>1. \A f \in Frames, s \in Stages : Owns(f, s) => OwnsNext(f, s)
    BY <1>4 DEF Owns, OwnsNext, Frames
  <2>2. /\ \A j \in 1..Len(frameQ) : OwnsNext(frameQ[j], "capture")
        /\ held # None => OwnsNext(held, "capture") /\ OwnsNext(held, "estimate")
        /\ stamped["control"] => OwnsNext(held, "control")
        /\ \A i \in 1..Len(cmdQ) : \A s \in Stages : OwnsNext(cmdQ[i], s)
    BY <2>1, InPipeline DEF StampInv, Stages
  <2> QED BY <1>1, <1>3, <2>2 DEF StampInv, Owns, OwnsNext
<1>8. RecentInv'
  <2>a. Len(cmdQ') \in Nat /\ Climbs(cmdQ)
    BY <1>2 DEF OrderInv
  <2>b. \A i \in 1..Len(cmdQ') : 1 + n < i + 1 + n
    BY <2>a
  <2>1. \A i \in 1..Len(cmdQ') : t.id < cmdQ'[i].id
    BY <1>3, <2>a, <2>b DEF Climbs
  <2>2. /\ t.id < nextFrame /\ \A j \in 1..Len(frameQ) : t.id < frameQ[j].id
        /\ held # None => t.id < held.id
    BY <1>3 DEF OrderInv
  <2> QED BY <1>1, <1>3, <1>4, <2>1, <2>2 DEF RecentInv
<1>9. FramesNotMixed'
  <2>1. \A s \in Stages : inflight[t.id][s] \in {t, None}
    BY <1>3 DEF StampInv, Owns
  <2> QED BY <1>4, <2>1 DEF FramesNotMixed
<1> QED BY <1>5, <1>6, <1>7, <1>8, <1>9

LEMMA ActuateCloses == ASSUME MonitorInv, Actuate PROVE CloseNext(cmdQ, 0)
<1>1. cmdQ \in Seq(Frames) /\ \A i \in 1..Len(cmdQ) : i + 0 = i
  BY DEF MonitorInv, TypeInv
<1> QED BY <1>1 DEF Actuate, CloseNext

\* stop() drops at most one command and applies at most one.
StopDrops ==
    /\ cmdQ' = <<>> /\ held = None /\ ~on'
    /\ UNCHANGED <<inflight, record, session, nextFrame, frameQ, hand, stamped>>

LEMMA StopCloses ==
    ASSUME MonitorInv, Stop
    PROVE  StopDrops \/ CloseNext(cmdQ, 0) \/ CloseNext(Tail(cmdQ), 1)
<1>1. PICK q \in {cmdQ} \cup {Tail(r) : r \in {cmdQ} \ {<<>>}} :
          IF q = <<>> THEN cmdQ' = q /\ UNCHANGED <<inflight, record>>
          ELSE Close(Head(q)) /\ cmdQ' = Tail(q)
  BY DEF Stop
<1>2. /\ cmdQ \in Seq(Frames) /\ held = None /\ ~on'
      /\ UNCHANGED <<session, nextFrame, frameQ, hand, stamped>>
  BY OnlyControl DEF MonitorInv, TypeInv, Stop, held
<1>3. CASE q = <<>>
  BY <1>1, <1>2, <1>3 DEF StopDrops
<1>4. CASE q # <<>> /\ q = cmdQ
  <2>1. \A i \in 1..Len(cmdQ) : i + 0 = i
    OBVIOUS
  <2> QED BY <1>1, <1>2, <1>4, <2>1 DEF CloseNext
<1>5. CASE q # <<>> /\ cmdQ # <<>> /\ q = Tail(cmdQ)
  <2>1. q \in Seq(Frames) /\ \A i \in 1..Len(q) : i + 1 \in 1..Len(cmdQ) /\ q[i] = cmdQ[i + 1]
    BY <1>2, <1>5, TailShifts
  <2> QED BY <1>1, <1>2, <1>5, <2>1 DEF CloseNext
<1> QED BY <1>1, <1>3, <1>4, <1>5

LEMMA DropsKept == ASSUME MonitorInv, StopDrops PROVE MonitorInv'
<1>1. TypeInv'
  BY DEF MonitorInv, StopDrops, TypeInv, Frames, held
<1>2. OrderInv' /\ StampInv' /\ RecentInv' /\ FramesNotMixed'
  BY DEF MonitorInv, StopDrops, OrderInv, StampInv, RecentInv, FramesNotMixed, Climbs, Owns, held
<1> QED BY <1>1, <1>2 DEF MonitorInv

-----------------------------------------------------------------------------
(* The theorems.                                                           *)

LEMMA StillKept == ASSUME MonitorInv, UNCHANGED vars PROVE MonitorInv'
<1>1. TypeInv'
  BY DEF MonitorInv, vars, TypeInv, Frames, held
<1>2. OrderInv' /\ StampInv' /\ RecentInv' /\ FramesNotMixed'
  BY DEF MonitorInv, vars, OrderInv, StampInv, RecentInv, FramesNotMixed, Climbs, Owns, held
<1> QED BY <1>1, <1>2 DEF MonitorInv

\* The steps there are without manual commands.
LEMMA StepsOfFrames ==
    ASSUME ManualThreads = {}, Next
    PROVE  \/ Start \/ Park \/ Capture \/ Drain \/ Estimate \/ Actuate \/ Stop
           \/ Control("control") \/ Release("control")
  BY OnlyControl DEF Next

LEMMA MonitorStep == ASSUME ManualThreads = {}, MonitorInv, [Next]_vars PROVE MonitorInv'
  BY StepsOfFrames, StartKept, ParkKept, CaptureKept, DrainKept, EstimateKept, ControlKept,
     ReleaseKept, ActuateCloses, StopCloses, CloseKept, DropsKept, StillKept

LEMMA MonitorInvariant == ASSUME ManualThreads = {} PROVE Spec => []MonitorInv
  BY MonitorInit, MonitorStep, PTL DEF Spec

\* Without manual commands, the record of a frame's command has only that frame's
\* times, although ids come again, entries are evicted, and nothing resets them.
THEOREM RecordsAreOwn == ASSUME ManualThreads = {} PROVE Spec => []FramesNotMixed
<1>1. MonitorInv => FramesNotMixed
  BY DEF MonitorInv
<1> QED BY <1>1, MonitorInvariant, PTL

\* Without manual commands, a session's frames are recorded in the order of capture.
THEOREM RecordsAreOrdered == ASSUME ManualThreads = {} PROVE Spec => RecordsInOrder
<1> DEFINE InOrder(old, new) == old.kind = "frame" /\ new.kind = "frame"
                                /\ old.session = new.session => old.id < new.id
<1>1. ASSUME MonitorInv, NEW q, NEW n \in Nat, CloseNext(q, n), record' # record
      PROVE  InOrder(record.actuate, record'.actuate)
  <2>1. /\ 1 \in 1..Len(q) /\ Head(q) = q[1] /\ Head(q) \in Frames
        /\ 1 + n \in 1..Len(cmdQ) /\ q[1] = cmdQ[1 + n] /\ Close(Head(q))
    BY <1>1, TailShifts DEF CloseNext
  <2>2. record'.actuate = Head(q)
    BY <1>1, <2>1, FramesAreTraces, CloseGives DEF MonitorInv, TypeInv, InflightType
  <2>3. Head(q).session = session
    BY <2>1 DEF Frames
  <2> QED BY <1>1, <2>1, <2>2, <2>3 DEF MonitorInv, RecentInv
<1>2. ASSUME MonitorInv, Park, record' # record
      PROVE  InOrder(record.actuate, record'.actuate)
  <2>1. record'.actuate.kind = "park"
    BY <1>2 DEF Park, Close, Tracing
  <2> QED BY <2>1
<1>3. ASSUME MonitorInv, [Next]_vars, record' # record
      PROVE  InOrder(record.actuate, record'.actuate)
  <2>1. CASE Actuate \/ Stop
    BY <1>1, <1>3, <2>1, ActuateCloses, StopCloses DEF StopDrops
  <2>2. CASE Park
    BY <1>2, <1>3, <2>2
  <2>3. CASE \/ Start \/ Capture \/ Drain \/ Estimate \/ Control("control")
             \/ Release("control") \/ UNCHANGED vars
    BY <1>3, <2>3 DEF Start, Capture, Drain, Estimate, Control, Release, vars
  <2> QED BY <1>3, <2>1, <2>2, <2>3, StepsOfFrames
<1> HIDE DEF InOrder
<1>4. MonitorInv /\ [Next]_vars => [InOrder(record.actuate, record'.actuate)]_record
  BY <1>3
<1>5. RecordsInOrder <=> [][InOrder(record.actuate, record'.actuate)]_record
  BY PTL DEF RecordsInOrder, InOrder
<1> QED BY <1>4, <1>5, MonitorInvariant, PTL DEF Spec

=============================================================================
