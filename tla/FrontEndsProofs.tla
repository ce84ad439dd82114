---------------------------- MODULE FrontEndsProofs ----------------------------
(***************************************************************************)
(* Theorems about the two front ends: what they leave behind, whether the  *)
(* window's labels are true, and the order of its preview, for any script, *)
(* any number of frames and commands and any size of a read.               *)
(*                                                                         *)
(* Each front end has an invariant of its own, under the condition that it *)
(* is the one that was built.                                              *)
(***************************************************************************)
EXTENDS FrontEnds, SequenceTheorems, TLAPS

-----------------------------------------------------------------------------
(* The inductive invariants.                                               *)

\* LinuxEventLoop: what is open is a function of where run() is.
CliInv ==
    /\ loop \in Cli!SetupPoints \cup Cli!LoopPoints \cup {"leave", "stop"} \cup Cli!Ended
    /\ loop \in {"start", "returned"} => system = "down"
    /\ loop \in {"start", "mask", "signalfd", "stop", "returned"} => fds = {}
    /\ loop = "timerfd" => fds = {"signal"}
    /\ loop \in {"settime", "dup"} => fds = {"signal", "timer"}
    /\ loop \in Cli!LoopPoints \cup {"leave"} => fds = {"signal", "timer", "input"}

\* The halves of the lines that were read and not executed are in pending_, and
\* the first of them begins a line.
Buffered(n) ==
    /\ pending_ \in Seq(Nat)
    /\ got = 2 * n + Len(pending_)
    /\ \A i \in 1..Len(pending_) : pending_[i] = 2 * n + i

CallKinds == {"manual", "auto", "threshold", "set"}

CallsInv ==
    /\ calls \in Seq(CallKinds)
    /\ typed \in 0..2 * MaxLines /\ got \in 0..typed
    /\ \E n \in 0..MaxLines :
           /\ Cli!Follows(n)
           /\ loop \in Cli!SetupPoints \cup Cli!LoopPoints => Buffered(n)

\* The owner the labels name.
OwnerInv ==
    /\ source \in {"Pot", "Gui"}
    /\ Qt!LabelsTrue

\* The threads against the way out: a lowered converter that was joined is done,
\* and a system that is down calls nobody.
ExitInv ==
    /\ ui \in {"loop", "lower", "raise", "notify", "join", "stop", "joinSystem", "gone"}
    /\ system \in {"up", "stopping", "down"}
    /\ system = "stopping" => ui = "joinSystem"
    /\ system = "down" => observer = "idle" /\ commands = "idle"
    /\ ui = "loop" => convRunning_
    /\ ui \in {"raise", "notify", "join", "gone"} => ~convRunning_
    /\ ui \in {"stop", "joinSystem", "gone"} /\ ~convRunning_ => conv = "done"
    /\ ui = "gone" => system = "down"
    /\ conv \in {"top", "woken", "locked", "deciding", "asleep", "convert", "done"}
    /\ ui \in {"notify", "join"} => conv # "deciding"
    /\ ui = "join" => conv # "asleep"

\* Frames go through pending and buf in order, each with its own geometry.
PreviewInv ==
    /\ frame \in Nat
    /\ {pending, buf, latestImg_} \subseteq [bytes: Nat, geometry: Nat]
    /\ \A img \in {pending, buf} : img.bytes # 0 => img.geometry = img.bytes
    /\ latestImg_.bytes <= frame /\ buf.bytes <= frame
    /\ pending.geometry = frame
    /\ pending.bytes # 0 => latestImg_.bytes < pending.bytes
    /\ conv = "convert" /\ buf.bytes # 0 => latestImg_.bytes < buf.bytes
    /\ conv = "convert" /\ pending.bytes # 0 => buf.bytes < pending.bytes

FrontEndsInv ==
    /\ front \in {"cli", "qt"}
    /\ front = "cli" => CliInv /\ CallsInv
    /\ front = "qt"  => OwnerInv /\ ExitInv
    /\ PreviewInv

-----------------------------------------------------------------------------
(* The steps of LinuxEventLoop.                                            *)

CliVars == <<system, cliVars>>

LEMMA CliKept ==
    ASSUME CliInv, [Cli!Next]_CliVars
    PROVE  CliInv'
<1> USE DEF CliInv, Cli!SetupPoints, Cli!LoopPoints, Cli!Ended, Cli!LoopGo
<1>1. CASE Cli!StartSystem BY <1>1 DEF Cli!StartSystem
<1>2. CASE Cli!Block       BY <1>2 DEF Cli!Block
<1>3. CASE Cli!OpenSignalFd BY <1>3 DEF Cli!OpenSignalFd, Cli!Opens
<1>4. CASE Cli!CreateTimer BY <1>4 DEF Cli!CreateTimer, Cli!Opens
<1>5. CASE Cli!SetTimer    BY <1>5 DEF Cli!SetTimer
<1>6. CASE Cli!DupInput    BY <1>6 DEF Cli!DupInput, Cli!Opens
<1>7. CASE Cli!SetupFails  BY <1>7 DEF Cli!SetupFails, Cli!Closes
<1>8. CASE Cli!Poll        BY <1>8 DEF Cli!Poll
<1>9. CASE Cli!ReadSignal  BY <1>9 DEF Cli!ReadSignal
<1>10. CASE Cli!Tick       BY <1>10 DEF Cli!Tick
<1>11. CASE Cli!ReadInput  BY <1>11 DEF Cli!ReadInput
<1>12. CASE Cli!ExecuteLine BY <1>12 DEF Cli!ExecuteLine
<1>13. CASE Cli!HangUp     BY <1>13 DEF Cli!HangUp
<1>14. CASE Cli!Leave      BY <1>14 DEF Cli!Leave
<1>15. CASE Cli!StopSystem BY <1>15 DEF Cli!StopSystem
<1>16. CASE Cli!Type       BY <1>16 DEF Cli!Type
<1>17. CASE Cli!Close      BY <1>17 DEF Cli!Close
<1>18. CASE Cli!Signal     BY <1>18 DEF Cli!Signal
<1>19. CASE UNCHANGED CliVars BY <1>19 DEF CliVars, cliVars
<1> QED
  BY <1>1, <1>2, <1>3, <1>4, <1>5, <1>6, <1>7, <1>8, <1>9, <1>10, <1>11, <1>12, <1>13, <1>14,
     <1>15, <1>16, <1>17, <1>18, <1>19
  DEF Cli!Next, Cli!LoopStep

-----------------------------------------------------------------------------
(* What its lines ask for.                                                 *)

\* Halves alternate, so a buffer that begins with a line has its end second.
LEMMA LineEnds ==
    ASSUME NEW n \in Nat, Buffered(n)
    PROVE  Cli!LineEnd = IF Len(pending_) < 2 THEN 0 ELSE 2
<1> DEFINE Ends(i) == pending_[i] % 2 = 0
<1>1. \A i \in 1..Len(pending_) : i <= 2 => (Ends(i) <=> i = 2)
  <2> SUFFICES ASSUME NEW i \in 1..Len(pending_), i <= 2 PROVE Ends(i) <=> i = 2
    OBVIOUS
  <2>1. pending_[i] = 2 * n + i
    BY DEF Buffered
  <2> QED BY <2>1
<1>2. DOMAIN pending_ = 1..Len(pending_) /\ Len(pending_) \in Nat
  BY DEF Buffered
<1>3. CASE Len(pending_) < 2
  <2>1. ~ \E i \in DOMAIN pending_ : Ends(i)
    BY <1>1, <1>2, <1>3
  <2> QED BY <2>1, <1>3 DEF Cli!LineEnd
<1>4. CASE Len(pending_) >= 2
  <2>1. 2 \in DOMAIN pending_ /\ 1 \in DOMAIN pending_ /\ Ends(2) /\ ~Ends(1)
    BY <1>1, <1>2, <1>4
  <2>2. \A i \in DOMAIN pending_ :
           Ends(i) /\ (\A j \in 1..(i - 1) : ~Ends(j)) <=> i = 2
    BY <1>2, <2>1
  <2>3. (CHOOSE i \in DOMAIN pending_ : Ends(i) /\ \A j \in 1..(i - 1) : ~Ends(j)) = 2
    BY <2>1, <2>2
  <2> QED BY <2>1, <2>3, <1>2, <1>4 DEF Cli!LineEnd
<1> QED BY <1>2, <1>3, <1>4

\* A line that is executed is the next one of the script, whole.
LEMMA NextLine ==
    ASSUME NEW n \in Nat, Buffered(n), Len(pending_) >= 2
    PROVE  /\ Cli!Command(SubSeq(pending_, 1, 2)) = script[n + 1]
           /\ pending_' = SubSeq(pending_, 3, Len(pending_)) /\ got' = got => Buffered(n + 1)'
<1> PICK line : line = SubSeq(pending_, 1, 2)
  OBVIOUS
<1>1. Len(line) = 2 /\ line[1] = 2 * n + 1 /\ line[2] = 2 * n + 2
  BY DEF Buffered
<1>2. line[2] = line[1] + 1 /\ line[2] \div 2 = n + 1
  BY <1>1
<1>3. Cli!Command(line) = script[n + 1]
  BY <1>1, <1>2 DEF Cli!Command
<1>4. ASSUME pending_' = SubSeq(pending_, 3, Len(pending_)), got' = got
      PROVE  Buffered(n + 1)'
  <2> PICK last : last = Len(pending_)
    OBVIOUS
  <2>0. last \in Nat /\ last >= 2 /\ \A i \in 3..last : pending_[i] \in Nat
    BY DEF Buffered
  <2> PICK rest : rest = SubSeq(pending_, 3, last)
    OBVIOUS
  <2>5. /\ rest \in Seq(Nat) /\ Len(rest) = IF 3 <= last THEN last - 3 + 1 ELSE 0
        /\ \A i \in 1..(last - 3 + 1) : rest[i] = pending_[3 + i - 1]
    BY <2>0, SubSeqProperties
  <2>6. Len(rest) = last - 2 /\ \A i \in 1..Len(rest) : rest[i] = pending_[i + 2]
    BY <2>0, <2>5
  <2>1. /\ Len(pending_) \in Nat
        /\ pending_' \in Seq(Nat) /\ Len(pending_') = Len(pending_) - 2
        /\ \A i \in 1..Len(pending_') : pending_'[i] = pending_[i + 2]
    BY <1>4, <2>0, <2>5, <2>6
  <2>2. \A i \in 1..Len(pending_') : pending_'[i] = 2 * (n + 1) + i
    BY <2>1 DEF Buffered
  <2>3. got' = 2 * (n + 1) + Len(pending_')
    BY <2>1, <1>4 DEF Buffered
  <2> QED BY <2>1, <2>2, <2>3 DEF Buffered
<1> QED BY <1>3, <1>4

\* What is read continues the buffer.
LEMMA ReadOn ==
    ASSUME NEW n \in Nat, Buffered(n), NEW upTo \in Nat, got \in Nat, upTo > got,
           got' = upTo, pending_' = pending_ \o [i \in 1..(upTo - got) |-> got + i]
    PROVE  Buffered(n)'
<1> PICK fresh : fresh = [i \in 1..(upTo - got) |-> got + i]
  OBVIOUS
<1>1. upTo - got \in Nat
  OBVIOUS
<1>2. /\ fresh \in Seq(Nat) /\ Len(fresh) = upTo - got
      /\ \A i \in 1..Len(fresh) : fresh[i] = got + i
  BY <1>1
<1>3. /\ Len(pending_) \in Nat /\ Len(fresh) \in Nat
      /\ pending_' \in Seq(Nat) /\ Len(pending_') = Len(pending_) + Len(fresh)
      /\ \A i \in 1..Len(pending_') :
             pending_'[i] = IF i <= Len(pending_) THEN pending_[i] ELSE fresh[i - Len(pending_)]
  BY <1>2 DEF Buffered
<1>4. got' = 2 * n + Len(pending_')
  BY <1>2, <1>3 DEF Buffered
<1>5. ASSUME NEW i \in 1..Len(pending_') PROVE pending_'[i] = 2 * n + i
  <2>1. CASE i <= Len(pending_)
    BY <1>3, <2>1 DEF Buffered
  <2>2. CASE i > Len(pending_)
    <3>1. i - Len(pending_) \in 1..Len(fresh)
      BY <1>3, <2>2
    <3>2. pending_'[i] = got + (i - Len(pending_))
      BY <1>2, <1>3, <2>2, <3>1
    <3> QED BY <3>2, <1>3 DEF Buffered
  <2> QED BY <1>3, <2>1, <2>2
<1> QED BY <1>3, <1>4, <1>5 DEF Buffered

\* Executing the next line keeps the calls in step with the script.
LEMMA FollowsOn ==
    ASSUME NEW n \in Nat, calls \in Seq(CallKinds), Cli!Follows(n),
           NEW command, command = script[n + 1], command # "quit", script' = script,
           calls' = IF Cli!IsCall(command) THEN Append(calls, command) ELSE calls
    PROVE  calls' \in Seq(CallKinds) /\ Cli!Follows(n + 1)'
<1> DEFINE Asked(m) == {k \in 1..m : Cli!IsCall(script[k])}
<1>1. PICK line \in [1..Len(calls) -> Asked(n)] :
         /\ \A i \in 1..Len(calls) : calls[i] = script[line[i]]
         /\ \A i, j \in 1..Len(calls) : i < j => line[i] < line[j]
         /\ \A k \in 1..n : Cli!IsCall(script[k]) => \E i \in 1..Len(calls) : line[i] = k
  BY DEF Cli!Follows
<1>2. \A k \in 1..(n + 1) : script[k] # "quit"
  BY DEF Cli!Follows
<1>3. Len(calls) \in Nat
  OBVIOUS
<1>4. CASE Cli!IsCall(command)
  <2> PICK m : m = Len(calls) + 1
    OBVIOUS
  <2>1. command \in CallKinds
    BY <1>4 DEF Cli!IsCall, CallKinds
  <2>2. /\ calls' \in Seq(CallKinds) /\ Len(calls') = m
        /\ \A i \in 1..Len(calls) : calls'[i] = calls[i]
        /\ calls'[m] = command
    BY <1>4, <2>1, AppendProperties
  <2> DEFINE longer == [i \in 1..m |-> IF i = m THEN n + 1 ELSE line[i]]
  <2>3. longer \in [1..m -> Asked(n + 1)]
    BY <1>3, <1>4
  <2>4. \A i \in 1..m : calls'[i] = script[longer[i]]
    BY <1>1, <1>3, <2>2
  <2>5. \A i, j \in 1..m : i < j => longer[i] < longer[j]
    BY <1>1, <1>3
  <2>6. \A k \in 1..(n + 1) : Cli!IsCall(script[k]) => \E i \in 1..m : longer[i] = k
    <3> SUFFICES ASSUME NEW k \in 1..(n + 1), Cli!IsCall(script[k])
                 PROVE  \E i \in 1..m : longer[i] = k
      OBVIOUS
    <3>1. CASE k = n + 1
      BY <1>3, <3>1
    <3>2. CASE k \in 1..n
      <4>1. PICK i \in 1..Len(calls) : line[i] = k
        BY <1>1, <3>2
      <4> QED BY <4>1, <1>3
    <3> QED BY <3>1, <3>2
  <2> HIDE DEF longer
  <2> QED BY <1>2, <2>2, <2>3, <2>4, <2>5, <2>6 DEF Cli!Follows
<1>5. CASE ~Cli!IsCall(command)
  <2>1. Asked(n + 1) = Asked(n)
    BY <1>5
  <2>2. \A k \in 1..(n + 1) : Cli!IsCall(script[k]) => k \in 1..n
    BY <1>5
  <2>3. calls' = calls
    BY <1>5
  <2>4. line \in [1..Len(calls) -> Asked(n + 1)]
    BY <2>1
  <2>5. \A k \in 1..(n + 1) : Cli!IsCall(script[k]) => \E i \in 1..Len(calls) : line[i] = k
    BY <1>1, <2>2
  <2>6. /\ line \in [1..Len(calls') -> {k \in 1..(n + 1) : Cli!IsCall(script'[k])}]
        /\ \A i \in 1..Len(calls') : calls'[i] = script'[line[i]]
        /\ \A i, j \in 1..Len(calls') : i < j => line[i] < line[j]
        /\ \A k \in 1..(n + 1) :
               Cli!IsCall(script'[k]) => \E i \in 1..Len(calls') : line[i] = k
    BY <1>1, <2>3, <2>4, <2>5
  <2>7. \A k \in 1..(n + 1) : script'[k] # "quit"
    BY <1>2
  <2> HIDE DEF Asked
  <2> QED BY <2>3, <2>6, <2>7, Zenon DEF Cli!Follows, Cli!IsCall
<1> QED BY <1>4, <1>5

\* A step that leaves calls, script and the buffer alone keeps them in step.
CallsRest ==
    /\ UNCHANGED <<calls, script, typed, got, pending_>>
    /\ loop' \in Cli!SetupPoints \cup Cli!LoopPoints =>
           loop \in Cli!SetupPoints \cup Cli!LoopPoints

LEMMA CallsKept ==
    ASSUME CallsInv, [Cli!Next]_CliVars
    PROVE  CallsInv'
<1>0. MaxLines \in Nat /\ ReadSize \in Nat \ {0}
  BY FrontEndAssumption
<1> PICK n \in 0..MaxLines :
       /\ Cli!Follows(n)
       /\ loop \in Cli!SetupPoints \cup Cli!LoopPoints => Buffered(n)
  BY DEF CallsInv
<1>1. CASE CallsRest
  <2>1. Cli!Follows(n)' /\ (Buffered(n) => Buffered(n)')
    BY <1>1 DEF CallsRest, Cli!Follows, Cli!IsCall, Buffered
  <2> QED BY <1>1, <2>1 DEF CallsInv, CallsRest
<1>2. CASE Cli!ReadInput
  <2>1. UNCHANGED <<calls, script, typed>>
    BY <1>2 DEF Cli!ReadInput
  <2>2. Cli!Follows(n)'
    BY <2>1 DEF Cli!Follows, Cli!IsCall
  <2> PICK upTo : upTo = IF typed - got > ReadSize THEN got + ReadSize ELSE typed
    OBVIOUS
  <2>3. typed \in Nat /\ got \in Nat /\ upTo \in Nat /\ upTo <= typed
    BY <1>0 DEF CallsInv
  <2>4. CASE UNCHANGED <<got, pending_>>
    BY <1>1, <1>2, <2>1, <2>4
    DEF Cli!ReadInput, Cli!LoopGo, CallsRest, Cli!LoopPoints, Cli!SetupPoints
  <2>5. CASE /\ upTo > got /\ loop = "read" /\ got' = upTo
             /\ pending_' = pending_ \o [i \in 1..(upTo - got) |-> got + i]
    <3>1. Buffered(n)
      BY <2>5 DEF Cli!LoopPoints
    <3>2. Buffered(n)'
      <4>1. n \in Nat
        BY <1>0
      <4> QED BY <2>3, <2>5, <3>1, <4>1, ReadOn
    <3>3. calls' \in Seq(CallKinds) /\ typed' \in 0..2 * MaxLines /\ got' \in 0..typed'
      BY <2>1, <2>3, <2>5 DEF CallsInv
    <3> QED BY <2>2, <3>2, <3>3 DEF CallsInv
  <2> QED BY <1>2, <2>4, <2>5 DEF Cli!ReadInput, Cli!LoopGo
<1>3. CASE Cli!ExecuteLine
  <2>1. UNCHANGED <<script, typed, got>> /\ loop = "execute"
    BY <1>3 DEF Cli!ExecuteLine, Cli!inputVars, Cli!LoopGo
  <2>2. Buffered(n)
    BY <2>1 DEF Cli!LoopPoints
  <2>3. CASE Cli!LineEnd = 0
    BY <1>1, <1>3, <2>1, <2>3
    DEF Cli!ExecuteLine, Cli!LoopGo, CallsRest, Cli!LoopPoints, Cli!SetupPoints
  <2>4. CASE Cli!LineEnd # 0
    <3> DEFINE command == script[n + 1]
    <3>1. Len(pending_) \in Nat /\ Len(pending_) >= 2 /\ Cli!LineEnd = 2
      BY <2>2, <2>4, LineEnds DEF Buffered
    <3>2. Cli!Command(SubSeq(pending_, 1, 2)) = command
      BY <2>2, <3>1, NextLine
    <3>3. /\ loop' = IF command = "quit" THEN "leave" ELSE "execute"
          /\ pending_' = SubSeq(pending_, 3, Len(pending_))
          /\ calls' = IF Cli!IsCall(command) THEN Append(calls, command) ELSE calls
      BY <1>3, <3>1, <3>2 DEF Cli!ExecuteLine, Cli!LoopGo
    <3>4. CASE command = "quit"
      <4>1. calls' = calls /\ loop' = "leave"
        BY <3>3, <3>4 DEF Cli!IsCall
      <4>2. Cli!Follows(n)'
        BY <2>1, <4>1 DEF Cli!Follows, Cli!IsCall
      <4> QED BY <2>1, <4>1, <4>2 DEF CallsInv, Cli!SetupPoints, Cli!LoopPoints
    <3>5. CASE command # "quit"
      <4>1. n + 1 \in 0..MaxLines
        BY <1>0, <2>2, <3>1 DEF CallsInv, Buffered
      <4>2. calls' \in Seq(CallKinds) /\ Cli!Follows(n + 1)'
        BY <2>1, <3>3, <3>5, FollowsOn DEF CallsInv
      <4>3. Buffered(n + 1)'
        BY <2>1, <2>2, <3>1, <3>3, NextLine
      <4> QED BY <2>1, <4>1, <4>2, <4>3 DEF CallsInv
    <3> QED BY <3>4, <3>5
  <2> QED BY <2>3, <2>4
<1>4. CASE Cli!Type
  <2>1. Cli!Follows(n)' /\ (Buffered(n) => Buffered(n)')
    BY <1>4 DEF Cli!Type, Cli!Follows, Cli!IsCall, Buffered
  <2>2. typed' \in 0..2 * MaxLines /\ got' \in 0..typed'
    BY <1>0, <1>4 DEF Cli!Type, CallsInv
  <2>3. calls' \in Seq(CallKinds) /\ loop' = loop
    BY <1>4 DEF Cli!Type, CallsInv
  <2> QED BY <2>1, <2>2, <2>3 DEF CallsInv
<1>5. CASE Cli!Leave
  <2>1. UNCHANGED <<calls, script, typed, got>> /\ loop' = "stop"
    BY <1>5 DEF Cli!Leave, Cli!LoopGo, Cli!inputVars
  <2>2. Cli!Follows(n)'
    BY <2>1 DEF Cli!Follows, Cli!IsCall
  <2> QED BY <2>1, <2>2 DEF CallsInv, Cli!SetupPoints, Cli!LoopPoints
<1>6. Cli!ReadInput \/ Cli!ExecuteLine \/ Cli!Type \/ Cli!Leave \/ CallsRest
  <2> USE DEF CallsRest, Cli!SetupPoints, Cli!LoopPoints, Cli!LoopGo, Cli!inputVars
  <2>1. CASE Cli!StartSystem \/ Cli!Block \/ Cli!SetTimer \/ Cli!SetupFails
    BY <2>1 DEF Cli!StartSystem, Cli!Block, Cli!SetTimer, Cli!SetupFails
  <2>2. CASE Cli!OpenSignalFd \/ Cli!CreateTimer \/ Cli!DupInput
    BY <2>2 DEF Cli!OpenSignalFd, Cli!CreateTimer, Cli!DupInput, Cli!Opens
  <2>3. CASE Cli!Poll \/ Cli!ReadSignal \/ Cli!Tick \/ Cli!HangUp \/ Cli!StopSystem
    BY <2>3 DEF Cli!Poll, Cli!ReadSignal, Cli!Tick, Cli!HangUp, Cli!StopSystem
  <2>4. CASE Cli!Close \/ Cli!Signal
    BY <2>4 DEF Cli!Close, Cli!Signal
  <2>5. CASE UNCHANGED CliVars
    BY <2>5 DEF CliVars, cliVars
  <2> QED BY <2>1, <2>2, <2>3, <2>4, <2>5 DEF Cli!Next, Cli!LoopStep
<1> QED BY <1>1, <1>2, <1>3, <1>4, <1>5, <1>6

-----------------------------------------------------------------------------
(* The steps of MainWindow, by the variables they can disturb.             *)

QtVars == <<system, qtVars>>

\* Only buttons, sliders and the dispatcher touch the path and its labels.
LEMMA OwnerKept ==
    ASSUME OwnerInv, [Qt!Next]_QtVars
    PROVE  OwnerInv'
<1> USE DEF OwnerInv, Qt!LabelsTrue
<1>1. CASE Qt!Click
  <2>1. ASSUME NEW src \in {"Pot", "Gui"}, Qt!Choose(src) PROVE OwnerInv'
    BY <2>1, Zenon DEF Qt!Choose
  <2>2. CASE Qt!ClickAuto  BY <2>2 DEF Qt!ClickAuto
  <2>3. CASE Qt!ClickManual BY <2>1, <2>3 DEF Qt!ClickManual
  <2>4. CASE Qt!ClickUsePot BY <2>1, <2>4 DEF Qt!ClickUsePot
  <2>5. CASE Qt!ClickUseGui BY <2>1, <2>5 DEF Qt!ClickUseGui
  <2>6. CASE Qt!sendManual BY <2>6 DEF Qt!sendManual
  <2> QED BY <1>1, <2>2, <2>3, <2>4, <2>5, <2>6 DEF Qt!Click
<1>2. CASE Qt!DispatchStep
  <2>1. CASE Qt!DispatchCheck BY <2>1 DEF Qt!DispatchCheck
  <2>2. CASE Qt!DispatchOwn
    <3>1. CASE source' = "Gui" /\ overtaken' = (overtaken \/ source = "Pot")
      BY <2>2, <3>1 DEF Qt!DispatchOwn
    <3>2. CASE UNCHANGED <<source, overtaken>>
      BY <2>2, <3>2 DEF Qt!DispatchOwn
    <3> QED BY <2>2, <3>1, <3>2 DEF Qt!DispatchOwn
  <2> QED BY <1>2, <2>1, <2>2 DEF Qt!DispatchStep
<1>3. CASE UNCHANGED Qt!modeVars
  BY <1>3 DEF Qt!modeVars
<1>4. Qt!Click \/ Qt!DispatchStep \/ UNCHANGED Qt!modeVars
  BY DEF Qt!Next, QtVars, qtVars, Qt!modeVars, Qt!TakeFrame, Qt!SpuriousWake, Qt!ConverterStep,
         Qt!Loop, Qt!Lock, Qt!TakePending, Qt!Sleep, Qt!Convert, Qt!StoreCommand,
         Qt!ObserverStep, Qt!NotifyFrame, Qt!CountCommand, Qt!updateCamera, Qt!onPlotTick,
         Qt!closeEvent, Qt!ExitStep, Qt!LowerConverter, Qt!RaiseFrame, Qt!NotifyConverter,
         Qt!JoinConverter, Qt!StopSystem, Qt!JoinSystem
<1> QED BY <1>1, <1>2, <1>3, <1>4

LEMMA ExitKept ==
    ASSUME ExitInv, [Qt!Next]_QtVars
    PROVE  ExitInv'
<1> USE DEF ExitInv, Qt!UiGo, Qt!ConvGo, Qt!modeVars, Qt!frameVars, Qt!convVars,
            Qt!commandVars, Qt!plotVars
<1>1. CASE Qt!Click
  BY <1>1 DEF Qt!Click, Qt!ClickAuto, Qt!ClickManual, Qt!ClickUsePot, Qt!ClickUseGui,
              Qt!sendManual, Qt!Choose
<1>2. CASE Qt!DispatchStep
  BY <1>2 DEF Qt!DispatchStep, Qt!DispatchCheck, Qt!DispatchOwn
<1>3. CASE Qt!TakeFrame    BY <1>3 DEF Qt!TakeFrame, Qt!MutexFree
<1>4. CASE Qt!SpuriousWake BY <1>4 DEF Qt!SpuriousWake
<1>5. CASE Qt!ConverterStep
  BY <1>5 DEF Qt!ConverterStep, Qt!Loop, Qt!Lock, Qt!TakePending, Qt!Sleep, Qt!Convert
<1>6. CASE Qt!StoreCommand BY <1>6 DEF Qt!StoreCommand
<1>7. CASE Qt!ObserverStep
  BY <1>7 DEF Qt!ObserverStep, Qt!NotifyFrame, Qt!CountCommand
<1>8. CASE Qt!updateCamera BY <1>8 DEF Qt!updateCamera
<1>9. CASE Qt!onPlotTick   BY <1>9 DEF Qt!onPlotTick
<1>10. CASE Qt!closeEvent  BY <1>10 DEF Qt!closeEvent
<1>11. CASE Qt!ExitStep
  <2>1. CASE Qt!LowerConverter  BY <2>1 DEF Qt!LowerConverter
  <2>2. CASE Qt!RaiseFrame      BY <2>2 DEF Qt!RaiseFrame, Qt!MutexFree
  <2>3. CASE Qt!NotifyConverter BY <2>3 DEF Qt!NotifyConverter
  <2>4. CASE Qt!JoinConverter   BY <2>4 DEF Qt!JoinConverter
  <2>5. CASE Qt!StopSystem      BY <2>5 DEF Qt!StopSystem
  <2>6. CASE Qt!JoinSystem      BY <2>6 DEF Qt!JoinSystem
  <2> QED BY <1>11, <2>1, <2>2, <2>3, <2>4, <2>5, <2>6 DEF Qt!ExitStep
<1>12. CASE UNCHANGED QtVars BY <1>12 DEF QtVars, qtVars
<1> QED
  BY <1>1, <1>2, <1>3, <1>4, <1>5, <1>6, <1>7, <1>8, <1>9, <1>10, <1>11, <1>12 DEF Qt!Next

\* An image is replaced by a newer and whole one only.
Newer == latestImg_'.bytes = latestImg_'.geometry /\ latestImg_'.bytes > latestImg_.bytes

LEMMA PreviewKept ==
    ASSUME PreviewInv, [Qt!Next]_QtVars
    PROVE  PreviewInv' /\ (latestImg_' # latestImg_ => Newer)
<1> USE DEF PreviewInv, Newer, Qt!ConvGo, Qt!frameVars, Qt!convVars
<1>1. CASE Qt!TakeFrame   BY <1>1 DEF Qt!TakeFrame
<1>2. CASE Qt!TakePending BY <1>2 DEF Qt!TakePending
<1>3. CASE Qt!Convert     BY <1>3 DEF Qt!Convert
<1>4. CASE /\ UNCHANGED <<frame, pending, buf, latestImg_>>
           /\ conv' = "convert" => conv = "convert"
  BY <1>4
<1>5. \/ Qt!TakeFrame \/ Qt!TakePending \/ Qt!Convert
      \/ /\ UNCHANGED <<frame, pending, buf, latestImg_>>
         /\ conv' = "convert" => conv = "convert"
  BY DEF Qt!Next, QtVars, qtVars, Qt!Click, Qt!ClickAuto, Qt!ClickManual, Qt!ClickUsePot,
         Qt!ClickUseGui, Qt!Choose, Qt!sendManual, Qt!DispatchStep, Qt!DispatchCheck,
         Qt!DispatchOwn, Qt!SpuriousWake, Qt!ConverterStep, Qt!Loop, Qt!Lock, Qt!Sleep,
         Qt!StoreCommand, Qt!ObserverStep, Qt!NotifyFrame, Qt!CountCommand,
         Qt!updateCamera, Qt!onPlotTick, Qt!closeEvent, Qt!ExitStep, Qt!LowerConverter,
         Qt!RaiseFrame, Qt!NotifyConverter, Qt!JoinConverter, Qt!StopSystem, Qt!JoinSystem
<1> QED BY <1>1, <1>2, <1>3, <1>4, <1>5

-----------------------------------------------------------------------------
(* The composition.                                                        *)

LEMMA FrontEndsInit == FrontEndAssumption /\ Init => FrontEndsInv
<1> SUFFICES ASSUME FrontEndAssumption, Init PROVE FrontEndsInv
  OBVIOUS
<1>1. front = "cli" => CliInv
  BY DEF Init, CliInv, Cli!SetupPoints, Cli!LoopPoints, Cli!Ended
<1>5. CallsInv
  <2>1. /\ calls = <<>> /\ calls \in Seq(CallKinds) /\ Len(calls) = 0
        /\ pending_ = <<>> /\ pending_ \in Seq(Nat) /\ Len(pending_) = 0
    BY EmptySeq DEF Init
  <2>2. Buffered(0)
    BY <2>1 DEF Buffered, Init
  <2>3. Cli!Follows(0)
    <3> DEFINE none == [i \in 1..0 |-> 0]
    <3>1. none \in [1..Len(calls) -> {k \in 1..0 : Cli!IsCall(script[k])}]
      BY <2>1
    <3> HIDE DEF none
    <3>2. \A i \in 1..Len(calls) : FALSE
      BY <2>1
    <3>3. \A k \in 1..0 : FALSE
      OBVIOUS
    <3> QED BY <3>1, <3>2, <3>3 DEF Cli!Follows
  <2> QED BY <2>1, <2>2, <2>3 DEF CallsInv, Init, FrontEndAssumption
<1>2. OwnerInv
  BY DEF Init, OwnerInv, Qt!LabelsTrue
<1>3. front = "qt" => ExitInv
  BY DEF Init, ExitInv
<1>4. PreviewInv
  BY DEF Init, PreviewInv, Qt!None
<1> QED BY <1>1, <1>2, <1>3, <1>4, <1>5 DEF Init, FrontEndAssumption, FrontEndsInv

LEMMA FrontEndsStep ==
    FrontEndsInv /\ [Next]_vars => FrontEndsInv' /\ (latestImg_' # latestImg_ => Newer)
<1> SUFFICES ASSUME FrontEndsInv, [Next]_vars
             PROVE  FrontEndsInv' /\ (latestImg_' # latestImg_ => Newer)
  OBVIOUS
<1> USE DEF FrontEndsInv
<1>1. front' = front
  BY DEF Next, vars
<1>2. CASE front = "cli"
  <2>1. [Cli!Next]_CliVars /\ UNCHANGED qtVars
    BY <1>2 DEF Next, vars, CliVars
  <2>2. PreviewInv' /\ latestImg_' = latestImg_
    BY <2>1 DEF PreviewInv, qtVars
  <2> QED BY <1>1, <1>2, <2>1, <2>2, CliKept, CallsKept
<1>3. CASE front = "qt"
  <2>1. [Qt!Next]_QtVars
    BY <1>3 DEF Next, vars, QtVars
  <2> QED BY <1>1, <1>3, <2>1, OwnerKept, ExitKept, PreviewKept
<1> QED BY <1>2, <1>3

LEMMA FrontEndsInvariant == Spec => []FrontEndsInv
  BY FrontEndsInit, FrontEndsStep, FrontEndAssumption, PTL DEF Spec

\* Whichever way run() returns or the window closes, no descriptor is open, no
\* thread may call into what is destroyed, and the system is stopped.
THEOREM FrontEndsLeaveNothing == Spec => []NothingLeft
<1>1. FrontEndsInv => NothingLeft
  BY DEF FrontEndsInv, CliInv, ExitInv, NothingLeft, Cli!NothingLeft, Qt!NothingLeft
<1> QED BY <1>1, FrontEndsInvariant, PTL

\* SystemManager is asked for what the lines say, in their order, whole and once,
\* and for nothing after a quit, wherever the reads end.
THEOREM CallsAreTheScript == Spec => []CallsFollowScript
<1>1. FrontEndsInv => CallsFollowScript
  BY DEF FrontEndsInv, CallsInv, CallsFollowScript, Cli!CallsFollowScript
<1> QED BY <1>1, FrontEndsInvariant, PTL

\* The converter has heard that it is to end before the window waits for it: what
\* the closing of the window rests on beyond the scheduling of the threads.
THEOREM ConverterHearsExit == Spec => []ExitIsHeard
<1>1. FrontEndsInv => ExitIsHeard
  BY DEF FrontEndsInv, ExitInv, ExitIsHeard
<1> QED BY <1>1, FrontEndsInvariant, PTL

\* The window names the source in charge, whoever clicks when, until the dispatcher
\* overtakes it.
THEOREM LabelsAreTrue == Spec => []LabelsTrue
<1>1. FrontEndsInv => LabelsTrue
  BY DEF FrontEndsInv, OwnerInv, LabelsTrue
<1> QED BY <1>1, FrontEndsInvariant, PTL

\* No image is torn, repeated or shown after a newer one was converted.
THEOREM PreviewIsOrdered == Spec => PreviewAdvances
<1>1. FrontEndsInv /\ [Next]_vars => [Newer]_latestImg_
  BY FrontEndsStep
<1> QED
  BY <1>1, FrontEndsInvariant, PTL DEF Spec, PreviewAdvances, Qt!PreviewAdvances, Newer

=============================================================================
