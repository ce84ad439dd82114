------------------------ MODULE ThreadSafeQueueProofs ------------------------
(***************************************************************************)
(* Proofs about ThreadSafeQueue, for any sets of threads, any capacity and *)
(* any number of items.                                                    *)
(***************************************************************************)
EXTENDS ThreadSafeQueue, SequenceTheorems, TLAPS

\* q is in the order of acceptance and lies strictly above lo, up to hi.
Between(q, lo, hi) ==
    /\ \A i \in 1..Len(q) : lo < q[i] /\ q[i] <= hi
    /\ \A i, j \in 1..Len(q) : i < j => q[i] < q[j]

\* The owner's phase tells whether the queue is stopped and who still runs.
Phases ==
    /\ owner \in {"run", "quit"} => ~stopped
    /\ owner \in {"notify", "join"} => stopped
    /\ owner = "run" => \A c \in Consumers : con[c] # "done"
    /\ owner \in {"off", "cleared"} => \A c \in Consumers : con[c] = "done"

IInv ==
    /\ TypeOK
    /\ Phases
    /\ Bounded
    /\ InOrder
    /\ LatestKept
    /\ NoLostWakeup
    /\ StopReachesSleepers

-----------------------------------------------------------------------------
(* What push and pop do to an ordered, bounded queue.                      *)

\* What push() and push_latest() do to the numbers in the queue.
LEMMA AppendBetween ==
    ASSUME NEW q \in Seq(Nat), NEW lo \in Nat, NEW hi \in Nat,
           lo <= hi, Between(q, lo, hi)
    PROVE  /\ Append(q, hi + 1) \in Seq(Nat)
           /\ Len(Append(q, hi + 1)) = Len(q) + 1
           /\ Between(Append(q, hi + 1), lo, hi + 1)
           /\ Append(q, hi + 1)[Len(Append(q, hi + 1))] = hi + 1
<1> DEFINE r == Append(q, hi + 1)
<1>1. /\ r \in Seq(Nat) /\ Len(r) = Len(q) + 1 /\ Len(q) \in Nat
      /\ r[Len(q) + 1] = hi + 1
      /\ \A i \in 1..Len(q) : r[i] = q[i]
  OBVIOUS
<1>2. \A i \in 1..Len(q) : q[i] \in Nat /\ lo < q[i] /\ q[i] <= hi
  BY DEF Between
<1>3. \A i, j \in 1..Len(q) : i < j => q[i] < q[j]
  BY DEF Between
<1> HIDE DEF r
<1>4. ASSUME NEW i \in 1..Len(r)
      PROVE  r[i] \in Nat /\ lo < r[i] /\ r[i] <= hi + 1
  <2>1. CASE i = Len(q) + 1
    BY <1>1, <2>1
  <2>2. CASE i # Len(q) + 1
    <3>1. i \in 1..Len(q) BY <1>1, <2>2
    <3>2. QED BY <1>1, <1>2, <3>1
  <2>3. QED BY <2>1, <2>2
<1>5. ASSUME NEW i \in 1..Len(r), NEW j \in 1..Len(r), i < j
      PROVE  r[i] < r[j]
  <2>0. i \in 1..Len(q)
    BY <1>1, <1>5
  <2>1. CASE j = Len(q) + 1
    BY <1>1, <1>2, <2>0, <2>1
  <2>2. CASE j # Len(q) + 1
    <3>1. j \in 1..Len(q) BY <1>1, <2>2
    <3>2. QED BY <1>1, <1>3, <1>5, <2>0, <3>1
  <2>3. QED BY <2>1, <2>2
<1>6. Between(r, lo, hi + 1)
  BY <1>4, <1>5 DEF Between
<1>7. QED BY <1>1, <1>6 DEF r

\* What dropping or taking the oldest item does to them.
LEMMA TailBetween ==
    ASSUME NEW q \in Seq(Nat), NEW lo \in Nat, NEW hi \in Nat,
           q # <<>>, Between(q, lo, hi)
    PROVE  /\ Tail(q) \in Seq(Nat)
           /\ Len(Tail(q)) = Len(q) - 1
           /\ Head(q) \in Nat /\ Head(q) > lo /\ Head(q) <= hi
           /\ Between(Tail(q), Head(q), hi)
           /\ Between(Tail(q), lo, hi)
           /\ Tail(q) # <<>> => Tail(q)[Len(Tail(q))] = q[Len(q)]
           /\ Tail(q) = <<>> => Head(q) = q[Len(q)]
<1> DEFINE r == Tail(q)
           h == Head(q)
<1>1. /\ r \in Seq(Nat) /\ Len(r) = Len(q) - 1 /\ Len(q) \in Nat /\ Len(q) >= 1
      /\ h = q[1] /\ h \in Nat
      /\ \A i \in 1..Len(r) : r[i] = q[i + 1]
  OBVIOUS
<1>2. \A i \in 1..Len(q) : q[i] \in Nat /\ lo < q[i] /\ q[i] <= hi
  BY DEF Between
<1>3. \A i, j \in 1..Len(q) : i < j => q[i] < q[j]
  BY DEF Between
<1>4. r = <<>> => Len(q) = 1
  <2>1. Len(<<>>) = 0 BY EmptySeq
  <2> HIDE DEF r
  <2>2. QED BY <1>1, <2>1
<1>5. r # <<>> => Len(r) >= 1
  BY <1>1
<1> HIDE DEF r, h
<1>6. h > lo /\ h <= hi
  BY <1>1, <1>2
<1>7. ASSUME NEW i \in 1..Len(r) PROVE h < r[i] /\ r[i] <= hi
  <2>1. i + 1 \in 1..Len(q) /\ 1 \in 1..Len(q) /\ 1 < i + 1
    BY <1>1
  <2>2. r[i] = q[i + 1]
    BY <1>1
  <2>3. QED BY <1>1, <1>2, <1>3, <2>1, <2>2
<1>8. ASSUME NEW i \in 1..Len(r), NEW j \in 1..Len(r), i < j
      PROVE  r[i] < r[j]
  <2>1. i + 1 \in 1..Len(q) /\ j + 1 \in 1..Len(q) /\ i + 1 < j + 1
    BY <1>1, <1>8
  <2>2. r[i] = q[i + 1] /\ r[j] = q[j + 1]
    BY <1>1
  <2>3. QED BY <1>3, <2>1, <2>2
<1>9. Between(r, h, hi) /\ Between(r, lo, hi)
  <2>1. \A i \in 1..Len(r) : r[i] \in Nat
    <3> SUFFICES ASSUME NEW i \in 1..Len(r) PROVE r[i] \in Nat
      OBVIOUS
    <3>1. i + 1 \in 1..Len(q) BY <1>1
    <3>2. QED BY <1>1, <1>2, <3>1
  <2>2. QED BY <1>1, <1>6, <1>7, <1>8, <2>1 DEF Between
<1>10. /\ r # <<>> => r[Len(r)] = q[Len(q)]
       /\ r = <<>> => h = q[Len(q)]
  BY <1>1, <1>4, <1>5
<1>11. QED BY <1>1, <1>6, <1>9, <1>10 DEF r, h

\* push_latest keeps the order and the bound, and the new item comes last.
LEMMA KeepLatestBetween ==
    ASSUME NEW q \in Seq(Nat), NEW lo \in Nat, NEW hi \in Nat,
           NEW capacity \in Nat, lo <= hi,
           capacity > 0 => Len(q) <= capacity,
           Between(q, lo, hi),
           NEW r, r = KeepLatest(q, capacity, hi + 1)
    PROVE  /\ r \in Seq(Nat)
           /\ capacity > 0 => Len(r) <= capacity
           /\ Between(r, lo, hi + 1)
           /\ r # <<>>
           /\ r[Len(r)] = hi + 1
<1> DEFINE base == IF HasRoom(q, capacity) THEN q ELSE Tail(q)
<1>1. base \in Seq(Nat) /\ Between(base, lo, hi)
      /\ (capacity > 0 => Len(base) < capacity)
  <2>1. CASE HasRoom(q, capacity)
    BY <2>1 DEF HasRoom
  <2>2. CASE ~HasRoom(q, capacity)
    <3>1. q # <<>> /\ Len(q) = capacity
      BY <2>2 DEF HasRoom
    <3>2. Tail(q) \in Seq(Nat) /\ Len(Tail(q)) = Len(q) - 1 /\ Between(Tail(q), lo, hi)
      BY <3>1, TailBetween
    <3>3. QED BY <2>2, <3>1, <3>2
  <2>3. QED BY <2>1, <2>2
<1>2. r = Append(base, hi + 1)
  BY DEF KeepLatest
<1> HIDE DEF base
<1>3. /\ Append(base, hi + 1) \in Seq(Nat)
      /\ Len(Append(base, hi + 1)) = Len(base) + 1
      /\ Between(Append(base, hi + 1), lo, hi + 1)
      /\ Append(base, hi + 1)[Len(Append(base, hi + 1))] = hi + 1
  BY <1>1, AppendBetween
<1>4. Len(base) \in Nat
  BY <1>1
<1>5. Len(r) = Len(base) + 1 /\ r # <<>>
  BY <1>2, <1>3, <1>4
<1>6. Len(r) \in Nat /\ (capacity > 0 => Len(r) <= capacity)
  BY <1>1, <1>4, <1>5
<1>7. QED BY <1>2, <1>3, <1>5, <1>6

-----------------------------------------------------------------------------
\* An empty queue satisfies the invariant.
LEMMA InitInv == Init => IInv
<1> SUFFICES ASSUME Init PROVE IInv
  OBVIOUS
<1>0. queue \in Seq(Nat) /\ Len(queue) = 0
  BY EmptySeq DEF Init
<1>1. TypeOK
  BY <1>0 DEF Init, TypeOK, ConsumerPoints, OwnerPoints
<1>2. Phases /\ NoLostWakeup /\ StopReachesSleepers
  BY DEF Init, Phases, NoLostWakeup, StopReachesSleepers
<1>3. Bounded /\ InOrder /\ LatestKept
  BY <1>0, QueueAssumption DEF Init, Bounded, InOrder, LatestKept
<1>4. QED BY <1>1, <1>2, <1>3 DEF IInv

\* An accepted item: q is the queue after a push that kept order and bound.
LEMMA AcceptInv ==
    ASSUME IInv, NEW p \in Producers, NEW q \in Seq(Nat), Accept(p, q),
           Capacity > 0 => Len(q) <= Capacity,
           Between(q, taken, accepted + 1),
           q # <<>>, q[Len(q)] = accepted + 1
    PROVE  IInv'
<1> USE DEF IInv, Accept
<1>1. TypeOK'
  BY DEF TypeOK
<1>2. Phases' /\ StopReachesSleepers'
  BY DEF Phases, StopReachesSleepers, Asleep
<1>3. Bounded' /\ InOrder' /\ LatestKept'
  BY DEF Bounded, InOrder, LatestKept, Between, TypeOK
<1>4. NoLostWakeup'
  BY DEF NoLostWakeup
<1>5. QED BY <1>1, <1>2, <1>3, <1>4

\* push(), push_latest() and their notification keep the invariant.
LEMMA ProducerInv ==
    ASSUME IInv, NEW p \in Producers, ProducerStep(p) PROVE IInv'
<1>0. /\ queue \in Seq(Nat) /\ accepted \in Nat /\ taken \in Nat /\ taken <= accepted
      /\ Between(queue, taken, accepted)
      /\ Capacity \in Nat
      /\ Capacity > 0 => Len(queue) <= Capacity
  BY QueueAssumption DEF IInv, TypeOK, InOrder, Bounded, Between
<1>1. CASE Push(p)
  <2>1. /\ Append(queue, accepted + 1) \in Seq(Nat)
        /\ Len(Append(queue, accepted + 1)) = Len(queue) + 1
        /\ Between(Append(queue, accepted + 1), taken, accepted + 1)
        /\ Append(queue, accepted + 1)[Len(Append(queue, accepted + 1))] = accepted + 1
    BY <1>0, AppendBetween
  <2>2. Capacity > 0 => Len(Append(queue, accepted + 1)) <= Capacity
    BY <1>0, <1>1, <2>1 DEF Push, HasRoom
  <2>3. Accept(p, Append(queue, accepted + 1)) /\ Append(queue, accepted + 1) # <<>>
    BY <1>0, <1>1, AppendProperties DEF Push
  <2>4. QED BY <2>1, <2>2, <2>3, AcceptInv
<1>2. CASE PushLatest(p)
  BY <1>0, <1>2, KeepLatestBetween, AcceptInv DEF PushLatest
<1>3. CASE NotifyOne(p)
  <2>1. TypeOK' /\ Phases'
    BY <1>3 DEF IInv, NotifyOne, TypeOK, Phases, Asleep, ConsumerPoints
  <2>2. Bounded' /\ InOrder' /\ LatestKept'
    BY <1>3 DEF IInv, NotifyOne, Bounded, InOrder, LatestKept
  <2>3. Asleep' # Consumers /\ Asleep' \subseteq Asleep
    BY <1>3, QueueAssumption DEF IInv, NotifyOne, TypeOK, Asleep
  <2>4. QED
    BY <1>3, <2>1, <2>2, <2>3 DEF IInv, NotifyOne, NoLostWakeup, StopReachesSleepers
<1>4. QED BY <1>1, <1>2, <1>3 DEF ProducerStep

\* Every step of wait_pop() and of the loop around it keeps the invariant.
LEMMA ConsumerInv ==
    ASSUME IInv, NEW c \in Consumers, ConsumerStep(c) PROVE IInv'
<1>1. CASE WaitSleep(c)
  <2>1. TypeOK' /\ Phases'
    BY <1>1 DEF IInv, WaitSleep, Waiting, TypeOK, Phases, ConsumerPoints
  <2>2. Bounded' /\ InOrder' /\ LatestKept'
    BY <1>1 DEF IInv, WaitSleep, Bounded, InOrder, LatestKept
  <2>3. QED
    BY <1>1, <2>1, <2>2 DEF IInv, WaitSleep, Ready, NoLostWakeup, StopReachesSleepers
<1>2. CASE WaitPop(c)
  <2>0. /\ queue \in Seq(Nat) /\ accepted \in Nat /\ taken \in Nat
        /\ Between(queue, taken, accepted) /\ queue # <<>>
    BY <1>2 DEF IInv, TypeOK, InOrder, Between, WaitPop
  <2>1. /\ Tail(queue) \in Seq(Nat)
        /\ Len(Tail(queue)) = Len(queue) - 1
        /\ Head(queue) \in Nat /\ Head(queue) <= accepted
        /\ Between(Tail(queue), Head(queue), accepted)
        /\ Tail(queue) # <<>> => Tail(queue)[Len(Tail(queue))] = queue[Len(queue)]
        /\ Tail(queue) = <<>> => Head(queue) = queue[Len(queue)]
    BY <2>0, TailBetween
  <2>2. TypeOK' /\ Phases'
    BY <1>2, <2>1 DEF IInv, WaitPop, Waiting, TypeOK, Phases, ConsumerPoints
  <2>3. InOrder'
    BY <1>2, <2>0, <2>1 DEF WaitPop, InOrder, Between
  <2>4. Bounded'
    BY <1>2, <2>0, <2>1, QueueAssumption DEF IInv, WaitPop, Bounded
  <2>5. LatestKept'
    BY <1>2, <2>0, <2>1 DEF IInv, WaitPop, LatestKept, InOrder
  <2>6. Asleep' \subseteq Asleep /\ Asleep' # Consumers
    BY <1>2 DEF IInv, TypeOK, WaitPop, Asleep
  <2>7. QED
    BY <1>2, <2>2, <2>3, <2>4, <2>5, <2>6
       DEF IInv, WaitPop, NoLostWakeup, StopReachesSleepers
<1>3. CASE WaitNone(c)
  <2>1. TypeOK' /\ Phases'
    BY <1>3 DEF IInv, WaitNone, Waiting, Ready, TypeOK, Phases, ConsumerPoints
  <2>2. Bounded' /\ InOrder' /\ LatestKept'
    BY <1>3 DEF IInv, WaitNone, Bounded, InOrder, LatestKept
  <2>3. Asleep' \subseteq Asleep
    BY <1>3 DEF IInv, TypeOK, WaitNone, Asleep
  <2>4. QED
    BY <1>3, <2>1, <2>2, <2>3 DEF IInv, WaitNone, NoLostWakeup, StopReachesSleepers
<1>4. CASE SpuriousWake(c)
  <2>1. TypeOK' /\ Phases'
    BY <1>4 DEF IInv, SpuriousWake, TypeOK, Phases, ConsumerPoints
  <2>2. Bounded' /\ InOrder' /\ LatestKept'
    BY <1>4 DEF IInv, SpuriousWake, Bounded, InOrder, LatestKept
  <2>3. Asleep' \subseteq Asleep /\ Asleep' # Consumers
    BY <1>4 DEF IInv, TypeOK, SpuriousWake, Asleep
  <2>4. QED
    BY <1>4, <2>1, <2>2, <2>3 DEF IInv, SpuriousWake, NoLostWakeup, StopReachesSleepers
<1>5. CASE Handle(c)
  <2>1. TypeOK' /\ Phases'
    BY <1>5 DEF IInv, Handle, TypeOK, Phases, ConsumerPoints
  <2>2. Bounded' /\ InOrder' /\ LatestKept'
    BY <1>5 DEF IInv, Handle, Bounded, InOrder, LatestKept
  <2>3. Asleep' \subseteq Asleep /\ Asleep' # Consumers
    BY <1>5 DEF IInv, TypeOK, Handle, Asleep
  <2>4. QED
    BY <1>5, <2>1, <2>2, <2>3 DEF IInv, Handle, NoLostWakeup, StopReachesSleepers
<1>6. QED BY <1>1, <1>2, <1>3, <1>4, <1>5 DEF ConsumerStep

\* stop(), the join, try_pop(), clear() and reset() keep the invariant.
LEMMA OwnerInv == ASSUME IInv, OwnerStep PROVE IInv'
<1> USE DEF IInv, OwnerGo
<1>1. CASE Quit
  BY <1>1 DEF Quit, TypeOK, OwnerPoints, Phases, Bounded, InOrder, LatestKept,
              NoLostWakeup, StopReachesSleepers, Asleep
<1>2. CASE Stop
  BY <1>2 DEF Stop, TypeOK, OwnerPoints, Phases, Bounded, InOrder, LatestKept,
              NoLostWakeup, StopReachesSleepers, Asleep
<1>3. CASE NotifyAll
  BY <1>3 DEF NotifyAll, TypeOK, OwnerPoints, ConsumerPoints, Phases, Bounded,
              InOrder, LatestKept, NoLostWakeup, StopReachesSleepers, Asleep
<1>4. CASE Join
  BY <1>4 DEF Join, TypeOK, OwnerPoints, Phases, Bounded, InOrder, LatestKept,
              NoLostWakeup, StopReachesSleepers, Asleep
<1>5. CASE TryPop
  <2>0. /\ queue \in Seq(Nat) /\ accepted \in Nat /\ taken \in Nat
        /\ Between(queue, taken, accepted) /\ queue # <<>>
    BY <1>5 DEF TypeOK, InOrder, Between, TryPop
  <2>1. /\ Tail(queue) \in Seq(Nat)
        /\ Len(Tail(queue)) = Len(queue) - 1
        /\ Head(queue) \in Nat /\ Head(queue) <= accepted
        /\ Between(Tail(queue), Head(queue), accepted)
        /\ Tail(queue) # <<>> => Tail(queue)[Len(Tail(queue))] = queue[Len(queue)]
        /\ Tail(queue) = <<>> => Head(queue) = queue[Len(queue)]
    BY <2>0, TailBetween
  <2>2. TypeOK' /\ Phases'
    BY <1>5, <2>1 DEF TryPop, TypeOK, Phases
  <2>3. InOrder'
    BY <1>5, <2>0, <2>1 DEF TryPop, InOrder, Between
  <2>4. Bounded'
    BY <1>5, <2>0, <2>1, QueueAssumption DEF TryPop, Bounded
  <2>5. LatestKept'
    BY <1>5, <2>0, <2>1 DEF TryPop, LatestKept, InOrder
  <2>6. NoLostWakeup' /\ StopReachesSleepers'
    BY <1>5 DEF TryPop, NoLostWakeup, StopReachesSleepers, Asleep
  <2>7. QED BY <2>2, <2>3, <2>4, <2>5, <2>6
<1>6. CASE Clear
  BY <1>6, EmptySeq, QueueAssumption
     DEF Clear, TypeOK, OwnerPoints, Phases, Bounded, InOrder, LatestKept,
              NoLostWakeup, StopReachesSleepers, Asleep
<1>7. CASE ResetAndSpawn
  BY <1>7, QueueAssumption
     DEF ResetAndSpawn, TypeOK, OwnerPoints, ConsumerPoints, Phases, Bounded,
         InOrder, LatestKept, NoLostWakeup, StopReachesSleepers, Asleep
<1>8. QED BY <1>1, <1>2, <1>3, <1>4, <1>5, <1>6, <1>7 DEF OwnerStep

\* A step of nobody keeps the invariant.
LEMMA StutterInv == ASSUME IInv, UNCHANGED vars PROVE IInv'
  BY DEF vars, IInv, TypeOK, Phases, Bounded, InOrder, LatestKept, NoLostWakeup,
         StopReachesSleepers, Asleep

\* The inductive invariant.
LEMMA Invariance == Spec => []IInv
<1>1. ASSUME IInv, [Next]_vars PROVE IInv'
  BY <1>1, ProducerInv, ConsumerInv, OwnerInv, StutterInv DEF Next
<1>2. QED BY InitInv, <1>1, PTL DEF Spec

-----------------------------------------------------------------------------
\* Every variable keeps its type.
THEOREM TypeCorrect == Spec => []TypeOK
<1>1. IInv => TypeOK BY DEF IInv
<1>2. QED BY Invariance, <1>1, PTL

\* ThreadSafeQueue never holds more items than its capacity_.
THEOREM QueueIsBounded == Spec => []Bounded
<1>1. IInv => Bounded BY DEF IInv
<1>2. QED BY Invariance, <1>1, PTL

\* wait_pop() and try_pop() deliver in the order of acceptance.
THEOREM DeliveryInOrder == Spec => []InOrder
<1>1. IInv => InOrder BY DEF IInv
<1>2. QED BY Invariance, <1>1, PTL

\* push_latest() never loses the newest item.
THEOREM FreshestDataKept == Spec => []LatestKept
<1>1. IInv => LatestKept BY DEF IInv
<1>2. QED BY Invariance, <1>1, PTL

\* No notification of push() or push_latest() is lost.
THEOREM WakeupsNotLost == Spec => []NoLostWakeup
<1>1. IInv => NoLostWakeup BY DEF IInv
<1>2. QED BY Invariance, <1>1, PTL

\* stop() leaves no consumer asleep.
THEOREM StopWakesSleepers == Spec => []StopReachesSleepers
<1>1. IInv => StopReachesSleepers BY DEF IInv
<1>2. QED BY Invariance, <1>1, PTL

-----------------------------------------------------------------------------
(* The refinement of AtomicQueue: a critical section is the operation it   *)
(* protects, and every other step of a thread is none.                     *)

\* A consumer that moves but does not end its loop changes nothing that counts.
LEMMA StaysActive ==
    ASSUME TypeOK, NEW c \in Consumers, con[c] # "done",
           NEW point \in ConsumerPoints \ {"done"}, con' = [con EXCEPT ![c] = point]
    PROVE  Active' = Active
  BY DEF TypeOK, Active

\* A consumer that ends its loop is missing from then on.
LEMMA EndsLoop ==
    ASSUME TypeOK, NEW c \in Consumers, con[c] # "done", con' = [con EXCEPT ![c] = "done"]
    PROVE  c \in Active /\ Active' = Active \ {c}
  BY DEF TypeOK, Active

LEMMA ProducersRefine ==
    ASSUME IInv, NEW p \in Producers, ProducerStep(p)
    PROVE  [Atomic!Next]_(Atomic!vars)
<1>1. CASE Push(p)
  <2>1. Atomic!Put
    BY <1>1
    DEF Push, Accept, HasRoom, Atomic!Put, Atomic!Accept, Atomic!HasRoom, Active
  <2> QED BY <2>1 DEF Atomic!Next
<1>2. CASE PushLatest(p)
  <2>1. Atomic!PutLatest
    BY <1>2
    DEF PushLatest, Accept, HasRoom, KeepLatest, Atomic!PutLatest, Atomic!Accept,
        Atomic!HasRoom, Atomic!KeepLatest, Active
  <2> QED BY <2>1 DEF Atomic!Next
<1>3. CASE NotifyOne(p)
  <2>1. Active' = Active
    <3>1. CASE con' = con
      BY <3>1 DEF Active
    <3>2. ASSUME NEW c \in Asleep, con' = [con EXCEPT ![c] = "woken"] PROVE Active' = Active
      BY <3>2, StaysActive DEF IInv, Asleep, ConsumerPoints
    <3> QED BY <1>3, <3>1, <3>2 DEF NotifyOne
  <2> QED BY <1>3, <2>1 DEF NotifyOne, Atomic!vars
<1> QED BY <1>1, <1>2, <1>3 DEF ProducerStep

LEMMA ConsumersRefine ==
    ASSUME IInv, NEW c \in Consumers, ConsumerStep(c)
    PROVE  [Atomic!Next]_(Atomic!vars)
<1> USE DEF ConsumerPoints
<1>1. TypeOK
  BY DEF IInv
<1>2. CASE WaitSleep(c)
  BY <1>1, <1>2, StaysActive DEF WaitSleep, Waiting, Atomic!vars
<1>3. CASE WaitPop(c)
  <2>1. Active' = Active /\ c \in Active
    BY <1>1, <1>3, StaysActive DEF WaitPop, Waiting, Active
  <2>2. Atomic!Take
    BY <1>3, <2>1 DEF WaitPop, Atomic!Take
  <2> QED BY <2>2 DEF Atomic!Next
<1>4. CASE WaitNone(c)
  <2>1. Atomic!Finish(c)
    BY <1>1, <1>4, EndsLoop DEF WaitNone, Waiting, Atomic!Finish
  <2> QED BY <2>1 DEF Atomic!Next
<1>5. CASE SpuriousWake(c)
  BY <1>1, <1>5, StaysActive DEF SpuriousWake, Atomic!vars
<1>6. CASE Handle(c)
  <2>1. CASE owner = "run"
    BY <1>1, <1>6, <2>1, StaysActive DEF Handle, Atomic!vars
  <2>2. CASE owner # "run"
    <3>1. Atomic!Finish(c)
      BY <1>1, <1>6, <2>2, EndsLoop DEF Handle, Atomic!Finish
    <3> QED BY <3>1 DEF Atomic!Next
  <2> QED BY <2>1, <2>2
<1> QED BY <1>2, <1>3, <1>4, <1>5, <1>6 DEF ConsumerStep

\* The owner finds no consumer left when it empties or restarts the queue.
LEMMA OwnerRefines ==
    ASSUME IInv, OwnerStep
    PROVE  [Atomic!Next]_(Atomic!vars)
<1> USE DEF OwnerGo
<1>0. owner \in {"off", "cleared"} => Active = {}
  BY DEF IInv, Phases, Active
<1>1. CASE Quit \/ Join
  BY <1>1 DEF Quit, Join, Active, Atomic!vars
<1>2. CASE Stop
  BY <1>2 DEF Stop, Active, Atomic!Stop, Atomic!Next
<1>3. CASE NotifyAll
  <2>1. Active' = Active
    BY <1>3 DEF NotifyAll, Active
  <2> QED BY <1>3, <2>1 DEF NotifyAll, Atomic!vars
<1>4. CASE TryPop
  <2>1. Atomic!Discard
    BY <1>0, <1>4 DEF TryPop, Active, Atomic!Discard
  <2> QED BY <2>1 DEF Atomic!Next
<1>5. CASE Clear
  <2>1. Active' = Active
    BY <1>5 DEF Clear, Active
  <2>2. CASE queue = <<>>
    <3>1. taken = accepted
      BY <2>2 DEF IInv, LatestKept
    <3> QED BY <1>5, <2>1, <2>2, <3>1 DEF Clear, Atomic!vars
  <2>3. CASE queue # <<>>
    <3>1. Len(queue) \in 1..Len(queue) /\ queue[Len(queue)] \in Nat
      BY <2>3 DEF IInv, TypeOK
    <3>2. queue[Len(queue)] = accepted
      BY <3>1 DEF IInv, TypeOK, InOrder, LatestKept
    <3>3. Atomic!Discard
      BY <1>0, <1>5, <2>1, <2>3, <3>2 DEF Clear, Atomic!Discard
    <3> QED BY <3>3 DEF Atomic!Next
  <2> QED BY <2>2, <2>3
<1>6. CASE ResetAndSpawn
  <2>1. Active' = Consumers
    BY <1>6 DEF ResetAndSpawn, Active
  <2>2. Atomic!Restart
    BY <1>0, <1>6, <2>1 DEF ResetAndSpawn, Atomic!Restart
  <2> QED BY <2>2 DEF Atomic!Next
<1> QED BY <1>1, <1>2, <1>3, <1>4, <1>5, <1>6 DEF OwnerStep

\* The class, with its lock, its condition variable and their notifications, does
\* nothing that the indivisible queue could not do.
THEOREM QueueIsAtomic == Spec => Atomic!Safety
<1>1. Init => Atomic!Init
  BY DEF Init, Atomic!Init, Active
<1>2. IInv /\ [Next]_vars => [Atomic!Next]_(Atomic!vars)
  <2> SUFFICES ASSUME IInv, [Next]_vars PROVE [Atomic!Next]_(Atomic!vars)
    OBVIOUS
  <2>1. CASE UNCHANGED vars
    BY <2>1 DEF vars, Active, Atomic!vars
  <2> QED BY <2>1, ProducersRefine, ConsumersRefine, OwnerRefines DEF Next
<1> QED BY <1>1, <1>2, Invariance, PTL DEF Spec, Atomic!Safety

=============================================================================
