--------------------------- MODULE ThreadSafeQueue ---------------------------
(***************************************************************************)
(* src/common/ThreadSafeQueue.hpp at the level of its mutex and condition  *)
(* variable, driven the way SystemManager and GuiManualDispatcher drive    *)
(* it: producers push, consumers loop on wait_pop(), and one owner thread  *)
(* stops the queue, joins the consumers and later starts them again.       *)
(*                                                                         *)
(* A critical section guarded by mutex_ is one step.  What happens outside *)
(* the lock is a step of its own: the notification that follows a push or  *)
(* a stop, and the wake-up of a sleeping consumer.  Items are numbered in  *)
(* the order in which the queue accepts them.                              *)
(***************************************************************************)
EXTENDS LatestQueue

CONSTANTS Producers,      (* threads that push                              *)
          Consumers,      (* threads that loop on wait_pop()                *)
          Capacity,       (* capacity_; 0 = unbounded                       *)
          MaxItems        (* bound on the number of accepted items          *)

ASSUME QueueAssumption ==
    /\ Consumers # {}
    /\ Capacity \in Nat
    /\ MaxItems \in Nat

VARIABLES
    queue,       (* queue_                                                  *)
    stopped,     (* stopped_                                                *)
    notifying,   (* producers between unlock and cv_.notify_one()           *)
    con,         (* where each consumer is                                  *)
    owner,       (* where the owner thread is                               *)
    accepted,    (* number of the newest accepted item                      *)
    taken        (* number of the newest item taken out or discarded        *)

vars == <<queue, stopped, notifying, con, owner, accepted, taken>>

\* "loop": about to call wait_pop(); "asleep": blocked in cv_.wait();
\* "woken": leaving cv_.wait(), about to evaluate its predicate again;
\* "got": returned with an item; "done": left its loop (or not spawned).
ConsumerPoints == {"loop", "asleep", "woken", "got", "done"}

\* "off": no consumer runs; "cleared": clear() done, reset() to come;
\* "run": consumers spawned; "quit": running_ is false, stop() to come;
\* "notify": stopped_ set, cv_.notify_all() to come; "join": joining.
OwnerPoints == {"off", "cleared", "run", "quit", "notify", "join"}

Asleep == {c \in Consumers : con[c] = "asleep"}

TypeOK ==
    /\ queue \in Seq(Nat)
    /\ stopped \in BOOLEAN
    /\ notifying \subseteq Producers
    /\ con \in [Consumers -> ConsumerPoints]
    /\ owner \in OwnerPoints
    /\ accepted \in Nat
    /\ taken \in Nat

Init ==
    /\ queue = <<>>
    /\ stopped = FALSE
    /\ notifying = {}
    /\ con = [c \in Consumers |-> "done"]
    /\ owner = "off"
    /\ accepted = 0
    /\ taken = 0

-----------------------------------------------------------------------------
(* Producers.                                                              *)

\* The locked part of push() and push_latest(): a stopped queue rejects.
Accept(p, q) ==
    /\ owner \in {"run", "quit", "notify", "join"}
    /\ p \notin notifying
    /\ ~stopped
    /\ accepted < MaxItems
    /\ queue' = q
    /\ accepted' = accepted + 1
    /\ notifying' = notifying \cup {p}
    /\ UNCHANGED <<stopped, con, owner, taken>>

Push(p) ==
    /\ HasRoom(queue, Capacity)
    /\ Accept(p, Append(queue, accepted + 1))

PushLatest(p) == Accept(p, KeepLatest(queue, Capacity, accepted + 1))

\* Mutant of NotifyOne: the notification goes nowhere.
NotifyNobody(p) ==
    /\ p \in notifying
    /\ notifying' = notifying \ {p}
    /\ UNCHANGED <<queue, stopped, con, owner, accepted, taken>>

\* cv_.notify_one() after the lock is released; no sleeper, no effect.
NotifyOne(p) ==
    /\ p \in notifying
    /\ notifying' = notifying \ {p}
    /\ \/ Asleep = {} /\ con' = con
       \/ \E c \in Asleep : con' = [con EXCEPT ![c] = "woken"]
    /\ UNCHANGED <<queue, stopped, owner, accepted, taken>>

-----------------------------------------------------------------------------
(* Consumers.                                                              *)

Waiting(c) == con[c] \in {"loop", "woken"}

\* The predicate of cv_.wait() is false: unlock and sleep, indivisibly.
WaitSleep(c) ==
    /\ Waiting(c)
    /\ ~Ready(queue, stopped)
    /\ con' = [con EXCEPT ![c] = "asleep"]
    /\ UNCHANGED <<queue, stopped, notifying, owner, accepted, taken>>

\* Mutant of WaitPop: a stack instead of a queue.
WaitPopNewest(c) ==
    /\ Waiting(c)
    /\ Ready(queue, stopped) /\ queue # <<>>
    /\ taken' = queue[Len(queue)]
    /\ queue' = SubSeq(queue, 1, Len(queue) - 1)
    /\ con' = [con EXCEPT ![c] = "got"]
    /\ UNCHANGED <<stopped, notifying, owner, accepted>>

\* The predicate holds and there is an item: take the oldest.
WaitPop(c) ==
    /\ Waiting(c)
    /\ Ready(queue, stopped) /\ queue # <<>>
    /\ taken' = Head(queue)
    /\ queue' = Tail(queue)
    /\ con' = [con EXCEPT ![c] = "got"]
    /\ UNCHANGED <<stopped, notifying, owner, accepted>>

\* The predicate holds and there is none: nullopt, and the loop breaks.
WaitNone(c) ==
    /\ Waiting(c)
    /\ Ready(queue, stopped) /\ queue = <<>>
    /\ con' = [con EXCEPT ![c] = "done"]
    /\ UNCHANGED <<queue, stopped, notifying, owner, accepted, taken>>

\* cv_.wait() may return without a notification.
SpuriousWake(c) ==
    /\ con[c] = "asleep"
    /\ con' = [con EXCEPT ![c] = "woken"]
    /\ UNCHANGED <<queue, stopped, notifying, owner, accepted, taken>>

\* The loop body: handle the item, unless running_ went false meanwhile.
Handle(c) ==
    /\ con[c] = "got"
    /\ con' = [con EXCEPT ![c] = IF owner = "run" THEN "loop" ELSE "done"]
    /\ UNCHANGED <<queue, stopped, notifying, owner, accepted, taken>>

-----------------------------------------------------------------------------
(* The owner: SystemManager::start/stop, GuiManualDispatcher::start/stop.  *)

OwnerGo(from, to) == owner = from /\ owner' = to

\* running_ becomes false; the queue is stopped only later.
Quit ==
    /\ OwnerGo("run", "quit")
    /\ UNCHANGED <<queue, stopped, notifying, con, accepted, taken>>

\* The locked part of stop().
Stop ==
    /\ OwnerGo("quit", "notify")
    /\ stopped' = TRUE
    /\ UNCHANGED <<queue, notifying, con, accepted, taken>>

\* Mutant of NotifyAll: cv_.notify_one() at the end of stop().
NotifyJustOne ==
    /\ OwnerGo("notify", "join")
    /\ \/ Asleep = {} /\ con' = con
       \/ \E c \in Asleep : con' = [con EXCEPT ![c] = "woken"]
    /\ UNCHANGED <<queue, stopped, notifying, accepted, taken>>

\* cv_.notify_all() at the end of stop().
NotifyAll ==
    /\ OwnerGo("notify", "join")
    /\ con' = [c \in Consumers |-> IF con[c] = "asleep" THEN "woken" ELSE con[c]]
    /\ UNCHANGED <<queue, stopped, notifying, accepted, taken>>

Join ==
    /\ OwnerGo("join", "off")
    /\ \A c \in Consumers : con[c] = "done"
    /\ UNCHANGED <<queue, stopped, notifying, con, accepted, taken>>

\* applyNeutralOnce_() takes one leftover after the join.
TryPop ==
    /\ OwnerGo("off", "off")
    /\ queue # <<>>
    /\ taken' = Head(queue)
    /\ queue' = Tail(queue)
    /\ UNCHANGED <<stopped, notifying, con, accepted>>

\* SystemManager::start() clears its queues, GuiManualDispatcher::start() does not.
Clear ==
    /\ OwnerGo("off", "cleared")
    /\ queue' = <<>>
    /\ taken' = accepted
    /\ UNCHANGED <<stopped, notifying, con, accepted>>

\* reset() keeps the items; the consumers are spawned right after it.
ResetAndSpawn ==
    /\ OwnerGo("off", "run") \/ OwnerGo("cleared", "run")
    /\ stopped' = FALSE
    /\ con' = [c \in Consumers |-> "loop"]
    /\ UNCHANGED <<queue, notifying, accepted, taken>>

-----------------------------------------------------------------------------
OwnerStep == Quit \/ Stop \/ NotifyAll \/ Join \/ TryPop \/ Clear \/ ResetAndSpawn

ConsumerStep(c) ==
    WaitSleep(c) \/ WaitPop(c) \/ WaitNone(c) \/ SpuriousWake(c) \/ Handle(c)

ProducerStep(p) == Push(p) \/ PushLatest(p) \/ NotifyOne(p)

Next ==
    \/ OwnerStep
    \/ \E c \in Consumers : ConsumerStep(c)
    \/ \E p \in Producers : ProducerStep(p)

\* Every thread that can run is scheduled; nobody is obliged to push, to wake
\* up spuriously, to quit or to start again.
Fairness ==
    /\ \A p \in Producers : WF_vars(NotifyOne(p))
    /\ \A c \in Consumers :
         WF_vars(WaitSleep(c) \/ WaitPop(c) \/ WaitNone(c) \/ Handle(c))
    /\ WF_vars(Stop \/ NotifyAll \/ Join)

Spec == Init /\ [][Next]_vars /\ Fairness

-----------------------------------------------------------------------------
(* Properties.                                                             *)

\* A bounded queue never exceeds its capacity, whoever pushes.
Bounded == Capacity > 0 => Len(queue) <= Capacity

\* wait_pop() hands items out in the order in which they were accepted, and
\* an item that was dropped is older than everything still to be delivered.
InOrder ==
    /\ taken <= accepted
    /\ \A i \in 1..Len(queue) : taken < queue[i] /\ queue[i] <= accepted
    /\ \A i, j \in 1..Len(queue) : i < j => queue[i] < queue[j]

\* Freshest data: the newest accepted item is never the one that is dropped.
\* Unless it was delivered or discarded by its owner, it is the last queued.
LatestKept ==
    accepted # taken => queue # <<>> /\ queue[Len(queue)] = accepted

\* No lost wake-up: while the consumers run, they are not all asleep over a
\* queued item unless a notification for it is still on its way.
NoLostWakeup ==
    owner = "run" /\ queue # <<>> /\ Asleep = Consumers => notifying # {}

\* stop() wakes everybody: a consumer that still sleeps on a stopped queue
\* is about to receive cv_.notify_all().
StopReachesSleepers == stopped /\ Asleep # {} => owner = "notify"

\* The owner's join in SystemManager::stop() and GuiManualDispatcher::stop()
\* always returns: no consumer is left blocked in wait_pop().
JoinReturns == owner = "quit" ~> owner = "off"

\* Every accepted item is handed out, or given up for a newer one, unless the
\* owner shuts the queue down first.
EveryItemServed ==
    \A n \in 1..MaxItems :
        (owner = "run" /\ accepted >= n) ~> (taken >= n \/ owner # "run")

Active == {c \in Consumers : con[c] # "done"}

\* The mutex and the condition variable implement the indivisible queue.
Atomic == INSTANCE AtomicQueue WITH active <- Active

AtomicSpec == Atomic!Spec

=============================================================================
