----------------------------- MODULE AtomicQueue -----------------------------
(***************************************************************************)
(* What ThreadSafeQueue promises to the pipeline: a FIFO whose operations  *)
(* are indivisible, whose bounded form forgets the oldest item first, and  *)
(* whose wait_pop() returns whenever there is something to return.  There  *)
(* is no mutex, no condition variable and no notification here.            *)
(*                                                                         *)
(* Items are numbered in the order in which the queue accepted them.       *)
(***************************************************************************)
EXTENDS LatestQueue

CONSTANTS Consumers,    (* threads that loop on wait_pop()                  *)
          Capacity,     (* 0 = unbounded                                    *)
          MaxItems      (* bound on accepted items                          *)

VARIABLES queue,        (* items accepted and not yet taken                 *)
          stopped,
          accepted,     (* number of the newest accepted item               *)
          taken,        (* number of the newest item taken or discarded     *)
          active        (* consumers whose loop has not ended               *)

vars == <<queue, stopped, accepted, taken, active>>

Init ==
    /\ queue = <<>>
    /\ stopped = FALSE
    /\ accepted = 0
    /\ taken = 0
    /\ active = {}

Accept(q) ==
    /\ ~stopped
    /\ accepted < MaxItems
    /\ accepted' = accepted + 1
    /\ queue' = q
    /\ UNCHANGED <<stopped, taken, active>>

Put == HasRoom(queue, Capacity) /\ Accept(Append(queue, accepted + 1))

PutLatest == Accept(KeepLatest(queue, Capacity, accepted + 1))

\* A consumer's wait_pop() returns the oldest item ...
Take ==
    /\ active # {}
    /\ queue # <<>>
    /\ taken' = Head(queue)
    /\ queue' = Tail(queue)
    /\ UNCHANGED <<stopped, accepted, active>>

\* ... or nothing, once the queue is stopped and empty, and its loop ends.  The
\* loop may end earlier, when the consumer finds running_ false.
Finish(c) ==
    /\ c \in active
    /\ active' = active \ {c}
    /\ UNCHANGED <<queue, stopped, accepted, taken>>

Stop == stopped' = TRUE /\ UNCHANGED <<queue, accepted, taken, active>>

\* The owner empties the queue, one item or all of it, without consumers.
Discard ==
    /\ active = {}
    /\ queue # <<>>
    /\ \/ queue' = Tail(queue) /\ taken' = Head(queue)
       \/ queue' = <<>> /\ taken' = queue[Len(queue)]
    /\ UNCHANGED <<stopped, accepted, active>>

Restart ==
    /\ active = {}
    /\ stopped' = FALSE
    /\ active' = Consumers
    /\ UNCHANGED <<queue, accepted, taken>>

Next ==
    \/ Put \/ PutLatest \/ Take \/ Stop \/ Discard \/ Restart
    \/ \E c \in Consumers : Finish(c)

\* wait_pop() never sleeps through an item, nor through stop().
Fairness ==
    /\ WF_vars(Take)
    /\ \A c \in Consumers : WF_vars(stopped /\ Finish(c))

Safety == Init /\ [][Next]_vars

Spec == Safety /\ Fairness

=============================================================================
