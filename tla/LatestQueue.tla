----------------------------- MODULE LatestQueue -----------------------------
(***************************************************************************)
(* The critical sections of ThreadSafeQueue<T> that change the deque, as   *)
(* operators on the sequence of queued items (oldest first).  Capacity 0   *)
(* means unbounded, as in the constructor of the class.                    *)
(***************************************************************************)
EXTENDS Naturals, Sequences

\* push() rejects an item when the queue is bounded and full.
HasRoom(q, capacity) == capacity = 0 \/ Len(q) < capacity

\* push_latest() makes room by dropping the oldest item.
KeepLatest(q, capacity, item) ==
    Append(IF HasRoom(q, capacity) THEN q ELSE Tail(q), item)

\* The predicate wait_pop() waits for.
Ready(q, stopped) == stopped \/ q # <<>>

=============================================================================
