\* The queue itself: two producers race for the lock, two consumers for the
\* notifications.
CONSTANTS
    Producers = {p1, p2}
    Consumers = {c1, c2}
    Capacity = 2
    MaxItems <- Items
SPECIFICATION Spec
INVARIANTS NoLostWakeup
PROPERTIES JoinReturns EveryItemServed AtomicSpec
