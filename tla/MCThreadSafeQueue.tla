-------------------------- MODULE MCThreadSafeQueue --------------------------
(* Small instances of ThreadSafeQueue for TLC. *)
EXTENDS ThreadSafeQueue

\* Bound on accepted items: one more than the largest capacity checked, so
\* that a full queue drops and the consumers still have something to take.
Items == 4

=============================================================================
