------------------------- MODULE SystemManagerClaims -------------------------
(***************************************************************************)
(* What the documents and comments of the repository say of the runtime    *)
(* and the code does not do.  Each of these is refuted by a run.           *)
(***************************************************************************)
EXTENDS SystemManager

\* docs/state_machine.md draws three edges out of MANUAL: to SEARCHING (by
\* exitManual()), to FAULT and to STOPPING.  The estimate callback reads
\* state_, and writes it back after enterManual() has changed it.
ManualHeld ==
    [][ running /\ app = "idle" /\ state = "MANUAL"
          => state' \in {"SEARCHING", "FAULT", "STOPPING"} ]_state

\* stop() ends with "neutral command applied".  cmd_q_ is stopped by then and
\* rejects the neutral command: nothing, or a stale command, is applied.
NeutralApplied == [][ app = "popLeftover" => popped' = "neutral" ]_app

=============================================================================
