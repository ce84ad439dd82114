------------------------- MODULE LinuxEventLoopClaims -------------------------
(***************************************************************************)
(* What LinuxEventLoop says of signals, refuted by a run.                  *)
(***************************************************************************)
EXTENDS LinuxEventLoop

\* "Block SIGINT, SIGQUIT, SIGHUP, and SIGTERM process-wide ...  This prevents
\* the process from being terminated before the shutdown path in stop() has
\* executed": once run() has blocked them, a signal no longer ends the process
\* with the system up.  sigprocmask() blocks them in one thread, after start()
\* made the others.
SignalsReachLoop == [][ blocked => loop' # "killed" ]_loop

=============================================================================
