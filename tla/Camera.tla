-------------------------------- MODULE Camera --------------------------------
(***************************************************************************)
(* What ICamera promises, whichever backend SystemFactory chose: frames    *)
(* come only between the call of start() and the return of stop(), and     *)
(* their ids increase within such a session.  Nothing is promised about    *)
(* ids across sessions, nor that frames come at all.                       *)
(***************************************************************************)
EXTENDS Naturals

VARIABLES
    session,    (* start() was called, and stop() has not returned since    *)
    delivered   (* the last id handed to the frame callback, 0 for none     *)

Init == session = FALSE /\ delivered = 0

Start ==
    /\ ~session
    /\ session' = TRUE
    /\ delivered' = 0

Deliver ==
    /\ session
    /\ delivered' > delivered
    /\ UNCHANGED session

\* stop() returned, or start() failed.
Stop ==
    /\ session
    /\ session' = FALSE
    /\ UNCHANGED delivered

Next == Start \/ Deliver \/ Stop

Spec == Init /\ [][Next]_<<session, delivered>>

=============================================================================
