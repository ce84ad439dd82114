--------------------------- MODULE MCCameraBackends ---------------------------
(* Images of two rows of three bytes.                                      *)
EXTENDS CameraBackends

\* Nothing, a byte short, exact, padded, padded with a byte of slack; then two
\* that mislead: slack without padding, and a last row without its padding.
MCPlanes ==
    {[length |-> 0, stride |-> 3], [length |-> 5, stride |-> 3],
     [length |-> 6, stride |-> 3], [length |-> 8, stride |-> 4],
     [length |-> 9, stride |-> 4], [length |-> 9, stride |-> 3],
     [length |-> 7, stride |-> 4]}

=============================================================================
