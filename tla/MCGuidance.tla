------------------------------ MODULE MCGuidance ------------------------------
(* A three by three image, a limit of three units and two unlike legs.     *)
EXTENDS Guidance

MCPixels == (0..2) \X (0..2)

\* Images with a little light or full of it, and frames with other geometries.
MCFrames ==
    [width : {3}, height : {3}, stride : {3}, bpp : {1}, size : {9},
     luma : {[p \in MCPixels |-> IF p \in lit THEN 9 ELSE 0] :
                lit \in {s \in SUBSET MCPixels : Cardinality(s) \in {0, 1, 2, 9}}}]
    \cup
    [width : {0, 3}, height : {2}, stride : {0, 2, 8, 9}, bpp : {1, 3}, size : {5, 16, 18},
     luma : {[p \in MCPixels |-> IF p[1] = 2 THEN 9 ELSE 5]}]

\* Leg 1 has both solutions down at one end, leg 2 both up in the middle and
\* none at the other end.
MCBranches(sp, leg) ==
    IF leg = 1 THEN <<160 + 15 * sp.tilt, 50 - 15 * sp.tilt>>
    ELSE IF sp.pan = 3 THEN <<>>
    ELSE <<60 + 20 * sp.pan, 20 * sp.tilt - 30>>

MCTilts == {-4}

MCGuiValues == {-5, -1, 2}

=============================================================================
