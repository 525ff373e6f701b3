---------------------------- MODULE MCMaskRecords ----------------------------
(***************************************************************************)
(* Instances of MaskRecords for TLC: one geometry with all scores and      *)
(* overlaps of four candidates, and one pair of candidates, of different   *)
(* anchors and classes, with every geometry.                               *)
(***************************************************************************)
EXTENDS MaskRecords

InputSize == [x |-> 5, y |-> 4]
HalfPixels == -1 .. 11

FewCells == \A a \in Anchors \ {1} : score[<<a, 2>>] = 0

\* The boxes of the anchors, all different; an image that is scaled by 1/2.
PlainGeometry ==
    /\ path \in Paths
    /\ image = [orig |-> [x |-> 8, y |-> 8], size |-> [x |-> 4, y |-> 4],
                scale |-> [num |-> 4, den |-> 8]]
    /\ box = [a \in Anchors |-> [x |-> <<a, a + 4>>, y |-> <<2 * a - 1, 8>>]]
    /\ task = "segment"
    /\ device = IF path = "cv2" THEN "numpy" ELSE "torch"
    /\ Init
    /\ FewCells

\* Anchor 3 in class 1 before anchor 2 in class 2: the one's columns and the
\* other's rows run through all intervals.
PlainScores ==
    /\ path = "cv2"
    /\ score = [p \in Candidate |->
                  IF p = <<3, 1>> THEN 2 ELSE IF p = <<2, 2>> THEN 1 ELSE 0]
    /\ near = {}
    /\ image \in Images
    /\ \E e \in Interval :
          box = [a \in Anchors |->
                    [x |-> IF a = 2 THEN <<2, 5>> ELSE e,
                     y |-> IF a = 3 THEN <<1, 8>> ELSE e]]
    /\ Init

MCInit == (PlainGeometry \/ PlainScores) /\ RecordsInit

MCSpec == MCInit /\ [][RecordsNext]_allVars

\* The letterbox arithmetic, at every size of the image in a small input.
ASSUME \A input \in 1 .. 64 : \A size \in 1 .. input :
    Fills(input, size) /\ ShiftsBack(input, size) /\ MaskIsImage(input, size)

\* The categories are those of COCO's 90 that are in use, in order.
Unused == {12, 26, 29, 30, 45, 66, 68, 69, 71, 83}

ASSUME /\ Range(coco80_to_coco91) = 1 .. 90 \ Unused
       /\ \A i \in 1 .. 79 : coco80_to_coco91[i] < coco80_to_coco91[i + 1]

=============================================================================
