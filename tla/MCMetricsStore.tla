---------------------------- MODULE MCMetricsStore ----------------------------
(***************************************************************************)
(* Instances of MetricsStore and StudioCompare for TLC: the two variants   *)
(* of one model, and a catalog that lists two sessions of one of its lanes *)
(* in either order, next to one of another lane and one of another board.  *)
(***************************************************************************)
EXTENDS StudioCompare

MCLabels == <<"yolo26n-classic", "yolo26n-nmsfree">>

MCNmsFree == {"yolo26n-nmsfree"}

MCModel == [l \in {"yolo26n-classic", "yolo26n-nmsfree"} |-> "yolo26n"]

MCSessions == {"v-1", "v-2", "v-3"}

MCCatalogs ==
    LET Of(s, ours, q) == [session |-> s, ours |-> ours,
                           model |-> "yolo26n", precision |-> q]
    IN  {<<Of("v-1", TRUE, "FP16"), Of("v-2", TRUE, "FP16"), Of("v-3", TRUE, "INT8")>>,
         <<Of("v-3", FALSE, "INT8"), Of("v-2", TRUE, "FP16"), Of("v-1", TRUE, "FP16")>>}

\* An average precision of zero, and throughput without stage times.
MCContents ==
    {[ap |-> 0, timed |-> TRUE, fps |-> TRUE],
     [ap |-> 1, timed |-> FALSE, fps |-> TRUE]}

\* The platforms on which no anchor is filed under another precision.
MergeInit == CompareInit /\ device \in {"cpu", "tensorrt"}

\* Comparisons start once a Jetson has merged a run of both variants at each
\* precision, with a lane that failed at one of them at most; merging the
\* same again during them reorders the file.
Compared ==
    /\ device = "tensorrt"
    /\ runs = 2
    /\ \A q \in Precisions : Len(merged[q]) = 2 /\ merged[q] = dirs[q]
    /\ merged["INT8"][1].failed = {}

MergeNext ==
    \/ Next /\ compares = 0 /\ UNCHANGED studioVars
    \/ Comparison /\ Compared
    \/ \E q \in Precisions : Normalize(q) /\ UNCHANGED studioVars

MergeSpec == MergeInit /\ [][MergeNext]_allVars

\* The macOS platform, which only has an FP16 lane.
CoremlInit == CompareInit /\ device = "coreml"

CoremlSpec == CoremlInit /\ [][Next /\ UNCHANGED studioVars]_allVars

=============================================================================
