----------------------------- MODULE MetricsStore -----------------------------
(***************************************************************************)
(* A platform's metrics file: benchmark_a fills a results directory per    *)
(* precision, benchmarks/normalize.py merges a directory into              *)
(* metrics/<platform>.json, aggregate.py and compare_edgefirst.py each     *)
(* pick a row from it.  Metric values are left out: a row is known by the  *)
(* run that measured it.                                                   *)
(***************************************************************************)
EXTENDS Integers, Sequences, SequencesExt, FiniteSets

CONSTANTS
    Labels,      \* variant labels in the order of their file names
    NmsFree,     \* the labels with the -nmsfree suffix
    Model,       \* label -> model_of(label)
    MaxRuns      \* bound on benchmark runs

ASSUME LabelsAssumption ==
    /\ Labels \in Seq(ToSet(Labels))
    /\ IsInjective(Labels)
    /\ NmsFree \subseteq ToSet(Labels)
    /\ DOMAIN Model = ToSet(Labels)
    /\ MaxRuns \in Nat \ {0}
    \* "-classic" sorts before "-nmsfree".
    /\ \A j, k \in DOMAIN Labels :
          /\ Labels[j] \in NmsFree /\ Labels[k] \notin NmsFree
          /\ Model[Labels[j]] = Model[Labels[k]]
          => k < j

VARIABLES
    device,     \* what the platform runs on, never changes
    dirs,       \* precision -> documents of its results directory
    runs,       \* benchmark runs so far
    file,       \* the "rows" of metrics/<platform>.json
    merged      \* precision -> the documents of its last normalize (history)

vars == <<device, dirs, runs, file, merged>>

\* The lanes benchmark_a runs on a device, in order; the Jetson runs skip
\* ult-pt.
LanesOn ==
    [cpu |-> <<"ult-pt", "ult-onnx", "yv-torch", "yv-numpy">>,
     cuda |-> <<"ult-pt", "ult-onnx", "yv-torch", "yv-numpy">>,
     coreml |-> <<"ult-onnx", "ult-coreml", "yv-torch", "yv-numpy">>,
     tensorrt |-> <<"ult-engine", "yv-tensorrt">>]

PrecisionsOn ==
    [cpu |-> {"FP32"}, cuda |-> {"FP32", "FP16"}, coreml |-> {"FP16"},
     tensorrt |-> {"FP16", "INT8"}]

Precisions == PrecisionsOn[device]

\* CONFIG_LANE
Lane ==
    LET In(v, e) == [validator |-> v, engine |-> e]
    IN  [x \in UNION {ToSet(LanesOn[d]) : d \in DOMAIN LanesOn} |->
           CASE x = "ult-pt" -> In("ultralytics", "pytorch")
             [] x = "ult-onnx" -> In("ultralytics", "onnx")
             [] x = "ult-coreml" -> In("ultralytics", "coreml")
             [] x = "ult-engine" -> In("ultralytics", "tensorrt")
             [] x = "yv-torch" -> In("yolo-validator", "torch")
             [] x = "yv-numpy" -> In("yolo-validator", "numpy")
             [] x = "yv-tensorrt" -> In("yolo-validator", "tensorrt")]

Anchors == {"ult-pt", "ult-onnx"}

\* The elements of s that are in S, in order.
Among(s, S) ==
    FlattenSeq([k \in DOMAIN s |-> IF s[k] \in S THEN <<s[k]>> ELSE <<>>])

Init ==
    /\ device \in DOMAIN LanesOn
    /\ dirs = [q \in Precisions |-> <<>>]
    /\ runs = 0
    /\ file = <<>>
    /\ merged = [q \in Precisions |-> <<>>]

-----------------------------------------------------------------------------

\* A run of benchmark_a over some variants, into an empty directory or next to
\* the documents of earlier runs; a lane may have failed.
Bench(q) ==
    /\ runs < MaxRuns
    /\ runs' = runs + 1
    /\ \E fresh \in BOOLEAN, some \in SUBSET ToSet(Labels) \ {{}},
          failed \in {{}} \cup {{x} : x \in ToSet(LanesOn[device])} :
          LET ran == Among(Labels, some)
              new == [k \in 1 .. Len(ran) |->
                        [label |-> ran[k], run |-> runs', failed |->
                            IF k = 1 THEN failed ELSE {}]]
          IN  dirs' = [dirs EXCEPT ![q] =
                          IF fresh THEN new ELSE @ \o new]
    /\ UNCHANGED <<device, file, merged>>

\* sorted(glob(...)): by label, then by time stamp.
InNameOrder(docs) ==
    FlattenSeq([k \in 1 .. Len(Labels) |->
                  Among(docs, {d \in ToSet(docs) : d.label = Labels[k]})])

\* The anchors are filed under FP32, every other lane under --precision.
RowPrecision(lane, q) ==
    IF lane \in Anchors /\ q # "FP32" THEN "FP32" ELSE q

\* A row for each lane of a document that scored.
RowsOfDoc(d, q) ==
    LET scored == Among(LanesOn[device], ToSet(LanesOn[device]) \ d.failed)
    IN  [k \in 1 .. Len(scored) |->
           [label |-> d.label,
            precision |-> RowPrecision(scored[k], q),
            validator |-> Lane[scored[k]].validator,
            engine |-> Lane[scored[k]].engine,
            run |-> d.run]]

RowsOf(docs, q) ==
    LET sorted == InNameOrder(docs)
    IN  FlattenSeq([k \in DOMAIN sorted |-> RowsOfDoc(sorted[k], q)])

\* Mutant: what the file holds is kept, whatever its precision.
KeptAll(q) == file

\* Rows of other precisions.
Kept(q) == Among(file, {r \in ToSet(file) : r.precision # q})

\* normalize(): merge by precision.
Normalize(q) ==
    /\ dirs[q] # <<>>
    /\ file' = Kept(q) \o RowsOf(dirs[q], q)
    /\ merged' = [merged EXCEPT ![q] = dirs[q]]
    /\ UNCHANGED <<device, dirs, runs>>

Next ==
    \/ \E q \in Precisions : Bench(q)
    \/ \E q \in Precisions : Normalize(q)

Spec == Init /\ [][Next]_vars

-----------------------------------------------------------------------------
(* The readers.  Their preference lists hold every engine of LanesOn, so   *)
(* the fallback to any row is never taken.                                 *)

NoRow == [run |-> 0]

\* The first engine of prefs that some row has.
Preferred(rows, prefs) ==
    LET found == Among(prefs, {r.engine : r \in ToSet(rows)})
    IN  IF found = <<>> THEN <<>>
        ELSE Among(rows, {r \in ToSet(rows) : r.engine = found[1]})

\* Mutant: the first row of an engine stays (setdefault).
AggregatePickFirst(rows, prefs) ==
    LET p == Preferred(rows, prefs)
    IN  IF p = <<>> THEN NoRow ELSE p[1]

\* aggregate._pick: by_engine keeps the last row of an engine.
AggregatePick(rows, prefs) ==
    LET p == Preferred(rows, prefs)
    IN  IF p = <<>> THEN NoRow ELSE p[Len(p)]

UltOfAggregate == <<"onnx", "tensorrt", "pytorch", "coreml">>

\* _platform_summary: rows of a variant at a precision, nmsfree left out.
AggregateShows(label, q) ==
    IF label \in NmsFree THEN NoRow
    ELSE AggregatePick(
            Among(file, {r \in ToSet(file) :
                            /\ r.label = label /\ r.precision = q
                            /\ r.validator = "ultralytics"}),
            UltOfAggregate)

\* Mutant: the last row, as aggregate.py.
ComparePickLast(rows, prefs) == AggregatePick(rows, prefs)

\* compare_edgefirst.pick: the first row of an engine.
ComparePick(rows, prefs) ==
    LET p == Preferred(rows, prefs)
    IN  IF p = <<>> THEN NoRow ELSE p[1]

UltOfCompare == <<"pytorch", "tensorrt", "onnx", "coreml">>

\* load_ours keys rows by model: the variants of a model share a key.
RowsOfKey(rows, model, q) ==
    Among(rows, {r \in ToSet(rows) : Model[r.label] = model /\ r.precision = q})

\* _ref where the Ultralytics validator runs on the device.
Reference(rows, model, q) ==
    LET keyed == RowsOfKey(rows, model, q)
    IN  ComparePick(
            Among(keyed, {r \in ToSet(keyed) : r.validator = "ultralytics"}),
            UltOfCompare)

-----------------------------------------------------------------------------

\* No lane of the device's reduced-precision runs is filed under FP32.
NoAnchors ==
    \A q \in Precisions \ {"FP32"} : ToSet(LanesOn[device]) \cap Anchors = {}

\* Without anchor lanes the rows of a precision are those of its own last
\* normalize, in order, whatever was merged for others before or after.
LastNormalizeOwns ==
    NoAnchors =>
        \A q \in Precisions :
            Among(file, {r \in ToSet(file) : r.precision = q}) =
                RowsOf(merged[q], q)

\* The summary shows the newest run that scored the engine it prefers, when a
\* directory holds several runs of a variant.
AggregateNewest ==
    NoAnchors =>
        \A q \in Precisions, label \in ToSet(Labels) :
            LET shown == AggregateShows(label, q)
            IN  shown # NoRow =>
                    \A k \in 1 .. Len(file) :
                        file[k].label = label /\ file[k].precision = q
                            /\ file[k].engine = shown.engine
                            /\ file[k].validator = shown.validator
                        => file[k].run <= shown.run

\* The reference of the comparison is the classic head of a model when the
\* last directory merged has it and no lane failed, though its NMS-free
\* variant has rows under the same key.
ComparesClassicHead ==
    NoAnchors =>
        \A q \in Precisions, label \in ToSet(Labels) \ NmsFree :
            /\ \E k \in 1 .. Len(merged[q]) : merged[q][k].label = label
            /\ \A k \in 1 .. Len(merged[q]) : merged[q][k].failed = {}
            => Reference(file, Model[label], q).label \notin NmsFree

\* "This run owns one precision ... it fully replaces": merging a directory
\* again files none of its measurements twice.
FiledOnce ==
    \A j, k \in 1 .. Len(file) : file[j] = file[k] => j = k

=============================================================================
