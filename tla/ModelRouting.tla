---------------------------- MODULE ModelRouting ----------------------------
(***************************************************************************)
(* How yolo_validator decides what to do with a model file: load_backend   *)
(* and the constructors of the two backends (which head does the graph     *)
(* have, is there a mask branch), ValidationPipeline.__init__ (which       *)
(* preprocessor, which decoder, where are masks made), and then, frame by  *)
(* frame, which columns of the output the decoder takes for what and which *)
(* classes the records can name.                                           *)
(*                                                                         *)
(* The prediction output of a graph is a table of `rows` candidates.  A    *)
(* classic head has 4 box columns, one per class and one per mask          *)
(* coefficient, along axis 1; an end-to-end head has 4 box columns, score, *)
(* class and the coefficients, along axis 2.  A graph with coefficients    *)
(* has a second output, the prototypes.                                    *)
(***************************************************************************)
EXTENDS Integers

CONSTANTS
    RowCounts, ClassCounts, CoeffCounts,   \* the sizes graphs come in
    MaxCols,      \* 64: more columns than an end-to-end table has
    MaxRows,      \* 1024: more rows than an end-to-end table has
    FewRows,      \* num_det of the end-to-end exports
    ManyAnchors,  \* anchors of the classic exports, at least
    MapSize,      \* len(coco80_to_coco91())
    Frames        \* frames of a run, at most

ASSUME RoutingAssumption ==
    /\ RowCounts \subseteq Nat \ {0}
    /\ ClassCounts \subseteq Nat \ {0}
    /\ CoeffCounts \subseteq Nat
    /\ {MaxCols, MaxRows, FewRows, ManyAnchors, MapSize, Frames} \subseteq Nat

\* What the docstring of infer_e2e says of the exports, against the limits in
\* its code: an end-to-end table has few rows and columns, a classic one has
\* anchors in the thousands.
ASSUME ExportsAssumption ==
    /\ FewRows <= MaxRows
    /\ \A c \in CoeffCounts : 6 + c <= MaxCols
    /\ ManyAnchors > MaxRows /\ ManyAnchors > MaxCols

\* numbered: the graph states both dimensions of the table as numbers (an
\* engine that does not has a -1 for one of them).
Graph ==
    [head : {"classic", "e2e"}, rows : RowCounts, classes : ClassCounts,
     coeffs : CoeffCounts, columnsLast : BOOLEAN, numbered : BOOLEAN]

Choice == {"auto", "torch", "numpy"}

Arguments ==
    [runtime : {"onnx", "tensorrt", "tflite"},
     provider : {"cpu", "cuda", "coreml", "rocm"},
     task : {"auto", "detect", "segment"}, e2e : {"auto", "yes", "no"},
     preprocess : Choice, postprocess : Choice]

\* What can be imported or used on the machine.
Packages == {"torch", "ultralytics", "cuda", "mps"}

Machine == {have \in SUBSET Packages : have # {} => "torch" \in have}

\* An engine file as it was serialized, with the metadata Ultralytics puts in
\* front, cut short, or with tensors of a type numpy has no name for here.
ModelFile == {"raw", "wrapped", "torn", "otherType"}

VARIABLES
    graph, args, installed, file,    \* the inputs; they never change
    stage,       \* how far main and the pipeline's constructor have got
    why,         \* what was raised
    spec,        \* ModelSpec: task, e2e
    parts,       \* the preprocessor, the decoder and the mask device
    reads,       \* the columns the last frame was decoded from
    decoded      \* frames decoded

routeInputs == <<graph, args, installed, file>>
routeVars == <<graph, args, installed, file, stage, why, spec, parts, reads, decoded>>

NoSpec == [task |-> "none", e2e |-> FALSE]
NoParts == [pre |-> "none", post |-> "none", mask |-> "none"]
NoReads == [axis |-> 0, scores |-> <<0, 0>>, class |-> 0, coeffs |-> <<0, 0>>]

RouteInit ==
    /\ graph \in Graph
    /\ graph.head = "e2e" => graph.columnsLast
    /\ args \in Arguments
    /\ installed \in Machine
    /\ file \in ModelFile
    /\ stage = "load"
    /\ why = "nothing"
    /\ spec = NoSpec
    /\ parts = NoParts
    /\ reads = NoReads
    /\ decoded = 0

-----------------------------------------------------------------------------
(* Loading the model.                                                      *)

Columns ==
    IF graph.head = "classic" THEN 4 + graph.classes + graph.coeffs
    ELSE 6 + graph.coeffs

\* Dimensions 1 and 2 of the prediction output.
Axis1 == IF graph.columnsLast THEN graph.rows ELSE Columns
Axis2 == IF graph.columnsLast THEN Columns ELSE graph.rows

Outputs == IF graph.coeffs > 0 THEN 2 ELSE 1

\* Mutant: one small dimension is enough.
InferE2EEither ==
    IF args.e2e # "auto" THEN args.e2e = "yes"
    ELSE graph.numbered /\ (Axis2 <= MaxCols \/ Axis1 <= MaxRows)

\* infer_e2e over the output shapes; the prototypes have four dimensions and
\* are passed over.
InferE2E ==
    IF args.e2e # "auto" THEN args.e2e = "yes"
    ELSE graph.numbered /\ Axis2 <= MaxCols /\ Axis1 <= MaxRows

Task ==
    IF args.task # "auto" THEN args.task
    ELSE IF Outputs >= 2 THEN "segment" ELSE "detect"

Raise(error) ==
    /\ stage' = "raised"
    /\ why' = error
    /\ UNCHANGED <<routeInputs, spec, parts, reads, decoded>>

Loaded ==
    /\ spec' = [task |-> Task, e2e |-> InferE2E]
    /\ stage' = "preprocessor"
    /\ UNCHANGED <<routeInputs, why, parts, reads, decoded>>

\* A provider the table does not have is a KeyError.
LoadOnnx ==
    /\ stage = "load"
    /\ args.runtime = "onnx"
    /\ IF args.provider \in {"cpu", "cuda", "coreml"} THEN Loaded ELSE Raise("provider")

\* The header, if there is one, is stripped; a file that is no engine, a tensor
\* type without a numpy name and a dimension of -1, for which no buffer can be
\* allocated, raise.
LoadTensorRT ==
    /\ stage = "load"
    /\ args.runtime = "tensorrt"
    /\ IF file \in {"raw", "wrapped"} /\ graph.numbered THEN Loaded ELSE Raise("engine")

LoadRefused ==
    /\ stage = "load"
    /\ args.runtime \notin {"onnx", "tensorrt"}
    /\ Raise("runtime")

-----------------------------------------------------------------------------
(* The pipeline's parts.                                                   *)

\* Mutant: an import that fails falls back whatever was asked for.
PickFallingBack(path, needed) ==
    IF path \in {"torch", "auto"} /\ needed \subseteq installed THEN "torch"
    ELSE "numpy"

\* "torch" and "auto" try to import; only "auto" goes on without.
Pick(path, needed) ==
    IF path \in {"torch", "auto"} /\ needed \subseteq installed THEN "torch"
    ELSE IF path = "torch" THEN "import"
    ELSE "numpy"

MakePreprocessor ==
    /\ stage = "preprocessor"
    /\ LET pre == Pick(args.preprocess, {"torch"})
       IN  IF pre = "import" THEN Raise("import")
           ELSE /\ parts' = [parts EXCEPT !.pre = pre]
                /\ stage' = "postprocessor"
                /\ UNCHANGED <<routeInputs, why, spec, reads, decoded>>

\* An end-to-end head has its own decoder, whatever was asked for.
MakePostprocessor ==
    /\ stage = "postprocessor"
    /\ LET post == IF spec.e2e THEN "e2e"
                   ELSE Pick(args.postprocess, {"torch", "ultralytics"})
       IN  IF post = "import" THEN Raise("import")
           ELSE /\ parts' = [parts EXCEPT !.post = post]
                /\ stage' = "maskDevice"
                /\ UNCHANGED <<routeInputs, why, spec, reads, decoded>>

\* getattr(backend, "provider", "cpu"): only the ONNX backend has one.
Provider == IF args.runtime = "onnx" THEN args.provider ELSE "cpu"

\* _best_mask_device; "numpy" stands for None.
BestMaskDevice ==
    CASE "torch" \notin installed -> "numpy"
      [] "torch" \in installed /\ Provider = "cuda" /\ "cuda" \in installed -> "cuda"
      [] "torch" \in installed /\ ~(Provider = "cuda" /\ "cuda" \in installed) ->
            IF "mps" \in installed THEN "mps" ELSE "cpu"

ChooseMaskDevice ==
    /\ stage = "maskDevice"
    /\ parts' = [parts EXCEPT !.mask = BestMaskDevice]
    /\ stage' = "ready"
    /\ UNCHANGED <<routeInputs, why, spec, reads, decoded>>

Build ==
    LoadOnnx \/ LoadTensorRT \/ LoadRefused
        \/ MakePreprocessor \/ MakePostprocessor \/ ChooseMaskDevice

-----------------------------------------------------------------------------
(* A frame.                                                                *)

\* Mask coefficients the decoder counts on: the channels of the prototypes,
\* in a segmentation run.
Coeffs == IF spec.task = "segment" THEN graph.coeffs ELSE 0

\* First and last column of each kind: NumpyPostprocessor and
\* TorchPostprocessor count the classes as what the coefficients leave.
ClassicReads ==
    [axis |-> 1, scores |-> <<5, Axis1 - Coeffs>>, class |-> 0,
     coeffs |-> <<Axis1 - Coeffs + 1, Axis1>>]

E2EReads ==
    [axis |-> 2, scores |-> <<5, 5>>, class |-> 6, coeffs |-> <<7, 6 + Coeffs>>]

DecodeFrame ==
    /\ stage = "ready"
    /\ decoded < Frames
    /\ reads' = IF parts.post = "e2e" THEN E2EReads ELSE ClassicReads
    /\ decoded' = decoded + 1
    /\ stage' = "decoded"
    /\ UNCHANGED <<routeInputs, why, spec, parts>>

\* Classes a detection of the frame can have, by the columns read.
NamedClasses ==
    IF parts.post = "e2e" THEN graph.classes ELSE reads.scores[2] - 4

\* detections_to_coco: a class past the end of the map is an IndexError.
Serialize ==
    /\ stage = "decoded"
    /\ \E class \in {0, NamedClasses - 1} :
          IF class < MapSize
          THEN /\ stage' = "ready"
               /\ UNCHANGED <<routeInputs, why, spec, parts, reads, decoded>>
          ELSE Raise("classMap")

-----------------------------------------------------------------------------
(* Properties.                                                             *)

RoutingTypeOK ==
    /\ graph \in Graph /\ args \in Arguments
    /\ installed \in Machine /\ file \in ModelFile
    /\ stage \in {"load", "preprocessor", "postprocessor", "maskDevice",
                 "ready", "decoded", "raised"}
    /\ why \in {"nothing", "provider", "engine", "runtime", "import", "classMap"}
    /\ spec \in [task : {"none", "detect", "segment"}, e2e : BOOLEAN]
    /\ parts \in [pre : {"none", "torch", "numpy"},
                  post : {"none", "torch", "numpy", "e2e"},
                  mask : {"none", "numpy", "cpu", "cuda", "mps"}]
    /\ decoded \in 0 .. Frames

\* Where the graph really has its scores, classes and coefficients.
Layout ==
    IF graph.head = "classic"
    THEN [axis |-> IF graph.columnsLast THEN 2 ELSE 1,
          scores |-> <<5, 4 + graph.classes>>, class |-> 0,
          coeffs |-> <<5 + graph.classes, 4 + graph.classes + graph.coeffs>>]
    ELSE [axis |-> 2, scores |-> <<5, 5>>, class |-> 6,
          coeffs |-> <<7, 6 + graph.coeffs>>]

\* The sizes of the exports the docstring of infer_e2e speaks of, with the
\* dimensions of an end-to-end table stated.
TellingShape ==
    IF graph.head = "e2e" THEN graph.numbered /\ graph.rows <= FewRows
    ELSE ~graph.numbered \/ graph.rows >= ManyAnchors

\* What the user must leave alone or get right: --e2e and --no-e2e, --task
\* detect on a classic graph with a mask branch, and the axis of a classic head.
Supported ==
    /\ args.e2e = "auto" => TellingShape
    /\ args.e2e # "auto" => (args.e2e = "yes") = (graph.head = "e2e")
    /\ graph.head = "classic" => ~graph.columnsLast
    /\ graph.coeffs > 0 => args.task # "detect"

\* The head of an export is told from its shape, a transposed classic one
\* included ("requiring BOTH dims small avoids mis-routing" it), and no frame is
\* decoded from columns that are something else: scores from scores, classes
\* from classes, coefficients from coefficients, through the heuristic, the
\* override, and the count of classes that is inferred.
ReadsOwnColumns ==
    /\ spec # NoSpec /\ args.e2e = "auto" /\ TellingShape =>
          (spec.e2e <=> graph.head = "e2e")
    /\ decoded > 0 /\ Supported => reads = Layout

\* A part that was asked for is the one that runs or the run is refused; a part
\* that runs is installed; and "auto" runs everywhere.  Masks are made on CUDA
\* only where the backend is on it, and without Torch by NumPy.
PartsAsAsked ==
    /\ stage = "raised" /\ why = "import" =>
          "torch" \in {args.preprocess, args.postprocess}
    /\ stage \in {"ready", "decoded"} =>
          /\ args.preprocess \in {"torch", "numpy"} => parts.pre = args.preprocess
          /\ args.postprocess \in {"torch", "numpy"} /\ ~spec.e2e =>
                parts.post = args.postprocess
          /\ "torch" \in {parts.pre, parts.post} => "torch" \in installed
          /\ parts.post = "torch" => "ultralytics" \in installed
          /\ parts.mask = "numpy" <=> installed = {}
          /\ parts.mask = "cuda" => Provider = "cuda" /\ "cuda" \in installed

=============================================================================
