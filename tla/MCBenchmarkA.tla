----------------------------- MODULE MCBenchmarkA -----------------------------
(***************************************************************************)
(* Instances of BenchmarkA for TLC: a model with two variants followed by  *)
(* one with a single variant, so that a variant is followed by another of  *)
(* its model and by one of the next.                                       *)
(***************************************************************************)
EXTENDS BenchmarkA

MCModels == <<"yolo26n", "yolov8n">>

MCEndToEnd == {"yolo26n"}

\* Flags that matter on the device; the graphs on disk, if any, are complete.
FewArgs ==
    /\ args.device # "tensorrt" => ~args.noIsolate /\ ~args.skipYv
    /\ args.precision \in {"fp32", "int8-fp16-fallback"}
    /\ args.session => args.skipUltPt
    /\ pts \in {{}, ToSet(Models)}
    /\ Cardinality(disk) \in {0, 1}
    /\ \A f \in disk : f.graph.variant.mode = "classic"

MCInit == Init /\ FewArgs

MCSpec == MCInit /\ [][Next]_vars /\ WF_vars(Step)

=============================================================================
