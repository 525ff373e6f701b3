---------------------------- MODULE MCBackendRun ----------------------------
(***************************************************************************)
(* Instances of BackendRun for TLC: the sizes of the exports that          *)
(* BENCHMARK.md runs and of those at the edges of the shape heuristic, in  *)
(* every combination with the arguments that bear on it; every machine and *)
(* choice of parts on one graph.                                           *)
(***************************************************************************)
EXTENDS BackendRun

\* What picks the decoder varies, on a machine with everything.
RoutingVaries ==
    /\ installed = Packages
    /\ args.provider = "cpu"
    /\ args.preprocess = "auto" /\ args.postprocess \in {"auto", "numpy"}
    /\ args.runtime = "onnx"
    /\ file = "raw"

\* What picks the parts varies, on one classic graph with masks and its
\* end-to-end twin.
PartsVary ==
    /\ args.task = "auto" /\ args.e2e = "auto"
    /\ graph.classes = 80 /\ graph.coeffs = 32 /\ graph.numbered
    /\ graph.rows = IF graph.head = "classic" THEN 8400 ELSE 300
    /\ graph.columnsLast = (graph.head = "e2e")
    /\ args.runtime # "tensorrt"
    /\ file = "raw"

\* Engines: every file, with and without masks.
EngineVaries ==
    /\ args.runtime = "tensorrt"
    /\ installed \in {{}, Packages}
    /\ args.provider = "cuda" /\ args.task = "auto" /\ args.e2e = "auto"
    /\ args.preprocess = "auto" /\ args.postprocess = "auto"
    /\ graph.classes = 80 /\ graph.rows = 8400 /\ graph.head = "classic"
    /\ ~graph.columnsLast

MCInit == Init /\ (RoutingVaries \/ PartsVary \/ EngineVaries)

MCSpec == MCInit /\ [][Next]_vars /\ Fairness

=============================================================================
