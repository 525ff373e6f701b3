------------------------------ MODULE BenchmarkA ------------------------------
(***************************************************************************)
(* benchmarks/benchmark_a.py: the loop of main over models and variants,   *)
(* the process it spawns per variant on device=tensorrt (the same main,    *)
(* narrowed to one model and export mode), the graph it exports or finds   *)
(* in _models/, the lanes of run_benchmark_a and the two reports of a      *)
(* variant.  A lane is one step: what it measures is in module Pipeline.   *)
(***************************************************************************)
EXTENDS Integers, Sequences, SequencesExt, FiniteSets

CONSTANTS
    Models,       \* --models, in order
    EndToEnd,     \* the models with a trained NMS-free head
    MaxFaults     \* bound on what goes wrong in one invocation

ASSUME ModelsAssumption ==
    /\ Models \in Seq(ToSet(Models))
    /\ EndToEnd \subseteq ToSet(Models)
    /\ MaxFaults \in Nat

VARIABLES
    args,      \* the command line
    pts,       \* models whose .pt can be found
    disk,      \* _models/, and the exports next to the .pt, by file name
    docs,      \* benchmark_a_*.json, in order of writing
    gaveUp,    \* variants passed over by a `continue` in main
    faults,    \* what has gone wrong so far
    proc       \* the process of the command, and that of a variant

vars == <<args, pts, disk, docs, gaveUp, faults, proc>>

Devices == {"cpu", "cuda", "tensorrt", "coreml"}

\* --int8-fp16-fallback only comes with --int8.
Precisions == {"fp32", "fp16", "int8", "int8-fp16-fallback"}

Modes == {"classic", "nmsfree"}

\* parser.error: FP16 not on cpu, INT8 on tensorrt alone.
Accepted(a) ==
    /\ a.precision = "fp16" => a.device # "cpu"
    /\ a.precision \notin {"fp32", "fp16"} => a.device = "tensorrt"

\* The command lines that change which processes, graphs and lanes there are.
ArgsType ==
    {a \in [device : Devices, precision : Precisions, noIsolate : BOOLEAN,
            skipUltPt : BOOLEAN, skipYv : BOOLEAN, session : BOOLEAN,
            only : Modes \cup {"any"}] : Accepted(a)}

\* _get_variants
ModesOf(m) == IF m \in EndToEnd THEN <<"classic", "nmsfree">> ELSE <<"classic">>

Variant(m, md) == [model |-> m, mode |-> md]

Requested ==
    {v \in [model : ToSet(Models), mode : Modes] :
        /\ v.mode \in ToSet(ModesOf(v.model))
        /\ args.only \in {"any", v.mode}}

-----------------------------------------------------------------------------
(* Graphs, and the names they are kept under.                              *)

\* The graph a format of a variant asks for under the command line a.
GraphOf(a, v, fmt) ==
    [variant |-> v, fmt |-> fmt,
     precision |->
        CASE fmt = "engine" -> a.precision
          [] fmt = "onnx" /\ a.device = "cuda" -> a.precision
          [] fmt = "mlpackage" -> "fp16"
          [] OTHER -> "fp32"]

\* Mutant: the mode is left out of the name.
NameWithoutMode(g) == [g EXCEPT !.variant.mode = "classic"]

\* The file name: stem, mode and precision tag; "-int8" with and without the
\* FP16 fallback.
NameOf(g) ==
    [g EXCEPT !.precision = IF @ = "int8-fp16-fallback" THEN "int8" ELSE @]

\* What model.export writes, next to the .pt: neither mode nor precision.
ScratchOf(g) ==
    [variant |-> Variant(g.variant.model, ""), fmt |-> g.fmt, precision |-> ""]

File(g) == [name |-> NameOf(g), graph |-> g, whole |-> TRUE]

Written(name, g, whole) ==
    {f \in disk : f.name # name} \cup {[name |-> name, graph |-> g, whole |-> whole]}

Cached(g) == \E f \in disk : f.name = NameOf(g)

Loaded(g) == (CHOOSE f \in disk : f.name = NameOf(g)).graph

\* What run_benchmark_a exports before its lanes.
MainFormat == IF args.device = "tensorrt" THEN "engine" ELSE "onnx"

-----------------------------------------------------------------------------
(* Lanes.                                                                  *)

When(cond, lane) == IF cond THEN <<lane>> ELSE <<>>

\* Mutant: the proxy lane runs ahead of the engine's.
LanesProxyFirst ==
    IF args.device = "tensorrt"
    THEN When(~args.skipYv, "yv-tensorrt") \o <<"ult-engine">>
    ELSE <<"ult-onnx">>

Lanes ==
    (CASE args.device = "tensorrt" ->
             When(~args.skipUltPt, "ult-pt") \o <<"ult-engine">>
                 \o When(~args.skipYv, "yv-tensorrt")
       [] args.device = "coreml" ->
             <<"ult-onnx", "ult-coreml", "yv-torch", "yv-numpy">>
       [] OTHER ->
             When(~args.skipUltPt, "ult-pt")
                 \o <<"ult-onnx", "yv-torch", "yv-numpy">>)
    \o When(args.session, "edgefirst-profiler")

FormatOf(lane) ==
    CASE lane \in {"ult-onnx", "yv-torch", "yv-numpy"} -> "onnx"
      [] lane \in {"ult-engine", "yv-tensorrt"} -> "engine"
      [] lane = "ult-coreml" -> "mlpackage"
      [] lane = "ult-pt" -> "pt"
      [] OTHER -> "studio"

Exported == {"onnx", "engine", "mlpackage"}

\* Lanes that run PyTorch on the GPU next to a pycuda context.
OnPyTorch == {"ult-pt", "ult-engine"}

-----------------------------------------------------------------------------
(* Processes.                                                              *)

Procs == {"main", "worker"}

Over == {"exit0", "exit1", "crashed", "killed"}

None == [none |-> TRUE]

\* A fresh interpreter about to loop over ms.
Fresh(ms) ==
    [at |-> "models", todo |-> ms, model |-> "", modes |-> <<>>, mode |-> "",
     building |-> None, results |-> <<>>, pycuda |-> FALSE, failed |-> {}]

Off == [Fresh(<<>>) EXCEPT !.at = "off"]

\* --only-export-mode of a process.
OnlyMode(p) == IF p = "main" THEN args.only ELSE proc["main"].mode

Orchestrate(p) ==
    /\ args.device = "tensorrt"
    /\ ~args.noIsolate
    /\ OnlyMode(p) = "any"

Current(p) == Variant(proc[p].model, proc[p].mode)

Wanted(p) == GraphOf(args, Current(p), MainFormat)

Fault == faults < MaxFaults /\ faults' = faults + 1

Init ==
    /\ args \in ArgsType
    /\ pts \in SUBSET ToSet(Models)
    \* An earlier invocation with some precision left its graphs.
    /\ \E q \in Precisions, vs \in SUBSET Requested :
          LET a == [args EXCEPT !.precision = q]
          IN  a \in ArgsType
              /\ disk = {File(GraphOf(a, v, MainFormat)) : v \in vs}
    /\ docs = <<>>
    /\ gaveUp = {}
    /\ faults = 0
    /\ proc = [main |-> Fresh(Models), worker |-> Off]

-----------------------------------------------------------------------------
(* main: models.                                                           *)

NextModel(p) ==
    /\ proc[p].at = "models"
    /\ proc[p].todo # <<>>
    /\ proc' = [proc EXCEPT ![p].at = "locate",
                            ![p].model = Head(proc[p].todo),
                            ![p].todo = Tail(@)]
    /\ UNCHANGED <<args, pts, disk, docs, gaveUp, faults>>

\* The .pt is there, or the download brings it.
Locate(p) ==
    /\ proc[p].at = "locate"
    /\ pts' = pts \cup {proc[p].model}
    /\ proc' = [proc EXCEPT ![p].at = "variants"]
    /\ UNCHANGED <<args, disk, docs, gaveUp, faults>>

\* [ERROR] ... continue
PassOver(p) ==
    /\ gaveUp' = gaveUp \cup {v \in Requested : v.model = proc[p].model
                                          /\ OnlyMode(p) \in {"any", v.mode}}
    /\ proc' = [proc EXCEPT ![p].at = "models"]

\* Not found after the download, which may itself have raised: outside any try.
NotFound(p) ==
    /\ proc[p].at = "locate"
    /\ proc[p].model \notin pts
    /\ Fault
    /\ \/ PassOver(p)
       \/ /\ proc' = [proc EXCEPT ![p].at = "crashed"]
          /\ UNCHANGED gaveUp
    /\ UNCHANGED <<args, pts, disk, docs>>

\* The variants of the loop: one of the wrong mode is a `continue`.
Chosen(modes, only) ==
    IF only = "any" THEN modes
    ELSE IF only \in ToSet(modes) THEN <<only>> ELSE <<>>

GetVariants(p) ==
    /\ proc[p].at = "variants"
    /\ proc' = [proc EXCEPT ![p].at = "each",
                   ![p].modes = Chosen(ModesOf(proc[p].model), OnlyMode(p))]
    /\ UNCHANGED <<args, pts, disk, docs, gaveUp, faults>>

VariantsFail(p) ==
    /\ proc[p].at = "variants"
    /\ Fault
    /\ PassOver(p)
    /\ UNCHANGED <<args, pts, disk, docs>>

Finish(p) ==
    /\ proc[p].at = "models"
    /\ proc[p].todo = <<>>
    /\ proc' = [proc EXCEPT ![p].at =
                   IF proc[p].failed = {} THEN "exit0" ELSE "exit1"]
    /\ UNCHANGED <<args, pts, disk, docs, gaveUp, faults>>

-----------------------------------------------------------------------------
(* main: the variants of a model.                                          *)

\* _spawn_variant_worker, or run_benchmark_a in this process.
NextVariant(p) ==
    /\ proc[p].at = "each"
    /\ proc[p].modes # <<>>
    /\ LET me == [proc[p] EXCEPT !.mode = Head(proc[p].modes),
                                 !.modes = Tail(@),
                                 !.results = <<>>]
       IN  IF Orchestrate(p)
           THEN proc' = [main |-> [me EXCEPT !.at = "wait"],
                         worker |-> Fresh(<<me.model>>)]
           ELSE proc' = [proc EXCEPT ![p] = [me EXCEPT !.at = "setup"]]
    /\ UNCHANGED <<args, pts, disk, docs, gaveUp, faults>>

LastVariant(p) ==
    /\ proc[p].at = "each"
    /\ proc[p].modes = <<>>
    /\ proc' = [proc EXCEPT ![p].at = "models"]
    /\ UNCHANGED <<args, pts, disk, docs, gaveUp, faults>>

\* Mutant: only a positive return code counts.
ReapPositive ==
    /\ proc["main"].at = "wait"
    /\ proc["worker"].at \in Over
    /\ proc' = [main |-> [proc["main"] EXCEPT !.at = "each",
                   !.failed = IF proc["worker"].at \in {"exit0", "killed"}
                              THEN @ ELSE @ \cup {Current("main")}],
                worker |-> Off]
    /\ UNCHANGED <<args, pts, disk, docs, gaveUp, faults>>

\* Mutant: waits for the worker to report its end.
ReapReported ==
    /\ proc["main"].at = "wait"
    /\ proc["worker"].at \in Over \ {"killed"}
    /\ proc' = [main |-> [proc["main"] EXCEPT !.at = "each"],
                worker |-> Off]
    /\ UNCHANGED <<args, pts, disk, docs, gaveUp, faults>>

\* subprocess.run returns: a return code other than 0 is a failed variant.
Reap ==
    /\ proc["main"].at = "wait"
    /\ proc["worker"].at \in Over
    /\ proc' = [main |-> [proc["main"] EXCEPT !.at = "each",
                   !.failed = IF proc["worker"].at = "exit0" THEN @
                              ELSE @ \cup {Current("main")}],
                worker |-> Off]
    /\ UNCHANGED <<args, pts, disk, docs, gaveUp, faults>>

-----------------------------------------------------------------------------
(* run_benchmark_a.                                                        *)

\* "already exists, skipping export"
SkipExport(p) ==
    /\ proc[p].at = "setup"
    /\ Cached(Wanted(p))
    /\ proc' = [proc EXCEPT ![p].at = "lanes"]
    /\ UNCHANGED <<args, pts, disk, docs, gaveUp, faults>>

NextLane(p) == Lanes[Len(proc[p].results) + 1]

LaneGraph(p) == GraphOf(args, Current(p), FormatOf(NextLane(p)))

\* ult-coreml exports its own graph, within the lane.
LaneExports(p) ==
    /\ proc[p].at = "lanes"
    /\ Len(proc[p].results) < Len(Lanes)
    /\ NextLane(p) = "ult-coreml"

ToExport(p) == IF proc[p].at = "setup" THEN Wanted(p) ELSE LaneGraph(p)

\* Mutant: takes what an export before it left, and has it renamed.
ExportUnlessStaged(p) ==
    LET g == ToExport(p)
        staged == \E f \in disk : f.name = ScratchOf(g)
    IN  /\ proc[p].at = "setup" \/ LaneExports(p)
        /\ ~Cached(g)
        /\ ~proc[p].pycuda
        /\ disk' = IF staged THEN disk ELSE Written(ScratchOf(g), g, FALSE)
        /\ proc' = [proc EXCEPT ![p].at = IF staged THEN "rename" ELSE "export",
                                ![p].building = g]
        /\ UNCHANGED <<args, pts, docs, gaveUp, faults>>

\* model.export starts to write, over what an export before it left.
Export(p) ==
    /\ proc[p].at = "setup" \/ LaneExports(p)
    /\ ~Cached(ToExport(p))
    /\ ~proc[p].pycuda
    /\ disk' = Written(ScratchOf(ToExport(p)), ToExport(p), FALSE)
    /\ proc' = [proc EXCEPT ![p].at = "export", ![p].building = ToExport(p)]
    /\ UNCHANGED <<args, pts, docs, gaveUp, faults>>

\* It returns.
ExportEnds(p) ==
    /\ proc[p].at = "export"
    /\ disk' = Written(ScratchOf(proc[p].building), proc[p].building, TRUE)
    /\ proc' = [proc EXCEPT ![p].at = "rename"]
    /\ UNCHANGED <<args, pts, docs, gaveUp, faults>>

\* exported_path.rename(...)
Rename(p) ==
    /\ proc[p].at = "rename"
    /\ LET from == ScratchOf(proc[p].building)
           to == NameOf(proc[p].building)
       IN  disk' = {f \in disk : f.name \notin {from, to}}
                      \cup {[f EXCEPT !.name = to] : f \in {h \in disk : h.name = from}}
    /\ proc' = [proc EXCEPT ![p].at = "lanes", ![p].building = None]
    /\ UNCHANGED <<args, pts, docs, gaveUp, faults>>

\* What the lane loads.
LaneLoads(p) ==
    IF FormatOf(NextLane(p)) \in Exported /\ Cached(LaneGraph(p))
    THEN Loaded(LaneGraph(p)) ELSE LaneGraph(p)

LaneRuns(p) ==
    /\ proc[p].at = "lanes"
    /\ Len(proc[p].results) < Len(Lanes)
    /\ LaneExports(p) => Cached(LaneGraph(p))
    /\ ~(proc[p].pycuda /\ NextLane(p) \in OnPyTorch)
    /\ proc' = [proc EXCEPT
          ![p].results = Append(@, [lane |-> NextLane(p), ok |-> TRUE,
                                    on |-> LaneLoads(p)]),
          ![p].pycuda = @ \/ NextLane(p) = "yv-tensorrt"]
    /\ UNCHANGED <<args, pts, disk, docs, gaveUp, faults>>

\* An export of a lane's own, or of run_benchmark_a.
Converting(p) ==
    proc[p].at \in {"export", "rename"} /\ proc[p].building.fmt = "mlpackage"

Building(p) ==
    proc[p].at \in {"export", "rename"} /\ proc[p].building.fmt # "mlpackage"

\* The lane raises, its own export included, and its row holds the error: by
\* a fault, or because PyTorch meets the pycuda context
\* (CUDNN_STATUS_BAD_PARAM_STREAM_MISMATCH).
LaneFails(p) ==
    /\ \/ proc[p].at = "lanes" /\ Len(proc[p].results) < Len(Lanes)
       \/ Converting(p)
    /\ \/ Fault
       \/ proc[p].pycuda /\ NextLane(p) \in OnPyTorch /\ UNCHANGED faults
    /\ \E context \in IF NextLane(p) = "yv-tensorrt" THEN BOOLEAN ELSE {FALSE} :
          proc' = [proc EXCEPT
             ![p].at = "lanes",
             ![p].building = None,
             ![p].results = Append(@, [lane |-> NextLane(p), ok |-> FALSE,
                                       on |-> None]),
             ![p].pycuda = @ \/ context]
    /\ UNCHANGED <<args, pts, disk, docs, gaveUp>>

\* The Markdown report is written first; nothing reads it back.
WriteTable(p) ==
    /\ proc[p].at = "lanes"
    /\ Len(proc[p].results) = Len(Lanes)
    /\ proc' = [proc EXCEPT ![p].at = "json"]
    /\ UNCHANGED <<args, pts, disk, docs, gaveUp, faults>>

WriteJson(p) ==
    /\ proc[p].at = "json"
    /\ docs' = Append(docs, [variant |-> Current(p),
                             configs |-> proc[p].results])
    /\ proc' = [proc EXCEPT ![p].at = "each"]
    /\ UNCHANGED <<args, pts, disk, gaveUp, faults>>

\* Mutant: the try is around all the variants of the model.
RunRaisesPastModel(p) ==
    /\ proc[p].at \in {"setup", "json"} \/ Building(p)
    /\ Fault
    /\ proc' = [proc EXCEPT ![p].at = "models",
                            ![p].building = None,
                            ![p].failed = @ \cup {Current(p)}]
    /\ UNCHANGED <<args, pts, disk, docs, gaveUp>>

\* except Exception in main: the shadow, an export or a report raised.
RunRaises(p) ==
    /\ \/ /\ proc[p].at \in {"setup", "json"} \/ Building(p)
          /\ Fault
       \/ /\ proc[p].at = "lanes"
          /\ Len(proc[p].results) = Len(Lanes)
          /\ Fault
       \/ /\ proc[p].at = "setup"
          /\ proc[p].pycuda
          /\ ~Cached(Wanted(p))
          /\ UNCHANGED faults
    /\ proc' = [proc EXCEPT ![p].at = "each",
                            ![p].building = None,
                            ![p].failed = @ \cup {Current(p)}]
    /\ UNCHANGED <<args, pts, disk, docs, gaveUp>>

\* The kernel kills a process that is at work, for its memory.
Kill(p) ==
    /\ proc[p].at \notin Over \cup {"off", "wait"}
    /\ Fault
    /\ proc' = [proc EXCEPT ![p] = [@ EXCEPT !.at = "killed",
                                             !.building = None]]
    /\ UNCHANGED <<args, pts, disk, docs, gaveUp>>

-----------------------------------------------------------------------------

Work(p) ==
    \/ NextModel(p) \/ Locate(p) \/ NotFound(p) \/ GetVariants(p)
    \/ VariantsFail(p) \/ Finish(p) \/ NextVariant(p) \/ LastVariant(p)
    \/ SkipExport(p) \/ Export(p) \/ ExportEnds(p) \/ Rename(p)
    \/ LaneRuns(p) \/ LaneFails(p)
    \/ WriteTable(p) \/ WriteJson(p) \/ RunRaises(p)

Step == Reap \/ \E p \in Procs : Work(p)

Next == Step \/ \E p \in Procs : Kill(p)

Spec == Init /\ [][Next]_vars

FairSpec == Spec /\ WF_vars(Step)

-----------------------------------------------------------------------------
(* What a variant's report and the exit code are worth.                    *)

Done == {docs[k].variant : k \in 1 .. Len(docs)}

\* Ran to the end of main, SystemExit(1) included.
Ended == proc["main"].at \in {"exit0", "exit1"}

\* The CUDA context of yv-tensorrt dies before the next variant.
Isolated ==
    args.device = "tensorrt" => ~args.noIsolate /\ args.only = "any"

\* When main comes to its end every variant asked for has a JSON report, or
\* is listed as failed, or was passed over with an error: none is lost
\* because a worker died or another variant raised.
Accounted ==
    Ended => Requested = Done \cup proc["main"].failed \cup gaveUp

\* A variant that only the fault of another could have stopped is reported:
\* each fault costs one variant, or one model that is passed over.
FaultContained ==
    Ended /\ Isolated =>
        Cardinality((Requested \ Done) \ gaveUp)
            + Cardinality({v.model : v \in gaveUp}) <= faults

\* A report holds each lane of the device, once and in order, whatever
\* failed on the way; a lane that ran did so on the graph of its own variant,
\* exported with its export mode and under the precision tag asked for, also
\* when the graph was found on disk.
ReportFaithful ==
    \A k \in 1 .. Len(docs) :
        /\ [j \in 1 .. Len(docs[k].configs) |-> docs[k].configs[j].lane] = Lanes
        /\ \A j \in 1 .. Len(docs[k].configs) :
              LET r == docs[k].configs[j]
                  Tag(x) == IF x = "int8-fp16-fallback" THEN "int8" ELSE x
              IN  r.ok =>
                      /\ r.on.variant = docs[k].variant
                      /\ r.on.fmt = FormatOf(r.lane)
                      /\ r.on.fmt = "engine" =>
                            Tag(r.on.precision) = Tag(args.precision)

\* What stands under a name that skips the export is a complete graph of the
\* variant it is named for, although all exports of a model to a format write
\* to one path, and a process killed or an export that raised leaves there
\* what it had written.
CacheWhole ==
    \A f \in disk :
        f.name.variant.mode # "" => f.whole /\ f.name = NameOf(f.graph)

\* With isolation, PyTorch never starts in a process that holds the pycuda
\* context: neither a lane nor an export.
NoPoisonedStart ==
    [][\A p \in Procs :
          Isolated /\ proc[p].pycuda /\ proc'[p].at # "off" =>
              /\ \A k \in (Len(proc[p].results) + 1) .. Len(proc'[p].results) :
                    proc'[p].results[k].lane \notin OnPyTorch
              /\ proc'[p].at \notin {"setup", "export"}]_vars

\* The command ends, whatever happens to its workers.
Ends == <>(proc["main"].at \in Over)

=============================================================================
