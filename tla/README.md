# A verification model of yolo-validator

yolo-validator reproduces the Ultralytics YOLO validation pipeline without PyTorch, and its
`benchmarks/` measure models on many devices with it. Nothing of it is a protocol or a server, but a
full evaluation runs for hours on boards whose vendor runtimes crash, leaves its state in files that
the next run trusts, and reports numbers that nobody can check by eye. The modules here model that:
which images are run, timed, scored and reported, once each, whatever fails on the way; and what the
files left on disk are worth to the run that finds them.

The specifications are written in TLA+, checked with TLC on small instances, and the most important
safety properties of all the components modelled are proved with TLAPS for every value of the constants.
`PROJECT.json` lists the runs, the source lines behind every definition, the hazards, the theorems and,
for each property, a plausible bug that breaks it.

Contents: 1 Inventory · 2 Plan · 3 The modules and the code · 4 The runs · 5 Bounds · 6 Fairness ·
7 Proofs · 8 Only model-checked · 9 Findings · 10 Not modelled · 11 How to run.

## 1 Inventory

| part (source) | state it keeps | operations | what makes it correct |
|---|---|---|---|
| Validation pipeline, CLI, runner (`yolo_validator/pipeline.py`, `cli.py`, `benchmarks/runners.py`, `canonical_eval.py`) | position in the listing, timing samples, predictions, results in hand | warm up, measure frame by frame or by batch, hand over, write, score | each frame timed at most once, predicted once, decoded with its own geometry; nothing published of a part-done run |
| Ara2 orchestrator and worker (`benchmarks/ara2_infer.py`) | queue of ranges, attempt, partial files, counters | launch, reap, retry, split, abort, merge; in the worker: set up, warm up, infer, write | every image exactly once in the merge, whatever crashed; bounded work; an abort names the culprit |
| Ara2 runtime wrapper (`benchmarks/ara2_dvapi.py`) | native session, model, requests, shared output tensors | connect, load, submit, wait, unload, close, `__del__` | every native object given back once; outputs decoded are the call's own |
| Shadow COCO data set (`benchmarks/coco_dataset.py`) | links, label files, lists and yaml markers on disk | `setup_shadow`, `make_subset`, step by step | idempotent; a marker means complete, after crashes too |
| Benchmark A (`benchmarks/benchmark_a.py`) | exported graphs on disk, per-variant process, lane results, reports, exit code | loop over models and variants, spawn, export, lanes, reports | every variant accounted for; faults contained; each lane ran its own graph |
| Metrics store and readers (`benchmarks/normalize.py`, `aggregate.py`, `platforms.py`) | rows of a platform's metrics file | normalize (merge by precision), the readers' picks | a precision's rows are its last merge's; readers pick the row they mean |
| Studio comparison (`benchmarks/compare_edgefirst.py`, `studio_fetch.py`) | the cache file, fetches of a run | match sessions to lanes, fetch, cache, report | a number on a line is that session's own; the cache keeps its entries |
| Post-processing (`yolo_validator/nms.py`, `postprocess*.py`, `detections.py`) | candidates in order, kept detections | threshold, cap, suppress (greedy, OpenCV, Ultralytics', none), truncate, gather | what is kept follows from the definition; limits cut the tail only |
| Letterbox, images (`letterbox.py`, `preprocess*.py`, `imageio.py`) | none | scale, pad, shift boxes back, clip | borders fill the input; boxes undo exactly the border added |
| Masks and COCO records (`masks.py`, `coco_output.py`) | columns gathered, masks, records | make masks one by one or in a batch, serialize | one record per kept detection with its own score, class, box and mask; a mask lies in its box |
| Board lanes (`benchmarks/hailo_infer.py`, `tflite_infer.py`, `qnn_infer.py`) | position, predictions, phase timers | a loop over the images with the vendor's runtime, then scoring | as the pipeline |
| Backend selection, model spec (`yolo_validator/backends/`, constructors of `pipeline.py`) | the spec and the parts of the pipeline | load, guess the head, choose preprocessor, decoder, mask device | the right decoder for the model's outputs; what was asked for runs or is refused |
| TensorRT stream (`backends/tensorrt_backend.py`) | pinned and device buffers, four events, the stream | copy in, execute, copy out, synchronize | what a call returns, and its times, are its own frame's |
| Stage re-binning (`benchmarks/rebin.py`) | none | fold fine stages into reported ones | each fine stage counted in one reported stage |
| Export scripts (`benchmarks/export_tflite_int8.py`, `export_qnn.py`, `hailo_fetch_zoo.sh`, `run_jetson_trt.sh`) | files on disk | build or download unless the file exists | a file that is found is complete |
| Statistics (`_stats.py`), measurement scripts, committed metrics | none | tables, sums, prints | data |

**How they interact.** `benchmark_a.main` loops over models and variants; on `--device tensorrt` it starts
itself again as one process per variant. Each process calls `setup_shadow` (files that all later
processes share), exports the graphs that its lanes need (files, skipped if present) and runs the lanes:
a lane is `run_ultralytics` (third party) or `run_yolo_validator`, which drives `ValidationPipeline.run`
with callbacks that collect timings and COCO records, writes predictions and scores them with
`canonical_eval`. Boards without that toolchain have scripts of their own (Ara2, Hailo, TFLite, QNN) that
end in the same scoring and the same report format. `normalize` reads the report directories of one
precision and merges them into a platform's metrics file; `aggregate` and `compare_edgefirst` read that
file, the latter together with a catalog of Studio sessions, the Studio's API and a cache file. All the
interaction is by files and exit codes: there are no threads, locks or sockets of the project's own. The
one place where two things run at once is the TensorRT backend, whose host thread puts copies and the
execution on a CUDA stream and goes on while the device works them off.

**What is hard here.** Interleaving: buffers that the host and the device share. Guesses: the head of a
model from the size of its output, classes from the columns that are left. Partial failure: a worker killed in the vendor library, in or after its last
write, and the retry or the split of its range. Crash and restart: markers, caches and partial files that
a later process takes at face value. Stale state: output tensors reused across requests, a CUDA context
left by the previous lane, cache names that leave something out. Order: rows of a batch, results handed
over before the backend runs again, first or last match in the readers. Numeric edges: short last
batches, odd splits, odd pads, caps that bind. Long-running native resources given back by three
independent paths. `PROJECT.json` lists these places at their lines.

## 2 Plan

Order of the modules, most important behaviour first; what is done is marked.

1. **Ara2Infer** with the abstract **CoverageScheme** (every image once, or nothing): done, proved.
2. **Pipeline** (with its three kinds of client): done, proved.
3. **ShadowDataset** under crashes: done, proved.
4. **BenchmarkA** (orchestrator + worker processes + exporters): done, proved.
5. **MetricsStore**, then **StudioCompare** that EXTENDS it (the reader runs against a store that goes on
   changing): done, proved.
6. **DvapiWorker** (the vendor objects of one Ara2 worker; Ara2Infer's "worker raises / exits" in detail):
   done, proved.
7. **Decode** and **Letterbox** (pure algorithms as steps and operators, against a reference
   definition): done, proved.
8. **TensorRT** with the abstract **BackendProtocol** (each frame is answered from that frame, or the run
   ends): done, proved.
9. **ModelRouting** (from the model file and the arguments to the columns decoded), and **BackendRun**,
   which composes it with TensorRT: done, proved.
10. **MaskRecords**, which composes Decode and Letterbox (from the candidates of an image to its COCO
    records): done, proved.

Left, in this order:

11. New modules: *ExportCache* (`export_tflite_int8.py:70`, `hailo_fetch_zoo.sh`: skip if the file exists,
    against a copy or download cut short), *ValPhaseTimer* (`qnn_infer.py`: order of the validator's
    callbacks and what the phase summary needs of them) and *Rebin* (`rebin.py`: each fine stage in one
    reported stage).
12. A composition of DvapiWorker under Ara2Infer's orchestrator (`stage` of Ara2Infer as a refinement of
    DvapiWorker's places), and of BackendRun under Pipeline's loop.

Abstract specifications: CoverageScheme, for Ara2Infer, and BackendProtocol, for TensorRT. For the other components what is promised is
one predicate on the final state (`KeptByDefinition`, `PublishedComplete`, `CleanBuildComplete`,
`Accounted`), and an abstract machine would restate it.

## 3 The modules and the code

Every definition that models code has an entry in the `map` of `PROJECT.json` with the lines that it
stands for. Definitions that no specification uses (`KeyByChunkNumber`, `RetryForever`, `YamlFirst`,
`ReapPositive`, ...) are the plausible bugs that the `mutants` put in place of the definition after them;
each stands next to the definition that it would break.

### Ara2Infer, CoverageScheme (`benchmarks/ara2_infer.py`)

One worker runs at a time (`subprocess.call`), so the state is the orchestrator's (`phase`, `queue`, the
chunk in hand `job`, `attempt`, counters) and the worker's (`stage`, `warm`, `preds`); `partials` are the
files of the temporary directory, keyed by first image as in the code, each absent, torn or whole.
`PopChunk`, `LaunchWorker`, `ReapSuccess`, `RetryChunk`, `SplitChunk`, `AbortRun`, `Merge` and `Finalize`
are the branches of `orchestrate`; `WorkerSetup` to `WorkerExits` the steps of `worker`. `WorkerCrashes` is
the vendor library: once more than `HeapLife` inferences ran in the process it may die at any later point,
in and after the write of the partial too. `BadImages` cannot be decoded; `SetupMayFail` lets the session
fail to open. CoverageScheme is the promise: images are settled from the front; in the end the result
holds each of them once, or the run gives up with nothing published.

### DvapiWorker (`benchmarks/ara2_dvapi.py` as `ara2_infer.worker` uses it)

`alive` are the Python objects, `deleted` their flags, `releases` counts the calls into the library that
give a native object back: `CleanUp` is `free`/`unload`/`close` (guarded by the flag), reached from the
explicit call, the `with` block and `__del__` (`Finalize`). `status` is the request's state in the
library, `buffer` says which call's outputs the shared output tensors hold. The vendor library
is external: `LibraryCompletes` and `LibraryFails` may happen at any time while the request is queued,
after a timeout as well. `WaitReturns` follows `wait_for_completion`, which reports `DV_SUCCESS` for a
failed request.

### Pipeline (`pipeline.py`, `cli.py`, `runners.py`, `canonical_eval.py`, board lanes)

`cfg` is a run: listing length, warm-up, batch, batch dimension of the engine (0: dynamic), client, and
which images are unreadable, blank (no detection) or unknown to the ground truth. `WarmupFrame`,
`MeasureOne`, `InferBatch` and `CollectPending` are the loops of `ValidationPipeline.run`; each `Frame`
carries the output row, the letterbox and the backend call that it came from, so that a wrong pairing
shows. The client `cli` is `cli.main`, `bench` is `run_yolo_validator` (which also collects the warm-up
frames), `lane` the loops of `hailo_infer.run` and `tflite_infer.run`. `Fails` ends the run where
`infer_one` or the engine raises.

### ShadowDataset (`benchmarks/coco_dataset.py`)

Each step of `setup_shadow` and `make_subset` that leaves something on disk is an action; the loops over
files take one file per action, in any order where the code iterates over a directory. A process may
start with any arguments (`Calls`), die between two steps (`Crash`) or in the middle of a file write
(`CrashWriting`, which leaves the file torn); the next process finds what it left. Ultralytics'
`convert_coco` is external: it produces a label file for each annotated image in a temporary directory.
Assumed fixed between runs: the image directory and the ground truth.

### BenchmarkA (`benchmarks/benchmark_a.py`)

`proc["main"]` runs `main` with the user's arguments, `proc["worker"]` is the process started per variant
on `tensorrt` (same code, same actions, other arguments). `disk` holds exported graphs under the NAME the
code gives them (`NameOf`, which leaves out what the code's name leaves out) together with the graph that
really is inside. `Export` begins to write next to the checkpoint, at a path that all exports of a model to
a format share (`ScratchOf`), `ExportEnds` completes that file and `Rename` moves it to its name; the lane
`ult-coreml` takes the same three steps before it validates. A process killed or an export that raised
leaves the file there as it was, for the next export to write over. Faults (at most `MaxFaults`): a checkpoint that does not load, a lane or an export that
raises, a process killed. `pycuda` records that the process ran the TensorRT lane of yolo-validator,
after which PyTorch must not start there. Lanes on `yv-*` abstract a Pipeline run, `setup` a
ShadowDataset run.

### MetricsStore, StudioCompare (`normalize.py`, `aggregate.py`, `platforms.py`, `compare_edgefirst.py`, `studio_fetch.py`)

`dirs` are the report directories, one per precision, into which `Bench` adds a run's report or starts
afresh; `Normalize` translates a directory into rows in the order of the file names and replaces its
precision's rows in `file`. `AggregatePick` and `ComparePick` are the readers' choices among rows that fall
under one key. In StudioCompare one run of `compare_edgefirst` is `Start`, a `Fetch` or `FetchFails` per
session that the cache lacks, `SaveCache` and `Report`; the Studio publishes results meanwhile, the
process may be killed (in the write of the cache: torn), and `normalize` may rewrite the file between two
comparisons. The conversions of the client are kept where they lose something: an AP of 0.0 becomes
missing (`studio_fetch.py:180`), while the catalog's own numbers keep it; throughput only counts with stage
times.

### Decode, Letterbox (`nms.py`, `postprocess*.py`, `letterbox.py`, `preprocess.py`)

`score` and `near` (which anchors' boxes overlap more than the threshold) are chosen in `Init`: the
arithmetic that produces them is data. `path` is `greedy` (`nms_class_aware` and the lanes), `cv2`
(`cv2.dnn.NMSBoxesBatched`, which sorts, cuts to `top_k`, then suppresses), `torch` (Ultralytics'
`non_max_suppression`, as `postprocess_torch.py` calls it) or `e2e` (NMS-free heads). `Threshold`, `Cap`,
`Prune`, `KeepBest` and `Truncate` are the steps of a decoder. Letterbox holds `compute_letterbox` (a scale
is a fraction, a half may round either way), the integer rounding of the pads in tenths
(`round(pad - 0.1)` and `round(pad + 0.1)`), the device lanes' floor division, `unletterbox_boxes` with its
clipping, and which pixels a bilinear resize reads.

### MaskRecords (`postprocess*.py`, `masks.py`, `coco_output.py`)

One image from its candidates to its records. `cols` are the columns that the code holds of the candidates
(`anc_idx`, `cls_idx`, `sc`), and next to them, known to the model only, which candidate each row is.
`Decoding` is a step of Decode with its columns: `Found` lists them at the threshold, `Indexed` takes all of
them at the best, in any order (`argpartition`), and `Row` at the kept places, so that a row is put together
from what three layers of indices leave. `Gather` is the end of `decode`: the columns of all kept
candidates become the rows of `Detections`, boxes mapped back to the original image and, for the masks,
kept in input pixels. `MaskOne` is a round of `materialize_masks_numpy`, `MaskAll` is
`materialize_masks_torch`; `Serialize` a round of `detections_to_coco`, which matches masks to detections by
position. A mask is the pair of the anchor whose coefficients its logits come from and, per axis, the pixels
of the original image that can be set in it. Boxes are in half pixels of the input, so that an edge is on
and between pixel indices.

### TensorRT, BackendProtocol (`backends/tensorrt_backend.py`, `backends/__init__.py`)

`issued` and `done` count the operations of the call in hand that are on the stream and that the device has
worked off: 1 event, 2 copy in, 3 event, 4 execution, 5 event, one copy back per output, event. `Issue`
is the host, `RecordEvent`, `CopyIn`, `Execute` and `CopyOut` the device; `Synchronize` returns when the
device is through, `Return` copies the outputs. Buffers are allocated once, so their content, the frame it was computed
from, lives on from call to call. `execute_async_v3` may refuse without raising (`refused`): the code does
not look. The device may fail (`DeviceFails`), upon which the next call into CUDA raises.
`ServesProtocol` is the refinement: an answer is the frame asked for, the last computed one if the library
refused, or the run has raised.

### ModelRouting, BackendRun (`backends/`, `pipeline.py`, `preprocess.py`, `postprocess*.py`, `cli.py`)

A graph is its head, its sizes, the order of its axes, and whether it states its dimensions as numbers.
`LoadOnnx`, `LoadTensorRT` and `LoadRefused` are the constructors as far as they decide; `MakePreprocessor`,
`MakePostprocessor` and `ChooseMaskDevice` the constructor of the pipeline, with imports that fail as the
machine has it; `DecodeFrame` records which columns the chosen decoder takes for scores, class and
coefficients. `Serialize` raises for a class past the end of COCO's map. BackendRun runs the
frames through the backend: an `onnx` call returns, a `tensorrt` call is TensorRT's stream.

## 4 The runs

| run | question | properties | shows |
|---|---|---|---|
| `ara2_safety` | Is the merge exact under a library that may crash? Does splitting find the culprit? | `EveryImageOnce`, `CountersAddUp`, `WorkerBound`, `AbortNamesCulprit`, `SettledIsFinal`, `Terminates`, `Implements` | retries, odd splits, torn and stale partials never lose or repeat an image; work is bounded; an abort after inferences is at the one image that cannot be decoded; CoverageScheme is implemented |
| `dvapi_worker` | Are native objects given back once, are outputs the call's own? | `ReleasedOnce`, `OwnOutputs`, `CleanExit` | also with timeouts, late answers and a raise at any place; a failed request's stale decode is stated as the one exception |
| `pipeline_run` | Is every frame timed, predicted and published as it should? | `HandedOverBeforeNextCall`, `TimedMeasuredOnce`, `PredictedOnce`, `OwnRowOwnLetterbox`, `PublishedComplete`, `CleanRunPublishes` | for every warm-up, batch size and client, short last batches and bad images included |
| `pipeline_scored` | Is scoring restricted to the images that ran? | `ScoredWhereRun` (violated) | images without detections are left out |
| `shadow_crash` | Is the data set sound after crashes and reruns? | `MarkerLast`, `CleanBuildComplete`, `ForcedRebuildComplete`, `BuiltStaysUntouched` | the marker comes last, forced rebuilds repair, finished data sets are left alone |
| `shadow_labels` | Does what is returned have all its labels? | `LabelsComplete` (violated) | one crash in the move of the labels is never noticed |
| `benchmark_run` | Is every variant accounted for, from its own graph? | `Accounted`, `FaultContained`, `ReportFaithful`, `CacheWhole`, `NoPoisonedStart`, `Ends` | under two faults of any kind |
| `metrics_merge` | Do the readers see the rows they mean, and own numbers of own sessions? | `LastNormalizeOwns`, `AggregateNewest`, `ComparesClassicHead`, `LinesAreOwn`, `CacheEntriesStand` | merges in any order, two comparisons with a live Studio, kills and a torn cache |
| `metrics_owner` | Is each measurement filed once? | `FiledOnce` (violated) | on CoreML, merging again duplicates the FP32 anchors |
| `image_records` | Does every decoding path keep what its definition says, and is that what is written? | `KeptByDefinition`, `LimitsCutTheTail`, `RecordsOfKept`, `MaskFollowsBox` | ties included; limits cut the tail of the ranking only; each record is one candidate's through three layers of indices; a mask and its box agree to within a pixel or two of the input. Also evaluates the letterbox arithmetic and the category table |
| `backend_run` | Does a run decode the graph it loaded, with the parts asked for, from its own frames' outputs? | `ReadsOwnColumns`, `PartsAsAsked`, `PhasesAreOwn`, `AnswersAreOwn`, `ServesProtocol` | the head of every shape that exports have is told, a transposed classic one included; for all graphs around the heuristic's edges, all machines, and a stream that lags, refuses or fails |
| `decode_cv2` | Does the OpenCV path keep the greedy reference's set? | `IdenticalKeptSet` (violated) | `max_det` cuts candidates before the suppression |

The inductive invariants, types included, are proved for every instance (section 7), so the runs check
what follows from them and not the invariants themselves.

Deadlock is checked in all runs but `benchmark_run`: there the command ends (`proc["main"].at` in `Over`)
and nothing is left to do. The other modules with an end have a `Finished` or `Exited` stuttering disjunct
for exactly their final states, so that a run stuck anywhere else is reported.

## 5 Bounds, and why they are enough

- **ara2_safety** `N = 5`, `Chunk = 3`: chunks of 3 and 2, so the last chunk is short, 3 splits oddly into
  1 + 2, and 2 splits again. `Warmup = 1`, `HeapLife = 2`: a chunk of one with its warm-up (2 inferences)
  survives the library, longer ones may not, so a split can be needed for either reason. Image 1, in the
  middle of the first chunk, may be undecodable, and a setup may fail at any attempt.
- **dvapi_worker** `Calls = 4`, `Warmup = 1`: a failed or late request can be first, last and in between
  completed ones.
- **pipeline_run** `MaxImages = 4`, `MaxBatch = 3`: 4 = 3 + 1, 2 + 2, warm-ups from none to the whole
  listing; batch dimensions dynamic and fixed, equal and unequal to the batch. `FewSpecial` (MCPipeline)
  allows one special image of each kind and not all three kinds at once: they act on single frames.
- **shadow_crash** 3 images, 2 with labels, a subset of 2: a partial label set is neither empty nor
  complete, and the subset has an image without labels. Two crashes: one to leave debris, one in the
  repair. `crashes` is bounded by `MaxCrashes` in the guards of the crash actions only.
- **benchmark_run** two models of which one has two variants: a variant followed by one of its own model
  and by one of the next. `MaxFaults = 2` is the guard of the fault actions; `FewArgs` (MCBenchmarkA)
  leaves out flags where the device ignores them and more than one file cached at the start.
- **metrics_merge** `MaxRuns = 3` reports, so a directory can hold two runs of a variant while the other
  precision has one; both variants of one model (they share a key). Three sessions, of which two map to
  one lane, in catalogs of both orders. `MaxCompares = 2`: one writes the cache that the other reads. The
  comparisons start once both precisions are merged (`Compared`): before that they have less to match.
- **image_records** 4 candidates of distinct or equal scores `1..4`, all overlap graphs of three anchors;
  each limit (`TopK = 3`, `MaxNms = 3`, `MaxDet = 2`) binds and is exceeded by one or two, in one
  geometry. Then one pair of candidates in every geometry: an input of 5 by 4 pixels, so that one axis is
  odd and the two differ; images of every size up to 9 by 9 (larger, smaller and equal, thin ones, odd
  and even pads); box edges at every half pixel from -1 to 11, outside the input on both sides.
  `MaskFollowsBox` states the agreement that holds: no pixel of a mask lies more than one input pixel
  outside its record's box, none more than two inside it is missing.
- **backend_run** table sizes on both sides of the heuristic's limits (rows 21, 300, 1025, 8400; columns by
  1, 80 or 100 classes and 0 or 32 coefficients: 5 to 136), 100 classes being more than COCO's map has.
  `FewRows = 300` (the most detections of an end-to-end export, docstring of `infer_e2e`) and
  `ManyAnchors = 1025` say which of these sizes exports have; they are stated apart from the heuristic's
  own limits (`MaxRows`, `MaxCols`), so that a heuristic which draws the line elsewhere shows.
  Three `Calls` and two outputs: a refusal can be first (nothing computed yet), between and last, and
  outputs can be of two frames if the host reads too early. MCBackendRun lets the arguments that pick the
  decoder, those that pick the parts, and the engine files vary one group at a time, each with what the
  definitions that read it read besides.
## 6 Fairness

Fairness is assumed of the code's own sequential steps only: `WF(Worker \/ Orchestrator)` in Ara2Infer,
`WF(Step)` in Pipeline and BenchmarkA. Each process is a single-threaded program that takes its next step
unless it has ended, and a parent that waits in `subprocess.call` is resumed when its child ends; weak
fairness of the disjunction says no more. `WorkerCrashes` is a disjunct of `Worker`: what it adds to the
fair step is an alternative, never an obligation, since where it is enabled the worker's regular step is
as well, and the property must hold in both cases. `Kill` of BenchmarkA and the crashes of
ShadowDataset are under no fairness. In TensorRT and BackendRun the caller's thread (`HostStep`) and the
device (`Device`) are two parties, each weakly fair: the thread goes on when it can, and a stream that has
not failed is worked off, which is what `synchronize` relies on. `DeviceFails` is under none. With the two,
the liveness of BackendProtocol (a frame handed in is answered or raises) is checked. What fairness does rule out is a hang inside a call (a vendor
library that never returns; `subprocess.call` has no timeout at `ara2_infer.py:449`): `Terminates`, `Ends` and
`CleanRunPublishes` hold provided that calls return. CoverageScheme's fairness is implied by
Ara2Infer's (`Implements` is checked as a temporal property).

## 7 Proofs

The theorems about runs are of the form `Spec => []P` or `Spec => [][A]_vars`, for every value of the
constants that satisfies the module's named assumptions; the assumptions are evaluated by TLC in the runs.
Every safety property that a passing run checks is the subject of a theorem. Two things come back in
several proofs. A result about all sequences (what `FlattenSeq` or `Among` computes, that a greedy choice
exists) is proved by a least counterexample among natural numbers (`LeastNatural`, `SetInduction`,
`SeqInduction`): the property is made a SET of numbers or sequences, since the library's induction rules
take an operator that the provers cannot instantiate. And a model uses few operators per idea
(`Chosen`, `Among`), so that one lemma about each serves every step.

**Ara2Infer_proofs** (assumes `SizesAssumption`, `FaultAssumption`: positive sizes). `EveryImageOnce` is
not inductive: it speaks of the end. `IInv` adds why the end is right. The pending chunks, the one in
hand first, tile the interval from `Frontier` to `N` (`PendingTiles`), the whole files below the frontier
tile `0 .. Frontier-1` (`SettledTiles`), a file that a failed attempt left can only be at the frontier
itself (`StaleOnlyAtFrontier`, for the key is the first image only), and the worker in hand measures its
chunk in order (`WorkerInHand`). `ReapSuccess` then moves the frontier by one chunk; at `Merge` the frontier
is `N` and nothing is left above it. `WorkerBound` needs the cost accounting `WorkerCost`: each split
adds one pending chunk and each settled chunk at least one image, and `PendingRoom` (no more chunks than
images). `SettledIsFinalSafety` follows because writes go to `job.start`, which is the frontier.
`CountersAddUpSafety` adds the ledger of the orchestrator to `IInv`: workers started are settled files,
retries and the one at work, with the cardinality of the settled files growing by one at each success.
`AbortNamesCulpritSafety` has a hypothesis of its own, `HeapLife >= Min(Warmup, 1) + 1`: a library that
dies within the shortest run there is would make a single good image fail, and the code cannot tell.
`OrchestratorImplementsScheme` is the safety part of the refinement, merged document included: the sorted
partial files form a chain without gap or overlap, and `FlattenSeq` of a chain is the interval (`FlattenChain`,
`FlattenSteps`).

**DvapiWorker_proofs**. `DvInv` ties the number of releases to the flag (`FlagsTellReleases`: what is not
given back has a live object that will), describes which objects exist at each place of the `with` block
(`BlockStructure`), says that one request is outstanding at a time (`OneRequestAtATime`) and that the
shared tensors hold the newest completed call's outputs (`BufferFollowsCalls`). From these
`ReleasedOnce`, `OwnOutputs` and `CleanExit` (nothing given back after the disconnect unless the worker failed).

**Pipeline_proofs** (assumes `BoundsAssumption`). `RunInv` adds to the accounting properties what the loop
holds at each point: results in hand are exactly the last frames taken, with consecutive positions, rows
and letterboxes of one backend call (`PendingInOrder`, `HandedOverBeforeNextCall`), and how far each phase
has got (`PhasePos`). Then samples, predictions and position agree (`Handled`), and `PublishedComplete`
follows at the end of the listing.

**ShadowDataset_proofs** (assumes `DatasetAssumption`: at least one image, some annotation). `DiskInv` adds
what each step may rely on (`BuildProgress`: e.g. an unforced build past the check finds no marker) and, for
`CleanBuildComplete`, that without a crash nothing on disk is ever half done (`CleanHistory`).
`MarkerSafety` and `ForcedRebuildSafety` hold after any number of crashes; `IdempotenceSafety` is the action
property.

**BenchmarkA_proofs** (assumes `ModelsAssumption`: the models are a list, which may name one twice). `Inv` says
of each process what the variant in its hand is (`HandOf`), that the rows it has so far are those of the
first lanes, each on the variant's own graph and in the precision asked for (`RowsOf`), what its exit code
means (`ExitOf`), and that nothing it owes is lost: a variant asked for is done, failed, passed over or still
ahead of the loops (`Settles`; `AheadOf` reads what is ahead off the two loop lists and the place). A worker
owes the one variant that `main` waits for, and exists exactly while it waits (`Roles`), with one model and
one variant (`SingleOf`). `AccountedSafety` is `Settles` at the end, where nothing is ahead.
`FaultContainedSafety` needs `FaultsPaid`: each failed variant of `main` and each model passed over has
cost a fault of its own, and a worker in trouble has paid for the one to come. `DiskInv` (a graph lies under
the name of what asked for it, whole) rests on `StagedInv` (what a process is about to rename is the graph
it was building, written to its end, although others wrote to that path before) and gives
`CacheWholeSafety`, and with `RowsOf` and `DocsInv` `ReportFaithfulSafety`.
`NoPoisonedStartSafety`, an action property, rests on `CleanOf`: in an isolated process that holds the pycuda
context no lane with PyTorch is left, for none comes after `yv-tensorrt` (`LanesOrder`).

**StudioCompare_proofs** (assumes `LabelsAssumption`, `CatalogAssumption`), the metrics store and the
comparison. `StoreInv` has the documents of a directory in the order of their runs (`DirsOrdered`) and, where
no lane is filed under another precision, the rows of a precision in the order of the file names, then runs
(`FileOrdered`), equal to those of its last merge (`LastNormalizeOwns`). The order is why the readers find
what they mean: the newest run comes last for `AggregateNewestSafety`, the classic head before the NMS-free one
for `ComparesClassicHeadSafety`. `LabelsAssumption` states the reason: `sorted(glob(...))` puts `-classic`
before `-nmsfree`. `CompareInv` says that every number found or cached is what the Studio holds for that session
(`OwnEntries`), that each matched session is found or still to be fetched (`Covers`), that no key is matched
twice (`OnePerKey`), and that what was taken from the cache is all there (`Carried`). A comparison never
writes the store (`ComparisonReads`), and the store may be merged between comparisons, so `LinesAreOwn`
speaks of the rows in hand. `CacheEntriesStandSafety` is an action property.

**BackendRun_proofs**, the stream (assumes `TensorRTAssumption`). `AnswersAreOwn` speaks of the moment before `Return`
only. `TrtInv` says what every buffer holds for each position of the device in the stream (`InCall`), what
the work counted and the events recorded are (`PhaseCounts`), and that between calls the stream is empty
and the buffers hold the last answer (`BetweenCalls`); the last is what makes a refused execution return
exactly that. `StreamImplementsProtocol` maps each step to a step of BackendProtocol or a stutter.

**BackendRun_proofs**, the run (assumes `RoutingAssumption` and `ExportsAssumption`, too). Every step of a run leaves the stream alone or is a
step of it, so TensorRT's results carry over (`RunAnswersAreOwn`, `RunPhasesAreOwn`, `RunServesProtocol`).
`RouteInv` says what spec and parts are at each stage of the construction; `ColumnsAreOwn` (by `HeadIsTold`)
and `PartsAreAsAsked` follow for every size of graph, and for any limits of the heuristic that lie between
the sizes of end-to-end and of classic exports as `ExportsAssumption` states.

**MaskRecords_proofs**, the decoding (assumes `DecodeAssumption`). `DecodeInv` is a loop invariant: kept
candidates are sorted and free of overlap, no candidate left scores more than a kept one or overlaps it,
and each one that is neither was beaten by a kept one or lies beyond a cap. `ResultByDefinition` is its
end. `LimitsCutTheTailSafety` compares that end with greedy suppression of ALL candidates, which is a
CHOOSE: `GreedyExists` shows by induction down the scores that there is a set to choose. Take the best kept
candidate that the reference set lacks: a better one of that set suppresses it and was not kept, hence was
beaten by a kept one better still, which the reference set must have, too; but no two of it overlap. The three `Letterbox...`/`Mask...` theorems are integer arithmetic over the
rounding operators for every size, where the run evaluates inputs up to 64.

**MaskRecords_proofs**, the records (assumes `GeometryAssumption`, too). `RecordsDecode` shows that the
composition decodes as Decode does alone, so that the results above hold of it. `RecordsInv` is the
decoding's invariant with `ColumnsInv` (each row of the columns holds the anchor, class and score of
the one candidate it is of, and those in order or kept all have one; `RowIs` takes a row of `Detections` from it) and
`ListsInv`: rows, masks and records are each a function of the rows before them,
filled from the front. `RecordsAreKept` follows when the last record is sent. `MaskFollowsBoxSafety` is about
products of variables, which the provers do not do: `Mono`, `Cancel` and `DivBounds` state the three
facts about products and quotients it takes, `ScaleBound` bounds by less than a pixel of the input how far
rounding the resized size moves a point, `SourcesBound` places the two pixels a bilinear resize reads, and
`SpanFollowsEdges` compares the crop and the box along one axis with all terms opaque but linear.

## 8 Only model-checked

- Liveness: `Terminates`, `CleanRunPublishes` and `Ends`. Liveness and ENABLED are beyond the prover.
- The fairness parts of the refinements `Implements` and `ServesProtocol`. Both are proved step by step
  (`OrchestratorImplementsScheme`, `StreamImplementsProtocol`, `RunServesProtocol`); that the abstract
  specification's WF is implied needs ENABLED of its next-state relation.
- `LimitsCutTheTail` and its theorem are about scores without ties (`NoTies`): with ties, what greedy
  suppression keeps depends on the order of equal scores, which the code leaves open. `KeptByDefinition` says
  what holds then as well, and is proved without the restriction.
- The violations of the four findings are TLC counterexamples.

## 9 Findings

1. `pipeline_scored` (doc and code): `canonical_eval.py:70` says "restrict to images we actually ran"; the
   set used is that of images with at least one detection (line 65), so blank images leave the
   evaluation together with their missed ground truth.
2. `shadow_labels` (doc and code): `coco_dataset.py:70` says "idempotent"; the conversion counts as done once
   one label file exists (line 120), so a crash in the move (156-159) leaves a shadow that all later
   unforced runs accept with part of its labels.
3. `metrics_owner` (bug): `normalize.py:99` says that a run owns one precision and fully replaces its rows; an
   FP16 or INT8 run also files FP32 anchors (line 90), which the next merge of the same directory keeps and
   adds again. `aggregate.py` then reads the last copy, `compare_edgefirst.py` the first.
4. `decode_cv2` (doc and code): `postprocess.py:75` promises the "identical kept set" and `nms.py:65` that
   `top_k=max_det` caps the output; OpenCV caps the input of the suppression (`nms.py:86`), so duplicates
   use up places of `max_det`.

### Observed divergences without a run

Seen while modelling; each is in the model as the code has it, or outside its scope. No run claims them.

- `benchmark_a.py:1046`, `1052`: a model whose checkpoint is missing or does not load is passed over with
  `continue`; the run ends with "All variants completed" (1102) and exit code 0. `Accounted` counts it as
  `gaveUp`, which is not part of the exit code.
- `benchmark_a.py:186`: an INT8 engine's name holds neither the FP16-fallback flag nor the calibration data it
  was built with, so `--precision int8` and `int8-fp16-fallback` share a cached engine (help at 887, docstring
  at 170). `NameOf` does the same; `ReportFaithful` therefore compares precision tags.
- `benchmark_a.py:321`: the Markdown table has no rows for the lanes `ult-engine` and `yv-tensorrt`.
- `benchmark_a.py:999`: `--only-export-mode` turns the per-variant isolation off (hence `Isolated`).
- `normalize.py:90`: with `--half` on CUDA, `ult-pt` and `ult-onnx` are filed as FP32.
- `ara2_dvapi.py:2787`: `wait_for_completion` returns `DV_SUCCESS` for a request that the library calls failed,
  and its outputs, an earlier image's, are decoded. `OwnOutputs` states this as its one exception.
- `ara2_infer.py:394` says that unloading after the disconnect double-frees; on failing paths `__del__` does
  unload then. `CleanExit` and `LateOnlyOnFailure` limit this to workers that fail anyway.
- `hailo_infer.py:220` says that NumpyPostprocessor is reused; `nms_class_aware` is.
- `studio_fetch.py:180`: `AP or None` turns an AP of 0.0 into a missing one, while `edgefirst_from_catalog` keeps
  it. `compare_edgefirst.py:190`: failed fetches and sessions not yet evaluated stay in the cache until
  `--refresh`.
- `coco_dataset.py:106`: `exists()` of a dangling link is false, so `symlink_to` then fails; it cannot arise with
  fixed image directories.
- `backends/__init__.py:42`: the heuristic takes a classic output with few anchors (an `imgsz` up to 32: 21
  rows) for an end-to-end one, and an end-to-end export with dynamic dimensions for a classic one.
  `TellingShape` says which shapes exports have by the docstring's sizes, not by the heuristic's limits;
  within them the head must be told right, outside them nothing is claimed. A transposed classic head, which
  the docstring (line 32) speaks of, is told from an end-to-end one (first conjunct of `ReadsOwnColumns`), but
  no decoder reads it, so `Supported` leaves it out of the second.
- `--task detect` on a classic graph with a mask branch: the coefficients are counted as classes
  (`postprocess.py:53`), and class numbers past 79 raise an IndexError in `coco_output.py:45`. `--task
  segment` on a detection graph scores records without masks as `segm`.
- `tensorrt_backend.py:109`: the result of `execute_async_v3` is ignored; a refused call is answered with the
  previous frame's outputs. `AnswerRefused` of BackendProtocol states it.
- `tensorrt_backend.py` has no `provider`, so on TensorRT masks are made on MPS or the CPU, although
  `pipeline.py:79` says "cuda on NVIDIA".
- `pipeline.py:100-103`: the device times of a call are stored under keys that `STAGES` does not have, and so
  are never reported.
- `postprocess.py:92`: an end-to-end head ignores `--postprocess torch`, with Torch missing, too. With "auto" and Torch
  but no Ultralytics, preprocessing is by Torch and decoding by NumPy, without a word.
- `cli.py:95`: the CLI's warm-up images have no predictions but are scored (`EvaluatedByCli`).
- `cli.py:51`: image ids of names that are no numbers are CRC-32 values and may collide; the CLI takes no
  notice.

## 10 Not modelled, and why

- Pixels, scores, logits and their floating-point algebra (resampling weights, IoU, DFL, mask coefficients,
  dequantization, run-length encoding): data, checked bit by bit against Ultralytics in the repository's tests.
- The vendor runtimes, PyTorch, Ultralytics, OpenCV and pycocotools: external, modelled from their use.
- The JSON-RPC transport, the wording and layout of reports, logging, timings as numbers (only which
  frame is timed), averages.
- A directory changed during a run (`ara2_infer.py:315` lists it once per process): nothing in the code or its
  documents provides for it. Hangs: see section 6. A crash in the write of the metrics file
  (`normalize.py:111`): the file is under version control and restored from there.
- Statistics, the measurement scripts and committed metrics: no state of their own.
- The export scripts, the QNN lane and re-binning: planned (section 2).

## 11 How to run

    tlc -workers 2 -config Ara2Infer_safety.cfg MCAra2Infer      # and so on, see PROJECT.json
    tlapm Ara2Infer_proofs.tla                                   # and the seven other *_proofs modules

Every run ends within a minute or two; the largest are `image_records` (1,489,300 distinct states),
`benchmark_run` (812,620) and `metrics_merge` (548,813).
