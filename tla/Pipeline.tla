------------------------------- MODULE Pipeline -------------------------------
(***************************************************************************)
(* yolo_validator/pipeline.py: ValidationPipeline.run over a list of       *)
(* images, frame by frame or in batches, together with its two clients:    *)
(* yolo_validator/cli.py ("cli"), which scores against the whole ground    *)
(* truth, and run_yolo_validator of benchmarks/runners.py ("bench"), whose *)
(* predictions go to canonical_eval.  The lanes of boards whose runtime    *)
(* the pipeline cannot drive, benchmarks/hailo_infer.py and                *)
(* benchmarks/tflite_infer.py ("lane"), have a loop of their own: one      *)
(* frame at a time, no warmup, scored by canonical_eval.                   *)
(*                                                                         *)
(* An image is its place in the sorted listing, 1 .. cfg.n.  What the      *)
(* backend computes from a row of its input is named by the image in that  *)
(* row, what decoding does with a letterbox by the image it belongs to.    *)
(***************************************************************************)
EXTENDS Integers, Sequences, FiniteSets

CONSTANTS
    MaxImages,    \* longest listing
    MaxBatch      \* largest --batch and fixed batch dimension

ASSUME BoundsAssumption ==
    /\ MaxImages \in Nat \ {0}
    /\ MaxBatch \in Nat \ {0}

(***************************************************************************)
(* A run: who calls, the listing, the arguments, what getattr(backend,     *)
(* "input_batch", 1) gives (0 stands for None, a dynamic axis), the images *)
(* that do not decode, those without detections, and those the ground      *)
(* truth does not know.                                                    *)
(***************************************************************************)
RunConfigs(client, warmup, batch, inputBatch) ==
    [client : client, n : 0 .. MaxImages, warmup : warmup,
     batch : batch, inputBatch : inputBatch,
     unreadable : SUBSET (1 .. MaxImages),
     blank : SUBSET (1 .. MaxImages),
     unknown : SUBSET (1 .. MaxImages)]

\* The boards' scripts have neither a warmup nor a batch.
LaneConfigs == RunConfigs({"lane"}, {0}, {1}, {1})

Config ==
    RunConfigs({"cli", "bench"}, -1 .. (MaxImages + 1), 1 .. MaxBatch,
               0 .. MaxBatch)
        \cup LaneConfigs

VARIABLES
    cfg,         \* the run, never changes
    phase,       \* where `run` is
    pos,         \* images taken from the listing
    calls,       \* backend.run calls so far
    pending,     \* results of the last _infer_batch not yet handed over
    samples,     \* measured frames whose timings are in `samples`, in order
    predicted,   \* frames whose detections went to `predictions`, in order
    scoredOn     \* images the published metrics are computed over

vars == <<cfg, phase, pos, calls, pending, samples, predicted, scoredOn>>

Images == 1 .. cfg.n

\* max(0, warmup), cut at the end of the listing by the slice.
WarmupEnd ==
    IF cfg.warmup <= 0 THEN 0
    ELSE IF cfg.warmup <= cfg.n THEN cfg.warmup
    ELSE cfg.n

\* FrameResult: the path, whose output row was decoded, with whose letterbox,
\* and the backend call it came from.
Frame(p, row, lb) == [path |-> p, row |-> row, lb |-> lb, call |-> calls + 1]

FrameType == [path : Nat, row : Nat, lb : Nat, call : Nat]

Init ==
    /\ cfg \in Config
    /\ phase = "start"
    /\ pos = 0
    /\ calls = 0
    /\ pending = <<>>
    /\ samples = <<>>
    /\ predicted = <<>>
    /\ scoredOn = {}

-----------------------------------------------------------------------------
(* The clients: checks before the run, and the callbacks.                  *)

\* The runner and the boards' lanes only want some image.
BenchListingOk == cfg.n > 0

\* cli.main wants more images than warmup frames.
ListingOk ==
    BenchListingOk /\ (cfg.client = "cli" => cfg.n > cfg.warmup)

\* Mutant: no check of the batch size.
BatchUnchecked == TRUE

\* batch_size > 1 on a graph whose batch dimension is fixed at 1.
BatchOk == cfg.batch <= 1 \/ cfg.inputBatch # 1

Start ==
    /\ phase = "start"
    /\ phase' = IF ListingOk /\ BatchOk THEN "warmup" ELSE "rejected"
    /\ UNCHANGED <<cfg, pos, calls, pending, samples, predicted, scoredOn>>

\* A frame's detections join the predictions: the runner skips images that
\* are not in the ground truth.
Collect(f) ==
    predicted' = IF cfg.client = "bench" /\ f.path \in cfg.unknown
                 THEN predicted
                 ELSE Append(predicted, f)

-----------------------------------------------------------------------------
(* The loop of ValidationPipeline.run.                                     *)

\* The backend takes b rows: any number on a dynamic axis, else its own.
Accepts(b) == cfg.inputBatch \in {0, b}

\* Frames pos + 1 .. pos + b decode and go through the backend in one call.
Infers(b) ==
    /\ (pos + 1) .. (pos + b) \cap cfg.unreadable = {}
    /\ Accepts(b)

\* Mutants: warmup frames are timed; every client collects them.
WarmupTimed ==
    /\ phase = "warmup"
    /\ pos < WarmupEnd
    /\ Infers(1)
    /\ pos' = pos + 1
    /\ calls' = calls + 1
    /\ samples' = Append(samples, pos + 1)
    /\ IF cfg.client = "bench"
       THEN Collect(Frame(pos + 1, pos + 1, pos + 1))
       ELSE UNCHANGED predicted
    /\ UNCHANGED <<cfg, phase, pending, scoredOn>>

WarmupCollectedByAll ==
    /\ phase = "warmup"
    /\ pos < WarmupEnd
    /\ Infers(1)
    /\ pos' = pos + 1
    /\ calls' = calls + 1
    /\ Collect(Frame(pos + 1, pos + 1, pos + 1))
    /\ UNCHANGED <<cfg, phase, pending, samples, scoredOn>>

\* infer_one on a warmup frame; only the runner collects its detections.
WarmupFrame ==
    /\ phase = "warmup"
    /\ pos < WarmupEnd
    /\ Infers(1)
    /\ pos' = pos + 1
    /\ calls' = calls + 1
    /\ IF cfg.client = "bench"
       THEN Collect(Frame(pos + 1, pos + 1, pos + 1))
       ELSE UNCHANGED predicted
    /\ UNCHANGED <<cfg, phase, pending, samples, scoredOn>>

EndWarmup ==
    /\ phase = "warmup"
    /\ pos = WarmupEnd
    /\ phase' = "measure"
    /\ UNCHANGED <<cfg, pos, calls, pending, samples, predicted, scoredOn>>

\* batch_size <= 1: infer_one and _collect.
MeasureOne ==
    /\ phase = "measure"
    /\ cfg.client # "lane"
    /\ cfg.batch <= 1
    /\ pos < cfg.n
    /\ Infers(1)
    /\ pos' = pos + 1
    /\ calls' = calls + 1
    /\ samples' = Append(samples, pos + 1)
    /\ Collect(Frame(pos + 1, pos + 1, pos + 1))
    /\ UNCHANGED <<cfg, phase, pending, scoredOn>>

\* The loop of a board's lane: letterbox, invoke, decode by the graph's head,
\* records for the scorer and three stage times.  hailo_infer.py has the same.
LaneFrame ==
    /\ phase = "measure"
    /\ cfg.client = "lane"
    /\ pos < cfg.n
    /\ Infers(1)
    /\ pos' = pos + 1
    /\ calls' = calls + 1
    /\ samples' = Append(samples, pos + 1)
    /\ Collect(Frame(pos + 1, pos + 1, pos + 1))
    /\ UNCHANGED <<cfg, phase, pending, scoredOn>>

\* measured[i:i + batch_size]: the last slice may be short.
SliceLen ==
    IF cfg.batch <= cfg.n - pos THEN cfg.batch ELSE cfg.n - pos

\* Mutants: every row is decoded with the letterbox of the first; the next
\* batch is run before the last one is handed over.
InferFirstLetterbox ==
    /\ phase = "measure"
    /\ cfg.batch > 1
    /\ pending = <<>>
    /\ pos < cfg.n
    /\ Infers(SliceLen)
    /\ pending' = [j \in 1 .. SliceLen |-> Frame(pos + j, pos + j, pos + 1)]
    /\ pos' = pos + SliceLen
    /\ calls' = calls + 1
    /\ UNCHANGED <<cfg, phase, samples, predicted, scoredOn>>

InferAhead ==
    /\ phase = "measure"
    /\ cfg.batch > 1
    /\ pos < cfg.n
    /\ Infers(SliceLen)
    /\ pending' = pending \o
          [j \in 1 .. SliceLen |-> Frame(pos + j, pos + j, pos + j)]
    /\ pos' = pos + SliceLen
    /\ calls' = calls + 1
    /\ UNCHANGED <<cfg, phase, samples, predicted, scoredOn>>

\* _infer_batch: one call for the slice, then row j with letterbox j.
InferBatch ==
    /\ phase = "measure"
    /\ cfg.batch > 1
    /\ pending = <<>>
    /\ pos < cfg.n
    /\ Infers(SliceLen)
    /\ pending' = [j \in 1 .. SliceLen |-> Frame(pos + j, pos + j, pos + j)]
    /\ pos' = pos + SliceLen
    /\ calls' = calls + 1
    /\ UNCHANGED <<cfg, phase, samples, predicted, scoredOn>>

\* _collect on the results of the slice, one after the other.
CollectPending ==
    /\ phase = "measure"
    /\ pending # <<>>
    /\ pending' = Tail(pending)
    /\ samples' = Append(samples, Head(pending).path)
    /\ Collect(Head(pending))
    /\ UNCHANGED <<cfg, phase, pos, calls, scoredOn>>

\* What the next call of the loop would feed to the backend.
NextRows ==
    IF phase = "measure" /\ cfg.batch > 1 THEN SliceLen ELSE 1

\* decode_image or backend.run raises: nothing of the run is written.
Fails ==
    /\ \/ phase = "warmup" /\ pos < WarmupEnd
       \/ phase = "measure" /\ pending = <<>> /\ pos < cfg.n
    /\ ~Infers(NextRows)
    /\ phase' = "failed"
    /\ UNCHANGED <<cfg, pos, calls, pending, samples, predicted, scoredOn>>

-----------------------------------------------------------------------------
(* Scoring.                                                                *)

\* Images with at least one prediction record.
PredictedIds ==
    {predicted[k].path : k \in 1 .. Len(predicted)} \ cfg.blank

\* Mutant: the loop is left with results still in hand.
LeaveLoopEarly ==
    /\ phase = "measure"
    /\ pos = cfg.n
    /\ phase' = "written"
    /\ UNCHANGED <<cfg, pos, calls, pending, samples, predicted, scoredOn>>

\* The loop is over: the CLI writes its predictions to --output.
LeaveLoop ==
    /\ phase = "measure"
    /\ pending = <<>>
    /\ pos = cfg.n
    /\ phase' = "written"
    /\ UNCHANGED <<cfg, pos, calls, pending, samples, predicted, scoredOn>>

\* evaluate_coco keeps every image of the ground truth, warmup frames included.
EvaluatedByCli == Images \ cfg.unknown

\* canonical_eval restricts imgIds to the image ids found in the predictions.
Score ==
    /\ phase = "written"
    /\ cfg.client # "lane"
    /\ PredictedIds \cap cfg.unknown = {}
    /\ phase' = "done"
    /\ scoredOn' = IF cfg.client = "cli"
                   THEN EvaluatedByCli
                   ELSE PredictedIds
    /\ UNCHANGED <<cfg, pos, calls, pending, samples, predicted>>

\* A board's lane scores with canonical_eval, too, and writes a benchmark_a
\* document of its own, with the mean stage times over all images.
LaneScore ==
    /\ phase = "written"
    /\ cfg.client = "lane"
    /\ PredictedIds \cap cfg.unknown = {}
    /\ phase' = "done"
    /\ scoredOn' = PredictedIds
    /\ UNCHANGED <<cfg, pos, calls, pending, samples, predicted>>

\* COCO.loadRes refuses predictions on images the ground truth lacks.
ScoreRefused ==
    /\ phase = "written"
    /\ PredictedIds \cap cfg.unknown # {}
    /\ phase' = "failed"
    /\ UNCHANGED <<cfg, pos, calls, pending, samples, predicted, scoredOn>>

Finished ==
    /\ phase \in {"rejected", "failed", "done"}
    /\ UNCHANGED vars

Step ==
    \/ Start
    \/ WarmupFrame
    \/ EndWarmup
    \/ MeasureOne
    \/ LaneFrame
    \/ InferBatch
    \/ CollectPending
    \/ Fails
    \/ LeaveLoop
    \/ Score
    \/ LaneScore
    \/ ScoreRefused

Next == Step \/ Finished

Spec == Init /\ [][Next]_vars

\* One thread that never waits for another.
FairSpec == Spec /\ WF_vars(Step)

-----------------------------------------------------------------------------
(* Properties.                                                             *)

\* Types; the position stays within the listing.
TypeOK ==
    /\ cfg \in Config
    /\ phase \in {"start", "warmup", "measure", "written",
                 "rejected", "failed", "done"}
    /\ pos \in 0 .. cfg.n
    /\ calls \in Nat
    /\ pending \in Seq(FrameType)
    /\ samples \in Seq(Nat)
    /\ predicted \in Seq(FrameType)
    /\ scoredOn \subseteq Nat

\* Frames handed to a callback or dropped as warmup so far.
Handled == pos - Len(pending)

\* Each measured frame gives one timing sample, in listing order, for any
\* batch size and a short last batch, and no warmup frame gives one.
TimedMeasuredOnce ==
    /\ \A k \in 1 .. Len(samples) : samples[k] = WarmupEnd + k
    /\ phase \in {"measure", "written", "done"} => Len(samples) = Handled - WarmupEnd
    /\ phase \in {"start", "warmup", "rejected"} => samples = <<>>

\* The images whose detections the client wants.
Wanted ==
    IF cfg.client = "bench" THEN Images \ cfg.unknown
    ELSE {p \in Images : p > WarmupEnd}

\* Of the frames handled so far each wanted one is in the predictions once,
\* in listing order, and no other is: the warmup frames are scored by the
\* runner (the same image set as Ultralytics) and left out by the CLI; a
\* board's lane has none and hands in every image.
PredictedOnce ==
    /\ \A j, k \in 1 .. Len(predicted) :
          j < k => predicted[j].path < predicted[k].path
    /\ {predicted[k].path : k \in 1 .. Len(predicted)} =
          {p \in Wanted : p <= Handled}

\* A batched frame is decoded from its own output row with its own letterbox.
OwnRowOwnLetterbox ==
    \A k \in 1 .. Len(predicted) :
        /\ predicted[k].row = predicted[k].path
        /\ predicted[k].lb = predicted[k].path

\* Frames are handed over before the backend runs again: what a result still
\* refers to in the backend's output is not overwritten, and at most a batch
\* of results is held.
HandedOverBeforeNextCall ==
    /\ \A k \in 1 .. Len(pending) : pending[k].call = calls
    /\ Len(pending) <= cfg.batch

\* Predictions are written and scored for complete runs only: each image of
\* the listing was timed or was a warmup frame, all the wanted detections are
\* there, and the metrics are over images the ground truth knows.
PublishedComplete ==
    phase \in {"written", "done"} =>
        /\ Len(samples) = cfg.n - WarmupEnd
        /\ {predicted[k].path : k \in 1 .. Len(predicted)} = Wanted
        /\ scoredOn \subseteq Images \ cfg.unknown

\* The results in hand are those of the last frames taken, in order.
PendingInOrder ==
    /\ \A k \in 1 .. Len(pending) :
          pending[k] = [path |-> Handled + k, row |-> Handled + k,
                        lb |-> Handled + k, call |-> calls]
    /\ phase # "measure" \/ cfg.batch <= 1 => pending = <<>>

\* How far each phase has got in the listing.
PhasePos ==
    /\ phase \in {"start", "rejected"} => pos = 0
    /\ phase = "warmup" => pos <= WarmupEnd
    /\ phase \in {"measure", "written", "done"} => WarmupEnd <= Handled
    /\ phase \in {"written", "done"} => pos = cfg.n
    /\ phase # "done" => scoredOn = {}

\* The inductive invariant.
RunInv ==
    /\ TypeOK
    /\ PendingInOrder
    /\ PhasePos
    /\ TimedMeasuredOnce
    /\ PredictedOnce
    /\ OwnRowOwnLetterbox
    /\ HandedOverBeforeNextCall
    /\ PublishedComplete

\* canonical_eval: "restrict to images we actually ran".
ScoredWhereRun ==
    phase = "done" /\ cfg.client # "cli" => scoredOn = Images \ cfg.unknown

\* On readable, known images a run that gets past the check of the batch size
\* is published, on a dynamic axis and on a batch dimension of one: no shape
\* fails half way through, and no result is waited for for ever.
CleanRunPublishes ==
    [](phase = "warmup" /\ cfg.inputBatch \in {0, 1} /\ cfg.unreadable = {}
           /\ cfg.unknown = {} => <>(phase = "done"))

=============================================================================
