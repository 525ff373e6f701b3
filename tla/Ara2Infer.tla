------------------------------ MODULE Ara2Infer ------------------------------
(***************************************************************************)
(* benchmarks/ara2_infer.py: evaluation of one compiled model on the Ara2  *)
(* NPU.  The vendor library corrupts its heap after a number of sequential *)
(* inferences, so `orchestrate` cuts the image list into chunks and runs   *)
(* each chunk in a worker process of its own (`worker`), one at a time.  A *)
(* worker leaves its detections in a partial file named by the chunk's     *)
(* FIRST image only; a chunk that fails twice is split in two and          *)
(* re-queued; when the queue is empty every partial file found in the      *)
(* directory is merged and the result is scored.                           *)
(*                                                                         *)
(* The images are 0 .. N-1, in the order of the sorted listing that both   *)
(* processes compute.  An image number in a sequence of predictions stands *)
(* for all the detections and all the timing samples of that image.        *)
(***************************************************************************)
EXTENDS Integers, Sequences, FiniteSets, SequencesExt

CONSTANTS
    N,              \* len(images)
    Chunk,          \* --chunk
    Warmup,         \* --warmup
    NoEval,         \* --no-eval
    HeapLife,       \* inferences a process survives for sure (the library)
    SetupMayFail,   \* may connecting or loading the model fail
    BadImages       \* images a worker may not get through (cv2.imread gives
                    \* None, the NPU refuses the frame)

ASSUME SizesAssumption ==
    /\ N \in Nat \ {0}
    /\ Chunk \in Nat \ {0}
    /\ Warmup \in Nat

ASSUME FaultAssumption ==
    /\ NoEval \in BOOLEAN
    /\ HeapLife \in Nat
    /\ SetupMayFail \in BOOLEAN
    /\ BadImages \subseteq 0 .. (N - 1)

Image == 0 .. (N - 1)

MinOf(a, b) == IF a <= b THEN a ELSE b

(***************************************************************************)
(* A chunk of the queue, and what a partial file can hold: nothing yet, a  *)
(* file cut short between open and write, or the whole JSON text.          *)
(***************************************************************************)
Job == [start : Image, count : 1 .. N]

PartialFile == [state : {"none", "torn", "whole"}, preds : Seq(Image)]

NoFile == [state |-> "none", preds |-> <<>>]
TornFile == [state |-> "torn", preds |-> <<>>]
WholeFile(ps) == [state |-> "whole", preds |-> ps]

VARIABLES
    phase,       \* where `orchestrate` is
    queue,       \* the chunks still to run
    job,         \* the chunk popped last: start, count
    attempt,     \* 1 or 2
    workersRun,  \* workers_run
    retries,     \* retries
    stage,       \* where the worker process is
    warm,        \* warmup inferences the worker has done
    preds,       \* images the worker has measured, in order
    partials,    \* the partial files on disk, by first image
    merged       \* the merged document

vars == <<phase, queue, job, attempt, workersRun, retries,
          stage, warm, preds, partials, merged>>

orchVars == <<phase, queue, job, attempt, workersRun, retries, merged>>
workerVars == <<stage, warm, preds>>

-----------------------------------------------------------------------------
(* The initial queue: one chunk per multiple of Chunk below N.             *)

NChunks == (N + Chunk - 1) \div Chunk

InitialQueue ==
    [k \in 1 .. NChunks |->
        [start |-> (k - 1) * Chunk,
         count |-> MinOf(Chunk, N - (k - 1) * Chunk)]]

NoDoc == [state |-> "none", preds |-> <<>>, n_images |-> 0,
          chunks |-> 0, chunk_retries |-> 0]

Init ==
    /\ phase = "pick"
    /\ queue = InitialQueue
    /\ job = [start |-> 0, count |-> 1]
    /\ attempt = 1
    /\ workersRun = 0
    /\ retries = 0
    /\ stage = "none"
    /\ warm = 0
    /\ preds = <<>>
    /\ partials = [s \in Image |-> NoFile]
    /\ merged = NoDoc

-----------------------------------------------------------------------------
(* The worker process.                                                     *)

\* Mutant: partial files numbered by chunk.
KeyByChunkNumber == job.start \div Chunk

\* --partial-out: partial_{start:06d}.json, whatever the chunk's length.
PartialKey == job.start

WarmupRuns == MinOf(Warmup, job.count)

\* The library's heap is intact for HeapLife inferences; past that any call
\* into it, or the exit of the process, may abort.
HeapMayBeCorrupt == warm + Len(preds) > HeapLife

WorkerSetup ==
    /\ stage = "setup"
    /\ stage' = "infer"
    /\ UNCHANGED <<orchVars, warm, preds, partials>>

\* The proxy refuses the connection, no endpoint, a load failure or an
\* unrecognized output layout: SystemExit.
WorkerSetupFails ==
    /\ SetupMayFail
    /\ stage = "setup"
    /\ stage' = "failed"
    /\ UNCHANGED <<orchVars, warm, preds, partials>>

\* The image infer_one works on next: the warmup walks the first images of
\* the chunk, the measured loop starts again from its first image.
NextImage ==
    job.start + (IF warm < WarmupRuns THEN warm ELSE Len(preds))

\* infer_one(p) without lists, unmeasured.
WorkerWarmup ==
    /\ stage = "infer"
    /\ warm < WarmupRuns
    /\ warm' = warm + 1
    /\ UNCHANGED <<orchVars, stage, preds, partials>>

\* infer_one(p, timings, preds).
WorkerInfer ==
    /\ stage = "infer"
    /\ warm = WarmupRuns
    /\ Len(preds) < job.count
    /\ preds' = Append(preds, NextImage)
    /\ UNCHANGED <<orchVars, stage, warm, partials>>

\* infer_one raises: the traceback ends the process.
WorkerRaises ==
    /\ stage = "infer"
    /\ warm < WarmupRuns \/ Len(preds) < job.count
    /\ NextImage \in BadImages
    /\ stage' = "failed"
    /\ UNCHANGED <<orchVars, warm, preds, partials>>

\* model.unload(), the session closes, partial_out is opened for writing.
WorkerOpenPartial ==
    /\ stage = "infer"
    /\ warm = WarmupRuns
    /\ Len(preds) = job.count
    /\ stage' = "writing"
    /\ partials' = [partials EXCEPT ![PartialKey] = TornFile]
    /\ UNCHANGED <<orchVars, warm, preds>>

WorkerWritePartial ==
    /\ stage = "writing"
    /\ stage' = "written"
    /\ partials' = [partials EXCEPT ![PartialKey] = WholeFile(preds)]
    /\ UNCHANGED <<orchVars, warm, preds>>

WorkerExits ==
    /\ stage = "written"
    /\ stage' = "ok"
    /\ UNCHANGED <<orchVars, warm, preds, partials>>

\* An abort of the process at any point after the model is loaded, down to
\* the teardown of the library when the file is already written.
WorkerCrashes ==
    /\ stage \in {"infer", "writing", "written"}
    /\ HeapMayBeCorrupt
    /\ stage' = "failed"
    /\ UNCHANGED <<orchVars, warm, preds, partials>>

Worker ==
    \/ WorkerSetup
    \/ WorkerSetupFails
    \/ WorkerWarmup
    \/ WorkerInfer
    \/ WorkerRaises
    \/ WorkerOpenPartial
    \/ WorkerWritePartial
    \/ WorkerExits
    \/ WorkerCrashes

-----------------------------------------------------------------------------
(* The orchestrator.                                                       *)

PopChunk ==
    /\ phase = "pick"
    /\ queue # <<>>
    /\ job' = Head(queue)
    /\ queue' = Tail(queue)
    /\ attempt' = 1
    /\ phase' = "launch"
    /\ UNCHANGED <<workersRun, retries, merged, workerVars, partials>>

LaunchWorker ==
    /\ phase = "launch"
    /\ workersRun' = workersRun + 1
    /\ phase' = "running"
    /\ stage' = "setup"
    /\ warm' = 0
    /\ preds' = <<>>
    /\ UNCHANGED <<queue, job, attempt, retries, merged, partials>>

\* Mutant: the worker's return code is not looked at.
ReapAnyExit ==
    /\ phase = "running"
    /\ stage \in {"ok", "failed"}
    /\ stage' = "none"
    /\ phase' = "pick"
    /\ UNCHANGED <<queue, job, attempt, workersRun, retries, merged,
                   warm, preds, partials>>

ReapSuccess ==
    /\ phase = "running"
    /\ stage = "ok"
    /\ stage' = "none"
    /\ phase' = "pick"
    /\ UNCHANGED <<queue, job, attempt, workersRun, retries, merged,
                   warm, preds, partials>>

\* Mutant: no limit on the attempts.
RetryForever ==
    /\ phase = "running"
    /\ stage = "failed"
    /\ stage' = "none"
    /\ retries' = retries + 1
    /\ phase' = "launch"
    /\ UNCHANGED <<queue, job, attempt, workersRun, merged, warm, preds, partials>>

\* Mutant: a failed worker whose file is there is waited for.
RetryUnlessWritten ==
    /\ phase = "running"
    /\ stage = "failed"
    /\ attempt = 1
    /\ IF partials[PartialKey].state = "whole" THEN UNCHANGED vars
       ELSE /\ stage' = "none"
            /\ retries' = retries + 1
            /\ attempt' = 2
            /\ phase' = "launch"
            /\ UNCHANGED <<queue, job, workersRun, merged, warm, preds, partials>>

RetryChunk ==
    /\ phase = "running"
    /\ stage = "failed"
    /\ attempt = 1
    /\ stage' = "none"
    /\ retries' = retries + 1
    /\ attempt' = 2
    /\ phase' = "launch"
    /\ UNCHANGED <<queue, job, workersRun, merged, warm, preds, partials>>

\* Mutant: both halves rounded down.
HalvesRoundedDown(j) ==
    LET half == j.count \div 2
    IN  <<[start |-> j.start, count |-> half],
          [start |-> j.start + half, count |-> half]>>

Halves(j) ==
    LET half == j.count \div 2
    IN  <<[start |-> j.start, count |-> half],
          [start |-> j.start + half, count |-> j.count - half]>>

\* Mutant: a failure that leads to a split is not counted.
SplitUncounted ==
    /\ phase = "running"
    /\ stage = "failed"
    /\ attempt = 2
    /\ job.count > 1
    /\ stage' = "none"
    /\ queue' = Halves(job) \o queue
    /\ phase' = "pick"
    /\ UNCHANGED <<job, attempt, workersRun, retries, merged,
                   warm, preds, partials>>

SplitChunk ==
    /\ phase = "running"
    /\ stage = "failed"
    /\ attempt = 2
    /\ job.count > 1
    /\ stage' = "none"
    /\ retries' = retries + 1
    /\ queue' = Halves(job) \o queue
    /\ phase' = "pick"
    /\ UNCHANGED <<job, attempt, workersRun, merged, warm, preds, partials>>

\* Mutant: a chunk of any length that fails twice ends the run.
AbortAnyLength ==
    /\ phase = "running"
    /\ stage = "failed"
    /\ attempt = 2
    /\ stage' = "none"
    /\ retries' = retries + 1
    /\ phase' = "aborted"
    /\ UNCHANGED <<queue, job, attempt, workersRun, merged,
                   warm, preds, partials>>

AbortRun ==
    /\ phase = "running"
    /\ stage = "failed"
    /\ attempt = 2
    /\ job.count = 1
    /\ stage' = "none"
    /\ retries' = retries + 1
    /\ phase' = "aborted"
    /\ UNCHANGED <<queue, job, attempt, workersRun, merged,
                   warm, preds, partials>>

\* glob("partial_*.json")
PartialsOnDisk == {s \in Image : partials[s].state # "none"}

\* _merge_partials: the partials in the order of their start; a file that is
\* not whole JSON ends the program.
MergedDoc ==
    LET ps == FlattenSeq([k \in 1 .. N |-> partials[k - 1].preds])
    IN  IF \E s \in PartialsOnDisk : partials[s].state = "torn"
        THEN [NoDoc EXCEPT !.state = "unreadable"]
        ELSE [state |-> "merged",
              preds |-> ps,
              n_images |-> Len(ps),
              chunks |-> workersRun,
              chunk_retries |-> retries]

Merge ==
    /\ phase = "pick"
    /\ queue = <<>>
    /\ merged' = MergedDoc
    /\ phase' = IF NoEval THEN "done" ELSE "merged"
    /\ UNCHANGED <<queue, job, attempt, workersRun, retries,
                   workerVars, partials>>

\* finalize: the merged file is read back, scored and reported.
Finalize ==
    /\ phase = "merged"
    /\ phase' = "done"
    /\ merged' = [merged EXCEPT !.state = "scored"]
    /\ UNCHANGED <<queue, job, attempt, workersRun, retries,
                   workerVars, partials>>

Finished ==
    /\ phase \in {"done", "aborted"}
    /\ UNCHANGED vars

Orchestrator ==
    \/ PopChunk
    \/ LaunchWorker
    \/ ReapSuccess
    \/ RetryChunk
    \/ SplitChunk
    \/ AbortRun
    \/ Merge
    \/ Finalize

Next == Worker \/ Orchestrator \/ Finished

Spec == Init /\ [][Next]_vars

\* subprocess.call returns once the worker ends and nothing else runs in the
\* orchestrator: some step is always taken.
FairSpec == Spec /\ WF_vars(Worker \/ Orchestrator)


-----------------------------------------------------------------------------
(* Properties.                                                             *)

\* Types; ranges, attempts and partial files are those of the listing.
TypeOK ==
    /\ phase \in {"pick", "launch", "running", "merged", "done", "aborted"}
    /\ queue \in Seq(Job)
    /\ job \in Job
    /\ attempt \in {1, 2}
    /\ workersRun \in Nat
    /\ retries \in Nat
    /\ stage \in {"none", "setup", "infer", "writing", "written", "ok", "failed"}
    /\ warm \in Nat
    /\ preds \in Seq(Image)
    /\ partials \in [Image -> PartialFile]

\* The chunk in hand: popped, not yet accepted or split.
JobActive == phase \in {"launch", "running", "aborted"}

\* The first image whose predictions are not settled.
Frontier ==
    IF JobActive THEN job.start
    ELSE IF queue # <<>> THEN Head(queue).start
    ELSE N

\* The chunk in hand and the queue behind it are consecutive intervals that
\* reach from the frontier to the last image: splitting and re-queueing at
\* the front never skips an image, repeats one or gets out of order.
PendingTiles ==
    /\ JobActive => /\ job.start + job.count <= N
                    /\ job.start + job.count =
                          (IF queue # <<>> THEN Head(queue).start ELSE N)
    /\ \A k \in 1 .. Len(queue) :
          queue[k].start + queue[k].count =
              (IF k < Len(queue) THEN queue[k + 1].start ELSE N)

\* Each pending chunk has an image of its own: no more chunks are left from
\* any place in the queue on than images from there on.
PendingRoom ==
    \A k \in 1 .. Len(queue) : Len(queue) - k + 1 <= N - queue[k].start

\* ps lists consecutive images from s on.
IsRun(s, ps) == \A k \in 1 .. Len(ps) : ps[k] = s + k - 1

FileEnd(s) == s + Len(partials[s].preds)

\* The worker and the chunk in hand agree: it measures the chunk's images in
\* order, and once it is past the write the chunk's file holds exactly them.
WorkerInHand ==
    /\ phase = "running" <=> stage # "none"
    /\ phase = "running" =>
        /\ IsRun(job.start, preds)
        /\ Len(preds) <= job.count
        /\ stage \in {"writing", "written", "ok"} => Len(preds) = job.count
        /\ stage \in {"written", "ok"} => partials[job.start] = WholeFile(preds)
    /\ phase \in {"merged", "done"} => queue = <<>>

\* Below the frontier the partial files are whole, hold their images in
\* order, and leave no gap and no overlap.
SettledTiles ==
    /\ \A i \in 0 .. (Frontier - 1) :
          \E s \in PartialsOnDisk : s <= i /\ i < FileEnd(s)
    /\ \A s \in PartialsOnDisk :
          s < Frontier =>
            /\ partials[s].state = "whole"
            /\ IsRun(s, partials[s].preds)
            /\ FileEnd(s) <= Frontier
            /\ \A t \in PartialsOnDisk : s < t => FileEnd(s) <= t

\* A file left by an attempt that failed after writing (or while writing) is
\* the frontier's own: the key of a partial is its first image only, so the
\* next success at that image overwrites it and nothing stale is merged.
StaleOnlyAtFrontier == \A s \in PartialsOnDisk : s <= Frontier

\* The files the merge reads hold each image of the listing at one place of
\* one of them, and every file is whole, whatever crashed, was retried or was
\* split on the way.
EveryImageOnce ==
    phase \in {"merged", "done"} =>
        /\ \A s \in PartialsOnDisk : partials[s].state = "whole"
        /\ \A i \in Image :
              \E s \in PartialsOnDisk : \E k \in 1 .. Len(partials[s].preds) :
                 /\ partials[s].preds[k] = i
                 /\ \A t \in PartialsOnDisk :
                       \A j \in 1 .. Len(partials[t].preds) :
                          partials[t].preds[j] = i => t = s /\ j = k

\* The published counters add up: every worker that was started either
\* produced one of the merged partials or is one of the retries.
CountersAddUp ==
    phase \in {"merged", "done"} =>
        merged.chunks = Cardinality(PartialsOnDisk) + merged.chunk_retries

\* The number of chunks not settled, the one in hand included.
Pending == Len(queue) + (IF JobActive THEN 1 ELSE 0)

\* Attempts made on the chunk in hand.
Attempts ==
    CASE phase = "launch" -> attempt - 1
      [] phase = "running" -> attempt
      [] phase = "aborted" -> 2
      [] OTHER -> 0

\* What the settled images and the splits so far can have cost in workers.
WorkerCost ==
    workersRun <= 2 * (2 * Frontier + Pending - NChunks) + Attempts

\* The inductive invariant.
IInv ==
    /\ TypeOK
    /\ WorkerInHand
    /\ PendingTiles
    /\ PendingRoom
    /\ SettledTiles
    /\ StaleOnlyAtFrontier
    /\ WorkerCost

\* However often workers fail, splitting costs at most two attempts for each
\* node of the binary trees that have the initial chunks as roots.
WorkerBound == workersRun <= 2 * (2 * N - NChunks)

\* Splitting isolates faults: under a library that survives the inferences
\* of a one-image chunk (its warmup included), the run gives up only on an
\* image alone, and only when the image it names really is bad or the worker
\* never got as far as an image.
AbortNamesCulprit ==
    phase = "aborted" =>
        /\ job.count = 1
        /\ job.start \in BadImages \/ warm + Len(preds) = 0

\* The predictions of a settled image are never touched again.
SettledIsFinal ==
    [][\A s \in Image : s < Frontier => partials'[s] = partials[s]]_vars

\* The run always comes to an end.
Terminates == <>(phase \in {"done", "aborted"})

\* The promise of the whole scheme, as an abstract machine.
Scheme ==
    INSTANCE CoverageScheme WITH
        settled <- Frontier,
        outcome <- CASE phase = "aborted" -> "aborted"
                     [] phase \in {"merged", "done"} -> "published"
                     [] OTHER -> "running",
        result <- merged.preds

\* The orchestrator with its workers implements CoverageScheme: in the end
\* every image of the listing once, or nothing.
Implements == Scheme!Spec

=============================================================================
