-------------------------- MODULE Ara2Infer_proofs --------------------------
(***************************************************************************)
(* Proofs about the orchestrator of benchmarks/ara2_infer.py, for every    *)
(* number of images, chunk length, warmup and fault behaviour.             *)
(***************************************************************************)
EXTENDS Ara2Infer, SequenceTheorems, FiniteSetTheorems, WellFoundedInduction,
        TLAPS

USE SizesAssumption

-----------------------------------------------------------------------------
(* The initial queue tiles the listing.                                    *)

\* Rounding a division up leaves a last chunk that is neither empty nor too long
\* (the ranges that _orchestrate queues).
LEMMA CeilDiv ==
    ASSUME NEW n \in Nat \ {0}, NEW c \in Nat \ {0}
    PROVE  /\ (n + c - 1) \div c \in Nat \ {0}
           /\ ((n + c - 1) \div c - 1) * c < n
           /\ n <= ((n + c - 1) \div c) * c
<1> DEFINE q == (n + c - 1) \div c
           r == (n + c - 1) % c
<1>1. q \in Int /\ r \in Int /\ n + c - 1 = c * q + r /\ 0 <= r /\ r < c
  BY SMT
<1>2. c * q < n + c /\ n - 1 < c * q
  BY <1>1
<1>3. q >= 1
  <2>1. SUFFICES ASSUME q <= 0 PROVE FALSE
    BY <1>1
  <2>2. c * q <= 0
    BY <2>1, <1>1
  <2> QED BY <2>2, <1>2
<1>4. (q - 1) * c = c * q - c /\ q * c = c * q
  BY <1>1
<1> QED BY <1>1, <1>2, <1>3, <1>4

\* The queue `orchestrate` starts with: consecutive chunks from image 0 to
\* the last one, at least one of them.
LEMMA InitialQueueTiles ==
    /\ NChunks \in Nat \ {0}
    /\ InitialQueue \in Seq(Job)
    /\ Len(InitialQueue) = NChunks
    /\ Head(InitialQueue).start = 0
    /\ \A k \in 1 .. NChunks :
          InitialQueue[k].start + InitialQueue[k].count =
              (IF k < NChunks THEN InitialQueue[k + 1].start ELSE N)
    /\ \A k \in 1 .. NChunks : NChunks - k + 1 <= N - InitialQueue[k].start
<1> DEFINE st(k) == (k - 1) * Chunk
<1>1. /\ NChunks \in Nat \ {0}
      /\ (NChunks - 1) * Chunk < N
      /\ N <= NChunks * Chunk
  BY CeilDiv DEF NChunks
<1>2. \A k \in 1 .. NChunks : st(k) \in Nat /\ st(k) < N /\ NChunks - k + 1 <= N - st(k)
  <2> SUFFICES ASSUME NEW k \in 1 .. NChunks
               PROVE  st(k) \in Nat /\ st(k) < N /\ NChunks - k + 1 <= N - st(k)
    OBVIOUS
  <2>1. st(k) + (NChunks - k) <= (NChunks - 1) * Chunk
    <3>1. (NChunks - 1) * Chunk = st(k) + (NChunks - k) * Chunk
      BY <1>1
    <3>2. (NChunks - k) * Chunk >= NChunks - k
      <4>1. \A m \in Nat : m * Chunk >= m
        BY SMT
      <4>2. NChunks - k \in Nat
        BY <1>1
      <4> QED BY <4>1, <4>2
    <3> QED BY <3>1, <3>2, <1>1
  <2>2. st(k) \in Nat
    BY <1>1
  <2> QED BY <2>1, <2>2, <1>1
<1>3. \A k \in 1 .. NChunks : st(k + 1) = st(k) + Chunk
  BY <1>1
<1>4. \A k \in 1 .. NChunks : k < NChunks => st(k) + Chunk < N
  BY <1>1, <1>2, <1>3
<1>5. st(NChunks) + Chunk >= N
  BY <1>1
<1>0. st(1) = 0
  OBVIOUS
<1>10. InitialQueue =
         [k \in 1 .. NChunks |-> [start |-> st(k), count |-> MinOf(Chunk, N - st(k))]]
  BY DEF InitialQueue
<1> HIDE DEF st
<1>6. \A k \in 1 .. NChunks :
         /\ InitialQueue[k].start = st(k)
         /\ InitialQueue[k] \in Job
         /\ k < NChunks => InitialQueue[k].count = Chunk
         /\ k = NChunks => InitialQueue[k].count = N - st(k)
  <2> SUFFICES ASSUME NEW k \in 1 .. NChunks
               PROVE  /\ InitialQueue[k].start = st(k)
                      /\ InitialQueue[k] \in Job
                      /\ k < NChunks => InitialQueue[k].count = Chunk
                      /\ k = NChunks => InitialQueue[k].count = N - st(k)
    OBVIOUS
  <2>1. InitialQueue[k] = [start |-> st(k), count |-> MinOf(Chunk, N - st(k))]
      /\ InitialQueue[k].start = st(k)
      /\ InitialQueue[k].count = MinOf(Chunk, N - st(k))
    BY <1>10
  <2>2. /\ MinOf(Chunk, N - st(k)) \in 1 .. N
        /\ k < NChunks => MinOf(Chunk, N - st(k)) = Chunk
        /\ k = NChunks => MinOf(Chunk, N - st(k)) = N - st(k)
    BY <1>1, <1>2, <1>4, <1>5 DEF MinOf
  <2> QED BY <2>1, <2>2, <1>2 DEF Job, Image
<1>7. InitialQueue \in Seq(Job) /\ Len(InitialQueue) = NChunks
  BY <1>1, <1>6, <1>10
<1>8. Head(InitialQueue).start = 0
  <2>1. InitialQueue # <<>> /\ Head(InitialQueue) = InitialQueue[1]
    BY <1>1, <1>7
  <2>2. InitialQueue[1].start = st(1)
    BY <1>1, <1>6
  <2> QED BY <2>1, <2>2, <1>0
<1>9. \A k \in 1 .. NChunks :
          InitialQueue[k].start + InitialQueue[k].count =
              (IF k < NChunks THEN InitialQueue[k + 1].start ELSE N)
  <2> SUFFICES ASSUME NEW k \in 1 .. NChunks
               PROVE  InitialQueue[k].start + InitialQueue[k].count =
                          (IF k < NChunks THEN InitialQueue[k + 1].start ELSE N)
    OBVIOUS
  <2>1. CASE k < NChunks
    <3>1. k + 1 \in 1 .. NChunks
      BY <2>1, <1>1
    <3>2. InitialQueue[k].start = st(k) /\ InitialQueue[k].count = Chunk
      BY <2>1, <1>6
    <3>3. InitialQueue[k + 1].start = st(k + 1)
      BY <3>1, <1>6
    <3> QED BY <3>2, <3>3, <2>1, <1>3
  <2>2. CASE k = NChunks
    <3>1. InitialQueue[k].start = st(k) /\ InitialQueue[k].count = N - st(k)
      BY <2>2, <1>6
    <3> QED BY <3>1, <2>2, <1>1, <1>2
  <2> QED BY <2>1, <2>2, <1>1
<1>11. \A k \in 1 .. NChunks : NChunks - k + 1 <= N - InitialQueue[k].start
  BY <1>2, <1>6
<1> QED BY <1>1, <1>7, <1>8, <1>9, <1>11

-----------------------------------------------------------------------------
(* The invariant at the start, and its parts that a step leaves alone.      *)

\* The frontier is an image or the end of the listing.
LEMMA FrontierType ==
    ASSUME TypeOK
    PROVE  /\ Frontier \in 0 .. N
           /\ JobActive => Frontier = job.start
<1>1. queue # <<>> => Head(queue) \in Job
  BY DEF TypeOK
<1>2. \A j \in Job : j.start \in 0 .. N
  BY DEF Job, Image
<1> QED BY <1>1, <1>2 DEF TypeOK, Frontier

\* The queue the orchestrator starts from satisfies the invariant.
LEMMA InitIInv == Init => IInv
<1> SUFFICES ASSUME Init PROVE IInv
  OBVIOUS
<1> USE InitialQueueTiles DEF Init
<1>1. TypeOK
  BY DEF TypeOK, Job, Image, PartialFile, NoFile
<1>2. WorkerInHand
  BY DEF WorkerInHand
<1>3. ~JobActive /\ queue # <<>> /\ Frontier = 0
  BY DEF JobActive, Frontier
<1>4. PendingTiles
  BY <1>3 DEF PendingTiles
<1>8. PendingRoom
  BY DEF PendingRoom
<1>5. PartialsOnDisk = {}
  BY DEF PartialsOnDisk, NoFile
<1>6. SettledTiles /\ StaleOnlyAtFrontier
  BY <1>3, <1>5 DEF SettledTiles, StaleOnlyAtFrontier
<1>7. WorkerCost
  BY <1>3 DEF WorkerCost, Pending, Attempts
<1> QED BY <1>1, <1>2, <1>4, <1>6, <1>7, <1>8 DEF IInv

\* A step of the worker process leaves the orchestrator's part alone.
LEMMA OrchestratorIdle ==
    ASSUME PendingTiles, PendingRoom, WorkerCost, UNCHANGED orchVars
    PROVE  /\ PendingTiles'
           /\ PendingRoom'
           /\ WorkerCost'
           /\ Frontier' = Frontier
BY DEF orchVars, PendingTiles, PendingRoom, WorkerCost, Frontier, Pending, Attempts, JobActive

\* A step that neither writes a file nor moves the frontier leaves the
\* settled part alone.
LEMMA FilesIdle ==
    ASSUME SettledTiles, StaleOnlyAtFrontier,
           UNCHANGED partials, Frontier' = Frontier
    PROVE  SettledTiles' /\ StaleOnlyAtFrontier'
BY DEF SettledTiles, StaleOnlyAtFrontier, PartialsOnDisk, FileEnd

\* Writing the file of the chunk in hand leaves the settled part alone.
LEMMA FileAtFrontier ==
    ASSUME TypeOK, SettledTiles, StaleOnlyAtFrontier,
           phase = "running", Frontier' = Frontier,
           NEW f \in PartialFile, f.state # "none",
           partials' = [partials EXCEPT ![job.start] = f]
    PROVE  SettledTiles' /\ StaleOnlyAtFrontier'
<1>1. Frontier = job.start /\ Frontier \in 0 .. N /\ job.start \in Image
  BY FrontierType DEF JobActive, TypeOK, Job
<1>2. /\ partials'[job.start] = f
      /\ \A s \in Image : s # job.start => partials'[s] = partials[s]
  BY <1>1 DEF TypeOK
<1>3. PartialsOnDisk' = PartialsOnDisk \cup {job.start}
  BY <1>1, <1>2 DEF PartialsOnDisk
<1>4. \A s \in PartialsOnDisk' :
         s < Frontier' => /\ s \in PartialsOnDisk
                          /\ partials'[s] = partials[s]
                          /\ FileEnd(s)' = FileEnd(s)
  BY <1>1, <1>2, <1>3 DEF PartialsOnDisk, FileEnd
<1>5. StaleOnlyAtFrontier'
  BY <1>1, <1>3 DEF StaleOnlyAtFrontier
<1>6. \A i \in 0 .. (Frontier' - 1) :
         \E s \in PartialsOnDisk' : s <= i /\ i < FileEnd(s)'
  <2> SUFFICES ASSUME NEW i \in 0 .. (Frontier' - 1)
               PROVE  \E s \in PartialsOnDisk' : s <= i /\ i < FileEnd(s)'
    OBVIOUS
  <2>1. PICK s \in PartialsOnDisk : s <= i /\ i < FileEnd(s)
    BY DEF SettledTiles
  <2>2. s \in PartialsOnDisk' /\ s < Frontier' /\ s \in Int
    BY <1>1, <1>3, <2>1 DEF PartialsOnDisk, Image
  <2> QED BY <2>1, <2>2, <1>4
<1>7. ASSUME NEW s \in PartialsOnDisk', s < Frontier'
      PROVE  /\ partials'[s].state = "whole"
             /\ IsRun(s, partials'[s].preds)
             /\ FileEnd(s)' <= Frontier'
             /\ \A t \in PartialsOnDisk' : s < t => FileEnd(s)' <= t
  BY <1>1, <1>3, <1>4, <1>7 DEF SettledTiles
<1> QED BY <1>5, <1>6, <1>7 DEF SettledTiles, IsRun

-----------------------------------------------------------------------------
(* Steps of the worker.                                                    *)

\* The steps that touch no file.
LEMMA WorkerInMemory ==
    ASSUME IInv,
           WorkerSetup \/ WorkerSetupFails \/ WorkerWarmup \/ WorkerInfer
              \/ WorkerRaises \/ WorkerExits \/ WorkerCrashes
    PROVE  IInv'
<1> USE DEF IInv
<1>1. UNCHANGED orchVars /\ UNCHANGED partials
  BY DEF WorkerSetup, WorkerSetupFails, WorkerWarmup, WorkerInfer,
         WorkerRaises, WorkerExits, WorkerCrashes
<1>2. PendingTiles' /\ PendingRoom' /\ WorkerCost' /\ Frontier' = Frontier
  BY <1>1, OrchestratorIdle
<1>3. SettledTiles' /\ StaleOnlyAtFrontier'
  BY <1>1, <1>2, FilesIdle
<1>4. phase = "running"
  BY DEF WorkerInHand, WorkerSetup, WorkerSetupFails, WorkerWarmup,
         WorkerInfer, WorkerRaises, WorkerExits, WorkerCrashes
<1>5. CASE WorkerInfer
  <2>0. WarmupRuns \in Nat
    BY DEF TypeOK, Job, WarmupRuns, MinOf
  <2>1. /\ preds' = Append(preds, job.start + Len(preds))
        /\ Len(preds) < job.count /\ stage = "infer" /\ stage' = stage
        /\ warm' = warm
    BY <1>5, <2>0 DEF WorkerInfer, NextImage
  <2>2. job.start + job.count <= N
    BY <1>4 DEF PendingTiles, JobActive
  <2>3. /\ job \in Job /\ preds \in Seq(Image) /\ Len(preds) \in Nat
        /\ job.start \in Nat /\ job.count \in Nat
    BY DEF TypeOK, Job, Image
  <2>4. job.start + Len(preds) \in Image
    BY <2>1, <2>2, <2>3 DEF Image
  <2>5. preds' \in Seq(Image) /\ Len(preds') = Len(preds) + 1
    BY <2>1, <2>3, <2>4
  <2>6. IsRun(job.start, preds')
    <3>1. IsRun(job.start, preds)
      BY <1>4 DEF WorkerInHand
    <3>2. \A k \in 1 .. Len(preds') :
             preds'[k] = IF k <= Len(preds) THEN preds[k] ELSE job.start + Len(preds)
      BY <2>1, <2>3, <2>5
    <3> QED BY <3>1, <3>2, <2>3, <2>5 DEF IsRun
  <2>7. TypeOK'
    BY <1>1, <2>1, <2>5 DEF TypeOK, orchVars
  <2>8. WorkerInHand'
    BY <1>1, <1>4, <2>1, <2>3, <2>5, <2>6
       DEF WorkerInHand, orchVars, IsRun
  <2> QED BY <1>2, <1>3, <2>7, <2>8
<1>6. CASE ~WorkerInfer
  <2>1. preds' = preds /\ warm' \in Nat
    BY <1>6 DEF TypeOK, WorkerSetup, WorkerSetupFails, WorkerWarmup,
                WorkerRaises, WorkerExits, WorkerCrashes
  <2>2. stage' \in {"infer", "failed"} \/ (stage = "written" /\ stage' = "ok")
    BY <1>6 DEF WorkerSetup, WorkerSetupFails, WorkerWarmup,
                WorkerRaises, WorkerExits, WorkerCrashes
  <2>3. TypeOK'
    BY <1>1, <2>1, <2>2 DEF TypeOK, orchVars
  <2>4. WorkerInHand'
    BY <1>1, <1>4, <2>1, <2>2 DEF WorkerInHand, orchVars, IsRun
  <2> QED BY <1>2, <1>3, <2>3, <2>4
<1> QED BY <1>5, <1>6

\* The steps that write the partial file of the chunk in hand.
LEMMA WorkerOnDisk ==
    ASSUME IInv, WorkerOpenPartial \/ WorkerWritePartial
    PROVE  IInv'
<1> USE DEF IInv
<1>1. UNCHANGED orchVars /\ warm' = warm /\ preds' = preds
  BY DEF WorkerOpenPartial, WorkerWritePartial
<1>2. PendingTiles' /\ PendingRoom' /\ WorkerCost' /\ Frontier' = Frontier
  BY <1>1, OrchestratorIdle
<1>3. phase = "running" /\ Len(preds) = job.count
  BY DEF WorkerInHand, WorkerOpenPartial, WorkerWritePartial
<1>4. preds \in Seq(Image) /\ job.start \in Image
  BY DEF TypeOK, Job
<1>5. CASE WorkerOpenPartial
  <2>1. /\ partials' = [partials EXCEPT ![job.start] = TornFile]
        /\ stage' = "writing"
    BY <1>5 DEF WorkerOpenPartial, PartialKey
  <2>2. TornFile \in PartialFile /\ TornFile.state # "none"
    BY DEF TornFile, PartialFile
  <2>3. SettledTiles' /\ StaleOnlyAtFrontier'
    BY <1>2, <1>3, <2>1, <2>2, FileAtFrontier
  <2>4. TypeOK'
    BY <1>1, <2>1, <2>2 DEF TypeOK, orchVars
  <2>5. WorkerInHand'
    BY <1>1, <1>3, <2>1 DEF WorkerInHand, orchVars, IsRun
  <2> QED BY <1>2, <2>3, <2>4, <2>5
<1>6. CASE WorkerWritePartial
  <2>1. /\ partials' = [partials EXCEPT ![job.start] = WholeFile(preds)]
        /\ stage' = "written"
    BY <1>6 DEF WorkerWritePartial, PartialKey
  <2>2. WholeFile(preds) \in PartialFile /\ WholeFile(preds).state # "none"
    BY <1>4 DEF WholeFile, PartialFile
  <2>3. SettledTiles' /\ StaleOnlyAtFrontier'
    BY <1>2, <1>3, <2>1, <2>2, FileAtFrontier
  <2>4. TypeOK'
    BY <1>1, <2>1, <2>2 DEF TypeOK, orchVars
  <2>5. partials'[job.start] = WholeFile(preds)
    BY <1>4, <2>1 DEF TypeOK
  <2>6. WorkerInHand'
    BY <1>1, <1>3, <2>1, <2>5 DEF WorkerInHand, orchVars, IsRun, WholeFile
  <2> QED BY <1>2, <2>3, <2>4, <2>6
<1> QED BY <1>5, <1>6

-----------------------------------------------------------------------------
(* Steps of the orchestrator.                                              *)

\* Starting, retrying or giving up on the chunk in hand.
LEMMA ChunkInHand ==
    ASSUME IInv, LaunchWorker \/ RetryChunk \/ AbortRun
    PROVE  IInv'
<1> USE DEF IInv
<1>1. /\ UNCHANGED <<queue, job, partials>>
      /\ JobActive /\ JobActive'
  BY DEF LaunchWorker, RetryChunk, AbortRun, JobActive
<1>2. Frontier' = Frontier /\ Pending' = Pending
  BY <1>1 DEF Frontier, Pending
<1>3. SettledTiles' /\ StaleOnlyAtFrontier'
  BY <1>1, <1>2, FilesIdle
<1>4. PendingTiles' /\ PendingRoom'
  BY <1>1 DEF PendingTiles, PendingRoom
<1>5. TypeOK'
  <2>1. CASE LaunchWorker
    <3>1. <<>> \in Seq(Image)
      OBVIOUS
    <3> QED BY <2>1, <3>1 DEF TypeOK, LaunchWorker
  <2>2. CASE RetryChunk
    BY <2>2 DEF TypeOK, RetryChunk
  <2>3. CASE AbortRun
    BY <2>3 DEF TypeOK, AbortRun
  <2> QED BY <2>1, <2>2, <2>3
<1>6. WorkerInHand'
  BY DEF WorkerInHand, IsRun, LaunchWorker, RetryChunk, AbortRun, TypeOK, Job
<1>7. WorkerCost'
  <2>1. /\ Frontier \in Int /\ Pending \in Int /\ NChunks \in Int
        /\ workersRun \in Int
    BY FrontierType, InitialQueueTiles DEF Pending, TypeOK
  <2>2. workersRun' - workersRun = Attempts' - Attempts
        /\ Attempts \in Int /\ Attempts' \in Int /\ workersRun' \in Int
    BY DEF Attempts, LaunchWorker, RetryChunk, AbortRun, TypeOK
  <2>3. \A f, p, k, w, a, w2, a2 \in Int :
           w <= 2 * (2 * f + p - k) + a /\ w2 - w = a2 - a
              => w2 <= 2 * (2 * f + p - k) + a2
    OBVIOUS
  <2>4. workersRun <= 2 * (2 * Frontier + Pending - NChunks) + Attempts
    BY DEF WorkerCost
  <2>5. workersRun' <= 2 * (2 * Frontier + Pending - NChunks) + Attempts'
    BY <2>1, <2>2, <2>3, <2>4
  <2> QED BY <1>2, <2>5 DEF WorkerCost
<1> QED BY <1>3, <1>4, <1>5, <1>6, <1>7

\* The head and the tail of a queue that is not empty.
LEMMA TailTheorem ==
    ASSUME NEW S, NEW q \in Seq(S), q # <<>>
    PROVE  /\ Len(q) \in Nat \ {0}
           /\ Head(q) = q[1] /\ Head(q) \in S
           /\ Tail(q) \in Seq(S) /\ Len(Tail(q)) = Len(q) - 1
           /\ \A k \in 1 .. Len(Tail(q)) : Tail(q)[k] = q[k + 1]
           /\ Tail(q) # <<>> <=> Len(q) > 1
           /\ Tail(q) # <<>> => Head(Tail(q)) = q[2]
<1>1. /\ Len(q) \in Nat \ {0}
      /\ Head(q) = q[1] /\ Head(q) \in S
      /\ Tail(q) \in Seq(S) /\ Len(Tail(q)) = Len(q) - 1
  OBVIOUS
<1>2. \A k \in 1 .. Len(Tail(q)) : Tail(q)[k] = q[k + 1]
  BY <1>1
<1>3. Tail(q) # <<>> <=> Len(q) > 1
  <2>1. Tail(q) # <<>> => Len(Tail(q)) \in Nat \ {0}
    BY <1>1, EmptySeq
  <2>2. Tail(q) = <<>> => Len(Tail(q)) = 0
    BY EmptySeq
  <2> QED BY <1>1, <2>1, <2>2
<1>4. Tail(q) # <<>> => Head(Tail(q)) = q[2]
  BY <1>1, <1>2
<1> QED BY <1>1, <1>2, <1>3, <1>4

\* Taking the next range from the queue moves no image in or out.
LEMMA PopChunkStep ==
    ASSUME IInv, PopChunk
    PROVE  IInv'
<1> USE DEF IInv
<1>1. /\ queue \in Seq(Job) /\ queue # <<>>
      /\ job' = Head(queue) /\ queue' = Tail(queue)
      /\ ~JobActive /\ JobActive'
      /\ UNCHANGED <<workersRun, retries, stage, warm, preds, partials>>
      /\ phase = "pick" /\ phase' = "launch" /\ attempt' = 1
  BY DEF PopChunk, JobActive, TypeOK, workerVars
<1>2. /\ Len(queue) \in Nat \ {0}
      /\ Head(queue) = queue[1] /\ Head(queue) \in Job
      /\ Tail(queue) \in Seq(Job) /\ Len(Tail(queue)) = Len(queue) - 1
      /\ \A k \in 1 .. Len(Tail(queue)) : Tail(queue)[k] = queue[k + 1]
      /\ Tail(queue) # <<>> <=> Len(queue) > 1
      /\ Tail(queue) # <<>> => Head(Tail(queue)) = queue[2]
  BY <1>1, TailTheorem
<1>3. Frontier' = Frontier /\ Pending' = Pending
  BY <1>1, <1>2 DEF Frontier, Pending
<1>4. SettledTiles' /\ StaleOnlyAtFrontier'
  BY <1>1, <1>3, FilesIdle
<1>5. PendingTiles'
  <2>1. \A k \in 1 .. Len(queue) :
           queue[k].start + queue[k].count =
               (IF k < Len(queue) THEN queue[k + 1].start ELSE N)
    BY DEF PendingTiles
  <2>2. job'.start + job'.count =
           (IF queue' # <<>> THEN Head(queue').start ELSE N)
    BY <1>1, <1>2, <2>1
  <2>3. job'.start + job'.count <= N
    <3>1. queue' # <<>> => Head(queue') \in Job
      BY <1>1, <1>2
    <3> QED BY <2>2, <3>1 DEF Job, Image
  <2>4. \A k \in 1 .. Len(queue') :
           queue'[k].start + queue'[k].count =
               (IF k < Len(queue') THEN queue'[k + 1].start ELSE N)
    BY <1>1, <1>2, <2>1
  <2> QED BY <2>2, <2>3, <2>4 DEF PendingTiles
<1>6. TypeOK'
  BY <1>1, <1>2 DEF TypeOK
<1>7. WorkerInHand'
  BY <1>1 DEF WorkerInHand
<1>8. WorkerCost'
  BY <1>1, <1>3 DEF WorkerCost, Attempts
<1>9. PendingRoom'
  <2>1. \A k \in 1 .. Len(queue') :
           /\ queue'[k] = queue[k + 1] /\ k + 1 \in 1 .. Len(queue)
           /\ Len(queue') - k + 1 = Len(queue) - (k + 1) + 1
    BY <1>1, <1>2
  <2> QED BY <2>1 DEF PendingRoom
<1> QED BY <1>4, <1>5, <1>6, <1>7, <1>8, <1>9

\* The chunk in hand succeeds: the frontier moves to the next one.
LEMMA ReapSuccessStep ==
    ASSUME IInv, ReapSuccess
    PROVE  IInv'
<1> USE DEF IInv
<1>1. /\ phase = "running" /\ stage = "ok" /\ phase' = "pick" /\ stage' = "none"
      /\ UNCHANGED <<queue, job, attempt, workersRun, retries, merged,
                     warm, preds, partials>>
  BY DEF ReapSuccess
<1>2. /\ Frontier = job.start /\ Frontier \in 0 .. N
      /\ job.start \in Image /\ job.count \in 1 .. N
      /\ JobActive /\ ~JobActive'
  BY <1>1, FrontierType DEF JobActive, TypeOK, Job
<1>3. TypeOK'
  BY <1>1 DEF TypeOK
<1>4. WorkerInHand'
  BY <1>1 DEF WorkerInHand
<1>5. PendingTiles' /\ PendingRoom'
  BY <1>1, <1>2 DEF PendingTiles, PendingRoom
<1>6. Frontier' = job.start + job.count /\ Frontier' <= N
  BY <1>1, <1>2 DEF PendingTiles, Frontier
<1>7. /\ partials[job.start] = WholeFile(preds) /\ Len(preds) = job.count
      /\ IsRun(job.start, preds)
  BY <1>1 DEF WorkerInHand
<1>8. /\ job.start \in PartialsOnDisk
      /\ partials[job.start].state = "whole"
      /\ IsRun(job.start, partials[job.start].preds)
      /\ FileEnd(job.start) = Frontier'
  BY <1>2, <1>6, <1>7 DEF PartialsOnDisk, WholeFile, FileEnd
<1>9. /\ PartialsOnDisk' = PartialsOnDisk
      /\ \A s \in PartialsOnDisk : FileEnd(s)' = FileEnd(s) /\ s \in Int
      /\ \A s \in PartialsOnDisk : s <= job.start
  BY <1>1, <1>2 DEF PartialsOnDisk, FileEnd, Image, StaleOnlyAtFrontier
<1>10. StaleOnlyAtFrontier'
  BY <1>2, <1>6, <1>9 DEF StaleOnlyAtFrontier, Image
<1>11. \A i \in 0 .. (Frontier' - 1) :
          \E s \in PartialsOnDisk : s <= i /\ i < FileEnd(s)
  <2> SUFFICES ASSUME NEW i \in 0 .. (Frontier' - 1)
               PROVE  \E s \in PartialsOnDisk : s <= i /\ i < FileEnd(s)
    OBVIOUS
  <2>1. CASE i < Frontier
    BY <2>1, <1>2 DEF SettledTiles
  <2>2. CASE job.start <= i
    BY <2>2, <1>8, <1>2, <1>6
  <2> QED BY <2>1, <2>2, <1>2 DEF Image
<1>12. ASSUME NEW s \in PartialsOnDisk, s < Frontier'
       PROVE  /\ partials[s].state = "whole"
              /\ IsRun(s, partials[s].preds)
              /\ FileEnd(s) <= Frontier'
              /\ \A t \in PartialsOnDisk : s < t => FileEnd(s) <= t
  <2>1. CASE s = job.start
    BY <2>1, <1>8, <1>9, <1>2, <1>6 DEF Image
  <2>2. CASE s < job.start
    <3>1. /\ partials[s].state = "whole"
          /\ IsRun(s, partials[s].preds)
          /\ FileEnd(s) <= Frontier
          /\ \A t \in PartialsOnDisk : s < t => FileEnd(s) <= t
      BY <2>2, <1>2 DEF SettledTiles
    <3>2. FileEnd(s) \in Int
      BY <1>9 DEF FileEnd, PartialsOnDisk, TypeOK, PartialFile
    <3> QED BY <3>1, <3>2, <1>2, <1>6 DEF Image
  <2> QED BY <2>1, <2>2, <1>9, <1>2 DEF Image
<1>13. SettledTiles'
  BY <1>1, <1>9, <1>11, <1>12 DEF SettledTiles, IsRun
<1>14. WorkerCost'
  <2>1. /\ Attempts' = 0 /\ Attempts = attempt /\ attempt \in {1, 2}
        /\ Pending = Len(queue) + 1 /\ Pending' = Len(queue)
        /\ Len(queue) \in Nat /\ NChunks \in Nat /\ workersRun \in Nat
    BY <1>1, <1>2, InitialQueueTiles DEF Attempts, Pending, TypeOK
  <2>2. workersRun <= 2 * (2 * Frontier + Pending - NChunks) + Attempts
    BY DEF WorkerCost
  <2>3. workersRun <= 2 * (2 * Frontier' + Pending' - NChunks) + Attempts'
    <3>1. \A f, l, k, w, a, c \in Int :
             /\ w <= 2 * (2 * f + (l + 1) - k) + a
             /\ a <= 2 /\ c >= 1
             => w <= 2 * (2 * (f + c) + l - k) + 0
      OBVIOUS
    <3>2. Frontier \in Int /\ job.count \in Int /\ job.count >= 1
      BY <1>2
    <3>3. Frontier' = Frontier + job.count
      BY <1>2, <1>6
    <3> QED BY <2>1, <2>2, <3>1, <3>2, <3>3
  <2>4. workersRun' = workersRun
    BY <1>1
  <2> QED BY <2>3, <2>4 DEF WorkerCost
<1> QED BY <1>3, <1>4, <1>5, <1>10, <1>13, <1>14

\* The chunk in hand is split: its halves take its place.
LEMMA SplitChunkStep ==
    ASSUME IInv, SplitChunk
    PROVE  IInv'
<1> USE DEF IInv
<1> DEFINE half == job.count \div 2
           first == [start |-> job.start, count |-> half]
           second == [start |-> job.start + half, count |-> job.count - half]
<1>1. /\ phase = "running" /\ attempt = 2 /\ job.count > 1
      /\ phase' = "pick" /\ stage' = "none" /\ retries' = retries + 1
      /\ queue' = <<first, second>> \o queue
      /\ UNCHANGED <<job, attempt, workersRun, merged, warm, preds, partials>>
  BY DEF SplitChunk, Halves
<1>2. /\ job.start \in Nat /\ job.start + job.count <= N
      /\ job.count \in Nat /\ queue \in Seq(Job) /\ Len(queue) \in Nat
      /\ Frontier = job.start /\ JobActive /\ ~JobActive'
  BY <1>1, FrontierType DEF TypeOK, Job, Image, JobActive, PendingTiles
<1>3. half \in Nat /\ 1 <= half /\ 1 <= job.count - half
  BY <1>1, <1>2
<1> HIDE DEF half
<1>4. first \in Job /\ second \in Job
  BY <1>2, <1>3 DEF Job, Image
<1>5. /\ queue' \in Seq(Job) /\ Len(queue') = Len(queue) + 2
      /\ queue' # <<>> /\ Head(queue') = first
      /\ queue'[1] = first /\ queue'[2] = second
      /\ \A k \in 1 .. Len(queue) : queue'[k + 2] = queue[k]
  <2>1. <<first, second>> \in Seq(Job) /\ Len(<<first, second>>) = 2
    BY <1>4
  <2>2. queue' \in Seq(Job) /\ Len(queue') = Len(queue) + 2
    BY <1>1, <1>2, <2>1
  <2>3. \A k \in 1 .. Len(queue') :
           queue'[k] = IF k <= 2 THEN <<first, second>>[k] ELSE queue[k - 2]
    BY <1>1, <1>2, <2>1, <2>2
  <2>4. queue'[1] = first /\ queue'[2] = second
    BY <2>2, <2>3, <1>2
  <2>5. \A k \in 1 .. Len(queue) : queue'[k + 2] = queue[k]
    BY <2>2, <2>3, <1>2
  <2>6. queue' # <<>> /\ Head(queue') = queue'[1]
    BY <2>2, <1>2, EmptySeq
  <2> QED BY <2>2, <2>4, <2>5, <2>6
<1>6. first.start = job.start /\ first.count = half
      /\ second.start = job.start + half /\ second.count = job.count - half
  OBVIOUS
<1> HIDE DEF first, second
<1>7. Frontier' = job.start /\ Pending' = Pending + 1
  BY <1>2, <1>5, <1>6 DEF Frontier, Pending
<1>8. SettledTiles' /\ StaleOnlyAtFrontier'
  BY <1>1, <1>2, <1>7, FilesIdle
<1>9. TypeOK'
  BY <1>1, <1>5 DEF TypeOK
<1>10. WorkerInHand'
  BY <1>1 DEF WorkerInHand
<1>11. PendingTiles'
  <2>1. \A k \in 1 .. Len(queue) :
           queue[k].start + queue[k].count =
               (IF k < Len(queue) THEN queue[k + 1].start ELSE N)
    BY DEF PendingTiles
  <2>2. job.start + job.count =
           (IF Len(queue) > 0 THEN queue[1].start ELSE N)
    <3>1. /\ queue = <<>> => Len(queue) = 0
          /\ queue # <<>> => Len(queue) > 0 /\ Head(queue) = queue[1]
      BY <1>2, EmptySeq
    <3> QED BY <1>2, <3>1 DEF PendingTiles
  <2>3. ASSUME NEW k \in 1 .. Len(queue')
        PROVE  queue'[k].start + queue'[k].count =
                  (IF k < Len(queue') THEN queue'[k + 1].start ELSE N)
    <3>1. CASE k = 1
      BY <3>1, <1>2, <1>3, <1>5, <1>6
    <3>2. CASE k = 2
      <4>1. queue'[k].start + queue'[k].count = job.start + job.count
        BY <3>2, <1>2, <1>3, <1>5, <1>6
      <4>2. Len(queue) > 0 => queue'[k + 1] = queue[1]
        BY <3>2, <1>2, <1>5
      <4> QED BY <4>1, <4>2, <2>2, <3>2, <1>2, <1>5
    <3>3. CASE k > 2
      <4>1. k - 2 \in 1 .. Len(queue) /\ k < Len(queue') <=> k - 2 < Len(queue)
        BY <3>3, <1>2, <1>5
      <4>2. queue'[k] = queue[k - 2]
        BY <4>1, <3>3, <1>2, <1>5
      <4>3. k < Len(queue') => queue'[k + 1] = queue[k - 2 + 1]
        <5>1. k < Len(queue') => k - 1 \in 1 .. Len(queue)
          BY <3>3, <1>2, <1>5
        <5>2. k \in Int /\ (k - 1) + 2 = k + 1 /\ k - 2 + 1 = k - 1
          OBVIOUS
        <5> QED BY <5>1, <5>2, <1>5
      <4> QED BY <4>1, <4>2, <4>3, <2>1, <3>3, <1>2, <1>5
    <3> QED BY <3>1, <3>2, <3>3, <1>2, <1>5
  <2> QED BY <2>3, <1>2 DEF PendingTiles
<1>12. WorkerCost'
  <2>1. /\ Attempts' = 0 /\ Attempts = 2
        /\ Pending \in Nat /\ NChunks \in Nat /\ workersRun \in Nat
    BY <1>1, <1>2, InitialQueueTiles DEF Attempts, Pending, TypeOK
  <2>2. workersRun <= 2 * (2 * Frontier + Pending - NChunks) + Attempts
    BY DEF WorkerCost
  <2>3. workersRun <= 2 * (2 * Frontier' + Pending' - NChunks) + Attempts'
    <3>1. \A f, p, k, w \in Int :
             w <= 2 * (2 * f + p - k) + 2 => w <= 2 * (2 * f + (p + 1) - k) + 0
      OBVIOUS
    <3> QED BY <2>1, <2>2, <3>1, <1>2, <1>7
  <2> QED BY <2>3, <1>1 DEF WorkerCost
<1>13. PendingRoom'
  <2>1. Len(queue) <= N - (job.start + job.count)
    <3>1. /\ queue = <<>> => Len(queue) = 0
          /\ queue # <<>> => Len(queue) > 0 /\ Head(queue) = queue[1]
      BY <1>2, EmptySeq
    <3>2. queue # <<>> => Len(queue) <= N - queue[1].start
      BY <3>1, <1>2 DEF PendingRoom
    <3> QED BY <1>2, <3>1, <3>2 DEF PendingTiles
  <2>2. ASSUME NEW k \in 1 .. Len(queue')
        PROVE  Len(queue') - k + 1 <= N - queue'[k].start
    <3>1. CASE k = 1
      BY <3>1, <2>1, <1>2, <1>3, <1>5, <1>6
    <3>2. CASE k = 2
      BY <3>2, <2>1, <1>2, <1>3, <1>5, <1>6
    <3>3. CASE k > 2
      <4>1. k - 2 \in 1 .. Len(queue) /\ queue'[k] = queue[k - 2]
        BY <3>3, <1>2, <1>5
      <4>2. Len(queue') - k + 1 = Len(queue) - (k - 2) + 1
        BY <1>2, <1>5
      <4> QED BY <4>1, <4>2 DEF PendingRoom
    <3> QED BY <3>1, <3>2, <3>3, <1>2, <1>5
  <2> QED BY <2>2 DEF PendingRoom
<1> QED BY <1>8, <1>9, <1>10, <1>11, <1>12, <1>13

\* Merging and scoring.
LEMMA MergeStep ==
    ASSUME IInv, Merge \/ Finalize
    PROVE  IInv'
<1> USE DEF IInv
<1>1. /\ queue = <<>> /\ ~JobActive /\ ~JobActive'
      /\ phase' \in {"merged", "done"} /\ phase \in {"pick", "merged"}
      /\ UNCHANGED <<queue, job, attempt, workersRun, retries,
                     stage, warm, preds, partials>>
  BY DEF Merge, Finalize, JobActive, workerVars, WorkerInHand
<1>2. Frontier' = Frontier /\ Pending' = Pending
  BY <1>1 DEF Frontier, Pending
<1>3. SettledTiles' /\ StaleOnlyAtFrontier'
  BY <1>1, <1>2, FilesIdle
<1>4. TypeOK'
  BY <1>1 DEF TypeOK
<1>5. WorkerInHand'
  BY <1>1 DEF WorkerInHand
<1>6. PendingTiles' /\ PendingRoom'
  BY <1>1 DEF PendingTiles, PendingRoom
<1>7. WorkerCost'
  BY <1>1, <1>2 DEF WorkerCost, Attempts
<1> QED BY <1>3, <1>4, <1>5, <1>6, <1>7

\* Every step of the worker and of the orchestrator keeps the invariant.
LEMMA Inductive == IInv /\ [Next]_vars => IInv'
<1> SUFFICES ASSUME IInv, [Next]_vars PROVE IInv'
  OBVIOUS
<1>1. CASE Worker
  BY <1>1, WorkerInMemory, WorkerOnDisk DEF Worker
<1>2. CASE Orchestrator
  BY <1>2, ChunkInHand, PopChunkStep, ReapSuccessStep, SplitChunkStep, MergeStep
     DEF Orchestrator
<1>3. CASE UNCHANGED vars
  <2>1. UNCHANGED orchVars /\ UNCHANGED workerVars /\ UNCHANGED partials
    BY <1>3 DEF vars, orchVars, workerVars
  <2>2. PendingTiles' /\ PendingRoom' /\ WorkerCost' /\ Frontier' = Frontier
    BY <2>1, OrchestratorIdle DEF IInv
  <2>3. SettledTiles' /\ StaleOnlyAtFrontier'
    BY <2>1, <2>2, FilesIdle DEF IInv
  <2>4. TypeOK' /\ WorkerInHand'
    BY <2>1 DEF IInv, TypeOK, WorkerInHand, IsRun, orchVars, workerVars
  <2> QED BY <2>2, <2>3, <2>4 DEF IInv
<1> QED BY <1>1, <1>2, <1>3 DEF Next, Finished

\* Only an accepted chunk moves the frontier, and only behind its own images.
LEMMA FrontierMoves ==
    ASSUME IInv, Next
    PROVE  \/ Frontier' = Frontier
           \/ /\ ReapSuccess
              /\ Frontier = job.start
              /\ Frontier' = job.start + job.count
<1>1. CASE Worker
  <2>1. UNCHANGED orchVars
    BY <1>1 DEF Worker, WorkerSetup, WorkerSetupFails, WorkerWarmup, WorkerInfer,
                WorkerRaises, WorkerOpenPartial, WorkerWritePartial, WorkerExits,
                WorkerCrashes
  <2> QED BY <2>1, OrchestratorIdle DEF IInv
<1>2. CASE LaunchWorker \/ RetryChunk \/ AbortRun
  BY <1>2 DEF Frontier, JobActive, LaunchWorker, RetryChunk, AbortRun
<1>3. CASE PopChunk
  BY <1>3 DEF PopChunk, Frontier, JobActive
<1>4. CASE SplitChunk
  <2>1. phase = "running" /\ phase' = "pick" /\ queue' = Halves(job) \o queue
    BY <1>4 DEF SplitChunk
  <2> DEFINE first == Halves(job)[1]
             second == Halves(job)[2]
             S == Job \cup {first, second}
  <2>2. Halves(job) = <<first, second>> /\ first.start = job.start
    BY DEF Halves
  <2> HIDE DEF first, second
  <2>3. queue \in Seq(S) /\ <<first, second>> \in Seq(S) /\ Len(<<first, second>>) = 2
    BY SeqMonotonic DEF IInv, TypeOK
  <2>4. queue' \in Seq(S) /\ Len(queue') = Len(queue) + 2 /\ queue'[1] = first
    BY <2>1, <2>2, <2>3, ConcatProperties
  <2>5. queue' # <<>> /\ Head(queue') = first
    BY <2>3, <2>4, EmptySeq
  <2> QED BY <2>1, <2>2, <2>5 DEF Frontier, JobActive
<1>5. CASE Merge \/ Finalize
  BY <1>5 DEF Merge, Finalize, Frontier, JobActive
<1>6. CASE ReapSuccess
  <2>1. phase = "running" /\ phase' = "pick" /\ UNCHANGED <<queue, job>>
    BY <1>6 DEF ReapSuccess
  <2> QED BY <1>6, <2>1 DEF Frontier, JobActive, IInv, PendingTiles
<1>7. CASE Finished
  BY <1>7 DEF Finished, vars, Frontier, JobActive
<1> QED BY <1>1, <1>2, <1>3, <1>4, <1>5, <1>6, <1>7 DEF Next, Orchestrator

\* A step writes no file but that of the chunk in hand, at the frontier.
LEMMA WritesAtFrontier ==
    ASSUME IInv, Next
    PROVE  /\ \A s \in Image : s < Frontier => partials'[s] = partials[s]
           /\ Frontier' # Frontier => partials' = partials
<1>1. CASE WorkerOpenPartial \/ WorkerWritePartial
  <2>1. phase = "running"
    BY <1>1 DEF IInv, WorkerInHand, WorkerOpenPartial, WorkerWritePartial
  <2>2. Frontier = job.start /\ Frontier' = Frontier
    BY <1>1, <2>1 DEF Frontier, JobActive, orchVars, WorkerOpenPartial, WorkerWritePartial
  <2>3. \A s \in Image : s # job.start => partials'[s] = partials[s]
    BY <1>1 DEF IInv, TypeOK, WorkerOpenPartial, WorkerWritePartial, PartialKey
  <2>4. job.start \in Nat
    BY DEF IInv, TypeOK, Job, Image
  <2> QED BY <2>2, <2>3, <2>4 DEF Image
<1>2. CASE ~(WorkerOpenPartial \/ WorkerWritePartial)
  <2>1. partials' = partials
    BY <1>2 DEF Next, Worker, Orchestrator, Finished, vars,
       WorkerSetup, WorkerSetupFails, WorkerWarmup, WorkerInfer,
       WorkerRaises, WorkerExits, WorkerCrashes, PopChunk, LaunchWorker,
       ReapSuccess, RetryChunk, SplitChunk, AbortRun, Merge, Finalize
  <2> QED BY <2>1
<1> QED BY <1>1, <1>2

-----------------------------------------------------------------------------
(* The results.                                                            *)

\* The inductive invariant holds throughout.
THEOREM Invariance == Spec => []IInv
BY InitIInv, Inductive, PTL DEF Spec

\* The orchestrator's and the worker's variables keep their types; the
\* images a worker appends stay inside the listing.
THEOREM TypeSafety == Spec => []TypeOK
<1>1. IInv => TypeOK
  BY DEF IInv
<1> QED BY Invariance, <1>1, PTL

\* A stale partial never survives behind the frontier or ahead of it.
THEOREM StaleSafety == Spec => []StaleOnlyAtFrontier
<1>1. IInv => StaleOnlyAtFrontier
  BY DEF IInv
<1> QED BY Invariance, <1>1, PTL

\* The retries and splits of `orchestrate` start a bounded number of workers
\* for every chunk length: at most two for each of the 2N - NChunks intervals
\* the splitting can produce.
THEOREM WorkerBoundSafety == Spec => []WorkerBound
<1>1. IInv => WorkerBound
  <2> SUFFICES ASSUME IInv PROVE WorkerBound
    OBVIOUS
  <2>1. /\ Frontier \in 0 .. N /\ Pending \in Nat /\ NChunks \in Nat
        /\ workersRun \in Nat /\ Attempts \in 0 .. 2
    BY FrontierType, InitialQueueTiles DEF IInv, Pending, Attempts, TypeOK
  <2>2. Pending <= N - Frontier
    <3>0. /\ queue \in Seq(Job) /\ (queue = <<>> => Len(queue) = 0)
          /\ queue # <<>> => Len(queue) \in Nat \ {0} /\ Head(queue) = queue[1]
                             /\ Len(queue) <= N - Head(queue).start
      <4>1. queue \in Seq(Job)
        BY DEF IInv, TypeOK
      <4>2. queue # <<>> => Len(queue) \in Nat \ {0} /\ Head(queue) = queue[1]
        BY <4>1, EmptySeq
      <4>3. queue # <<>> => Len(queue) <= N - queue[1].start
        BY <4>2 DEF IInv, PendingRoom
      <4> QED BY <4>1, <4>2, <4>3
    <3>1. CASE ~JobActive
      BY <3>0, <3>1 DEF Frontier, Pending
    <3>2. CASE JobActive
      <4>1. /\ job.start \in Nat /\ job.count \in Nat \ {0}
            /\ Frontier = job.start /\ Pending = Len(queue) + 1
        BY <3>2 DEF IInv, TypeOK, Job, Image, Frontier, Pending
      <4>2. job.start + job.count =
                (IF queue # <<>> THEN Head(queue).start ELSE N)
        BY <3>2 DEF IInv, PendingTiles
      <4>3. Len(queue) <= N - (job.start + job.count)
        BY <3>0, <4>2
      <4>4. Len(queue) \in Nat
        BY <3>0
      <4> QED BY <4>1, <4>3, <4>4
    <3> QED BY <3>1, <3>2
  <2>3. workersRun <= 2 * (2 * Frontier + Pending - NChunks) + Attempts
    BY DEF IInv, WorkerCost
  <2>4. Attempts = 0 \/ Frontier < N
    <3>1. CASE JobActive
      BY <3>1 DEF IInv, TypeOK, Job, Image, Frontier
    <3>2. CASE ~JobActive
      BY <3>2 DEF JobActive, Attempts
    <3> QED BY <3>1, <3>2
  <2>5. \A f, p, k, w, a \in Int :
           /\ w <= 2 * (2 * f + p - k) + a
           /\ p <= N - f /\ f <= N /\ a <= 2 /\ (a = 0 \/ f < N)
           => w <= 2 * (2 * N - k)
    OBVIOUS
  <2> QED BY <2>1, <2>2, <2>3, <2>4, <2>5 DEF WorkerBound
<1> QED BY Invariance, <1>1, PTL

\* At the merge every image is in exactly one partial, at exactly one place.
THEOREM EveryImageOnceSafety == Spec => []EveryImageOnce
<1>1. IInv => EveryImageOnce
  <2> SUFFICES ASSUME IInv, phase \in {"merged", "done"}
               PROVE  /\ \A s \in PartialsOnDisk : partials[s].state = "whole"
                      /\ \A i \in Image :
                            \E s \in PartialsOnDisk :
                              \E k \in 1 .. Len(partials[s].preds) :
                                 /\ partials[s].preds[k] = i
                                 /\ \A t \in PartialsOnDisk :
                                       \A j \in 1 .. Len(partials[t].preds) :
                                          partials[t].preds[j] = i => t = s /\ j = k
    BY DEF EveryImageOnce
  <2>1. Frontier = N
    BY DEF IInv, WorkerInHand, Frontier, JobActive
  <2>2. \A s \in PartialsOnDisk :
           /\ s \in Nat /\ s < N
           /\ partials[s].state = "whole"
           /\ \A k \in 1 .. Len(partials[s].preds) : partials[s].preds[k] = s + k - 1
           /\ \A t \in PartialsOnDisk : s < t => FileEnd(s) <= t
           /\ Len(partials[s].preds) \in Nat
           /\ FileEnd(s) = s + Len(partials[s].preds)
    <3> SUFFICES ASSUME NEW s \in PartialsOnDisk
                 PROVE /\ s \in Nat /\ s < N
                       /\ partials[s].state = "whole"
                       /\ \A k \in 1 .. Len(partials[s].preds) : partials[s].preds[k] = s + k - 1
                       /\ \A t \in PartialsOnDisk : s < t => FileEnd(s) <= t
                       /\ Len(partials[s].preds) \in Nat
                       /\ FileEnd(s) = s + Len(partials[s].preds)
      OBVIOUS
    <3>1. s \in Image /\ s \in Nat /\ s < N
      BY DEF PartialsOnDisk, Image
    <3>2. Len(partials[s].preds) \in Nat
      BY <3>1 DEF IInv, TypeOK, PartialFile
    <3>3. /\ partials[s].state = "whole" /\ IsRun(s, partials[s].preds)
          /\ \A t \in PartialsOnDisk : s < t => FileEnd(s) <= t
      BY <2>1, <3>1 DEF IInv, SettledTiles
    <3> QED BY <3>1, <3>2, <3>3 DEF FileEnd, IsRun
  <2>3. ASSUME NEW i \in Image
        PROVE  \E s \in PartialsOnDisk : \E k \in 1 .. Len(partials[s].preds) :
                  /\ partials[s].preds[k] = i
                  /\ \A t \in PartialsOnDisk : \A j \in 1 .. Len(partials[t].preds) :
                        partials[t].preds[j] = i => t = s /\ j = k
    <3>1. PICK s \in PartialsOnDisk : s <= i /\ i < FileEnd(s)
      BY <2>1 DEF IInv, SettledTiles, Image
    <3>2. /\ i - s + 1 \in 1 .. Len(partials[s].preds)
          /\ partials[s].preds[i - s + 1] = i
      BY <2>2, <3>1 DEF Image
    <3>3. ASSUME NEW t \in PartialsOnDisk, NEW j \in 1 .. Len(partials[t].preds),
                 partials[t].preds[j] = i
          PROVE  t = s /\ j = i - s + 1
      <4>1. i = t + j - 1 /\ t <= i /\ i < FileEnd(t) /\ t \in Nat /\ j \in Nat
        BY <2>2, <3>3
      <4>2. ~(s < t)
        BY <2>2, <3>1, <4>1
      <4>3. ~(t < s)
        BY <2>2, <3>1, <4>1
      <4>4. t = s
        BY <2>2, <4>1, <4>2, <4>3
      <4> QED BY <2>2, <4>1, <4>4
    <3> QED BY <3>2, <3>3
  <2> QED BY <2>2, <2>3
<1> QED BY Invariance, <1>1, PTL

\* No step touches the predictions of an image behind the frontier.
THEOREM SettledIsFinalSafety == Spec => SettledIsFinal
<1> DEFINE Keeps == \A s \in Image : s < Frontier => partials'[s] = partials[s]
<1>1. IInv /\ [Next]_vars => [Keeps]_vars
  <2>1. IInv /\ Next => Keeps
    BY WritesAtFrontier
  <2> QED BY <2>1
<1> HIDE DEF Keeps
<1>2. Spec => [][Keeps]_vars
  BY Invariance, <1>1, PTL DEF Spec
<1> QED BY <1>2 DEF SettledIsFinal, Keeps

-----------------------------------------------------------------------------
(* The published counters.                                                 *)

\* The partials of accepted chunks.
Settled == {s \in PartialsOnDisk : s < Frontier}

InFlight == IF phase = "running" THEN 1 ELSE 0

\* A worker that was started runs, has been counted as a retry, or has left
\* the partial of an accepted chunk.
Ledger == workersRun = retries + Cardinality(Settled) + InFlight

\* The merged document carries the counters of the run.
Published ==
    phase \in {"merged", "done"} =>
        /\ {"preds", "chunks", "chunk_retries"} \subseteq DOMAIN merged
        /\ merged.chunks = workersRun
        /\ merged.chunk_retries = retries

\* There are at most as many partials as images.
LEMMA SettledFinite ==
    /\ IsFiniteSet(PartialsOnDisk)
    /\ IsFiniteSet(Settled)
    /\ Cardinality(Settled) \in Nat
<1>1. IsFiniteSet(Image)
  BY FS_Interval DEF Image
<1>2. PartialsOnDisk \in SUBSET Image /\ Settled \in SUBSET Image
  BY DEF PartialsOnDisk, Settled
<1>3. IsFiniteSet(PartialsOnDisk) /\ IsFiniteSet(Settled)
  BY <1>1, <1>2, FS_Subset
<1> QED BY <1>3, FS_CardinalityType

\* An accepted chunk adds its own partial to the settled ones, no other step
\* changes them.
LEMMA SettledGrows ==
    ASSUME IInv, Next
    PROVE  /\ ~ReapSuccess => Settled' = Settled
           /\ ReapSuccess => Cardinality(Settled') = Cardinality(Settled) + 1
<1>1. Frontier \in 0 .. N /\ job.start \in Image /\ job.count \in 1 .. N
  BY FrontierType DEF IInv, TypeOK, Job
<1>2. ASSUME Frontier' = Frontier PROVE Settled' = Settled
  BY <1>1, <1>2, WritesAtFrontier DEF Settled, PartialsOnDisk, Image
<1>3. CASE ReapSuccess
  <2>1. phase = "running" /\ stage = "ok" /\ partials' = partials
        /\ phase' = "pick" /\ UNCHANGED <<queue, job>>
    BY <1>3 DEF ReapSuccess
  <2>2. Frontier = job.start /\ Frontier' = job.start + job.count
    BY <2>1 DEF Frontier, JobActive, IInv, PendingTiles
  <2>3. job.start \in PartialsOnDisk
    BY <1>1, <2>1 DEF IInv, WorkerInHand, WholeFile, PartialsOnDisk
  <2>4. \A s \in PartialsOnDisk : s \in Nat /\ s <= job.start
    BY <2>2 DEF IInv, StaleOnlyAtFrontier, PartialsOnDisk, Image
  <2>5. PartialsOnDisk' = PartialsOnDisk
    BY <2>1 DEF PartialsOnDisk
  <2>6. Settled' = Settled \cup {job.start} /\ job.start \notin Settled
    BY <1>1, <2>2, <2>3, <2>4, <2>5 DEF Settled, Image
  <2> QED BY <1>3, <2>6, SettledFinite, FS_AddElement
<1>4. CASE ~ReapSuccess
  BY <1>2, <1>4, FrontierMoves
<1> QED BY <1>3, <1>4

\* What each step does to the counters.
LEMMA CountersMove ==
    ASSUME IInv, Next
    PROVE  \/ UNCHANGED <<workersRun, retries, InFlight>> /\ ~ReapSuccess
           \/ /\ workersRun' = workersRun + 1 /\ retries' = retries
              /\ InFlight = 0 /\ InFlight' = 1 /\ ~ReapSuccess
           \/ /\ workersRun' = workersRun /\ retries' = retries + 1
              /\ InFlight = 1 /\ InFlight' = 0 /\ ~ReapSuccess
           \/ /\ workersRun' = workersRun /\ retries' = retries
              /\ InFlight = 1 /\ InFlight' = 0 /\ ReapSuccess
<1> USE DEF InFlight
<1>1. CASE Worker
  <2>1. UNCHANGED orchVars
    BY <1>1 DEF Worker, WorkerSetup, WorkerSetupFails, WorkerWarmup, WorkerInfer,
                WorkerRaises, WorkerOpenPartial, WorkerWritePartial, WorkerExits,
                WorkerCrashes
  <2>2. phase = "running"
    BY <1>1 DEF IInv, WorkerInHand, Worker, WorkerSetup, WorkerSetupFails,
                WorkerWarmup, WorkerInfer, WorkerRaises, WorkerOpenPartial,
                WorkerWritePartial, WorkerExits, WorkerCrashes
  <2> QED BY <2>1, <2>2 DEF orchVars, ReapSuccess
<1>2. CASE Orchestrator
  BY <1>2 DEF Orchestrator, PopChunk, LaunchWorker, ReapSuccess, RetryChunk,
              SplitChunk, AbortRun, Merge, Finalize
<1>3. CASE Finished
  BY <1>3 DEF Finished, vars, ReapSuccess
<1> QED BY <1>1, <1>2, <1>3 DEF Next

\* No step makes the ledger wrong.
LEMMA LedgerKept == IInv /\ Ledger /\ [Next]_vars => Ledger'
<1> SUFFICES ASSUME IInv, Ledger, [Next]_vars PROVE Ledger'
  OBVIOUS
<1>1. CASE Next
  <2>1. /\ workersRun \in Nat /\ retries \in Nat /\ InFlight \in Nat
        /\ Cardinality(Settled) \in Nat
    BY SettledFinite DEF IInv, TypeOK, InFlight
  <2> QED BY <1>1, <2>1, SettledGrows, CountersMove DEF Ledger
<1>2. CASE UNCHANGED vars
  BY <1>2 DEF vars, Ledger, Settled, InFlight, PartialsOnDisk, Frontier, JobActive
<1> QED BY <1>1, <1>2

\* What is merged is what was counted, and scoring adds to it only.
LEMMA PublishedKept == IInv /\ Published /\ [Next]_vars => Published'
<1> SUFFICES ASSUME IInv, Published, [Next]_vars PROVE Published'
  OBVIOUS
<1> USE DEF Published
<1>1. CASE Merge
  <2>1. Frontier = N
    BY <1>1 DEF Merge, Frontier, JobActive
  <2>2. \A s \in PartialsOnDisk : partials[s].state = "whole"
    BY <2>1 DEF IInv, SettledTiles, PartialsOnDisk, Image
  <2>3. /\ merged' = MergedDoc
        /\ UNCHANGED <<workersRun, retries>>
    BY <1>1 DEF Merge
  <2>4. /\ {"preds", "chunks", "chunk_retries"} \subseteq DOMAIN MergedDoc
        /\ MergedDoc.chunks = workersRun
        /\ MergedDoc.chunk_retries = retries
    BY <2>2 DEF MergedDoc
  <2> QED BY <2>3, <2>4
<1>2. CASE Finalize
  BY <1>2 DEF Finalize
<1>3. CASE Worker
  <2>1. UNCHANGED orchVars
    BY <1>3 DEF Worker, WorkerSetup, WorkerSetupFails, WorkerWarmup, WorkerInfer,
                WorkerRaises, WorkerOpenPartial, WorkerWritePartial, WorkerExits,
                WorkerCrashes
  <2> QED BY <2>1 DEF orchVars
<1>4. CASE PopChunk \/ LaunchWorker \/ ReapSuccess \/ RetryChunk \/ SplitChunk
              \/ AbortRun
  BY <1>4 DEF PopChunk, LaunchWorker, ReapSuccess, RetryChunk, SplitChunk, AbortRun
<1>5. CASE UNCHANGED vars
  BY <1>5 DEF vars
<1> QED BY <1>1, <1>2, <1>3, <1>4, <1>5 DEF Next, Orchestrator, Finished

\* The published counters add up (orchestrate's chunks and chunk_retries):
\* the workers started are the partials merged and the failures retried,
\* however often chunks were split.
THEOREM CountersAddUpSafety == Spec => []CountersAddUp
<1>1. Init => Ledger /\ Published
  <2> SUFFICES ASSUME Init PROVE Ledger /\ Published
    OBVIOUS
  <2>1. PartialsOnDisk = {} /\ Settled = {}
    BY DEF Init, PartialsOnDisk, NoFile, Settled
  <2> QED BY <2>1, FS_EmptySet DEF Init, Ledger, InFlight, Published
<1>2. IInv /\ Ledger /\ Published => CountersAddUp
  <2> SUFFICES ASSUME IInv, Ledger, Published, phase \in {"merged", "done"}
               PROVE  merged.chunks = Cardinality(PartialsOnDisk) + merged.chunk_retries
    BY DEF CountersAddUp
  <2>1. Frontier = N
    BY DEF IInv, WorkerInHand, Frontier, JobActive
  <2>2. Settled = PartialsOnDisk /\ InFlight = 0
    BY <2>1 DEF Settled, PartialsOnDisk, Image, InFlight
  <2>3. retries \in Nat /\ Cardinality(Settled) \in Nat
    BY SettledFinite DEF IInv, TypeOK
  <2> QED BY <2>2, <2>3 DEF Ledger, Published
<1> QED BY <1>1, <1>2, Invariance, LedgerKept, PublishedKept, PTL DEF Spec

-----------------------------------------------------------------------------
(* Giving up.                                                              *)

Culprit == job.start \in BadImages \/ warm + Len(preds) = 0

\* How far the worker is with its chunk, and why a chunk of one image failed.
WorkAtHand ==
    /\ phase = "running" =>
          /\ warm <= WarmupRuns
          /\ stage = "setup" => warm + Len(preds) = 0
          /\ stage = "failed" /\ job.count = 1 => Culprit
    /\ phase = "aborted" => job.count = 1 /\ Culprit

\* Under a library that survives the warmup and the inference of one image,
\* nothing but that image or the setup stops a chunk of one.
LEMMA WorkAtHandKept ==
    ASSUME HeapLife >= MinOf(Warmup, 1) + 1
    PROVE  IInv /\ WorkAtHand /\ [Next]_vars => WorkAtHand'
<1> SUFFICES ASSUME IInv, WorkAtHand, [Next]_vars PROVE WorkAtHand'
  OBVIOUS
<1>0. /\ warm \in Nat /\ Len(preds) \in Nat /\ WarmupRuns \in Nat
      /\ job.start \in Nat /\ job.count \in Nat \ {0}
      /\ job.count = 1 => WarmupRuns = MinOf(Warmup, 1)
      /\ WarmupRuns <= job.count
  BY DEF IInv, TypeOK, Job, Image, WarmupRuns, MinOf
<1>1. CASE Worker
  <2>1. UNCHANGED orchVars /\ phase = "running" /\ WarmupRuns' = WarmupRuns
        /\ Len(preds) <= job.count
    BY <1>1 DEF IInv, WorkerInHand, Worker, WorkerSetup, WorkerSetupFails,
                WorkerWarmup, WorkerInfer, WorkerRaises, WorkerOpenPartial,
                WorkerWritePartial, WorkerExits, WorkerCrashes, orchVars, WarmupRuns
  <2>2. CASE WorkerSetup \/ WorkerSetupFails
    BY <2>1, <2>2 DEF WorkerSetup, WorkerSetupFails, WorkAtHand, Culprit, orchVars
  <2>3. CASE WorkerWarmup \/ WorkerInfer \/ WorkerOpenPartial \/ WorkerWritePartial
                \/ WorkerExits
    BY <1>0, <2>1, <2>3 DEF WorkerWarmup, WorkerInfer, WorkerOpenPartial,
       WorkerWritePartial, WorkerExits, WorkAtHand, orchVars
  <2>4. CASE WorkerRaises
    <3>1. job.count = 1 => NextImage = job.start
      BY <1>0, <2>4, FaultAssumption DEF WorkerRaises, NextImage, MinOf
    <3> QED BY <2>1, <2>4, <3>1 DEF WorkerRaises, WorkAtHand, Culprit, orchVars
  <2>5. CASE WorkerCrashes
    <3>1. job.count # 1
      BY <1>0, <2>1, <2>5, FaultAssumption
         DEF WorkerCrashes, HeapMayBeCorrupt, WorkAtHand, MinOf
    <3> QED BY <2>1, <2>5, <3>1 DEF WorkerCrashes, WorkAtHand, orchVars
  <2> QED BY <1>1, <2>2, <2>3, <2>4, <2>5 DEF Worker
<1>2. CASE LaunchWorker
  BY <1>0, <1>2 DEF LaunchWorker, WorkAtHand, Culprit, WarmupRuns
<1>3. CASE AbortRun
  BY <1>3 DEF AbortRun, WorkAtHand, Culprit
<1>4. CASE PopChunk \/ ReapSuccess \/ RetryChunk \/ SplitChunk \/ Merge \/ Finalize
  BY <1>4 DEF PopChunk, ReapSuccess, RetryChunk, SplitChunk, Merge, Finalize, WorkAtHand
<1>5. CASE UNCHANGED vars
  BY <1>5 DEF vars, WorkAtHand, Culprit, WarmupRuns
<1> QED BY <1>1, <1>2, <1>3, <1>4, <1>5 DEF Next, Orchestrator, Finished

\* The bisection of orchestrate names the culprit: when the library survives
\* the warmup and the measurement of a single image, the run is given up on
\* one image only, which is bad unless no worker got as far as an inference.
THEOREM AbortNamesCulpritSafety ==
    ASSUME HeapLife >= MinOf(Warmup, 1) + 1
    PROVE  Spec => []AbortNamesCulprit
<1>1. Init => WorkAtHand
  BY DEF Init, WorkAtHand
<1>2. WorkAtHand => AbortNamesCulprit
  BY DEF WorkAtHand, AbortNamesCulprit, Culprit
<1>3. IInv /\ WorkAtHand /\ [Next]_vars => WorkAtHand'
  BY WorkAtHandKept
<1> QED BY <1>1, <1>2, <1>3, Invariance, PTL DEF Spec

-----------------------------------------------------------------------------
(* Induction, and what FlattenSeq computes.                                *)

\* A set of natural numbers has a least element.
LEMMA LeastNatural ==
    ASSUME NEW S \in SUBSET Nat, S # {}
    PROVE  \E n \in S : \A m \in S : n <= m
<1> DEFINE R == {ss \in Nat \X Nat : ss[1] < ss[2]}
<1>1. IsWellFoundedOn(R, Nat)
  BY NatLessThanWellFounded DEF OpToRel
<1>2. \A x, y \in Nat : y < x => <<y, x>> \in R
  OBVIOUS
<1> HIDE DEF R
<1>3. PICK x \in S : \A y \in S : ~(<<y, x>> \in R)
  BY <1>1, WFMin
<1>4. ASSUME NEW y \in S PROVE x <= y
  <2>1. x \in Nat /\ y \in Nat /\ ~(y < x)
    BY <1>2, <1>3
  <2> QED BY <2>1
<1> QED BY <1>3, <1>4

\* Induction on the natural numbers, about a set and not about a formula, so
\* that a first-order prover can use it.
LEMMA SetInduction ==
    ASSUME NEW S, 0 \in S, \A n \in Nat : n \in S => n + 1 \in S
    PROVE  \A n \in Nat : n \in S
<1> DEFINE B == {n \in Nat : n \notin S}
<1>1. SUFFICES ASSUME B # {} PROVE FALSE
  OBVIOUS
<1>2. PICK n \in B : \A m \in B : n <= m
  BY <1>1, LeastNatural
<1>3. n \in Nat /\ n # 0 /\ n - 1 \in Nat
  BY <1>2
<1>4. n - 1 \in S
  BY <1>2, <1>3
<1> QED BY <1>2, <1>3, <1>4

\* f concatenates the first n sequences of s, as FlattenSeq does.
Chains(f, s, n) ==
    \A i \in 1 .. n : f[i] = IF i = 1 THEN s[i] ELSE f[i - 1] \o s[i]

\* Such a function exists.
LEMMA FlattenChain ==
    ASSUME NEW S, NEW s \in Seq(Seq(S)), NEW n \in Nat, n <= Len(s)
    PROVE  \E f \in [1 .. n -> Seq(S)] : Chains(f, s, n)
<1> DEFINE Good(k) == k <= Len(s) => \E f \in [1 .. k -> Seq(S)] : Chains(f, s, k)
           G == {k \in Nat : Good(k)}
<1>0. Len(s) \in Nat /\ \A i \in 1 .. Len(s) : s[i] \in Seq(S)
  OBVIOUS
<1>1. Good(0)
  <2>1. [i \in 1 .. 0 |-> <<>>] \in [1 .. 0 -> Seq(S)]
    OBVIOUS
  <2>2. Chains([i \in 1 .. 0 |-> <<>>], s, 0)
    BY DEF Chains
  <2> QED BY <2>1, <2>2
<1>2. ASSUME NEW k \in Nat, Good(k) PROVE Good(k + 1)
  <2>1. SUFFICES ASSUME k + 1 <= Len(s)
                 PROVE  \E f \in [1 .. k + 1 -> Seq(S)] : Chains(f, s, k + 1)
    OBVIOUS
  <2>2. PICK f \in [1 .. k -> Seq(S)] : Chains(f, s, k)
    <3>1. k <= Len(s)
      BY <2>1, <1>0
    <3> QED BY <3>1, <1>2
  <2> DEFINE last == IF k = 0 THEN s[1] ELSE f[k] \o s[k + 1]
             g == [i \in 1 .. k + 1 |-> IF i <= k THEN f[i] ELSE last]
  <2>3. last \in Seq(S)
    BY <2>1, <1>0, ConcatProperties
  <2>4. g \in [1 .. k + 1 -> Seq(S)]
    BY <2>3
  <2>5. ASSUME NEW i \in 1 .. k + 1
        PROVE  g[i] = IF i = 1 THEN s[i] ELSE g[i - 1] \o s[i]
    <3>1. CASE i <= k
      <4>1. /\ i \in 1 .. k /\ g[i] = f[i]
            /\ i # 1 => i - 1 \in 1 .. k /\ g[i - 1] = f[i - 1]
        BY <3>1
      <4> HIDE DEF g
      <4> QED BY <2>2, <4>1 DEF Chains
    <3>2. CASE i = k + 1
      <4>1. g[i] = last /\ (i # 1 => g[i - 1] = f[k])
        BY <3>2
      <4> HIDE DEF g
      <4> QED BY <3>2, <4>1
    <3> QED BY <3>1, <3>2
  <2> HIDE DEF g
  <2>6. Chains(g, s, k + 1)
    BY <2>5 DEF Chains
  <2> QED BY <2>4, <2>6
<1> HIDE DEF Good
<1>3. 0 \in G /\ \A k \in Nat : k \in G => k + 1 \in G
  BY <1>1, <1>2
<1> HIDE DEF G
<1>4. \A k \in Nat : k \in G
  BY <1>3, SetInduction
<1>5. Good(n)
  BY <1>4 DEF G
<1> QED BY <1>5 DEF Good

\* FlattenSeq concatenates from left to right.
LEMMA FlattenSteps ==
    ASSUME NEW S, NEW s \in Seq(Seq(S))
    PROVE  \E f \in [0 .. Len(s) -> Seq(S)] :
              /\ f[0] = <<>>
              /\ \A i \in 1 .. Len(s) : f[i] = f[i - 1] \o s[i]
              /\ FlattenSeq(s) = f[Len(s)]
<1> DEFINE n == Len(s)
           F == CHOOSE f : f = [i \in 1 .. n |-> IF i = 1 THEN s[i] ELSE f[i - 1] \o s[i]]
<1>0. n \in Nat /\ n <= n /\ \A i \in 1 .. n : s[i] \in Seq(S)
  OBVIOUS
<1>1. CASE n = 0
  <2>1. s = <<>> /\ <<>> \in Seq(S)
    BY <1>1, EmptySeq
  <2>2. FlattenSeq(s) = <<>>
    BY <1>1, <2>1 DEF FlattenSeq
  <2> DEFINE h == [i \in 0 .. n |-> <<>>]
  <2>3. h \in [0 .. n -> Seq(S)] /\ h[0] = <<>> /\ h[n] = <<>>
    BY <1>1, <2>1
  <2>4. \A i \in 1 .. n : h[i] = h[i - 1] \o s[i]
    BY <1>1
  <2> HIDE DEF h
  <2> QED BY <2>2, <2>3, <2>4
<1>2. CASE n # 0
  <2>1. FlattenSeq(s) = F[n]
    BY <1>2 DEF FlattenSeq
  <2> HIDE DEF n
  <2>2. PICK g \in [1 .. n -> Seq(S)] : Chains(g, s, n)
    BY <1>0, FlattenChain DEF n
  <2>3. g = [i \in 1 .. n |-> IF i = 1 THEN s[i] ELSE g[i - 1] \o s[i]]
    BY <2>2 DEF Chains
  <2>4. F = [i \in 1 .. n |-> IF i = 1 THEN s[i] ELSE F[i - 1] \o s[i]]
    BY <2>3
  <2> HIDE DEF F
  <2>0. \A i \in 1 .. n : F[i] = IF i = 1 THEN s[i] ELSE F[i - 1] \o s[i]
    BY <2>4
  <2> DEFINE h == [i \in 0 .. n |-> IF i = 0 THEN <<>> ELSE F[i]]
             Typed(k) == k \in 1 .. n => F[k] \in Seq(S)
             T == {k \in Nat : Typed(k)}
  <2>5. ASSUME NEW k \in Nat, Typed(k) PROVE Typed(k + 1)
    <3>1. SUFFICES ASSUME k + 1 \in 1 .. n PROVE F[k + 1] \in Seq(S)
      OBVIOUS
    <3>2. CASE k = 0
      <4>1. F[k + 1] = s[1]
        BY <2>0, <3>1, <3>2
      <4> QED BY <4>1, <3>1, <3>2, <1>0
    <3>3. CASE k # 0
      <4>1. k \in 1 .. n /\ (k + 1) - 1 = k /\ k + 1 # 1
        BY <3>1, <3>3, <1>0
      <4>2. F[k + 1] = F[(k + 1) - 1] \o s[k + 1]
        BY <2>0, <3>1, <4>1, Zenon
      <4> QED BY <4>1, <4>2, <2>5, <3>1, <1>0, ConcatProperties
    <3> QED BY <3>2, <3>3
  <2>6. \A k \in 1 .. n : F[k] \in Seq(S)
    <3>1. Typed(0)
      OBVIOUS
    <3> HIDE DEF Typed
    <3>2. 0 \in T /\ \A k \in Nat : k \in T => k + 1 \in T
      BY <2>5, <3>1
    <3> HIDE DEF T
    <3>3. \A k \in Nat : k \in T
      BY <3>2, SetInduction
    <3>4. \A k \in Nat : Typed(k)
      BY <3>3 DEF T
    <3> QED BY <3>4, <1>0 DEF Typed
  <2>7. h \in [0 .. n -> Seq(S)]
    BY <2>6
  <2>8. ASSUME NEW i \in 1 .. n PROVE h[i] = h[i - 1] \o s[i]
    <3>1. h[i] = F[i] /\ i - 1 \in 0 .. n
      BY <1>0
    <3>2. CASE i = 1
      <4>1. h[i - 1] = <<>> /\ F[i] = s[i]
        BY <2>0, <3>1, <3>2, <1>0
      <4> QED BY <3>1, <4>1, <1>0, ConcatEmptySeq
    <3>3. CASE i # 1
      <4>1. h[i - 1] = F[i - 1]
        BY <3>1, <3>3, <1>0
      <4>2. F[i] = F[i - 1] \o s[i]
        <5> HIDE DEF h
        <5> QED BY <2>0, <3>3
      <4> QED BY <3>1, <4>1, <4>2
    <3> QED BY <3>2, <3>3
  <2>9. h[0] = <<>> /\ h[n] = F[n]
    BY <1>0, <1>2
  <2> HIDE DEF h
  <2> QED BY <2>1, <2>7, <2>8, <2>9 DEF n
<1> QED BY <1>1, <1>2
-----------------------------------------------------------------------------
(* The scheme is implemented.                                              *)

\* A partial that does not exist holds nothing.
NoneEmpty == \A s \in Image : partials[s].state = "none" => partials[s].preds = <<>>

\* No step makes one hold anything.
LEMMA NoneEmptyKept == IInv /\ NoneEmpty /\ [Next]_vars => NoneEmpty'
<1> SUFFICES ASSUME IInv, NoneEmpty, [Next]_vars PROVE NoneEmpty'
  OBVIOUS
<1>1. CASE WorkerOpenPartial \/ WorkerWritePartial
  <2>1. /\ \A s \in Image : s # job.start => partials'[s] = partials[s]
        /\ partials'[job.start].state # "none"
    BY <1>1 DEF IInv, TypeOK, Job, WorkerOpenPartial, WorkerWritePartial,
                PartialKey, TornFile, WholeFile
  <2> QED BY <2>1 DEF NoneEmpty
<1>2. CASE ~(WorkerOpenPartial \/ WorkerWritePartial)
  <2>1. partials' = partials
    BY <1>2 DEF Next, Worker, Orchestrator, Finished, vars,
       WorkerSetup, WorkerSetupFails, WorkerWarmup, WorkerInfer,
       WorkerRaises, WorkerExits, WorkerCrashes, PopChunk, LaunchWorker,
       ReapSuccess, RetryChunk, SplitChunk, AbortRun, Merge, Finalize
  <2> QED BY <2>1 DEF NoneEmpty
<1> QED BY <1>1, <1>2

\* What holds of every partial once all images are settled.
LEMMA FilesInTheEnd ==
    ASSUME IInv, Frontier = N, NEW s \in PartialsOnDisk
    PROVE  /\ s \in Image /\ s \in Nat /\ s < N
           /\ Len(partials[s].preds) \in Nat
           /\ partials[s].preds \in Seq(Image)
           /\ FileEnd(s) = s + Len(partials[s].preds)
           /\ FileEnd(s) \in Nat /\ FileEnd(s) <= N
           /\ \A k \in 1 .. Len(partials[s].preds) : partials[s].preds[k] = s + k - 1
           /\ \A t \in PartialsOnDisk : s < t => FileEnd(s) <= t
<1>1. s \in Image /\ s \in Nat /\ s < N
  BY DEF PartialsOnDisk, Image
<1>2. partials[s].preds \in Seq(Image) /\ Len(partials[s].preds) \in Nat
  BY <1>1 DEF IInv, TypeOK, PartialFile
<1>3. /\ IsRun(s, partials[s].preds) /\ FileEnd(s) <= N
      /\ \A t \in PartialsOnDisk : s < t => FileEnd(s) <= t
  BY <1>1 DEF IInv, SettledTiles
<1> QED BY <1>1, <1>2, <1>3 DEF FileEnd, IsRun

\* The first m images of the listing.
Upto(m) == [i \in 1 .. m |-> i - 1]

\* The partials of the first k images hold the first m images.
Reaches(k, m) ==
    /\ \A s \in PartialsOnDisk : s < k => FileEnd(s) <= m
    /\ m = k \/ \E s \in PartialsOnDisk : s < k /\ m = FileEnd(s)

\* Without a partial of its own an image is in one of those before.
LEMMA ReachesPast ==
    ASSUME IInv, Frontier = N, NEW k \in Image, k \notin PartialsOnDisk,
           NEW m \in k .. N, Reaches(k, m)
    PROVE  Reaches(k + 1, m) /\ m \in (k + 1) .. N
<1>1. PICK c \in PartialsOnDisk : c <= k /\ k < FileEnd(c)
  BY DEF IInv, SettledTiles, Image
<1>2. c < k /\ FileEnd(c) \in Nat /\ k \in Nat
  BY <1>1, FilesInTheEnd DEF Image
<1>3. m \in (k + 1) .. N
  BY <1>1, <1>2 DEF Reaches
<1>4. \A s \in PartialsOnDisk : s < k + 1 => s < k
  BY FilesInTheEnd DEF Image
<1>5. m # k
  BY <1>2, <1>3
<1>6. \E s \in PartialsOnDisk : s < k + 1 /\ m = FileEnd(s)
  <2>1. PICK s \in PartialsOnDisk : s < k /\ m = FileEnd(s)
    BY <1>5 DEF Reaches
  <2>2. s < k + 1
    BY <1>2, <2>1, FilesInTheEnd
  <2> QED BY <2>1, <2>2
<1> QED BY <1>3, <1>4, <1>6 DEF Reaches

\* A partial starts where those before it end.
LEMMA ReachesOn ==
    ASSUME IInv, Frontier = N, NEW k \in PartialsOnDisk,
           NEW m \in k .. N, Reaches(k, m)
    PROVE  /\ m = k
           /\ FileEnd(k) \in (k + 1) .. N
           /\ Reaches(k + 1, FileEnd(k))
<1>1. k \in Nat /\ FileEnd(k) \in Nat /\ FileEnd(k) <= N /\ k \in Image
  BY FilesInTheEnd
<1>2. m = k
  BY <1>1, FilesInTheEnd DEF Reaches
<1>3. PICK c \in PartialsOnDisk : c <= k /\ k < FileEnd(c)
  BY <1>1 DEF IInv, SettledTiles, Image
<1>4. c = k
  <2>1. c \in Nat /\ FileEnd(c) \in Nat /\ (c < k => FileEnd(c) <= k)
    BY FilesInTheEnd
  <2> QED BY <1>1, <1>3, <2>1
<1>5. FileEnd(k) \in (k + 1) .. N
  BY <1>1, <1>3, <1>4
<1>6. ASSUME NEW s \in PartialsOnDisk, s < k + 1 PROVE FileEnd(s) <= FileEnd(k)
  <2>1. s \in Nat /\ FileEnd(s) \in Nat /\ (s < k => FileEnd(s) <= k)
    BY FilesInTheEnd
  <2> QED BY <1>1, <1>5, <1>6, <2>1
<1>7. k < k + 1
  BY <1>1
<1> QED BY <1>2, <1>5, <1>6, <1>7 DEF Reaches

\* The partials of a finished run, one behind the other, are the listing.
LEMMA MergedInOrder ==
    ASSUME IInv, NoneEmpty, Frontier = N
    PROVE  FlattenSeq([k \in 1 .. N |-> partials[k - 1].preds]) = Upto(N)
<1> DEFINE ps == [k \in 1 .. N |-> partials[k - 1].preds]
<1>1. /\ ps \in Seq(Seq(Image)) /\ Len(ps) = N
      /\ \A k \in 1 .. N : ps[k] = partials[k - 1].preds /\ k - 1 \in Image
  BY DEF IInv, TypeOK, PartialFile, Image
<1> HIDE DEF ps
<1>2. PICK f \in [0 .. N -> Seq(Image)] :
         /\ f[0] = <<>>
         /\ \A i \in 1 .. N : f[i] = f[i - 1] \o ps[i]
         /\ FlattenSeq(ps) = f[N]
  BY <1>1, FlattenSteps
<1> DEFINE Good(k) == k <= N => \E m \in k .. N : f[k] = Upto(m) /\ Reaches(k, m)
           G == {k \in Nat : Good(k)}
<1>3. Good(0)
  <2>1. f[0] = Upto(0)
    BY <1>2 DEF Upto
  <2>2. \A s \in PartialsOnDisk : ~(s < 0)
    BY FilesInTheEnd
  <2>3. Reaches(0, 0) /\ 0 \in 0 .. N
    BY <2>2 DEF Reaches
  <2> QED BY <2>1, <2>3
<1>4. ASSUME NEW k \in Nat, Good(k), k + 1 <= N
      PROVE  \E m \in (k + 1) .. N : f[k + 1] = Upto(m) /\ Reaches(k + 1, m)
  <2>1. PICK m \in k .. N : f[k] = Upto(m) /\ Reaches(k, m)
    <3>1. k <= N
      BY <1>4
    <3> QED BY <1>4, <3>1
  <2>2. k \in Image /\ k + 1 \in 1 .. N /\ (k + 1) - 1 = k
    BY <1>4 DEF Image
  <2>3. f[k + 1] = f[k] \o partials[k].preds
    BY <1>1, <1>2, <2>2
  <2>4. CASE k \notin PartialsOnDisk
    <3>1. partials[k].preds = <<>>
      BY <2>2, <2>4 DEF NoneEmpty, PartialsOnDisk
    <3>2. f[k] \in Seq(Image)
      BY <1>2, <2>2
    <3>3. f[k + 1] = Upto(m)
      BY <2>1, <2>3, <3>1, <3>2, ConcatEmptySeq
    <3> QED BY <2>1, <2>2, <2>4, <3>3, ReachesPast
  <2>5. CASE k \in PartialsOnDisk
    <3> DEFINE e == FileEnd(k)
               mine == partials[k].preds
    <3>1. m = k /\ e \in (k + 1) .. N /\ Reaches(k + 1, e)
      BY <2>1, <2>5, ReachesOn
    <3>2. /\ mine \in Seq(Image) /\ Len(mine) \in Nat /\ e = k + Len(mine)
          /\ \A j \in 1 .. Len(mine) : mine[j] = k + j - 1
      BY <2>5, FilesInTheEnd
    <3> HIDE DEF e, mine
    <3>3. f[k] \in Seq(Image) /\ Len(f[k]) = k /\ \A i \in 1 .. k : f[k][i] = i - 1
      <4>1. k \in 0 .. N /\ f[k] = [i \in 1 .. k |-> i - 1] /\ k \in Nat
        BY <2>1, <2>2, <3>1 DEF Upto, Image
      <4>2. f[k] \in Seq(Image)
        BY <1>2, <4>1
      <4>3. Len([i \in 1 .. k |-> i - 1]) = k
        BY <4>1
      <4> QED BY <4>1, <4>2, <4>3
    <3>4. /\ f[k + 1] \in Seq(Image) /\ Len(f[k + 1]) = e
          /\ \A i \in 1 .. e : f[k + 1][i] =
                IF i <= k THEN f[k][i] ELSE mine[i - k]
      <4>1. f[k + 1] = f[k] \o mine
        BY <2>3 DEF mine
      <4>2. \A a, b \in Seq(Image) :
               /\ a \o b \in Seq(Image) /\ Len(a \o b) = Len(a) + Len(b)
               /\ \A i \in 1 .. Len(a) + Len(b) :
                     (a \o b)[i] = IF i <= Len(a) THEN a[i] ELSE b[i - Len(a)]
        BY ConcatProperties
      <4>3. /\ f[k] \o mine \in Seq(Image)
            /\ Len(f[k] \o mine) = Len(f[k]) + Len(mine)
            /\ \A i \in 1 .. Len(f[k]) + Len(mine) : (f[k] \o mine)[i] =
                  IF i <= Len(f[k]) THEN f[k][i] ELSE mine[i - Len(f[k])]
        BY <3>2, <3>3, <4>2, Zenon
      <4> QED BY <3>2, <3>3, <4>1, <4>3
    <3>5. ASSUME NEW i \in 1 .. e PROVE f[k + 1][i] = i - 1
      <4>1. CASE i <= k
        BY <3>3, <3>4, <4>1
      <4>2. CASE ~(i <= k)
        <5>1. i - k \in 1 .. Len(mine) /\ k + (i - k) - 1 = i - 1
          BY <3>1, <3>2, <4>2
        <5> QED BY <3>2, <3>4, <4>2, <5>1
      <4> QED BY <4>1, <4>2
    <3>6. Upto(e) \in Seq(Image) /\ Len(Upto(e)) = e
          /\ \A i \in 1 .. e : Upto(e)[i] = i - 1
      BY <3>1 DEF Upto, Image
    <3>7. f[k + 1] = Upto(e)
      BY <3>4, <3>5, <3>6, SeqEqual
    <3> QED BY <3>1, <3>7
  <2> QED BY <2>4, <2>5
<1>5. \A k \in Nat : Good(k) => Good(k + 1)
  BY <1>4
<1> HIDE DEF Good
<1>6. 0 \in G /\ \A k \in Nat : k \in G => k + 1 \in G
  BY <1>3, <1>5
<1> HIDE DEF G
<1>7. \A k \in Nat : k \in G
  BY <1>6, SetInduction
<1>8. Good(N)
  BY <1>7 DEF G
<1>9. PICK m \in N .. N : f[N] = Upto(m)
  BY <1>8 DEF Good
<1> QED BY <1>2, <1>9 DEF ps

\* merged.preds stays what the merge made of it.
LEMMA ResultMoves ==
    ASSUME IInv, NoneEmpty, Published, Next
    PROVE  /\ ~Merge => merged'.preds = merged.preds
           /\ Merge => Frontier = N /\ merged'.preds = Upto(N)
<1>1. CASE Merge
  <2>1. Frontier = N
    BY <1>1 DEF Merge, Frontier, JobActive
  <2>2. \A s \in PartialsOnDisk : partials[s].state = "whole"
    BY <2>1 DEF IInv, SettledTiles, PartialsOnDisk, Image
  <2>3. merged' = MergedDoc
    BY <1>1 DEF Merge
  <2>4. merged'.preds = FlattenSeq([k \in 1 .. N |-> partials[k - 1].preds])
    BY <2>2, <2>3 DEF MergedDoc
  <2> QED BY <1>1, <2>1, <2>4, MergedInOrder
<1>2. CASE Finalize
  BY <1>2 DEF Finalize, Merge, Published
<1>3. CASE Worker
  <2>1. UNCHANGED orchVars
    BY <1>3 DEF Worker, WorkerSetup, WorkerSetupFails, WorkerWarmup, WorkerInfer,
                WorkerRaises, WorkerOpenPartial, WorkerWritePartial, WorkerExits,
                WorkerCrashes
  <2>2. ~Merge
    BY <1>3 DEF IInv, WorkerInHand, Merge, Worker, WorkerSetup, WorkerSetupFails,
                WorkerWarmup, WorkerInfer, WorkerRaises, WorkerOpenPartial,
                WorkerWritePartial, WorkerExits, WorkerCrashes
  <2> QED BY <2>1, <2>2 DEF orchVars
<1>4. CASE PopChunk \/ LaunchWorker \/ ReapSuccess \/ RetryChunk \/ SplitChunk
              \/ AbortRun \/ Finished
  BY <1>4 DEF PopChunk, LaunchWorker, ReapSuccess, RetryChunk, SplitChunk, AbortRun,
              Finished, Merge, vars
<1> QED BY <1>1, <1>2, <1>3, <1>4 DEF Next, Orchestrator

Outcome ==
    CASE phase = "aborted" -> "aborted"
      [] phase \in {"merged", "done"} -> "published"
      [] OTHER -> "running"

\* A step that settles, publishes or gives up does what the scheme allows,
\* any other leaves what the scheme shows alone.
LEMMA SchemeStep ==
    IInv /\ NoneEmpty /\ Published /\ [Next]_vars
       => [Scheme!Next]_(Scheme!schemeVars)
<1> SUFFICES ASSUME IInv, NoneEmpty, Published, Next
             PROVE  Scheme!Next \/ UNCHANGED Scheme!schemeVars
  <2>1. UNCHANGED vars => UNCHANGED Scheme!schemeVars
    BY DEF vars, Scheme!schemeVars, Frontier, JobActive
  <2> QED BY <2>1
<1> USE DEF Outcome
<1>2. CASE ReapSuccess
  <2>1. Frontier \in 0 .. N /\ job.count \in 1 .. N /\ Frontier = job.start
        /\ Frontier' = job.start + job.count /\ job.start + job.count <= N
        /\ Outcome = "running" /\ Outcome' = "running"
    BY <1>2, FrontierType DEF ReapSuccess, IInv, TypeOK, Job, PendingTiles,
                              Frontier, JobActive
  <2>2. merged'.preds = merged.preds
    BY <1>2 DEF ReapSuccess
  <2>3. Frontier' \in (Frontier + 1) .. N
    BY <2>1
  <2> QED BY <2>1, <2>2, <2>3 DEF Scheme!Next, Scheme!Settle
<1>3. CASE Merge
  <2>1. Frontier = N /\ merged'.preds = Upto(N) /\ Frontier' = Frontier
    BY <1>3, ResultMoves DEF Merge, Frontier, JobActive
  <2>2. Outcome = "running" /\ Outcome' = "published"
    BY <1>3 DEF Merge
  <2> QED BY <2>1, <2>2 DEF Scheme!Next, Scheme!Publish, Upto
<1>4. CASE AbortRun
  <2>1. Frontier = job.start /\ Frontier' = Frontier /\ job.start < N
        /\ Outcome = "running" /\ Outcome' = "aborted"
    BY <1>4 DEF AbortRun, Frontier, JobActive, IInv, TypeOK, Job, Image
  <2>2. merged'.preds = merged.preds
    BY <1>4 DEF AbortRun
  <2> QED BY <2>1, <2>2 DEF Scheme!Next, Scheme!GiveUp
<1>5. CASE ~ReapSuccess /\ ~Merge /\ ~AbortRun
  <2>1. Frontier' = Frontier /\ merged'.preds = merged.preds
    BY <1>5, FrontierMoves, ResultMoves
  <2>2. Outcome' = Outcome
    <3>1. CASE Worker
      BY <3>1 DEF Worker, WorkerSetup, WorkerSetupFails, WorkerWarmup, WorkerInfer,
                  WorkerRaises, WorkerOpenPartial, WorkerWritePartial, WorkerExits,
                  WorkerCrashes, orchVars
    <3>2. CASE ~Worker
      BY <1>5, <3>2 DEF Next, Orchestrator, Finished, vars, PopChunk, LaunchWorker,
                        RetryChunk, SplitChunk, Finalize
    <3> QED BY <3>1, <3>2
  <2>3. UNCHANGED Scheme!schemeVars
    BY <2>1, <2>2 DEF Scheme!schemeVars
  <2> QED BY <2>3
<1> QED BY <1>2, <1>3, <1>4, <1>5

\* The chunks, retries and splits of orchestrate implement CoverageScheme: what
\* is published is the listing, whole and in order, or nothing is.
THEOREM OrchestratorImplementsScheme ==
    Spec => Scheme!Init /\ [][Scheme!Next]_(Scheme!schemeVars)
<1>1. Init => Scheme!Init /\ Ledger /\ Published /\ NoneEmpty
  <2> SUFFICES ASSUME Init PROVE Scheme!Init /\ Ledger /\ Published /\ NoneEmpty
    OBVIOUS
  <2>1. PartialsOnDisk = {} /\ Settled = {}
    BY DEF Init, PartialsOnDisk, NoFile, Settled
  <2>2. Frontier = 0
    BY InitialQueueTiles DEF Init, Frontier, JobActive
  <2>3. Ledger /\ Published /\ NoneEmpty
    BY <2>1, FS_EmptySet DEF Init, Ledger, InFlight, Published, NoneEmpty, NoFile
  <2>4. Scheme!Init
    BY <2>2 DEF Init, Scheme!Init, NoDoc
  <2> QED BY <2>3, <2>4
<1> QED BY <1>1, Invariance, PublishedKept, NoneEmptyKept, SchemeStep, PTL DEF Spec

=============================================================================
