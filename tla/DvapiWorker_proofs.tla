------------------------- MODULE DvapiWorker_proofs -------------------------
(***************************************************************************)
(* Proofs about the life of the client library's objects in a worker, for  *)
(* every number of inferences.                                             *)
(***************************************************************************)
EXTENDS DvapiWorker, TLAPS

USE CallsAssumption

\* The native objects are told apart.
LEMMA Handles ==
    /\ Session \in Handle /\ Model \in Handle
    /\ Session # Model
    /\ \A c \in Call : /\ Request(c) \in Handle
                       /\ Request(c) \in Requests
                       /\ Request(c) # Session
                       /\ Request(c) # Model
    /\ \A c, d \in Call : Request(c) = Request(d) => c = d
    /\ \A h \in Handle : h \in {Session, Model} \/ \E c \in Call : h = Request(c)
    /\ \A h \in Requests : \E c \in Call : h = Request(c)
  BY DEF Session, Model, Request, Requests, Handle

\* What the one-time wrapper does to an object the process still has: after
\* it the native object has been given back once, whether by this call or by
\* an earlier one, and only a first call can be late.
LEMMA CleanUpOnce ==
    ASSUME TypeOK, FlagsTellReleases, NEW h \in Handle, h \in made, CleanUp(h),
           made' = made
    PROVE  /\ deleted' = deleted \union {h}
           /\ deleted' \subseteq made'
           /\ releases' \in [Handle -> Nat]
           /\ \A g \in Handle : releases'[g] = IF g \in deleted' THEN 1 ELSE 0
           /\ late' \subseteq Handle
           /\ late' # late => Session \in deleted /\ h # Session /\ h \notin deleted
<1>1. Session \in Handle
  BY Handles
<1>2. CASE h \in deleted
  BY <1>2 DEF CleanUp, TypeOK, FlagsTellReleases
<1>3. CASE h \notin deleted
  <2>1. releases[h] = 0
    BY <1>3 DEF FlagsTellReleases
  <2>2. releases[Session] > 0 => Session \in deleted
    BY <1>1 DEF FlagsTellReleases
  <2> QED
    BY <1>3, <2>1, <2>2 DEF CleanUp, TypeOK, FlagsTellReleases
<1> QED
  BY <1>2, <1>3

\* A worker that has not connected yet.
LEMMA InitDvInv == Init => DvInv
<1> SUFFICES ASSUME Init PROVE DvInv
  OBVIOUS
<1> USE DEF Init
<1>1. TypeOK
  <2>1. 1 \in Call /\ NotRecorded \in NotRecorded .. Calls /\ NoOutputs \in NoOutputs .. Calls
    BY DEF Call, NoOutputs, NotRecorded
  <2> QED
    BY <2>1 DEF TypeOK, Place
<1>2. FlagsTellReleases
  BY DEF FlagsTellReleases
<1>3. OneRequestAtATime
  BY DEF OneRequestAtATime, Call
<1>4. BlockStructure
  BY DEF BlockStructure
<1>5. BufferFollowsCalls
  BY DEF BufferFollowsCalls, Call, NoOutputs
<1>6. LateOnlyOnFailure /\ OwnOutputs
  BY DEF LateOnlyOnFailure, OwnOutputs
<1> QED
  BY <1>1, <1>2, <1>3, <1>4, <1>5, <1>6 DEF DvInv

\* The steps up to the loaded model keep the invariant.
LEMMA SetupStep ==
    ASSUME DvInv,
           Connect \/ ConnectFails \/ ListEndpoints \/ LoadModel \/ LoadRaises
           \/ RaiseInBlock
    PROVE  DvInv'
<1> USE Handles DEF DvInv, TypeOK, Place, FlagsTellReleases, OneRequestAtATime,
        BlockStructure, BufferFollowsCalls, LateOnlyOnFailure, OwnOutputs,
        objects, answers, Wrap
<1>1. CASE Connect
  BY <1>1 DEF Connect
<1>2. CASE ConnectFails
  BY <1>2 DEF ConnectFails
<1>3. CASE ListEndpoints
  BY <1>3 DEF ListEndpoints
<1>4. CASE LoadModel
  BY <1>4 DEF LoadModel
<1>5. CASE LoadRaises
  BY <1>5 DEF LoadRaises
<1>6. CASE RaiseInBlock
  BY <1>6 DEF RaiseInBlock
<1> QED
  BY <1>1, <1>2, <1>3, <1>4, <1>5, <1>6

\* Handing a request to the library keeps the invariant.
LEMMA SubmitStep ==
    ASSUME DvInv, Submit
    PROVE  DvInv'
<1> USE Handles DEF DvInv, TypeOK, Submit, Wrap, objects, answers
<1>1. TypeOK'
  BY DEF Place
<1>2. FlagsTellReleases'
  BY DEF FlagsTellReleases
<1>3. OneRequestAtATime'
  BY DEF OneRequestAtATime, FlagsTellReleases, Call
<1>4. BlockStructure'
  BY DEF BlockStructure
<1>5. BufferFollowsCalls'
  BY DEF BufferFollowsCalls
<1>6. LateOnlyOnFailure' /\ OwnOutputs'
  BY DEF LateOnlyOnFailure, OwnOutputs, OneRequestAtATime
<1> QED
  BY <1>1, <1>2, <1>3, <1>4, <1>5, <1>6 DEF DvInv

\* The library's answer keeps the invariant: a queued request is the one in
\* hand, since the earlier ones are given back.
LEMMA LibraryStep ==
    ASSUME DvInv, NEW c \in Call, LibraryCompletes(c) \/ LibraryFails(c)
    PROVE  DvInv'
<1>1. c = k
  <2>1. Request(c) \notin deleted
    BY Handles DEF DvInv, FlagsTellReleases, LibraryCompletes, LibraryFails
  <2>2. c >= k
    BY <2>1 DEF DvInv, TypeOK, OneRequestAtATime, Call
  <2>3. c <= k
    BY DEF DvInv, TypeOK, OneRequestAtATime, Call, LibraryCompletes, LibraryFails
  <2> QED
    BY <2>2, <2>3 DEF DvInv, TypeOK, Call
<1>2. /\ UNCHANGED <<pc, failed, k, objects, recorded>>
      /\ \/ status' = [status EXCEPT ![k] = "completed"] /\ buffer' = k
         \/ status' = [status EXCEPT ![k] = "failed"] /\ buffer' = buffer
      /\ status[k] = "queued"
  BY <1>1 DEF DvInv, LibraryCompletes, LibraryFails
<1>3. TypeOK'
  BY <1>2 DEF DvInv, objects, TypeOK, Place, Call, NoOutputs
<1>4. FlagsTellReleases' /\ LateOnlyOnFailure'
  BY <1>2 DEF DvInv, objects, FlagsTellReleases, LateOnlyOnFailure
<1>5. OneRequestAtATime'
  BY <1>2 DEF DvInv, objects, TypeOK, OneRequestAtATime, Call
<1>6. BlockStructure'
  BY <1>2 DEF DvInv, objects, BlockStructure
<1>7. BufferFollowsCalls'
  BY <1>2 DEF DvInv, objects, TypeOK, BufferFollowsCalls, Call
<1>8. OwnOutputs'
  BY <1>2 DEF DvInv, objects, TypeOK, OwnOutputs
<1> QED
  BY <1>3, <1>4, <1>5, <1>6, <1>7, <1>8 DEF DvInv

\* The end of the wait, good or bad, keeps the invariant.
LEMMA WaitStep ==
    ASSUME DvInv, WaitReturns \/ WaitFails
    PROVE  DvInv'
<1>1. /\ pc = "wait"
      /\ UNCHANGED <<k, objects, answers>>
      /\ \/ pc' = "decode" /\ failed' = failed /\ status[k] \in {"completed", "failed"}
         \/ pc' = "leave" /\ failed' = TRUE
  BY DEF WaitReturns, WaitFails
<1> USE <1>1 DEF DvInv, objects, answers
<1>2. TypeOK' /\ FlagsTellReleases' /\ LateOnlyOnFailure' /\ OwnOutputs'
  BY DEF TypeOK, Place, FlagsTellReleases, LateOnlyOnFailure, OwnOutputs
<1>3. OneRequestAtATime'
  BY DEF OneRequestAtATime
<1>4. BlockStructure'
  BY DEF BlockStructure
<1>5. BufferFollowsCalls'
  BY DEF BufferFollowsCalls
<1> QED
  BY <1>2, <1>3, <1>4, <1>5

\* The end of one inference keeps the invariant: its detections come from
\* the tensors as its own inference left them, and its request is freed.
LEMMA DecodeStep ==
    ASSUME DvInv, DecodeAndReturn
    PROVE  DvInv'
<1> USE DEF DvInv
<1>1. /\ pc = "decode" /\ k \in Call /\ k' \in Call
      /\ \/ k < Calls /\ k' = k + 1 /\ pc' = "submit"
         \/ k = Calls /\ k' = k /\ pc' = "unload"
  BY DEF DecodeAndReturn, TypeOK, Call
<1>2. /\ UNCHANGED <<failed, made, status, buffer>>
      /\ alive' = alive \ {Request(k)}
  BY DEF DecodeAndReturn
<1>3. Request(k) \in Handle /\ Request(k) \in made /\ Request(k) \notin deleted
  BY <1>1, Handles DEF OneRequestAtATime, FlagsTellReleases
<1>4. /\ deleted' = deleted \union {Request(k)}
      /\ deleted' \subseteq made'
      /\ releases' \in [Handle -> Nat]
      /\ \A g \in Handle : releases'[g] = IF g \in deleted' THEN 1 ELSE 0
      /\ late' \subseteq Handle
      /\ late' # late => Session \in deleted
  BY <1>1, <1>2, <1>3, CleanUpOnce DEF DecodeAndReturn
<1>5. late' = late
  BY <1>1, <1>4 DEF BlockStructure
<1>6. TypeOK'
  <2>1. recorded' \in [Call -> NotRecorded .. Calls]
    BY DEF TypeOK, DecodeAndReturn, NoOutputs, NotRecorded
  <2> QED
    BY <1>1, <1>2, <1>3, <1>4, <2>1 DEF TypeOK, Place
<1>7. FlagsTellReleases'
  BY <1>2, <1>4 DEF FlagsTellReleases
<1>8. OneRequestAtATime'
  <2>1. /\ \A c \in Call : c > k' => status'[c] = "none"
        /\ \A c \in Call : Request(c) \in made' => c <= k'
    BY <1>1, <1>2 DEF OneRequestAtATime, Call
  <2>2. \A c \in Call : c < k' => Request(c) \in deleted'
    BY <1>1, <1>4 DEF OneRequestAtATime, Call
  <2>3. CASE k < Calls
    <3>1. status[k + 1] = "none" /\ Request(k + 1) \notin made
      BY <1>1, <2>3 DEF OneRequestAtATime, Call
    <3> QED
      BY <1>1, <1>2, <2>1, <2>2, <2>3, <3>1 DEF OneRequestAtATime
  <2>4. CASE k = Calls
    BY <1>1, <1>2, <1>4, <2>1, <2>2, <2>4 DEF OneRequestAtATime, Call
  <2> QED
    BY <1>1, <2>3, <2>4 DEF Call
<1>9. BlockStructure'
  BY <1>1, <1>2, <1>4, Handles DEF BlockStructure
<1>10. BufferFollowsCalls'
  BY <1>1, <1>2 DEF BufferFollowsCalls, OneRequestAtATime, Call, TypeOK, NoOutputs
<1>11. OwnOutputs'
  BY <1>1, <1>2 DEF OwnOutputs, DecodeAndReturn, BufferFollowsCalls, TypeOK, Call,
                    NoOutputs, NotRecorded
<1>12. LateOnlyOnFailure'
  BY <1>2, <1>5 DEF LateOnlyOnFailure
<1> QED
  BY <1>6, <1>7, <1>8, <1>9, <1>10, <1>11, <1>12

\* The explicit unload keeps the invariant, and is not late.
LEMMA UnloadStep ==
    ASSUME DvInv, Unload
    PROVE  DvInv'
<1> USE DEF DvInv
<1>1. Model \in Handle /\ Model \in made
  BY Handles DEF Unload, BlockStructure
<1>2. /\ deleted' = deleted \union {Model}
      /\ deleted' \subseteq made'
      /\ releases' \in [Handle -> Nat]
      /\ \A g \in Handle : releases'[g] = IF g \in deleted' THEN 1 ELSE 0
      /\ late' \subseteq Handle
      /\ late' # late => Session \in deleted
  BY <1>1, CleanUpOnce DEF Unload
<1>3. late' = late
  BY <1>2 DEF Unload, BlockStructure
<1> USE DEF Unload, answers
<1>4. TypeOK' /\ FlagsTellReleases'
  BY <1>2 DEF TypeOK, Place, FlagsTellReleases
<1>5. Requests \subseteq deleted
  BY Handles DEF OneRequestAtATime, TypeOK, Call
<1>6. OneRequestAtATime'
  BY <1>2, Handles DEF OneRequestAtATime
<1>7. BlockStructure'
  BY <1>2, <1>5, Handles DEF BlockStructure
<1>8. BufferFollowsCalls' /\ LateOnlyOnFailure' /\ OwnOutputs'
  BY <1>3 DEF BufferFollowsCalls, LateOnlyOnFailure, OwnOutputs
<1> QED
  BY <1>4, <1>6, <1>7, <1>8

\* Closing the session keeps the invariant.
LEMMA LeaveStep ==
    ASSUME DvInv, LeaveBlock
    PROVE  DvInv'
<1> USE DEF DvInv
<1>1. Session \in Handle /\ Session \in made
  BY Handles DEF LeaveBlock, BlockStructure
<1>2. /\ deleted' = deleted \union {Session}
      /\ deleted' \subseteq made'
      /\ releases' \in [Handle -> Nat]
      /\ \A g \in Handle : releases'[g] = IF g \in deleted' THEN 1 ELSE 0
      /\ late' \subseteq Handle
      /\ late' # late => Session # Session
  BY <1>1, CleanUpOnce DEF LeaveBlock
<1> USE DEF LeaveBlock, answers
<1>4. TypeOK' /\ FlagsTellReleases'
  BY <1>2 DEF TypeOK, Place, FlagsTellReleases
<1>6. OneRequestAtATime'
  BY <1>2, Handles DEF OneRequestAtATime
<1>7. BlockStructure'
  BY <1>2, Handles DEF BlockStructure
<1>8. BufferFollowsCalls' /\ LateOnlyOnFailure' /\ OwnOutputs'
  BY <1>2 DEF BufferFollowsCalls, LateOnlyOnFailure, OwnOutputs
<1> QED
  BY <1>4, <1>6, <1>7, <1>8

\* A destructor keeps the invariant: without a failure, everything is given
\* back before the destructors run, and they do nothing.
LEMMA FinalizeStep ==
    ASSUME DvInv, NEW h \in Handle, Finalize(h)
    PROVE  DvInv'
<1> USE DEF DvInv
<1>1. h \in made
  BY DEF Finalize, FlagsTellReleases
<1>2. /\ deleted' = deleted \union {h}
      /\ deleted' \subseteq made'
      /\ releases' \in [Handle -> Nat]
      /\ \A g \in Handle : releases'[g] = IF g \in deleted' THEN 1 ELSE 0
      /\ late' \subseteq Handle
      /\ late' # late => h \notin deleted
  BY <1>1, CleanUpOnce DEF Finalize
<1> USE DEF Finalize, answers
<1>3. ~failed => h \in deleted
  BY Handles DEF BlockStructure, Handle
<1>4. TypeOK' /\ FlagsTellReleases'
  BY <1>2 DEF TypeOK, Place, FlagsTellReleases
<1>6. OneRequestAtATime'
  BY <1>2 DEF OneRequestAtATime
<1>7. BlockStructure'
  BY <1>2 DEF BlockStructure
<1>8. BufferFollowsCalls' /\ LateOnlyOnFailure' /\ OwnOutputs'
  BY <1>2, <1>3 DEF BufferFollowsCalls, LateOnlyOnFailure, OwnOutputs
<1> QED
  BY <1>4, <1>6, <1>7, <1>8

\* The remaining steps keep the invariant.
LEMMA EndStep ==
    ASSUME DvInv, WritePartial \/ Exit \/ Exited \/ UNCHANGED vars
    PROVE  DvInv'
  BY DEF DvInv, TypeOK, Place, FlagsTellReleases, OneRequestAtATime,
         BlockStructure, BufferFollowsCalls, LateOnlyOnFailure, OwnOutputs,
         objects, answers, vars, WritePartial, Exit, Exited

\* The invariant of the worker's objects, from the connection to the exit.
THEOREM WorkerInvariant == Spec => []DvInv
<1>1. DvInv /\ [Next]_vars => DvInv'
  BY SetupStep, SubmitStep, LibraryStep, WaitStep, DecodeStep, UnloadStep,
     LeaveStep, FinalizeStep, EndStep DEF Next
<1> QED
  BY InitDvInv, <1>1, PTL DEF Spec

\* However the worker ends, no native object is given back twice: the
\* one-time wrapper covers every meeting of an explicit call, the block's
\* exit and a destructor.
THEOREM NothingReleasedTwice == Spec => []ReleasedOnce
<1>1. DvInv => ReleasedOnce
  BY DEF DvInv, FlagsTellReleases, ReleasedOnce
<1> QED
  BY <1>1, WorkerInvariant, PTL

\* No measured inference is decoded from the outputs of another one, unless
\* the library reports it as failed.
THEOREM OutputsAreOwn == Spec => []OwnOutputs
<1>1. DvInv => OwnOutputs
  BY DEF DvInv
<1> QED
  BY <1>1, WorkerInvariant, PTL

\* A worker that exits with code 0 has given back its session, its model and
\* all of its requests, each before the disconnect.
THEOREM CleanWorkerExit == Spec => []CleanExit
<1>1. DvInv => CleanExit
  BY Handles DEF DvInv, FlagsTellReleases, BlockStructure, LateOnlyOnFailure,
                 CleanExit
<1> QED
  BY <1>1, WorkerInvariant, PTL

=============================================================================
