----------------------------- MODULE DvapiWorker -----------------------------
(***************************************************************************)
(* benchmarks/ara2_dvapi.py as the worker of benchmarks/ara2_infer.py uses *)
(* it: the life of the objects of the vendor's client library in one       *)
(* worker process.  A session, a model loaded through it and one request   *)
(* per inference are native objects; each has a Python object that must    *)
(* give it back exactly once, be it by an explicit call, by the `with`     *)
(* block or by __del__ when the last reference goes.  All inferences write *)
(* into the SAME output tensors, allocated once.                           *)
(*                                                                         *)
(* The calls of infer_one are 1 .. Calls: the warm-up comes first, is not  *)
(* recorded and runs like any other.  That the library may abort the       *)
(* process at any time is Ara2Infer's subject; here the calls return.      *)
(***************************************************************************)
EXTENDS Integers, FiniteSets

CONSTANTS
    Calls,      \* inferences the worker makes, the warm-up included
    Warmup      \* how many of them are the warm-up

ASSUME CallsAssumption ==
    /\ Calls \in Nat \ {0}
    /\ Warmup \in 0 .. Calls

Call == 1 .. Calls

(***************************************************************************)
(* Native objects.                                                         *)
(***************************************************************************)
Session == <<"session", 0>>
Model == <<"model", 0>>
Request(k) == <<"request", k>>

Requests == {Request(k) : k \in Call}
Handle == {Session, Model} \union Requests

\* The shared tensors before any inference has written them.
NoOutputs == 0

NotRecorded == -1

VARIABLES
    pc,         \* where the worker is
    failed,     \* an exception is on its way out of the process
    k,          \* the call of infer_one in hand
    alive,      \* the Python objects that exist
    deleted,    \* the objects whose _dv_is_deleted is set
    made,       \* the native objects the library has handed out
    releases,   \* close, unload and free calls made, per native object
    late,       \* objects released after the session was closed
    status,     \* the library's answer to the request in hand
    buffer,     \* the call whose outputs the shared tensors hold
    recorded    \* per measured call, the outputs its detections come from

vars == <<pc, failed, k, alive, deleted, made, releases, late,
          status, buffer, recorded>>

objects == <<alive, deleted, made, releases, late>>
answers == <<status, buffer, recorded>>

Init ==
    /\ pc = "connect"
    /\ failed = FALSE
    /\ k = 1
    /\ alive = {}
    /\ deleted = {}
    /\ made = {}
    /\ releases = [h \in Handle |-> 0]
    /\ late = {}
    /\ status = [c \in Call |-> "none"]
    /\ buffer = NoOutputs
    /\ recorded = [c \in Call |-> NotRecorded]

-----------------------------------------------------------------------------
(* Releasing.                                                              *)

\* Mutant: a clean-up that forgets it has run.
CleanUpAgain(h) ==
    /\ deleted' = deleted
    /\ releases' = [releases EXCEPT ![h] = @ + 1]
    /\ late' = IF h # Session /\ releases[Session] > 0
               THEN late \union {h} ELSE late

\* _one_time_callable_cleanup_function: the native call is made unless the
\* object remembers the status of an earlier one.  The status is never None.
CleanUp(h) ==
    IF h \in deleted
    THEN UNCHANGED <<deleted, releases, late>>
    ELSE /\ deleted' = deleted \union {h}
         /\ releases' = [releases EXCEPT ![h] = @ + 1]
         /\ late' = IF h # Session /\ releases[Session] > 0
                    THEN late \union {h} ELSE late

\* A native object is handed out and wrapped.
Wrap(h) ==
    /\ alive' = alive \union {h}
    /\ made' = made \union {h}
    /\ UNCHANGED <<deleted, releases, late>>

-----------------------------------------------------------------------------
(* Setting up.                                                             *)

\* create_via_unix_socket; the `with` block is entered.
Connect ==
    /\ pc = "connect"
    /\ Wrap(Session)
    /\ pc' = "endpoints"
    /\ UNCHANGED <<failed, k, answers>>

\* No proxy behind the socket: SystemExit, and there is no session to close.
ConnectFails ==
    /\ pc = "connect"
    /\ failed' = TRUE
    /\ pc' = "teardown"
    /\ UNCHANGED <<k, objects, answers>>

\* get_endpoint_list
ListEndpoints ==
    /\ pc = "endpoints"
    /\ pc' = "load"
    /\ UNCHANGED <<failed, k, objects, answers>>

\* load_model_from_file, DVModel.__init__, the parse of the model's layout.
LoadModel ==
    /\ pc = "load"
    /\ Wrap(Model)
    /\ pc' = "submit"
    /\ UNCHANGED <<failed, k, answers>>

\* The model is loaded, then DVModel.__init__, _parse_model or the check of
\* the layout raises: the object exists and will be finalized.
LoadRaises ==
    /\ pc = "load"
    /\ Wrap(Model)
    /\ failed' = TRUE
    /\ pc' = "leave"
    /\ UNCHANGED <<k, answers>>

\* An error status before there is anything new to give back: no endpoint,
\* no model, an unreadable image, a request that is not accepted.
RaiseInBlock ==
    /\ pc \in {"endpoints", "load", "submit"}
    /\ failed' = TRUE
    /\ pc' = "leave"
    /\ UNCHANGED <<k, objects, answers>>

-----------------------------------------------------------------------------
(* One inference: infer_sync is infer_async and wait_for_completion.       *)

\* infer_async: the request is queued and wrapped.
Submit ==
    /\ pc = "submit"
    /\ Wrap(Request(k))
    /\ status' = [status EXCEPT ![k] = "queued"]
    /\ pc' = "wait"
    /\ UNCHANGED <<failed, k, buffer, recorded>>

\* The library finishes a request it still has, at any time: also after the
\* worker gave up waiting for it.
LibraryCompletes(c) ==
    /\ status[c] = "queued"
    /\ releases[Request(c)] = 0
    /\ releases[Session] = 0
    /\ status' = [status EXCEPT ![c] = "completed"]
    /\ buffer' = c
    /\ UNCHANGED <<pc, failed, k, objects, recorded>>

LibraryFails(c) ==
    /\ status[c] = "queued"
    /\ releases[Request(c)] = 0
    /\ releases[Session] = 0
    /\ status' = [status EXCEPT ![c] = "failed"]
    /\ UNCHANGED <<pc, failed, k, objects, buffer, recorded>>

\* wait_for_completion returns DV_SUCCESS for a request that is finished, be
\* it completed or failed; infer_one looks at that return value only.
WaitReturns ==
    /\ pc = "wait"
    /\ status[k] \in {"completed", "failed"}
    /\ pc' = "decode"
    /\ UNCHANGED <<failed, k, objects, answers>>

\* Mutant: the status of the wait is not looked at.
WaitTimeoutIgnored ==
    /\ pc = "wait"
    /\ status[k] = "queued"
    /\ pc' = "decode"
    /\ UNCHANGED <<failed, k, objects, answers>>

\* The wait times out or errs: infer_one raises, its frame keeps the request.
WaitFails ==
    /\ pc = "wait"
    /\ failed' = TRUE
    /\ pc' = "leave"
    /\ UNCHANGED <<k, objects, answers>>

\* The outputs are copied and decoded, a measured call records the result,
\* and infer_one returns: the last reference to the request goes, __del__
\* frees it (mark_complete).
DecodeAndReturn ==
    /\ pc = "decode"
    /\ recorded' = [recorded EXCEPT ![k] = IF k > Warmup THEN buffer ELSE @]
    /\ CleanUp(Request(k))
    /\ alive' = alive \ {Request(k)}
    /\ IF k < Calls THEN k' = k + 1 /\ pc' = "submit"
       ELSE k' = k /\ pc' = "unload"
    /\ UNCHANGED <<failed, made, status, buffer>>

-----------------------------------------------------------------------------
(* Coming to an end.                                                       *)

\* Mutant: the model is left to its destructor.
NoUnload ==
    /\ pc = "unload"
    /\ pc' = "leave"
    /\ UNCHANGED <<failed, k, objects, answers>>

\* model.unload(), at the end of the block and only there.
Unload ==
    /\ pc = "unload"
    /\ CleanUp(Model)
    /\ pc' = "leave"
    /\ UNCHANGED <<failed, k, alive, made, answers>>

\* __exit__ closes the session, whatever ended the block.
LeaveBlock ==
    /\ pc = "leave"
    /\ CleanUp(Session)
    /\ pc' = IF failed THEN "teardown" ELSE "write"
    /\ UNCHANGED <<failed, k, alive, made, answers>>

\* The partial file is written and the worker returns.
WritePartial ==
    /\ pc = "write"
    /\ pc' = "teardown"
    /\ UNCHANGED <<failed, k, objects, answers>>

\* __del__ of an object whose last reference goes: the frames of a worker
\* that returned, or of the traceback.  A request refers to its model.
Finalize(h) ==
    /\ pc = "teardown"
    /\ h \in alive
    /\ h = Model => alive \intersect Requests = {}
    /\ CleanUp(h)
    /\ alive' = alive \ {h}
    /\ UNCHANGED <<pc, failed, k, made, answers>>

\* After a return nothing is left; an interpreter that exits on an exception
\* need not finalize what the traceback holds.
Exit ==
    /\ pc = "teardown"
    /\ ~failed => alive = {}
    /\ pc' = "exited"
    /\ UNCHANGED <<failed, k, objects, answers>>

Exited ==
    /\ pc = "exited"
    /\ UNCHANGED vars

Next ==
    \/ Connect
    \/ ConnectFails
    \/ ListEndpoints
    \/ LoadModel
    \/ LoadRaises
    \/ RaiseInBlock
    \/ Submit
    \/ \E c \in Call : LibraryCompletes(c)
    \/ \E c \in Call : LibraryFails(c)
    \/ WaitReturns
    \/ WaitFails
    \/ DecodeAndReturn
    \/ Unload
    \/ LeaveBlock
    \/ WritePartial
    \/ \E h \in Handle : Finalize(h)
    \/ Exit
    \/ Exited

Spec == Init /\ [][Next]_vars

-----------------------------------------------------------------------------
(* Properties.                                                             *)

Place == {"connect", "endpoints", "load", "submit", "wait", "decode",
          "unload", "leave", "write", "teardown", "exited"}

\* Types; objects and answers belong to the calls made.
TypeOK ==
    /\ pc \in Place
    /\ failed \in BOOLEAN
    /\ k \in Call
    /\ alive \subseteq Handle
    /\ deleted \subseteq Handle
    /\ made \subseteq Handle
    /\ releases \in [Handle -> Nat]
    /\ late \subseteq Handle
    /\ status \in [Call -> {"none", "queued", "completed", "failed"}]
    /\ buffer \in NoOutputs .. Calls
    /\ recorded \in [Call -> NotRecorded .. Calls]

\* The flag of an object tells how often its native object was given back;
\* what is not yet given back has an object that will do it, unless the
\* process has ended.
FlagsTellReleases ==
    /\ \A h \in Handle : releases[h] = IF h \in deleted THEN 1 ELSE 0
    /\ deleted \subseteq made
    /\ alive \subseteq made
    /\ made \ deleted \subseteq alive

\* The requests: those before the call in hand are given back, it alone can
\* be in the library, and later ones are not made.
OneRequestAtATime ==
    /\ \A c \in Call : c > k => status[c] = "none"
    /\ \A c \in Call : c < k => Request(c) \in deleted
    /\ \A c \in Call : Request(c) \in made => c <= k
    /\ pc \in {"connect", "endpoints", "load", "submit"} =>
          status[k] = "none" /\ Request(k) \notin made
    /\ pc \in {"wait", "decode"} => Request(k) \in alive
    /\ pc \in {"wait", "decode"} => Request(k) \notin deleted
    /\ pc = "unload" => k = Calls /\ Request(k) \in deleted

\* Which of the session and the model exist and are given back, by place.
BlockStructure ==
    /\ pc = "connect" => made = {} /\ ~failed
    /\ pc \notin {"connect", "teardown", "exited"} => Session \in made
    /\ pc \notin {"write", "teardown", "exited"} => Session \notin deleted
    /\ pc \in {"connect", "endpoints", "load"} => Model \notin made
    /\ pc \in {"submit", "wait", "decode", "unload"} =>
          Model \in made /\ Model \notin deleted
    /\ failed => pc \in {"leave", "teardown", "exited"}
    /\ pc \in {"leave", "write", "teardown", "exited"} /\ ~failed =>
          /\ Model \in deleted
          /\ Requests \subseteq deleted
    /\ pc \in {"write", "teardown", "exited"} /\ ~failed => Session \in deleted

\* The shared tensors hold the outputs of the call in hand from the moment
\* it completes until the next call completes.
BufferFollowsCalls ==
    /\ buffer <= k
    /\ status[k] = "completed" => buffer = k
    /\ pc = "decode" => status[k] \in {"completed", "failed"}

\* The outputs a measured call's detections come from are those its own
\* inference wrote, unless the library reports that inference as failed: a
\* late answer to an earlier call never overwrites them.  (For a failed one
\* infer_one does decode what an earlier call left: wait_for_completion
\* returns DV_SUCCESS.)
OwnOutputs ==
    \A c \in Call :
        recorded[c] \notin {NotRecorded, c} =>
            status[c] = "failed" /\ recorded[c] < c

\* Every native object is given back at most once, by whichever of the
\* explicit call, the block's exit and the destructor comes first.
ReleasedOnce == \A h \in Handle : releases[h] <= 1

\* A worker that does not fail makes no call into the library after the
\* disconnect ("DVModel.__del__ after disconnect double-frees").  A failing
\* one may: its model is unloaded by __del__, after the block closed the
\* session.
LateOnlyOnFailure == late # {} => failed

\* A worker that exits with code 0 has given back all it acquired, in time.
CleanExit ==
    pc = "exited" /\ ~failed =>
        late = {} /\ \A h \in Handle : releases[h] = 1

\* The inductive invariant.
DvInv ==
    /\ TypeOK
    /\ FlagsTellReleases
    /\ OneRequestAtATime
    /\ BlockStructure
    /\ BufferFollowsCalls
    /\ LateOnlyOnFailure
    /\ OwnOutputs

=============================================================================
