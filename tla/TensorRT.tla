------------------------------ MODULE TensorRT ------------------------------
(***************************************************************************)
(* yolo_validator/backends/tensorrt_backend.py: TensorRTBackend.run.  The  *)
(* host fills a pinned buffer and puts the copy to the device, the         *)
(* execution, the copies back and four timing events on a CUDA stream,     *)
(* which the device works off in order, on its own time.  The buffers are  *)
(* allocated once and shared by all calls, so what a call returns is its   *)
(* own only because the host waits for the stream before it reads.         *)
(*                                                                         *)
(* A frame is the number of the call it is handed in with; the content of  *)
(* a buffer is the frame it was computed from, 0 for what was in it when   *)
(* it was allocated.                                                       *)
(***************************************************************************)
EXTENDS Integers, Sequences

CONSTANTS
    Calls,         \* calls of run, at most
    MaxOutputs,    \* output tensors of an engine, at most
    MayRefuse,     \* may execute_async_v3 return False
    MayFault       \* may the device fail in the middle of the stream

ASSUME TensorRTAssumption ==
    /\ Calls \in Nat
    /\ MaxOutputs \in Nat \ {0}
    /\ MayRefuse \in BOOLEAN
    /\ MayFault \in BOOLEAN

VARIABLES
    nOut,       \* len(self.outputs), set when the engine is loaded
    host,       \* where the caller's thread is in run
    call,       \* calls made so far
    issued,     \* operations of this call put on the stream
    done,       \* operations of this call the device has worked off
    refused,    \* did execute_async_v3 return False in this call
    fault,      \* has the device failed
    hostIn,     \* inp["host"]
    devIn,      \* inp["dev"]
    devOut,     \* o["dev"] of every output: an execution writes them all
    hostOut,    \* o["host"], per output
    work,       \* device work finished in this call: copies in, runs, copies out
    stamp,      \* per event, the work finished when it was recorded
    answers     \* what the calls returned

trtVars == <<nOut, host, call, issued, done, refused, fault, hostIn, devIn,
             devOut, hostOut, work, stamp, answers>>

Frame == 0 .. Calls
Events == {"start", "h2d", "exec", "d2h"}
Work == [copyIn : Nat, exec : Nat, copyOut : Nat]
NoWork == [copyIn |-> 0, exec |-> 0, copyOut |-> 0]

\* The operations in the order in which run puts them on the stream.
LastOp == 6 + nOut

\* Mutant: the event after the copy is recorded after the execution.
EventAtLate(op) ==
    CASE op = 1 -> "start"
      [] op = 3 -> "exec"
      [] op = 5 -> "h2d"
      [] op = LastOp -> "d2h"

EventAt(op) ==
    CASE op = 1 -> "start"
      [] op = 3 -> "h2d"
      [] op = 5 -> "exec"
      [] op = LastOp -> "d2h"

IsEvent(op) == op \in {1, 3, 5, LastOp}
CopyInOp == 2
ExecOp == 4
IsCopyOut(op) == op \in 6 .. (LastOp - 1)
OutputOf(op) == op - 5

TrtInit ==
    /\ nOut \in 1 .. MaxOutputs
    /\ host = "idle"
    /\ call = 0
    /\ issued = 0
    /\ done = 0
    /\ refused = FALSE
    /\ fault = FALSE
    /\ hostIn = 0
    /\ devIn = 0
    /\ devOut = 0
    /\ hostOut = [k \in 1 .. nOut |-> 0]
    /\ work = NoWork
    /\ stamp = [e \in Events |-> NoWork]
    /\ answers = <<>>

-----------------------------------------------------------------------------
(* The caller's thread.                                                    *)

\* np.copyto into the pinned buffer and four new events.
Run ==
    /\ host = "idle"
    /\ call < Calls
    /\ call' = call + 1
    /\ hostIn' = call + 1
    /\ issued' = 0
    /\ done' = 0
    /\ refused' = FALSE
    /\ work' = NoWork
    /\ stamp' = [e \in Events |-> NoWork]
    /\ host' = "issue"
    /\ UNCHANGED <<nOut, fault, devIn, devOut, hostOut, answers>>

\* The next operation goes on the stream.  execute_async_v3 says whether it
\* did; nobody looks.
Issue ==
    /\ host = "issue"
    /\ issued < LastOp
    /\ issued' = issued + 1
    /\ \/ UNCHANGED refused
       \/ issued' = ExecOp /\ MayRefuse /\ refused' = TRUE
    /\ UNCHANGED <<nOut, host, call, done, fault, hostIn, devIn, devOut,
                   hostOut, work, stamp, answers>>

\* Mutant: the results are read without waiting for the stream.
NoSynchronize ==
    /\ host = "issue"
    /\ issued = LastOp
    /\ host' = "read"
    /\ UNCHANGED <<nOut, call, issued, done, refused, fault, hostIn, devIn,
                   devOut, hostOut, work, stamp, answers>>

\* stream.synchronize() returns.
Synchronize ==
    /\ host = "issue"
    /\ issued = LastOp
    /\ done = LastOp
    /\ host' = "read"
    /\ UNCHANGED <<nOut, call, issued, done, refused, fault, hostIn, devIn,
                   devOut, hostOut, work, stamp, answers>>

\* The outputs are copied by astype; the timings are taken from the events.
Return ==
    /\ host = "read"
    /\ answers' = Append(answers, hostOut)
    /\ host' = "idle"
    /\ UNCHANGED <<nOut, call, issued, done, refused, fault, hostIn, devIn,
                   devOut, hostOut, work, stamp>>

\* A failed context makes the next call into CUDA raise, and the run ends.
RaiseFault ==
    /\ host = "issue"
    /\ fault
    /\ host' = "raised"
    /\ UNCHANGED <<nOut, call, issued, done, refused, fault, hostIn, devIn,
                   devOut, hostOut, work, stamp, answers>>

-----------------------------------------------------------------------------
(* The device.                                                             *)

Works(op) ==
    /\ host # "raised"
    /\ ~fault
    /\ done < issued
    /\ op = done + 1
    /\ done' = op
    /\ UNCHANGED <<nOut, host, call, issued, refused, fault, hostIn, answers>>

RecordEvent ==
    \E op \in 1 .. LastOp :
        /\ IsEvent(op)
        /\ Works(op)
        /\ stamp' = [stamp EXCEPT ![EventAt(op)] = work]
        /\ UNCHANGED <<devIn, devOut, hostOut, work>>

CopyIn ==
    /\ Works(CopyInOp)
    /\ devIn' = hostIn
    /\ work' = [work EXCEPT !.copyIn = @ + 1]
    /\ UNCHANGED <<devOut, hostOut, stamp>>

\* A refused execution is not on the stream.
Execute ==
    /\ Works(ExecOp)
    /\ devOut' = IF refused THEN devOut ELSE devIn
    /\ work' = [work EXCEPT !.exec = IF refused THEN @ ELSE @ + 1]
    /\ UNCHANGED <<devIn, hostOut, stamp>>

CopyOut ==
    \E op \in 1 .. LastOp :
        /\ IsCopyOut(op)
        /\ Works(op)
        /\ hostOut' = [hostOut EXCEPT ![OutputOf(op)] = devOut]
        /\ work' = [work EXCEPT !.copyOut = @ + 1]
        /\ UNCHANGED <<devIn, devOut, stamp>>

Device == RecordEvent \/ CopyIn \/ Execute \/ CopyOut

\* An execution or copy fails: the stream stops for good.
DeviceFails ==
    /\ MayFault
    /\ host = "issue"
    /\ ~fault
    /\ done < issued
    /\ fault' = TRUE
    /\ UNCHANGED <<nOut, host, call, issued, done, refused, hostIn, devIn,
                   devOut, hostOut, work, stamp, answers>>

-----------------------------------------------------------------------------

HostStep == Issue \/ Synchronize \/ Return \/ RaiseFault

TrtNext == Run \/ HostStep \/ Device \/ DeviceFails

\* The caller's thread goes on while it can, and so does the device.
TrtFairness ==
    /\ WF_trtVars(HostStep)
    /\ WF_trtVars(Device)

TrtSpec == TrtInit /\ [][TrtNext]_trtVars /\ TrtFairness

-----------------------------------------------------------------------------
(* Properties.                                                             *)

TrtTypeOK ==
    /\ nOut \in 1 .. MaxOutputs
    /\ host \in {"idle", "issue", "read", "raised"}
    /\ call \in Frame
    /\ issued \in 0 .. LastOp
    /\ done \in 0 .. issued
    /\ refused \in BOOLEAN
    /\ fault \in BOOLEAN
    /\ hostIn \in Frame
    /\ devIn \in Frame
    /\ devOut \in Frame
    /\ hostOut \in [1 .. nOut -> Frame]
    /\ work \in Work
    /\ stamp \in [Events -> Work]
    /\ answers \in Seq([1 .. nOut -> Frame])

\* What lies between two events, once they are recorded.
Between(e, f) ==
    [copyIn |-> stamp[f].copyIn - stamp[e].copyIn,
     exec |-> stamp[f].exec - stamp[e].exec,
     copyOut |-> stamp[f].copyOut - stamp[e].copyOut]

\* The times reported for a call are of its own work: the first phase is the
\* copy in and nothing else, the second the execution (of nothing, when the
\* library refused), the third the copies of all the outputs.
PhasesAreOwn ==
    host = "read" =>
        /\ Between("start", "h2d") = [NoWork EXCEPT !.copyIn = 1]
        /\ Between("h2d", "exec") = [NoWork EXCEPT !.exec = IF refused THEN 0 ELSE 1]
        /\ Between("exec", "d2h") = [NoWork EXCEPT !.copyOut = nOut]

\* What is about to be returned is, in all of the outputs, what this call's
\* frame gives, or, when the library refused it, what the last answer gave.
LastAnswer ==
    IF answers = <<>> THEN [k \in 1 .. nOut |-> 0] ELSE answers[Len(answers)]

AnswersAreOwn ==
    host = "read" =>
        hostOut = IF refused THEN LastAnswer ELSE [k \in 1 .. nOut |-> call]

\* The frame the outputs on the device were last computed from before this call.
Latest == LastAnswer[1]

\* Outside a call nothing is on the stream, and the buffers hold the answer
\* given last.
BetweenCalls ==
    /\ host = "idle" => done = issued /\ devOut = Latest
    /\ LastAnswer = [k \in 1 .. nOut |-> Latest]
    /\ Len(answers) = IF host = "idle" THEN call ELSE call - 1

\* In a call the buffers follow the position of the device in the stream.
InCall ==
    host \in {"issue", "read"} =>
        /\ hostIn = call
        /\ done >= CopyInOp => devIn = call
        /\ refused => MayRefuse /\ issued >= ExecOp
        /\ devOut = IF done >= ExecOp /\ ~refused THEN call ELSE Latest
        /\ \A k \in 1 .. nOut : done >= 5 + k => hostOut[k] = devOut
        /\ host = "read" => done = LastOp

Executed == IF refused THEN 0 ELSE 1

\* The work counted and the events recorded follow it, too.
PhaseCounts ==
    host \in {"issue", "read"} =>
        /\ work.copyIn = IF done >= CopyInOp THEN 1 ELSE 0
        /\ work.exec = IF done >= ExecOp THEN Executed ELSE 0
        /\ work.copyOut =
              IF done <= 5 THEN 0 ELSE IF done < LastOp THEN done - 5 ELSE nOut
        /\ done >= 1 => stamp["start"] = NoWork
        /\ done >= 3 => stamp["h2d"] = [NoWork EXCEPT !.copyIn = 1]
        /\ done >= 5 => stamp["exec"] = [copyIn |-> 1, exec |-> Executed, copyOut |-> 0]
        /\ done = LastOp =>
              stamp["d2h"] = [copyIn |-> 1, exec |-> Executed, copyOut |-> nOut]

\* The inductive invariant.
TrtInv ==
    /\ TrtTypeOK
    /\ BetweenCalls
    /\ InCall
    /\ PhaseCounts

\* The frame of an answer, for the protocol: -1 for a mix of several.
FrameOf(outs) == IF \A k \in 1 .. nOut : outs[k] = outs[1] THEN outs[1] ELSE -1

Protocol ==
    INSTANCE BackendProtocol WITH
        frame <- IF host = "idle" THEN 0 ELSE call,
        answers <- [k \in 1 .. Len(answers) |-> FrameOf(answers[k])],
        broken <- host = "raised"

\* The backend is one: each call is answered, from its own frame, or raises.
ServesProtocol == Protocol!Spec

=============================================================================
