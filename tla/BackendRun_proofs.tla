-------------------------- MODULE BackendRun_proofs --------------------------
(***************************************************************************)
(* Proofs about a run from the model file to the decoded frames, for every *)
(* graph, machine and choice of arguments, every number of frames and of   *)
(* outputs; and first about the TensorRT stream alone, for any number of   *)
(* calls, with and without refused executions and failing devices.  What   *)
(* is proved of the stream holds in the run, whose steps are steps of the  *)
(* stream or leave it alone.                                               *)
(***************************************************************************)
EXTENDS BackendRun, TLAPS

USE TensorRTAssumption

\* The answer given last has a frame for each output.
LEMMA LastAnswerType ==
    ASSUME TrtTypeOK
    PROVE  LastAnswer \in [1 .. nOut -> Frame] /\ Latest \in Frame
<1>1. 1 \in 1 .. nOut /\ 0 \in Frame
  BY DEF TrtTypeOK, Frame
<1>2. LastAnswer \in [1 .. nOut -> Frame]
  BY <1>1 DEF TrtTypeOK, LastAnswer
<1> QED
  BY <1>1, <1>2 DEF Latest

\* A loaded engine that has not been called.
LEMMA InitTrtInv == TrtInit => TrtInv
<1> SUFFICES ASSUME TrtInit PROVE TrtInv
  OBVIOUS
<1>1. TrtTypeOK
  <2>1. NoWork \in Work
    BY DEF NoWork, Work
  <2>2. 0 \in Frame /\ LastOp \in Nat
    BY DEF Frame, LastOp, TrtInit
  <2>3. /\ hostOut \in [1 .. nOut -> Frame] /\ stamp \in [Events -> Work]
        /\ answers \in Seq([1 .. nOut -> Frame])
    BY <2>1, <2>2 DEF TrtInit
  <2>4. issued \in 0 .. LastOp /\ done \in 0 .. issued
    BY <2>2 DEF TrtInit
  <2> QED
    BY <2>1, <2>2, <2>3, <2>4 DEF TrtInit, TrtTypeOK
<1>2. LastAnswer = [k \in 1 .. nOut |-> 0] /\ Latest = 0
  BY <1>1 DEF TrtInit, TrtTypeOK, LastAnswer, Latest
<1>3. BetweenCalls
  BY <1>2 DEF TrtInit, BetweenCalls
<1>4. InCall /\ PhaseCounts
  BY DEF TrtInit, InCall, PhaseCounts
<1> QED
  BY <1>1, <1>3, <1>4 DEF TrtInv

\* The caller's thread keeps the invariant.
LEMMA HostStepInv ==
    ASSUME TrtInv, Run \/ Issue \/ Synchronize \/ RaiseFault
    PROVE  TrtInv'
<1>1. /\ TrtTypeOK /\ BetweenCalls /\ InCall /\ PhaseCounts
      /\ UNCHANGED <<nOut, answers>> /\ LastAnswer' = LastAnswer
      /\ Latest' = Latest /\ LastOp' = LastOp /\ LastOp \in Nat /\ LastOp >= 7
  BY DEF TrtInv, TrtTypeOK, Run, Issue, Synchronize, RaiseFault, LastAnswer, Latest, LastOp
<1>2. CASE Run
  <2>1. TrtTypeOK'
    <3>1. NoWork \in Work /\ call + 1 \in Frame
      BY <1>1, <1>2 DEF NoWork, Work, Frame, Run, TrtTypeOK
    <3>2. issued' = 0 /\ done' = 0 /\ stamp' = [e \in Events |-> NoWork]
      BY <1>2 DEF Run
    <3>3. /\ issued' \in 0 .. LastOp' /\ done' \in 0 .. issued'
          /\ stamp' \in [Events -> Work]
      BY <1>1, <3>1, <3>2
    <3> QED
      BY <1>1, <1>2, <3>1, <3>3 DEF TrtTypeOK, Run
  <2>2. BetweenCalls' /\ InCall' /\ PhaseCounts'
    BY <1>1, <1>2 DEF Run, TrtTypeOK, BetweenCalls, InCall, PhaseCounts, ExecOp, CopyInOp, NoWork, Frame
  <2> QED
    BY <2>1, <2>2 DEF TrtInv
<1>3. CASE Issue
  <2>1. TrtTypeOK'
    <3>1. /\ issued' \in 0 .. LastOp /\ done' \in 0 .. issued' /\ refused' \in BOOLEAN
          /\ UNCHANGED <<nOut, host, call, fault, hostIn, devIn, devOut, hostOut,
                         work, stamp, answers>>
      <4>1. issued' = issued + 1 /\ issued < LastOp /\ done' = done
        BY <1>3 DEF Issue
      <4>2. issued \in 0 .. LastOp /\ done \in 0 .. issued /\ refused \in BOOLEAN
        BY <1>1 DEF TrtTypeOK
      <4>3. issued' \in 0 .. LastOp /\ done' \in 0 .. issued'
        BY <1>1, <4>1, <4>2
      <4> QED
        BY <1>3, <4>2, <4>3 DEF Issue
    <3> QED
      BY <1>1, <3>1 DEF TrtTypeOK
  <2>2. BetweenCalls'
    BY <1>1, <1>3 DEF Issue, BetweenCalls
  <2>3. refused' = refused \/ done < ExecOp
    BY <1>1, <1>3 DEF Issue, TrtTypeOK, ExecOp
  <2>4. InCall'
    BY <1>1, <1>3, <2>3 DEF Issue, TrtTypeOK, InCall, ExecOp, CopyInOp
  <2>5. Executed' = Executed \/ done < ExecOp
    BY <2>3 DEF Executed
  <2>6. PhaseCounts'
    BY <1>1, <1>3, <2>5 DEF Issue, TrtTypeOK, PhaseCounts, ExecOp, CopyInOp
  <2> QED
    BY <2>1, <2>2, <2>4, <2>6 DEF TrtInv
<1>4. CASE Synchronize
  <2>1. TrtTypeOK'
    BY <1>1, <1>4 DEF TrtTypeOK, Synchronize
  <2>2. BetweenCalls' /\ InCall' /\ PhaseCounts'
    BY <1>1, <1>4 DEF Synchronize, BetweenCalls, InCall, PhaseCounts, Executed
  <2> QED
    BY <2>1, <2>2 DEF TrtInv
<1>5. CASE RaiseFault
  <2>1. TrtTypeOK'
    BY <1>1, <1>5 DEF TrtTypeOK, RaiseFault
  <2>2. BetweenCalls' /\ InCall' /\ PhaseCounts'
    BY <1>1, <1>5 DEF RaiseFault, BetweenCalls, InCall, PhaseCounts
  <2> QED
    BY <2>1, <2>2 DEF TrtInv
<1> QED
  BY <1>2, <1>3, <1>4, <1>5

\* What an operation finds and leaves, apart from its own effect.
LEMMA WorksFacts ==
    ASSUME TrtInv, NEW op \in Int, Works(op)
    PROVE  /\ done = op - 1 /\ done' = op /\ op <= issued /\ host = "issue"
           /\ nOut' = nOut /\ host' = host /\ call' = call /\ issued' = issued
           /\ refused' = refused /\ fault' = fault /\ hostIn' = hostIn
           /\ answers' = answers
           /\ Latest' = Latest /\ LastOp' = LastOp /\ Executed' = Executed
           /\ BetweenCalls'
<1>1. /\ TrtTypeOK /\ BetweenCalls /\ InCall
      /\ op = done + 1 /\ done' = op /\ done < issued /\ host # "raised"
      /\ UNCHANGED <<nOut, host, call, issued, refused, fault, hostIn, answers>>
  BY DEF TrtInv, Works
<1>2. host = "issue" /\ done = op - 1 /\ op <= issued
  BY <1>1 DEF TrtTypeOK, BetweenCalls, InCall
<1>3. /\ LastAnswer' = LastAnswer /\ Latest' = Latest
      /\ LastOp' = LastOp /\ Executed' = Executed
  BY <1>1 DEF LastAnswer, Latest, LastOp, Executed
<1>4. BetweenCalls'
  BY <1>1, <1>2, <1>3 DEF BetweenCalls
<1> QED
  BY <1>1, <1>2, <1>3, <1>4

\* The types after an operation, given those of what it writes.
LEMMA WorksTypes ==
    ASSUME TrtInv, NEW op \in Int, Works(op),
           devIn' \in Frame, devOut' \in Frame, hostOut' \in [1 .. nOut -> Frame],
           work' \in Work, stamp' \in [Events -> Work]
    PROVE  TrtTypeOK'
<1>1. TrtTypeOK /\ done' \in 0 .. issued /\ LastOp' = LastOp
  BY WorksFacts DEF TrtInv, TrtTypeOK
<1> QED
  BY <1>1, WorksFacts DEF TrtTypeOK

\* The device keeps the invariant.
LEMMA DeviceStepInv ==
    ASSUME TrtInv, Device
    PROVE  TrtInv'
<1>1. /\ TrtTypeOK /\ InCall /\ PhaseCounts
      /\ LastOp \in Nat /\ LastOp = 6 + nOut /\ nOut \in Nat \ {0}
  BY DEF TrtInv, TrtTypeOK, LastOp
<1>2. CASE CopyIn
  <2>1. Works(2) /\ work.copyIn + 1 \in Nat
    BY <1>1, <1>2 DEF CopyIn, CopyInOp, TrtTypeOK, Work
  <2>2. /\ devIn' = hostIn /\ work' = [work EXCEPT !.copyIn = @ + 1]
        /\ devOut' = devOut /\ hostOut' = hostOut /\ stamp' = stamp
    BY <1>2 DEF CopyIn
  <2>3. /\ done = 1 /\ done' = 2 /\ host = "issue" /\ host' = "issue"
        /\ nOut' = nOut /\ call' = call /\ refused' = refused /\ issued' = issued
        /\ hostIn' = hostIn /\ Latest' = Latest /\ LastOp' = LastOp
        /\ Executed' = Executed /\ BetweenCalls' /\ hostIn = call
    BY <1>1, <2>1, WorksFacts DEF InCall
  <2>4. TrtTypeOK'
    <3>1. /\ devIn' \in Frame /\ devOut' \in Frame
          /\ hostOut' \in [1 .. nOut -> Frame] /\ stamp' \in [Events -> Work]
      BY <1>1, <2>2 DEF TrtTypeOK
    <3>2. work' \in Work
      BY <1>1, <2>1, <2>2 DEF TrtTypeOK, Work
    <3> QED
      BY <2>1, <3>1, <3>2, WorksTypes
  <2>5. InCall'
    BY <1>1, <2>2, <2>3 DEF InCall, CopyInOp, ExecOp
  <2>6. PhaseCounts'
    BY <1>1, <2>2, <2>3 DEF TrtTypeOK, Work, PhaseCounts, CopyInOp, ExecOp
  <2> QED
    BY <2>3, <2>4, <2>5, <2>6 DEF TrtInv
<1>3. CASE Execute
  <2>1. Works(4) /\ work.exec + 1 \in Nat
    BY <1>1, <1>3 DEF Execute, ExecOp, TrtTypeOK, Work
  <2>2. /\ devOut' = (IF refused THEN devOut ELSE devIn)
        /\ work' = [work EXCEPT !.exec = IF refused THEN @ ELSE @ + 1]
        /\ devIn' = devIn /\ hostOut' = hostOut /\ stamp' = stamp
    BY <1>3 DEF Execute
  <2>3. /\ done = 3 /\ done' = 4 /\ host = "issue" /\ host' = "issue"
        /\ nOut' = nOut /\ call' = call /\ refused' = refused /\ issued' = issued
        /\ hostIn' = hostIn /\ Latest' = Latest /\ LastOp' = LastOp
        /\ Executed' = Executed /\ BetweenCalls' /\ devIn = call /\ devOut = Latest
    BY <1>1, <2>1, WorksFacts DEF InCall, CopyInOp, ExecOp
  <2>4. TrtTypeOK'
    <3>1. /\ devIn' \in Frame /\ devOut' \in Frame
          /\ hostOut' \in [1 .. nOut -> Frame] /\ stamp' \in [Events -> Work]
      BY <1>1, <2>2 DEF TrtTypeOK
    <3>2. work' \in Work
      BY <1>1, <2>1, <2>2 DEF TrtTypeOK, Work
    <3> QED
      BY <2>1, <3>1, <3>2, WorksTypes
  <2>5. InCall'
    BY <1>1, <2>2, <2>3 DEF InCall, CopyInOp, ExecOp
  <2>6. PhaseCounts'
    BY <1>1, <2>2, <2>3 DEF TrtTypeOK, Work, PhaseCounts, CopyInOp, ExecOp, Executed
  <2> QED
    BY <2>3, <2>4, <2>5, <2>6 DEF TrtInv
<1>4. CASE CopyOut
  <2>1. PICK op \in 6 .. (LastOp - 1) :
          /\ Works(op)
          /\ hostOut' = [hostOut EXCEPT ![op - 5] = devOut]
          /\ work' = [work EXCEPT !.copyOut = @ + 1]
          /\ UNCHANGED <<devIn, devOut, stamp>>
    BY <1>4 DEF CopyOut, IsCopyOut, OutputOf
  <2>2. /\ op \in Int /\ op - 5 \in 1 .. nOut /\ op >= 6 /\ op < LastOp
        /\ work.copyOut + 1 \in Nat
    BY <1>1, <2>1 DEF TrtTypeOK, Work
  <2>3. /\ done = op - 1 /\ done' = op /\ host = "issue" /\ host' = "issue"
        /\ nOut' = nOut /\ call' = call /\ refused' = refused /\ issued' = issued
        /\ hostIn' = hostIn /\ Latest' = Latest /\ LastOp' = LastOp
        /\ Executed' = Executed /\ BetweenCalls'
    BY <2>1, <2>2, WorksFacts
  <2>4. TrtTypeOK'
    BY <1>1, <2>1, <2>2, WorksTypes DEF TrtTypeOK, Work
  <2>5. ASSUME NEW k \in 1 .. nOut, op >= 5 + k
        PROVE  hostOut'[k] = devOut
    <3>1. hostOut'[k] = IF k = op - 5 THEN devOut ELSE hostOut[k]
      BY <1>1, <2>1, <2>2 DEF TrtTypeOK
    <3>2. CASE k # op - 5
      <4>1. done >= 5 + k
        BY <2>2, <2>3, <2>5, <3>2
      <4> QED
        BY <1>1, <2>3, <3>1, <3>2, <4>1 DEF InCall
    <3> QED
      BY <3>1, <3>2
  <2>6. InCall'
    BY <1>1, <2>1, <2>2, <2>3, <2>5 DEF InCall, CopyInOp, ExecOp
  <2>7. PhaseCounts'
    <3>1. /\ work'.copyIn = work.copyIn /\ work'.exec = work.exec
          /\ work'.copyOut = work.copyOut + 1 /\ stamp' = stamp
      BY <1>1, <2>1 DEF TrtTypeOK, Work
    <3>2. /\ work.copyIn = 1 /\ work.exec = Executed
          /\ work.copyOut = op - 6
      BY <1>1, <2>2, <2>3 DEF PhaseCounts, CopyInOp, ExecOp
    <3> QED
      BY <1>1, <2>2, <2>3, <3>1, <3>2 DEF PhaseCounts, CopyInOp, ExecOp, NoWork
  <2> QED
    BY <2>3, <2>4, <2>6, <2>7 DEF TrtInv
<1>5. CASE RecordEvent
  <2>1. PICK op \in {1, 3, 5, LastOp} :
          /\ Works(op)
          /\ stamp' = [stamp EXCEPT ![EventAt(op)] = work]
          /\ UNCHANGED <<devIn, devOut, hostOut, work>>
    BY <1>5 DEF RecordEvent, IsEvent
  <2>2. op \in Int /\ LastOp >= 7
    BY <1>1, <2>1
  <2>3. /\ done = op - 1 /\ done' = op /\ host = "issue" /\ host' = "issue"
        /\ nOut' = nOut /\ call' = call /\ refused' = refused /\ issued' = issued
        /\ hostIn' = hostIn /\ Latest' = Latest /\ LastOp' = LastOp
        /\ Executed' = Executed /\ BetweenCalls'
    BY <2>1, <2>2, WorksFacts
  <2>4. /\ op = 1 => EventAt(op) = "start"
        /\ op = 3 => EventAt(op) = "h2d"
        /\ op = 5 => EventAt(op) = "exec"
        /\ op = LastOp => EventAt(op) = "d2h"
    BY <2>2 DEF EventAt
  <2>5. /\ EventAt(op) \in Events /\ stamp \in [Events -> Work] /\ work \in Work
        /\ Events = {"start", "h2d", "exec", "d2h"}
    BY <1>1, <2>1, <2>4 DEF Events, TrtTypeOK
  <2>6. TrtTypeOK'
    BY <1>1, <2>1, <2>2, <2>5, WorksTypes DEF TrtTypeOK
  <2>7. InCall'
    <3>1. done >= 5 \/ \A k \in 1 .. nOut : ~(done' >= 5 + k)
      BY <1>1, <2>1, <2>2, <2>3
    <3>2. \A k \in 1 .. nOut : done' >= 5 + k => done >= 5 + k
      BY <1>1, <2>1, <2>2, <2>3
    <3>3. /\ done' >= CopyInOp => done >= CopyInOp
          /\ done' >= ExecOp <=> done >= ExecOp
      BY <2>1, <2>2, <2>3 DEF CopyInOp, ExecOp
    <3> QED
      BY <1>1, <2>1, <2>3, <3>2, <3>3 DEF InCall
  <2>8. /\ work = [copyIn |-> work.copyIn, exec |-> work.exec, copyOut |-> work.copyOut]
        /\ work.copyIn = IF op >= 3 THEN 1 ELSE 0
        /\ work.exec = IF op >= 5 THEN Executed ELSE 0
        /\ work.copyOut = IF op = LastOp THEN nOut ELSE 0
    <3>1. work = [copyIn |-> work.copyIn, exec |-> work.exec, copyOut |-> work.copyOut]
      BY <2>5 DEF Work
    <3>2. op = LastOp => work.copyOut = nOut
      <4>1. op = LastOp => work.copyOut = IF done <= 5 THEN 0 ELSE done - 5
        BY <1>1, <2>2, <2>3 DEF PhaseCounts
      <4> QED
        BY <1>1, <2>2, <2>3, <4>1
    <3> QED
      BY <1>1, <2>1, <2>2, <2>3, <3>1, <3>2 DEF PhaseCounts, CopyInOp, ExecOp
  <2>9. \A e \in Events : stamp'[e] = IF e = EventAt(op) THEN work ELSE stamp[e]
    BY <2>1, <2>5
  <2>10. PhaseCounts'
    <3>1. /\ work'.copyIn = IF done' >= CopyInOp THEN 1 ELSE 0
          /\ work'.exec = IF done' >= ExecOp THEN Executed' ELSE 0
          /\ work'.copyOut =
                IF done' <= 5 THEN 0 ELSE IF done' < LastOp' THEN done' - 5 ELSE nOut'
      BY <1>1, <2>1, <2>2, <2>3, <2>8 DEF CopyInOp, ExecOp
    <3>2. done' >= 1 => stamp'["start"] = NoWork
      BY <1>1, <2>1, <2>2, <2>3, <2>4, <2>5, <2>8, <2>9 DEF PhaseCounts, NoWork
    <3>3. done' >= 3 => stamp'["h2d"] = [NoWork EXCEPT !.copyIn = 1]
      <4>1. op = 3 => work = [NoWork EXCEPT !.copyIn = 1]
        BY <2>2, <2>8 DEF NoWork
      <4> QED
        BY <1>1, <2>1, <2>2, <2>3, <2>4, <2>5, <2>9, <4>1 DEF PhaseCounts
    <3>4. done' >= 5 => stamp'["exec"] = [copyIn |-> 1, exec |-> Executed, copyOut |-> 0]
      <4>1. op = 5 => work = [copyIn |-> 1, exec |-> Executed, copyOut |-> 0]
        BY <2>2, <2>8
      <4> QED
        BY <1>1, <2>1, <2>2, <2>3, <2>4, <2>5, <2>9, <4>1 DEF PhaseCounts
    <3>5. done' = LastOp =>
             stamp'["d2h"] = [copyIn |-> 1, exec |-> Executed, copyOut |-> nOut]
      <4>1. op = LastOp => work = [copyIn |-> 1, exec |-> Executed, copyOut |-> nOut]
        BY <2>2, <2>8
      <4> QED
        BY <2>3, <2>4, <2>5, <2>9, <4>1
    <3> QED
      BY <2>3, <3>1, <3>2, <3>3, <3>4, <3>5 DEF PhaseCounts
  <2> QED
    BY <2>3, <2>6, <2>7, <2>10 DEF TrtInv
<1> QED
  BY <1>2, <1>3, <1>4, <1>5 DEF Device

\* What is read after the wait is the call's own.
LEMMA ReadIsOwn == TrtInv => PhasesAreOwn /\ AnswersAreOwn
<1> SUFFICES ASSUME TrtInv, host = "read" PROVE PhasesAreOwn /\ AnswersAreOwn
  BY DEF PhasesAreOwn, AnswersAreOwn
<1>1. /\ TrtTypeOK /\ BetweenCalls /\ InCall /\ PhaseCounts
      /\ done = LastOp /\ LastOp = 6 + nOut /\ nOut \in Nat \ {0}
  BY DEF TrtInv, TrtTypeOK, InCall, LastOp
<1>2. PhasesAreOwn
  BY <1>1 DEF PhaseCounts, PhasesAreOwn, Between, NoWork, Executed
<1>3. hostOut = [k \in 1 .. nOut |-> devOut]
  BY <1>1 DEF InCall, TrtTypeOK
<1>4. AnswersAreOwn
  BY <1>1, <1>3 DEF InCall, BetweenCalls, AnswersAreOwn, ExecOp
<1> QED
  BY <1>2, <1>4

\* An answer becomes the last one.
LEMMA ReturnInv ==
    ASSUME TrtInv, Return
    PROVE  /\ TrtInv'
           /\ hostOut = [k \in 1 .. nOut |-> devOut]
           /\ devOut = call \/ (refused /\ devOut = Latest)
<1>1. /\ TrtTypeOK /\ BetweenCalls /\ InCall /\ host = "read" /\ host' = "idle"
      /\ done = LastOp /\ LastOp = 6 + nOut /\ nOut \in Nat \ {0}
      /\ UNCHANGED <<nOut, call, issued, done, refused, fault, hostIn, devIn,
                     devOut, hostOut, work, stamp>>
      /\ answers' = Append(answers, hostOut)
  BY DEF TrtInv, TrtTypeOK, InCall, LastOp, Return
<1>2. hostOut = [k \in 1 .. nOut |-> devOut]
  BY <1>1 DEF InCall, TrtTypeOK
<1>3. devOut = call \/ (refused /\ devOut = Latest)
  BY <1>1 DEF InCall, ExecOp
<1>4. TrtTypeOK'
  BY <1>1 DEF TrtTypeOK, LastOp
<1>5. LastAnswer' = hostOut /\ Latest' = devOut
  BY <1>1, <1>2 DEF TrtTypeOK, LastAnswer, Latest
<1>6. done = issued /\ Len(answers') = call
  <2>1. issued \in 0 .. (6 + nOut) /\ done \in 0 .. issued /\ call \in Int
    BY <1>1 DEF TrtTypeOK, LastOp, Frame
  <2>2. Len(answers) = call - 1 /\ Len(answers') = Len(answers) + 1
    BY <1>1 DEF BetweenCalls, TrtTypeOK
  <2> QED
    BY <1>1, <2>1, <2>2
<1>7. BetweenCalls'
  BY <1>1, <1>2, <1>5, <1>6 DEF BetweenCalls
<1>8. InCall' /\ PhaseCounts'
  BY <1>1 DEF InCall, PhaseCounts
<1> QED
  BY <1>2, <1>3, <1>4, <1>7, <1>8 DEF TrtInv

\* Every step of the stream keeps its invariant.
LEMMA StepTrtInv == TrtInv /\ [TrtNext]_trtVars => TrtInv'
<1> SUFFICES ASSUME TrtInv, [TrtNext]_trtVars PROVE TrtInv'
  OBVIOUS
<1>1. CASE DeviceFails
  <2>1. /\ fault' = TRUE
        /\ UNCHANGED <<nOut, host, call, issued, done, refused, hostIn, devIn,
                       devOut, hostOut, work, stamp, answers>>
    BY <1>1 DEF DeviceFails
  <2> QED
    BY <2>1 DEF TrtInv, TrtTypeOK, BetweenCalls, InCall, PhaseCounts, LastAnswer,
                Latest, LastOp, Executed
<1>2. CASE UNCHANGED trtVars
  BY <1>2 DEF trtVars, TrtInv, TrtTypeOK, BetweenCalls, InCall, PhaseCounts,
              LastAnswer, Latest, LastOp, Executed
<1> QED
  BY <1>1, <1>2, HostStepInv, DeviceStepInv, ReturnInv DEF TrtNext, HostStep

\* The invariant of the buffers, the stream's position and the events.
THEOREM StreamInvariant == TrtSpec => []TrtInv
  BY InitTrtInv, StepTrtInv, PTL DEF TrtSpec

\* What run returns is computed from the frame it was called with, in each of
\* the outputs, or is the last answer again when the library refused.
THEOREM OutputsOfOwnFrame == TrtSpec => []AnswersAreOwn
  BY StreamInvariant, ReadIsOwn, PTL

\* The times run returns are those of its own copies and its own execution.
THEOREM TimesOfOwnPhases == TrtSpec => []PhasesAreOwn
  BY StreamInvariant, ReadIsOwn, PTL

-----------------------------------------------------------------------------
(* The safety part of the refinement.                                      *)

\* A loaded engine is an idle backend.
LEMMA ProtocolInit == TrtInit => Protocol!Init
  BY DEF TrtInit, Protocol!Init

\* The protocol's view of the answers after one more.
LEMMA OneMoreAnswer ==
    ASSUME TrtInv, Return
    PROVE  [k \in 1 .. Len(answers) |-> FrameOf(answers[k])]'
             = Append([k \in 1 .. Len(answers) |-> FrameOf(answers[k])], devOut)
<1>1. /\ answers' = Append(answers, hostOut) /\ nOut' = nOut
      /\ answers \in Seq([1 .. nOut -> Frame]) /\ Len(answers) \in Nat
      /\ nOut \in Nat \ {0}
  BY DEF Return, TrtInv, TrtTypeOK
<1>2. \A outs : FrameOf(outs)' = FrameOf(outs)
  BY <1>1 DEF FrameOf
<1>3. FrameOf(hostOut) = devOut
  BY <1>1, ReturnInv DEF FrameOf
<1> DEFINE seen == [k \in 1 .. Len(answers) |-> FrameOf(answers[k])]
           after == [k \in 1 .. (Len(answers) + 1) |-> FrameOf(Append(answers, hostOut)[k])]
<1>4. seen' = after
  BY <1>1, <1>2 DEF FrameOf
<1>5. Len(seen) = Len(answers)
  BY <1>1
<1>6. ASSUME NEW k \in 1 .. (Len(answers) + 1)
      PROVE  after[k] = Append(seen, devOut)[k]
  <2>1. CASE k = Len(answers) + 1
    BY <1>1, <1>3, <1>5, <2>1
  <2>2. CASE k \in 1 .. Len(answers)
    BY <1>1, <1>5, <2>2
  <2> QED
    BY <1>1, <2>1, <2>2
<1>7. after = Append(seen, devOut)
  BY <1>1, <1>5, <1>6
<1> QED
  BY <1>4, <1>7

\* Every step is a step of the protocol or none.
LEMMA ProtocolStep ==
    ASSUME TrtInv, [TrtNext]_trtVars
    PROVE  [Protocol!Next]_(Protocol!vars)
<1> DEFINE seen == [k \in 1 .. Len(answers) |-> FrameOf(answers[k])]
<1>1. /\ TrtTypeOK /\ BetweenCalls /\ InCall /\ nOut \in Nat \ {0}
      /\ Len(answers) \in Nat /\ Len(seen) = Len(answers) /\ call \in Nat
  BY DEF TrtInv, TrtTypeOK, Frame
<1>2. CASE Run
  <2>1. /\ host = "idle" /\ call < Calls /\ call' = call + 1 /\ host' = "issue"
        /\ UNCHANGED <<nOut, answers>> /\ Len(answers) = call
    BY <1>1, <1>2 DEF Run, BetweenCalls
  <2>2. seen' = seen
    BY <2>1 DEF FrameOf
  <2>3. Protocol!Ask
    BY <1>1, <2>1, <2>2 DEF Protocol!Ask
  <2> QED
    BY <2>3 DEF Protocol!Next
<1>3. CASE Return
  <2>1. /\ host = "read" /\ host' = "idle" /\ call' = call /\ call # 0
        /\ seen' = Append(seen, devOut)
        /\ devOut = call \/ (refused /\ devOut = Latest)
    <3>1. Len(answers) = call - 1 /\ host = "read"
      BY <1>1, <1>3 DEF Return, BetweenCalls
    <3>2. call # 0
      BY <1>1, <3>1
    <3> QED
      BY <1>3, <3>1, <3>2, OneMoreAnswer, ReturnInv DEF Return
  <2>2. CASE devOut = call
    <3>1. Protocol!Answer
      BY <2>1, <2>2 DEF Protocol!Answer
    <3> QED
      BY <3>1 DEF Protocol!Next, Protocol!Reply
  <2>3. CASE refused /\ devOut = Latest
    <3>1. MayRefuse
      BY <1>1, <2>1, <2>3 DEF InCall
    <3>2. Protocol!LastComputed = Latest
      <4>1. answers = <<>> => Latest = 0
        BY <1>1 DEF LastAnswer, Latest
      <4>2. ASSUME answers # <<>> PROVE FrameOf(answers[Len(answers)]) = Latest
        <5>1. answers[Len(answers)] = LastAnswer
          BY <4>2 DEF LastAnswer
        <5> QED
          BY <1>1, <5>1 DEF BetweenCalls, FrameOf
      <4>3. answers = <<>> <=> seen = <<>>
        BY <1>1
      <4>4. answers # <<>> => Len(answers) \in 1 .. Len(answers)
        BY <1>1 DEF TrtTypeOK
      <4> QED
        BY <1>1, <4>1, <4>2, <4>3, <4>4 DEF Protocol!LastComputed
    <3>3. Protocol!AnswerRefused
      BY <2>1, <2>3, <3>1, <3>2 DEF Protocol!AnswerRefused
    <3> QED
      BY <3>3 DEF Protocol!Next, Protocol!Reply
  <2> QED
    BY <2>1, <2>2, <2>3
<1>4. CASE RaiseFault
  <2>1. /\ host = "issue" /\ host' = "raised" /\ UNCHANGED <<nOut, call, answers>>
    BY <1>4 DEF RaiseFault
  <2>2. seen' = seen
    BY <2>1 DEF FrameOf
  <2>3. call # 0
    BY <1>1, <2>1 DEF BetweenCalls
  <2>4. Protocol!Raise
    BY <2>1, <2>2, <2>3 DEF Protocol!Raise
  <2> QED
    BY <2>4 DEF Protocol!Next, Protocol!Reply
<1>5. CASE Issue \/ Synchronize \/ Device \/ DeviceFails \/ UNCHANGED trtVars
  <2>1. /\ UNCHANGED <<nOut, call, answers>>
        /\ host' = host \/ (host = "issue" /\ host' = "read")
    BY <1>5 DEF Issue, Synchronize, Device, RecordEvent, CopyIn, Execute, CopyOut,
                Works, DeviceFails, trtVars
  <2>2. seen' = seen
    BY <2>1 DEF FrameOf
  <2>3. UNCHANGED Protocol!vars
    BY <2>1, <2>2 DEF Protocol!vars
  <2> QED
    BY <2>3
<1> QED
  BY <1>2, <1>3, <1>4, <1>5 DEF TrtNext, HostStep

\* Without its fairness: the stream and the shared buffers implement a backend
\* that is asked for one frame after the other and answers each from itself.
THEOREM StreamImplementsProtocol ==
    TrtSpec => Protocol!Init /\ [][Protocol!Next]_(Protocol!vars)
  BY ProtocolInit, ProtocolStep, StreamInvariant, PTL DEF TrtSpec

-----------------------------------------------------------------------------
(* The run.                                                                *)

\* Each step of the run is one of the stream or does not concern it.
LEMMA StepsOfStream == [Next]_vars => [TrtNext]_trtVars
<1> SUFFICES ASSUME [Next]_vars PROVE TrtNext \/ UNCHANGED trtVars
  OBVIOUS
<1>1. CASE HandIn \/ BackendHost \/ BackendDevice \/ BackendFails
  BY <1>1 DEF HandIn, BackendHost, BackendDevice, BackendFails, TrtNext
<1>2. CASE Prepare \/ DecodeAnswer \/ Records \/ Finished \/ UNCHANGED vars
  BY <1>2 DEF Prepare, DecodeAnswer, Records, Finished, vars
<1> QED
  BY <1>1, <1>2 DEF Next

\* The buffers, the events and the answers of a run keep the stream's invariant.
THEOREM RunStreamInvariant == Spec => []TrtInv
<1>1. Init => TrtInv
  BY InitTrtInv DEF Init
<1>2. TrtInv /\ [Next]_vars => TrtInv'
  BY StepsOfStream, StepTrtInv
<1> QED
  BY <1>1, <1>2, PTL DEF Spec

\* What is decoded was computed from the frame that was handed in.
THEOREM RunAnswersAreOwn == Spec => []AnswersAreOwn
  BY RunStreamInvariant, ReadIsOwn, PTL

\* The times of a frame are those of its own work on the device.
THEOREM RunPhasesAreOwn == Spec => []PhasesAreOwn
  BY RunStreamInvariant, ReadIsOwn, PTL

\* The pipeline sees the Backend protocol.
THEOREM RunServesProtocol ==
    Spec => Protocol!Init /\ [][Protocol!Next]_(Protocol!vars)
<1>1. Init => Protocol!Init
  BY ProtocolInit DEF Init
<1>2. TrtInv /\ [Next]_vars => [Protocol!Next]_(Protocol!vars)
  BY StepsOfStream, ProtocolStep
<1> QED
  BY <1>1, <1>2, RunStreamInvariant, PTL DEF Spec

-----------------------------------------------------------------------------
(* The choices made when the model is loaded.                              *)

Chosen == {"ready", "decoded"}

\* What has been chosen follows from the inputs, and stays.
RouteInv ==
    /\ graph \in Graph /\ args \in Arguments /\ installed \in Machine
    /\ graph.head = "e2e" => graph.columnsLast
    /\ decoded \in Nat
    /\ stage \in {"load", "preprocessor", "postprocessor", "maskDevice",
                 "ready", "decoded", "raised"}
    /\ spec \in {NoSpec, [task |-> Task, e2e |-> InferE2E]}
    /\ stage \in {"preprocessor", "postprocessor", "maskDevice"} \union Chosen =>
          spec = [task |-> Task, e2e |-> InferE2E]
    /\ stage \in {"load", "preprocessor"} => parts = NoParts
    /\ stage \in {"postprocessor", "maskDevice"} \union Chosen =>
          /\ parts.pre = Pick(args.preprocess, {"torch"})
          /\ parts.pre \in {"torch", "numpy"}
          /\ parts = [pre |-> parts.pre, post |-> parts.post, mask |-> parts.mask]
    /\ stage \in {"maskDevice"} \union Chosen =>
          /\ parts.post = IF InferE2E THEN "e2e"
                          ELSE Pick(args.postprocess, {"torch", "ultralytics"})
          /\ parts.post \in {"torch", "numpy", "e2e"}
    /\ stage \in Chosen => parts.mask = BestMaskDevice
    /\ decoded > 0 =>
          /\ spec = [task |-> Task, e2e |-> InferE2E]
          /\ reads = IF InferE2E THEN E2EReads ELSE ClassicReads
    /\ decoded > 0 => stage \in Chosen \union {"raised"}
    /\ stage = "raised" /\ why = "import" =>
          "torch" \in {args.preprocess, args.postprocess}

\* A run starts with nothing chosen.
LEMMA InitRouteInv == RouteInit => RouteInv
  BY DEF RouteInit, RouteInv, Chosen

\* What a step does not change, it chooses as before.
LEMMA SameInputs ==
    ASSUME UNCHANGED routeInputs
    PROVE  /\ UNCHANGED <<graph, args, installed>>
           /\ Task' = Task /\ InferE2E' = InferE2E
           /\ \A path, needed : Pick(path, needed)' = Pick(path, needed)
           /\ BestMaskDevice' = BestMaskDevice
           /\ spec' = spec => E2EReads' = E2EReads /\ ClassicReads' = ClassicReads
<1>1. UNCHANGED <<graph, args, installed>>
  BY DEF routeInputs
<1>2. Task' = Task /\ InferE2E' = InferE2E
  BY <1>1 DEF Task, Outputs, InferE2E, Axis1, Axis2, Columns
<1>3. \A path, needed : Pick(path, needed)' = Pick(path, needed)
  BY <1>1 DEF Pick
<1>4. BestMaskDevice' = BestMaskDevice
  BY <1>1 DEF BestMaskDevice, Provider
<1>5. spec' = spec => E2EReads' = E2EReads /\ ClassicReads' = ClassicReads
  BY <1>1 DEF E2EReads, ClassicReads, Coeffs, Axis1, Columns
<1> QED
  BY <1>1, <1>2, <1>3, <1>4, <1>5

\* A part is one of the two paths, or it was asked for and cannot be had.
LEMMA PickPath ==
    ASSUME NEW path \in Choice, NEW needed
    PROVE  /\ Pick(path, needed) \in {"torch", "numpy", "import"}
           /\ Pick(path, needed) = "import" => path = "torch"
           /\ Pick(path, needed) # "import" /\ path \in {"torch", "numpy"} =>
                 Pick(path, needed) = path
           /\ Pick(path, needed) = "torch" => needed \subseteq installed
  BY DEF Pick, Choice

\* An exception ends the run with what has been chosen so far.
LEMMA RaiseInv ==
    ASSUME RouteInv, NEW error, Raise(error),
           error = "import" => "torch" \in {args.preprocess, args.postprocess}
    PROVE  RouteInv'
<1>1. /\ stage' = "raised" /\ why' = error
      /\ UNCHANGED routeInputs /\ UNCHANGED <<spec, parts, reads, decoded>>
  BY DEF Raise
<1>2. /\ UNCHANGED <<graph, args, installed>>
      /\ Task' = Task /\ InferE2E' = InferE2E
      /\ E2EReads' = E2EReads /\ ClassicReads' = ClassicReads
  BY <1>1, SameInputs
<1> QED
  BY <1>1, <1>2 DEF RouteInv, Chosen

\* Loading sets the specification of the model.
LEMMA LoadInv ==
    ASSUME RouteInv, LoadOnnx \/ LoadTensorRT \/ LoadRefused
    PROVE  RouteInv'
<1>1. CASE Raise("provider") \/ Raise("engine") \/ Raise("runtime")
  BY <1>1, RaiseInv
<1>2. CASE Loaded /\ stage = "load"
  <2>1. /\ stage' = "preprocessor" /\ spec' = [task |-> Task, e2e |-> InferE2E]
        /\ UNCHANGED routeInputs /\ UNCHANGED <<why, parts, reads, decoded>>
    BY <1>2 DEF Loaded
  <2>2. /\ UNCHANGED <<graph, args, installed>>
        /\ Task' = Task /\ InferE2E' = InferE2E
    BY <2>1, SameInputs
  <2> QED
    BY <1>2, <2>1, <2>2 DEF RouteInv, Chosen
<1> QED
  BY <1>1, <1>2 DEF LoadOnnx, LoadTensorRT, LoadRefused

\* The constructor of the pipeline picks one part after the other.
LEMMA MakeInv ==
    ASSUME RouteInv, MakePreprocessor \/ MakePostprocessor \/ ChooseMaskDevice
    PROVE  RouteInv'
<1>1. args.preprocess \in Choice /\ args.postprocess \in Choice
  BY DEF RouteInv, Arguments
<1>2. CASE MakePreprocessor
  <2> DEFINE pre == Pick(args.preprocess, {"torch"})
  <2>1. CASE pre = "import"
    BY <1>1, <1>2, <2>1, PickPath, RaiseInv DEF MakePreprocessor
  <2>2. CASE pre # "import"
    <3>1. /\ stage = "preprocessor" /\ stage' = "postprocessor"
          /\ parts' = [parts EXCEPT !.pre = pre]
          /\ UNCHANGED routeInputs /\ UNCHANGED <<why, spec, reads, decoded>>
      BY <1>2, <2>2 DEF MakePreprocessor
    <3>2. /\ UNCHANGED <<graph, args, installed>>
          /\ Task' = Task /\ InferE2E' = InferE2E
          /\ \A path, needed : Pick(path, needed)' = Pick(path, needed)
      BY <3>1, SameInputs
    <3>3. pre \in {"torch", "numpy"}
      BY <1>1, <2>2, PickPath
    <3>4. /\ parts'.pre = pre
          /\ parts' = [pre |-> parts'.pre, post |-> parts'.post, mask |-> parts'.mask]
      BY <3>1 DEF RouteInv, NoParts
    <3>5. parts'.pre = Pick(args.preprocess, {"torch"})' /\ parts'.pre \in {"torch", "numpy"}
      BY <3>2, <3>3, <3>4
    <3> HIDE DEF pre
    <3> QED
      BY <3>1, <3>2, <3>4, <3>5 DEF RouteInv, Chosen
  <2> QED
    BY <2>1, <2>2
<1>3. CASE MakePostprocessor
  <2> DEFINE post == IF spec.e2e THEN "e2e"
                     ELSE Pick(args.postprocess, {"torch", "ultralytics"})
  <2>1. CASE post = "import"
    BY <1>1, <1>3, <2>1, PickPath, RaiseInv DEF MakePostprocessor
  <2>2. CASE post # "import"
    <3>1. /\ stage = "postprocessor" /\ stage' = "maskDevice"
          /\ parts' = [parts EXCEPT !.post = post]
          /\ UNCHANGED routeInputs /\ UNCHANGED <<why, spec, reads, decoded>>
      BY <1>3, <2>2 DEF MakePostprocessor
    <3>2. /\ UNCHANGED <<graph, args, installed>>
          /\ Task' = Task /\ InferE2E' = InferE2E
          /\ \A path, needed : Pick(path, needed)' = Pick(path, needed)
      BY <3>1, SameInputs
    <3>3. spec.e2e = InferE2E
      BY <3>1 DEF RouteInv
    <3>4. post \in {"torch", "numpy", "e2e"}
      BY <1>1, <2>2, PickPath
    <3>5. /\ parts'.post = post /\ parts'.pre = parts.pre
          /\ parts' = [pre |-> parts'.pre, post |-> parts'.post, mask |-> parts'.mask]
      BY <3>1 DEF RouteInv
    <3>6. parts'.post = IF InferE2E' THEN "e2e"
                        ELSE Pick(args.postprocess, {"torch", "ultralytics"})'
      BY <3>2, <3>3, <3>5
    <3> HIDE DEF post
    <3> QED
      BY <3>1, <3>2, <3>4, <3>5, <3>6 DEF RouteInv, Chosen
  <2> QED
    BY <2>1, <2>2
<1>4. CASE ChooseMaskDevice
  <2>1. /\ stage = "maskDevice" /\ stage' = "ready"
        /\ parts' = [parts EXCEPT !.mask = BestMaskDevice]
        /\ UNCHANGED routeInputs /\ UNCHANGED <<why, spec, reads, decoded>>
    BY <1>4 DEF ChooseMaskDevice
  <2>2. /\ UNCHANGED <<graph, args, installed>>
        /\ Task' = Task /\ InferE2E' = InferE2E /\ BestMaskDevice' = BestMaskDevice
        /\ \A path, needed : Pick(path, needed)' = Pick(path, needed)
        /\ E2EReads' = E2EReads /\ ClassicReads' = ClassicReads
    BY <2>1, SameInputs
  <2>3. /\ parts'.mask = BestMaskDevice
        /\ parts'.pre = parts.pre /\ parts'.post = parts.post
        /\ parts' = [pre |-> parts'.pre, post |-> parts'.post, mask |-> parts'.mask]
    BY <2>1 DEF RouteInv
  <2> QED
    BY <2>1, <2>2, <2>3 DEF RouteInv, Chosen
<1> QED
  BY <1>2, <1>3, <1>4

\* A frame is decoded by the decoder chosen.
LEMMA FrameInv ==
    ASSUME RouteInv, DecodeFrame \/ Serialize \/ UNCHANGED routeVars
    PROVE  RouteInv'
<1>1. CASE Raise("classMap")
  BY <1>1, RaiseInv
<1>2. CASE DecodeFrame
  <2>1. /\ stage = "ready" /\ stage' = "decoded" /\ decoded' = decoded + 1
        /\ reads' = IF parts.post = "e2e" THEN E2EReads ELSE ClassicReads
        /\ UNCHANGED routeInputs /\ UNCHANGED <<why, spec, parts>>
    BY <1>2 DEF DecodeFrame
  <2>2. /\ UNCHANGED <<graph, args, installed>>
        /\ Task' = Task /\ InferE2E' = InferE2E /\ BestMaskDevice' = BestMaskDevice
        /\ \A path, needed : Pick(path, needed)' = Pick(path, needed)
        /\ E2EReads' = E2EReads /\ ClassicReads' = ClassicReads
    BY <2>1, SameInputs
  <2>3. parts.post = "e2e" <=> InferE2E
    BY <2>1 DEF RouteInv, Chosen, Pick
  <2>4. reads' = IF InferE2E' THEN E2EReads' ELSE ClassicReads'
    BY <2>1, <2>2, <2>3
  <2> QED
    BY <2>1, <2>2, <2>4 DEF RouteInv, Chosen
<1>3. CASE ~Raise("classMap") /\ (Serialize \/ UNCHANGED routeVars)
  <2>1. /\ UNCHANGED routeInputs /\ UNCHANGED <<why, spec, parts, reads, decoded>>
        /\ stage' = stage \/ (stage = "decoded" /\ stage' = "ready")
    BY <1>3 DEF Serialize, routeVars, routeInputs
  <2>2. /\ UNCHANGED <<graph, args, installed>>
        /\ Task' = Task /\ InferE2E' = InferE2E /\ BestMaskDevice' = BestMaskDevice
        /\ \A path, needed : Pick(path, needed)' = Pick(path, needed)
        /\ E2EReads' = E2EReads /\ ClassicReads' = ClassicReads
    BY <2>1, SameInputs
  <2> QED
    BY <2>1, <2>2 DEF RouteInv, Chosen
<1> QED
  BY <1>1, <1>2, <1>3

\* The choices follow from the inputs, throughout a run.
THEOREM ChoicesFollow == Spec => []RouteInv
<1>1. Init => RouteInv
  BY InitRouteInv DEF Init
<1>2. RouteInv /\ [Next]_vars => RouteInv'
  <2> SUFFICES ASSUME RouteInv, [Next]_vars PROVE RouteInv'
    OBVIOUS
  <2>1. CASE Prepare
    BY <2>1, LoadInv, MakeInv DEF Prepare, Build
  <2>2. CASE DecodeAnswer \/ Records
    BY <2>2, FrameInv DEF DecodeAnswer, Records
  <2>3. CASE HandIn \/ BackendHost \/ BackendDevice \/ BackendFails \/ Finished
                \/ UNCHANGED vars
    <3>1. UNCHANGED routeVars
      BY <2>3 DEF HandIn, BackendHost, BackendDevice, BackendFails, InBackend,
                  Finished, vars
    <3> QED
      BY <3>1, FrameInv
  <2> QED
    BY <2>1, <2>2, <2>3 DEF Next
<1> QED
  BY <1>1, <1>2, PTL DEF Spec

\* The shape of an export tells its head, whichever way a classic one lies.
LEMMA HeadIsTold ==
    ASSUME RouteInv, args.e2e = "auto" => TellingShape,
           args.e2e # "auto" => (args.e2e = "yes") = (graph.head = "e2e")
    PROVE  InferE2E <=> graph.head = "e2e"
<1>1. /\ graph.head \in {"classic", "e2e"} /\ graph.rows \in Nat
      /\ graph.classes \in Nat /\ graph.coeffs \in Nat
      /\ graph.columnsLast \in BOOLEAN /\ graph.numbered \in BOOLEAN
      /\ Columns \in Nat /\ MaxCols \in Nat /\ MaxRows \in Nat
      /\ args.e2e \in {"auto", "yes", "no"}
      /\ FewRows \in Nat /\ ManyAnchors \in Nat
      /\ 6 + graph.coeffs <= MaxCols
  BY RoutingAssumption, ExportsAssumption DEF RouteInv, Graph, Arguments, Columns
<1>2. CASE args.e2e # "auto"
  BY <1>1, <1>2 DEF InferE2E
<1>3. CASE args.e2e = "auto" /\ graph.head = "e2e"
  <2>1. /\ graph.numbered /\ graph.rows <= MaxRows /\ Columns <= MaxCols
        /\ Axis1 = graph.rows /\ Axis2 = Columns
    BY <1>1, <1>3, RoutingAssumption, ExportsAssumption
       DEF TellingShape, RouteInv, Axis1, Axis2, Columns
  <2> QED
    BY <1>3, <2>1 DEF InferE2E
<1>4. CASE args.e2e = "auto" /\ graph.head = "classic"
  <2>1. /\ ~graph.numbered \/ (graph.rows > MaxCols /\ graph.rows > MaxRows)
        /\ graph.rows \in {Axis1, Axis2}
    BY <1>1, <1>4, RoutingAssumption, ExportsAssumption DEF TellingShape, Axis1, Axis2
  <2>2. InferE2E <=> graph.numbered /\ Axis2 <= MaxCols /\ Axis1 <= MaxRows
    BY <1>4 DEF InferE2E
  <2>3. ~InferE2E
    BY <1>1, <2>1, <2>2
  <2> QED
    BY <1>1, <1>4, <2>1 DEF InferE2E
<1> QED
  BY <1>1, <1>2, <1>3, <1>4

\* The head of an export is told from its shape, and within what is supported
\* no frame is decoded from the wrong columns, for any number of classes,
\* coefficients and candidates.
THEOREM ColumnsAreOwn == Spec => []ReadsOwnColumns
<1>1. RouteInv /\ spec # NoSpec /\ args.e2e = "auto" /\ TellingShape =>
         (spec.e2e <=> graph.head = "e2e")
  BY HeadIsTold DEF RouteInv
<1>2. RouteInv /\ decoded > 0 /\ Supported => reads = Layout
  <2> SUFFICES ASSUME RouteInv, decoded > 0, Supported PROVE reads = Layout
    OBVIOUS
  <2>1. /\ reads = IF InferE2E THEN E2EReads ELSE ClassicReads
        /\ spec.task = Task
        /\ InferE2E <=> graph.head = "e2e"
    BY HeadIsTold DEF RouteInv, Supported
  <2>2. /\ graph.classes \in Nat /\ graph.coeffs \in Nat
        /\ graph.head \in {"classic", "e2e"}
        /\ args.task \in {"auto", "detect", "segment"}
    BY RoutingAssumption DEF RouteInv, Graph, Arguments
  <2>3. Coeffs = graph.coeffs
    BY <2>1, <2>2 DEF Coeffs, Task, Outputs, Supported
  <2>4. CASE graph.head = "e2e"
    BY <2>1, <2>2, <2>3, <2>4 DEF E2EReads, Layout
  <2>5. CASE graph.head = "classic"
    <3>1. ~graph.columnsLast /\ Axis1 = 4 + graph.classes + graph.coeffs
      BY <2>5 DEF Supported, Axis1, Columns
    <3>2. /\ Axis1 - graph.coeffs = 4 + graph.classes
          /\ Axis1 - graph.coeffs + 1 = 5 + graph.classes
      BY <2>2, <3>1
    <3> QED
      BY <2>1, <2>3, <2>5, <3>1, <3>2 DEF ClassicReads, Layout
  <2> QED
    BY <2>2, <2>4, <2>5
<1>3. RouteInv => ReadsOwnColumns
  BY <1>1, <1>2 DEF ReadsOwnColumns
<1> QED
  BY <1>3, ChoicesFollow, PTL

\* The parts that run are those that were asked for, or the best there are.
THEOREM PartsAreAsAsked == Spec => []PartsAsAsked
<1>1. RouteInv => PartsAsAsked
  <2> SUFFICES ASSUME RouteInv PROVE PartsAsAsked
    OBVIOUS
  <2>1. args.preprocess \in Choice /\ args.postprocess \in Choice
        /\ installed \in Machine
    BY DEF RouteInv, Arguments
  <2>2. ASSUME stage \in Chosen
        PROVE  /\ parts.pre = Pick(args.preprocess, {"torch"})
               /\ parts.pre \in {"torch", "numpy"}
               /\ parts.post = IF InferE2E THEN "e2e"
                               ELSE Pick(args.postprocess, {"torch", "ultralytics"})
               /\ parts.post \in {"torch", "numpy", "e2e"}
               /\ parts.mask = BestMaskDevice /\ spec.e2e = InferE2E
    BY <2>2 DEF RouteInv
  <2>3. ASSUME stage \in Chosen
        PROVE  /\ args.preprocess \in {"torch", "numpy"} => parts.pre = args.preprocess
               /\ args.postprocess \in {"torch", "numpy"} /\ ~spec.e2e =>
                     parts.post = args.postprocess
               /\ parts.pre = "torch" => "torch" \in installed
               /\ parts.post = "torch" => {"torch", "ultralytics"} \subseteq installed
    BY <2>1, <2>2, <2>3, PickPath
  <2>4. ASSUME stage \in Chosen
        PROVE  /\ parts.mask = "numpy" <=> installed = {}
               /\ parts.mask = "cuda" => Provider = "cuda" /\ "cuda" \in installed
    <3>1. "torch" \notin installed <=> installed = {}
      BY <2>1 DEF Machine
    <3> QED
      BY <2>2, <2>4, <3>1 DEF BestMaskDevice
  <2> QED
    BY <2>3, <2>4 DEF PartsAsAsked, RouteInv, Chosen
<1> QED
  BY <1>1, ChoicesFollow, PTL

=============================================================================
