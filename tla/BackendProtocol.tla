--------------------------- MODULE BackendProtocol ---------------------------
(***************************************************************************)
(* What ValidationPipeline may rely on when it calls backend.run (the      *)
(* Backend protocol of yolo_validator/backends/__init__.py): it hands in   *)
(* one frame and gets the outputs computed from THAT frame, all of them,   *)
(* or an exception that ends the run.  A runtime whose library may refuse  *)
(* to execute without raising answers such a call with the outputs of the  *)
(* last frame it did compute, or of none (0).                              *)
(***************************************************************************)
EXTENDS Integers, Sequences

CONSTANTS
    Calls,       \* frames the pipeline hands in, at most
    MayRefuse    \* may the library refuse an execution without raising

VARIABLES
    frame,       \* the frame handed in and not answered, 0 if none
    answers,     \* the frame each answer was computed from, in order
    broken       \* has run raised

vars == <<frame, answers, broken>>

LastComputed == IF answers = <<>> THEN 0 ELSE answers[Len(answers)]

Init ==
    /\ frame = 0
    /\ answers = <<>>
    /\ broken = FALSE

Ask ==
    /\ ~broken
    /\ frame = 0
    /\ Len(answers) < Calls
    /\ frame' = Len(answers) + 1
    /\ UNCHANGED <<answers, broken>>

Answer ==
    /\ ~broken
    /\ frame # 0
    /\ answers' = Append(answers, frame)
    /\ frame' = 0
    /\ UNCHANGED broken

AnswerRefused ==
    /\ MayRefuse
    /\ ~broken
    /\ frame # 0
    /\ answers' = Append(answers, LastComputed)
    /\ frame' = 0
    /\ UNCHANGED broken

Raise ==
    /\ ~broken
    /\ frame # 0
    /\ broken' = TRUE
    /\ UNCHANGED <<frame, answers>>

Reply == Answer \/ AnswerRefused \/ Raise

Next == Ask \/ Reply

Spec == Init /\ [][Next]_vars /\ WF_vars(Reply)

=============================================================================
