----------------------------- MODULE BackendRun -----------------------------
(***************************************************************************)
(* cli.main from the model file to the decoded frames: the choices of      *)
(* ModelRouting, then one frame after the other through the backend, which *)
(* on "tensorrt" is the stream of TensorRT and on "onnx" a call that       *)
(* returns.  A frame is decoded and its records are made before the next   *)
(* one is handed in.                                                       *)
(***************************************************************************)
EXTENDS ModelRouting, TensorRT

vars == <<routeVars, trtVars>>

Init ==
    /\ RouteInit
    /\ TrtInit
    /\ nOut = Outputs

\* infer_one waits for the backend.
InBackend ==
    /\ stage = "ready"
    /\ args.runtime = "tensorrt"
    /\ Len(answers) = decoded
    /\ UNCHANGED routeVars

\* The answer that is decoded; ONNX Runtime gives it at once.
Answered == args.runtime = "tensorrt" => Len(answers) > decoded

HandIn == InBackend /\ call < Frames /\ Run
BackendHost == InBackend /\ HostStep
BackendDevice == InBackend /\ Device
BackendFails == InBackend /\ DeviceFails

DecodeAnswer == Answered /\ DecodeFrame /\ UNCHANGED trtVars

Prepare == Build /\ UNCHANGED trtVars

Records == Serialize /\ UNCHANGED trtVars

\* All frames are through, or something was raised.
Finished ==
    /\ \/ stage = "raised" \/ host = "raised"
       \/ stage = "ready" /\ decoded = Frames
    /\ UNCHANGED vars

Next ==
    \/ Prepare \/ HandIn \/ BackendHost \/ BackendDevice \/ BackendFails
    \/ DecodeAnswer \/ Records \/ Finished

Fairness == WF_vars(BackendHost) /\ WF_vars(BackendDevice)

Spec == Init /\ [][Next]_vars /\ Fairness

=============================================================================
