--------------------------- MODULE CoverageScheme ---------------------------
(***************************************************************************)
(* What a chunked evaluation promises (`orchestrate` in                    *)
(* benchmarks/ara2_infer.py), without processes, files, retries or splits: *)
(* the images are settled from the first to the last, the results of all   *)
(* of them are published at once and in order, or the run is given up      *)
(* before anything is published.                                           *)
(***************************************************************************)
EXTENDS Integers, Sequences

CONSTANT N     \* the number of images

VARIABLES
    settled,   \* images 0 .. settled - 1 have their final predictions
    outcome,   \* "running", "published" or "aborted"
    result     \* the published images, in order

schemeVars == <<settled, outcome, result>>

Init ==
    /\ settled = 0
    /\ outcome = "running"
    /\ result = <<>>

Settle ==
    /\ outcome = "running"
    /\ \E k \in (settled + 1) .. N : settled' = k
    /\ UNCHANGED <<outcome, result>>

Publish ==
    /\ outcome = "running"
    /\ settled = N
    /\ outcome' = "published"
    /\ result' = [k \in 1 .. N |-> k - 1]
    /\ UNCHANGED settled

GiveUp ==
    /\ outcome = "running"
    /\ settled < N
    /\ outcome' = "aborted"
    /\ UNCHANGED <<settled, result>>

Next == Settle \/ Publish \/ GiveUp

Spec == Init /\ [][Next]_schemeVars /\ WF_schemeVars(Next)

=============================================================================
