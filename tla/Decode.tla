-------------------------------- MODULE Decode --------------------------------
(***************************************************************************)
(* From the model's scores to the detections of one image.  Four ways      *)
(* through the same outputs:                                               *)
(*   "greedy"  the device lanes: threshold, keep the top_k best, greedy    *)
(*             suppression within a class, first max_det;                  *)
(*   "cv2"     yolo_validator/postprocess.py: threshold, keep the max_nms  *)
(*             best, suppression by OpenCV with top_k = max_det;           *)
(*   "torch"   yolo_validator/postprocess_torch.py: Ultralytics'           *)
(*             non_max_suppression, which thresholds, keeps its max_nms    *)
(*             best, suppresses greedily and cuts at max_det;              *)
(*   "e2e"     yolo_validator/postprocess_e2e.py: threshold, sort, first   *)
(*             max_det; the model has suppressed already.                  *)
(*                                                                         *)
(* A candidate is an anchor and a class.  A score is 0 when it does not    *)
(* pass the confidence threshold; scores are otherwise ranked by number,   *)
(* and the order of equal scores is not determined (argsort and            *)
(* argpartition are not stable).  Boxes matter by which anchors overlap by *)
(* more than the IoU threshold; the class offset of nms_class_aware keeps  *)
(* boxes of different classes apart.                                       *)
(***************************************************************************)
EXTENDS Integers, Sequences, FiniteSets, Functions

CONSTANTS
    Anchors,    \* positions of the output grid, or rows of the e2e output
    Classes,
    MaxScore,   \* the scores are 0 .. MaxScore
    TopK,       \* top_k of the device lanes
    MaxNms,     \* max_nms of NumpyPostprocessor and of non_max_suppression
    MaxDet      \* max_det

ASSUME DecodeAssumption ==
    /\ IsFiniteSet(Anchors) /\ IsFiniteSet(Classes)
    /\ {MaxScore, TopK, MaxNms, MaxDet} \subseteq Nat \ {0}

Candidate == Anchors \X Classes
Paths == {"greedy", "cv2", "torch", "e2e"}
Pairs == {{a, b} : a, b \in Anchors}

VARIABLES
    path,       \* which of the four
    score,      \* per candidate
    near,       \* the pairs of anchors whose boxes overlap too much
    phase,      \* "threshold", "cap", "prune", "suppress" or "done"
    order,      \* the candidates not yet kept or dropped
    keep        \* the kept candidates, in order

vars == <<path, score, near, phase, order, keep>>
inputs == <<path, score, near>>

Passing == {p \in Candidate : score[p] > 0}

\* A row of the e2e output has one class.
OneClassRows ==
    \A p, q \in Passing : p[1] = q[1] => p = q

Init ==
    /\ path \in Paths
    /\ score \in [Candidate -> 0 .. MaxScore]
    /\ near \in SUBSET {e \in Pairs : Cardinality(e) = 2}
    /\ path = "e2e" => OneClassRows
    /\ phase = "threshold"
    /\ order = {}
    /\ keep = <<>>

-----------------------------------------------------------------------------
(* Operators.                                                              *)

\* _iou above the threshold, after the class offset.
Suppresses(p, q) == p[2] = q[2] /\ {p[1], q[1]} \in near

\* Mutant: argpartition taken from the wrong end.
WorstOf(S, n) ==
    {T \in SUBSET S :
        /\ Cardinality(T) = n
        /\ \A p \in T : \A q \in S \ T : score[p] <= score[q]}

\* argpartition(sc, -n)[-n:]: n candidates that nothing else outscores.
BestOf(S, n) ==
    {T \in SUBSET S :
        /\ Cardinality(T) = n
        /\ \A p \in T : \A q \in S \ T : score[p] >= score[q]}

CapOf(way) == IF way = "greedy" THEN TopK ELSE MaxNms

-----------------------------------------------------------------------------
(* The steps.                                                              *)

\* The candidates above the threshold; with none of them, the empty result.
Threshold ==
    /\ phase = "threshold"
    /\ order' = Passing
    /\ phase' = IF Passing = {} THEN "done"
                ELSE IF path = "e2e" THEN "suppress"
                ELSE "cap"
    /\ UNCHANGED <<inputs, keep>>

AfterCap == IF path = "cv2" THEN "prune" ELSE "suppress"

Cap ==
    /\ phase = "cap"
    /\ Cardinality(order) > CapOf(path)
    /\ order' \in BestOf(order, CapOf(path))
    /\ phase' = AfterCap
    /\ UNCHANGED <<inputs, keep>>

NoCap ==
    /\ phase = "cap"
    /\ Cardinality(order) <= CapOf(path)
    /\ phase' = AfterCap
    /\ UNCHANGED <<inputs, order, keep>>

\* OpenCV sorts the candidates and keeps the best top_k of them BEFORE the
\* suppression loop (GetMaxScoreIndex of NMSFast_).
Prune ==
    /\ phase = "prune"
    /\ IF Cardinality(order) > MaxDet
       THEN order' \in BestOf(order, MaxDet)
       ELSE order' = order
    /\ phase' = "suppress"
    /\ UNCHANGED <<inputs, keep>>

\* One round of the greedy loop: a best candidate is kept and those of its
\* class that it overlaps are dropped.  Without suppression the rounds are
\* the sort.
KeepBest ==
    /\ phase = "suppress"
    /\ \E p \in order :
          /\ \A q \in order : score[p] >= score[q]
          /\ keep' = Append(keep, p)
          /\ order' = {q \in order \ {p} : path = "e2e" \/ ~Suppresses(p, q)}
    /\ UNCHANGED <<inputs, phase>>

\* Mutant: the end of the list instead of its beginning.
TruncateFront ==
    /\ phase = "suppress"
    /\ order = {}
    /\ keep' = SubSeq(keep, IF Len(keep) < MaxDet THEN 1 ELSE Len(keep) - MaxDet + 1,
                      Len(keep))
    /\ phase' = "done"
    /\ UNCHANGED <<inputs, order>>

\* [:max_det]
Truncate ==
    /\ phase = "suppress"
    /\ order = {}
    /\ keep' = SubSeq(keep, 1, IF Len(keep) < MaxDet THEN Len(keep) ELSE MaxDet)
    /\ phase' = "done"
    /\ UNCHANGED <<inputs, order>>

Finished ==
    /\ phase = "done"
    /\ UNCHANGED vars

Next ==
    \/ Threshold
    \/ Cap
    \/ NoCap
    \/ Prune
    \/ KeepBest
    \/ Truncate
    \/ Finished

Spec == Init /\ [][Next]_vars

-----------------------------------------------------------------------------
(* Properties.                                                             *)

\* The candidates taken, kept and left are cells of the image's own grid.
TypeOK ==
    /\ path \in Paths
    /\ score \in [Candidate -> 0 .. MaxScore]
    /\ near \subseteq Pairs
    /\ phase \in {"threshold", "cap", "prune", "suppress", "done"}
    /\ order \subseteq Candidate
    /\ keep \in Seq(Candidate)

Kept == Range(keep)

\* p is lost to a kept candidate that is at least as good.
Beaten(p) ==
    \E q \in Kept : Suppresses(q, p) /\ score[q] >= score[p]

\* p is at the end of the ranking: no kept candidate scores less.
InTail(p) == \A q \in Kept : score[q] >= score[p]

\* How many candidates go into the suppression, at most.
Budget == CASE path = "greedy" -> TopK
            [] path = "torch" -> MaxNms
            [] path = "cv2" -> IF MaxNms < MaxDet THEN MaxNms ELSE MaxDet
            [] path = "e2e" -> Cardinality(Passing)

\* The result, equal scores included: best first, no two of a class that
\* overlap, and a candidate is missing only because a kept one at least as
\* good overlaps it, or because a limit cut off the end of the ranking.
KeptByDefinition ==
    phase = "done" =>
        /\ Len(keep) <= MaxDet
        /\ \A i, j \in 1 .. Len(keep) :
              i < j => /\ keep[i] # keep[j]
                       /\ score[keep[i]] >= score[keep[j]]
                       /\ path # "e2e" => ~Suppresses(keep[i], keep[j])
        /\ \A p \in Passing \ Kept :
              \/ path # "e2e" /\ Beaten(p)
              \/ InTail(p) /\ (Len(keep) = MaxDet \/ Cardinality(Passing) > Budget)

\* The loop in progress: the kept candidates are sorted and do not overlap,
\* those left to do score no more and overlap no kept one, and what is
\* neither was beaten or lies beyond a limit.
LoopInvariant ==
    phase # "done" =>
        /\ phase # "suppress" => keep = <<>>
        /\ phase = "cap" => order = Passing
        /\ phase \in {"cap", "prune"} => path # "e2e"
        /\ phase = "prune" => path = "cv2"
        /\ order \subseteq Passing \ Kept
        /\ \A i, j \in 1 .. Len(keep) :
              i < j => /\ keep[i] # keep[j]
                       /\ score[keep[i]] >= score[keep[j]]
                       /\ path # "e2e" => ~Suppresses(keep[i], keep[j])
        /\ \A q \in Kept, p \in order :
              /\ score[q] >= score[p]
              /\ path # "e2e" => ~Suppresses(q, p)
        /\ phase # "threshold" =>
              \A p \in Passing \ (Kept \union order) :
                  \/ path # "e2e" /\ Beaten(p)
                  \/ /\ \A q \in Kept \union order : score[q] >= score[p]
                     /\ Cardinality(Passing) > Budget

\* The inductive invariant: types, what each candidate was lost to so far, and
\* the definition of the result.
DecodeInv == TypeOK /\ LoopInvariant /\ KeptByDefinition

\* Greedy suppression by definition, for scores without ties: a candidate
\* stays unless a better one that stays overlaps it.
GreedyKept(S) ==
    CHOOSE K \in SUBSET S :
        \A p \in S :
            p \in K <=> ~\E q \in K : Suppresses(q, p) /\ score[q] > score[p]

NoTies == \A p, q \in Passing : score[p] = score[q] => p = q

\* A limit on the candidates, set for speed, only ever cuts the end of the
\* list: what is kept is the best of what suppression of ALL candidates
\* keeps, down to some score and without a gap.
LimitsCutTheTail ==
    phase = "done" /\ path # "e2e" /\ NoTies =>
        /\ Kept \subseteq GreedyKept(Passing)
        /\ \A p \in Kept, q \in GreedyKept(Passing) :
              score[q] > score[p] => q \in Kept

\* The faithful greedy path of nms.py: nms_class_aware and then [:max_det].
BestGreedy(S) ==
    {p \in GreedyKept(S) :
        Cardinality({q \in GreedyKept(S) : score[q] > score[p]}) < MaxDet}

\* The suppression by OpenCV keeps what the greedy reference keeps
\* ("identical kept set").
IdenticalKeptSet ==
    phase = "done" /\ path = "cv2" /\ NoTies /\ Cardinality(Passing) <= MaxNms =>
        Kept = BestGreedy(Passing)

=============================================================================
