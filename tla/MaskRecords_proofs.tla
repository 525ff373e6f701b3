-------------------------- MODULE MaskRecords_proofs --------------------------
(***************************************************************************)
(* Proofs about the decoding of one image, for every output grid, all      *)
(* scores and overlaps, and all limits; about the letterbox, for every     *)
(* size of input and image; and about the records of one image, for every  *)
(* geometry.  The decoding's invariant is carried over to the composition. *)
(***************************************************************************)
EXTENDS MaskRecords, FiniteSetTheorems, SequenceTheorems, WellFoundedInduction,
        TLAPS

USE DecodeAssumption

-----------------------------------------------------------------------------
(* The letterbox.                                                          *)

\* The borders fill the input exactly, whatever the parity of the pad.
THEOREM LetterboxFills ==
    ASSUME NEW input \in Int, NEW size \in Int
    PROVE  Fills(input, size)
<1> DEFINE n == input - size
<1>1. (5 * n - 1 + 5) \div 10 + (5 * n + 1 + 5) \div 10 = n
  <2>1. PICK m \in Int : n = 2 * m \/ n = 2 * m + 1
    <3>1. n = 2 * (n \div 2) \/ n = 2 * (n \div 2) + 1
      OBVIOUS
    <3> QED
      BY <3>1
  <2>2. CASE n = 2 * m
    <3>1. (10 * m + 4) \div 10 = m /\ (10 * m + 6) \div 10 = m
      OBVIOUS
    <3> QED
      BY <2>2, <3>1
  <2>3. CASE n = 2 * m + 1
    <3>1. (10 * m + 9) \div 10 = m /\ (10 * m + 11) \div 10 = m + 1
      OBVIOUS
    <3> QED
      BY <2>3, <3>1
  <2> QED
    BY <2>1, <2>2, <2>3
<1> QED
  BY <1>1 DEF Fills, Before, After, RoundTenths, PadTenths

\* Boxes are shifted back by exactly the border that was added.
THEOREM LetterboxShiftsBack ==
    ASSUME NEW input \in Int, NEW size \in Int
    PROVE  ShiftsBack(input, size)
<1>1. ASSUME NEW p \in Int PROVE (10 * p - 1 + 5) \div 10 = p
  OBVIOUS
<1>2. LanePad(input, size) \in Int
  BY DEF LanePad
<1> QED
  BY <1>1, <1>2 DEF ShiftsBack, PadInt, Before, RoundTenths

\* A mask cut out of the padded input is the image, all of it and no border.
THEOREM MaskKeepsImage ==
    ASSUME NEW input \in Int, NEW size \in Int
    PROVE  MaskIsImage(input, size)
<1>1. Before(input, size) \in Int /\ After(input, size) \in Int
  BY DEF Before, After, RoundTenths, PadTenths
<1> QED
  BY <1>1, LetterboxFills DEF Fills, MaskIsImage, MaskLeft, MaskRight, Before, After

-----------------------------------------------------------------------------
(* The decoding.                                                           *)

\* The sets whose sizes the limits are compared with are finite.
LEMMA PassingFinite ==
    /\ IsFiniteSet(Passing)
    /\ \A S \in SUBSET Passing : Cardinality(S) \in Nat
<1>1. IsFiniteSet(Candidate)
  BY FS_Product DEF Candidate
<1>2. IsFiniteSet(Passing)
  BY <1>1, FS_Subset DEF Passing
<1> QED
  BY <1>2, FS_Subset, FS_CardinalityType

\* The kept candidates after one more, and after a cut at n.
LEMMA KeptAfter ==
    ASSUME keep \in Seq(Candidate)
    PROVE  /\ Kept = {keep[i] : i \in 1 .. Len(keep)}
           /\ \A p \in Candidate :
                 /\ Append(keep, p) \in Seq(Candidate)
                 /\ Range(Append(keep, p)) = Kept \union {p}
                 /\ Len(Append(keep, p)) = Len(keep) + 1
                 /\ \A i \in 1 .. Len(keep) : Append(keep, p)[i] = keep[i]
                 /\ Append(keep, p)[Len(keep) + 1] = p
  BY DEF Kept, Range

\* No output has been looked at yet.
LEMMA InitDecodeInv == Init => DecodeInv
<1> SUFFICES ASSUME Init PROVE DecodeInv
  OBVIOUS
<1>1. TypeOK
  BY DEF Init, TypeOK, Paths, Pairs
<1>2. Kept = {}
  BY DEF Init, Kept, Range
<1>3. LoopInvariant /\ KeptByDefinition
  BY <1>2 DEF Init, LoopInvariant, KeptByDefinition
<1> QED
  BY <1>1, <1>3 DEF DecodeInv

\* Thresholding and the limits on the candidates keep the invariant.
LEMMA LimitStep ==
    ASSUME DecodeInv, Threshold \/ Cap \/ NoCap \/ Prune
    PROVE  DecodeInv'
<1>1. /\ TypeOK /\ LoopInvariant
      /\ phase \in {"threshold", "cap", "prune"}
      /\ UNCHANGED <<path, score, near, keep>>
      /\ keep = <<>> /\ Kept = {} /\ Kept' = {}
      /\ Passing' = Passing /\ Passing \subseteq Candidate
      /\ Budget' = Budget
  <2>1. TypeOK /\ LoopInvariant
    BY DEF DecodeInv
  <2>2. /\ phase \in {"threshold", "cap", "prune"}
        /\ path' = path /\ score' = score /\ near' = near /\ keep' = keep
    BY DEF Threshold, Cap, NoCap, Prune, inputs
  <2>3. keep = <<>>
    BY <2>1, <2>2 DEF LoopInvariant
  <2>4. Kept = {} /\ Kept' = {}
    BY <2>2, <2>3 DEF Kept, Range
  <2>5. Passing' = Passing /\ Passing \subseteq Candidate
    BY <2>2 DEF Passing
  <2>6. Budget' = Budget
    BY <2>2, <2>5 DEF Budget
  <2> QED
    BY <2>1, <2>2, <2>3, <2>4, <2>5, <2>6
<1>2. CASE Threshold
  <2>1. /\ order' = Passing
        /\ phase' \in {"done", "suppress", "cap"}
        /\ phase' = "cap" => path # "e2e"
        /\ phase' = "done" => Passing = {}
    BY <1>2 DEF Threshold
  <2>2. TypeOK'
    BY <1>1, <2>1 DEF TypeOK
  <2>3. LoopInvariant'
    BY <1>1, <2>1 DEF LoopInvariant
  <2>4. KeptByDefinition'
    BY <1>1, <2>1 DEF KeptByDefinition
  <2> QED
    BY <2>2, <2>3, <2>4 DEF DecodeInv
<1>3. CASE Cap
  <2>1. /\ order = Passing /\ path # "e2e"
        /\ Cardinality(Passing) > CapOf(path)
        /\ order' \subseteq Passing
        /\ \A p \in order', q \in Passing \ order' : score[p] >= score[q]
        /\ phase' \in {"prune", "suppress"}
        /\ phase' = "prune" => path = "cv2"
    BY <1>1, <1>3 DEF LoopInvariant, Cap, BestOf, AfterCap
  <2>2. Cardinality(Passing) > Budget
    <3>1. Cardinality(Passing) \in Nat /\ CapOf(path) \in Nat
      BY PassingFinite DEF CapOf
    <3>2. Budget \in Nat /\ Budget <= CapOf(path)
      BY <1>1, <2>1 DEF Budget, CapOf, TypeOK, Paths
    <3> QED
      BY <2>1, <3>1, <3>2
  <2>3. TypeOK'
    BY <1>1, <2>1 DEF TypeOK
  <2>4. LoopInvariant'
    BY <1>1, <2>1, <2>2 DEF LoopInvariant
  <2>5. KeptByDefinition'
    BY <1>1, <2>1 DEF KeptByDefinition
  <2> QED
    BY <2>3, <2>4, <2>5 DEF DecodeInv
<1>4. CASE NoCap
  <2>1. /\ order' = order /\ phase = "cap"
        /\ phase' \in {"prune", "suppress"}
        /\ phase' = "prune" => path = "cv2"
    BY <1>4 DEF NoCap, AfterCap
  <2>3. TypeOK'
    BY <1>1, <2>1 DEF TypeOK
  <2>4. LoopInvariant'
    BY <1>1, <2>1 DEF LoopInvariant
  <2>5. KeptByDefinition'
    BY <1>1, <2>1 DEF KeptByDefinition
  <2> QED
    BY <2>3, <2>4, <2>5 DEF DecodeInv
<1>5. CASE Prune
  <2>1. /\ phase = "prune" /\ phase' = "suppress" /\ path = "cv2"
        /\ order \subseteq Passing /\ order' \subseteq order
        /\ \A p \in order', q \in order \ order' : score[p] >= score[q]
        /\ order' # order => Cardinality(order) > MaxDet
    BY <1>1, <1>5 DEF LoopInvariant, Prune, BestOf
  <2>2. order' # order => Cardinality(Passing) > Budget
    <3>1. /\ Cardinality(order) \in Nat /\ Cardinality(Passing) \in Nat
          /\ Cardinality(order) <= Cardinality(Passing)
      BY <2>1, PassingFinite, FS_Subset
    <3>2. Budget \in Nat /\ Budget <= MaxDet
      BY <2>1 DEF Budget
    <3> QED
      BY <2>1, <3>1, <3>2
  <2>3. TypeOK'
    BY <1>1, <2>1 DEF TypeOK
  <2>4. \A p \in Passing \ order' :
           /\ \A q \in order' : score[q] >= score[p]
           /\ Cardinality(Passing) > Budget
    <3> SUFFICES ASSUME NEW p \in Passing \ order'
                 PROVE  /\ \A q \in order' : score[q] >= score[p]
                        /\ Cardinality(Passing) > Budget
      OBVIOUS
    <3>1. CASE p \in order
      BY <2>1, <2>2, <3>1
    <3>2. CASE p \notin order
      BY <1>1, <2>1, <3>2 DEF LoopInvariant, Beaten
    <3> QED
      BY <3>1, <3>2
  <2>5. LoopInvariant'
    BY <1>1, <2>1, <2>4 DEF LoopInvariant
  <2>6. KeptByDefinition'
    BY <1>1, <2>1 DEF KeptByDefinition
  <2> QED
    BY <2>3, <2>5, <2>6 DEF DecodeInv
<1> QED
  BY <1>2, <1>3, <1>4, <1>5

\* One round of the greedy loop keeps the invariant.
LEMMA RoundStep ==
    ASSUME DecodeInv, KeepBest
    PROVE  DecodeInv'
<1>1. PICK p \in order :
         /\ \A q \in order : score[p] >= score[q]
         /\ keep' = Append(keep, p)
         /\ order' = {q \in order \ {p} : path = "e2e" \/ ~Suppresses(p, q)}
  BY DEF KeepBest
<1>2. /\ phase = "suppress" /\ UNCHANGED <<path, score, near, phase>>
      /\ Passing' = Passing /\ Budget' = Budget
      /\ Passing \subseteq Candidate
      /\ TypeOK /\ LoopInvariant
      /\ p \in Passing \ Kept /\ p \in Candidate
      /\ order \subseteq Passing \ Kept
      /\ score \in [Candidate -> 0 .. MaxScore]
  BY <1>1 DEF KeepBest, inputs, Passing, Budget, DecodeInv, LoopInvariant, TypeOK
<1>3. /\ keep' \in Seq(Candidate)
      /\ Kept' = Kept \union {p}
      /\ Kept = {keep[i] : i \in 1 .. Len(keep)}
      /\ Len(keep) \in Nat
      /\ Len(keep') = Len(keep) + 1
      /\ \A i \in 1 .. Len(keep) : keep'[i] = keep[i]
      /\ keep'[Len(keep) + 1] = p
  BY <1>1, <1>2, KeptAfter DEF TypeOK, Kept
<1>4. TypeOK'
  BY <1>1, <1>2, <1>3 DEF TypeOK
<1>5. order' \subseteq Passing' \ Kept'
  BY <1>1, <1>2, <1>3
<1>6. ASSUME NEW i \in 1 .. Len(keep'), NEW j \in 1 .. Len(keep'), i < j
      PROVE  /\ keep'[i] # keep'[j]
             /\ score[keep'[i]] >= score[keep'[j]]
             /\ path # "e2e" => ~Suppresses(keep'[i], keep'[j])
  <2>1. CASE j \in 1 .. Len(keep)
    <3>1. i \in 1 .. Len(keep) /\ keep'[i] = keep[i] /\ keep'[j] = keep[j]
      BY <1>3, <1>6, <2>1
    <3>2. /\ keep[i] # keep[j]
          /\ score[keep[i]] >= score[keep[j]]
          /\ path # "e2e" => ~Suppresses(keep[i], keep[j])
      BY <1>2, <1>6, <2>1, <3>1 DEF LoopInvariant
    <3> QED
      BY <3>1, <3>2
  <2>2. CASE j = Len(keep) + 1
    <3>1. i \in 1 .. Len(keep) /\ keep'[i] \in Kept /\ keep'[j] = p
      BY <1>3, <1>6, <2>2
    <3> QED
      BY <1>1, <1>2, <3>1 DEF LoopInvariant
  <2> QED
    BY <1>3, <2>1, <2>2
<1>7. ASSUME NEW q \in Kept', NEW r \in order'
      PROVE  /\ score[q] >= score[r]
             /\ path # "e2e" => ~Suppresses(q, r)
  BY <1>1, <1>2, <1>3, <1>7 DEF LoopInvariant
<1>8. ASSUME NEW r \in Passing \ (Kept' \union order')
      PROVE  \/ path # "e2e" /\ \E q \in Kept' : Suppresses(q, r) /\ score[q] >= score[r]
             \/ /\ \A q \in Kept' \union order' : score[q] >= score[r]
                /\ Cardinality(Passing) > Budget
  <2>1. CASE r \in order
    <3>1. r # p
      BY <1>3, <1>8
    <3> QED
      BY <1>1, <1>3, <1>8, <2>1, <3>1
  <2>2. CASE r \notin order
    <3>1. \/ path # "e2e" /\ Beaten(r)
          \/ /\ \A q \in Kept \union order : score[q] >= score[r]
             /\ Cardinality(Passing) > Budget
      BY <1>2, <1>3, <1>8, <2>2 DEF LoopInvariant
    <3>2. Kept' \union order' \subseteq Kept \union order
      BY <1>1, <1>3
    <3> QED
      BY <1>3, <3>1, <3>2 DEF Beaten
  <2> QED
    BY <2>1, <2>2
<1>9. \A q, r : Suppresses(q, r)' <=> Suppresses(q, r)
  BY <1>2 DEF Suppresses
<1>10. LoopInvariant'
  BY <1>2, <1>5, <1>6, <1>7, <1>8, <1>9 DEF LoopInvariant, Beaten
<1>11. KeptByDefinition'
  BY <1>2 DEF KeptByDefinition
<1> QED
  BY <1>4, <1>10, <1>11 DEF DecodeInv

\* The cut at max_det establishes what the result promises.
LEMMA TruncateStep ==
    ASSUME DecodeInv, Truncate
    PROVE  DecodeInv'
<1> DEFINE n == IF Len(keep) < MaxDet THEN Len(keep) ELSE MaxDet
<1>1. /\ phase = "suppress" /\ phase' = "done" /\ order = {} /\ order' = {}
      /\ UNCHANGED <<path, score, near>>
      /\ keep' = SubSeq(keep, 1, n)
      /\ keep \in Seq(Candidate) /\ Len(keep) \in Nat
      /\ n \in Nat /\ n <= Len(keep) /\ n <= MaxDet
      /\ n < Len(keep) => n = MaxDet
      /\ Passing' = Passing /\ Budget' = Budget /\ Passing \subseteq Candidate
      /\ TypeOK /\ LoopInvariant /\ score \in [Candidate -> 0 .. MaxScore]
  BY DEF Truncate, inputs, Passing, Budget, DecodeInv, TypeOK
<1>2. /\ keep' \in Seq(Candidate) /\ Len(keep') = n
      /\ \A i \in 1 .. n : keep'[i] = keep[i]
  BY <1>1
<1>3. /\ Kept = {keep[i] : i \in 1 .. Len(keep)}
      /\ Kept' = {keep[i] : i \in 1 .. n}
  <2>1. DOMAIN keep' = 1 .. n
    BY <1>2
  <2>2. Kept' = {keep'[i] : i \in 1 .. n}
    BY <2>1 DEF Kept, Range
  <2>3. {keep'[i] : i \in 1 .. n} = {keep[i] : i \in 1 .. n}
    BY <1>2
  <2>4. Kept = {keep[i] : i \in 1 .. Len(keep)}
    BY <1>1, KeptAfter
  <2> QED
    BY <2>2, <2>3, <2>4
<1>4. TypeOK'
  BY <1>1, <1>2 DEF TypeOK
<1>5. LoopInvariant'
  BY <1>1 DEF LoopInvariant
<1>6. ASSUME NEW i \in 1 .. Len(keep'), NEW j \in 1 .. Len(keep'), i < j
      PROVE  /\ keep'[i] # keep'[j]
             /\ score[keep'[i]] >= score[keep'[j]]
             /\ path # "e2e" => ~Suppresses(keep'[i], keep'[j])
  <2>1. i \in 1 .. Len(keep) /\ j \in 1 .. Len(keep) /\ i \in 1 .. n /\ j \in 1 .. n
    BY <1>1, <1>2
  <2> QED
    BY <1>1, <1>2, <1>6, <2>1 DEF LoopInvariant
<1>7. ASSUME NEW r \in Passing \ Kept'
      PROVE  \/ path # "e2e" /\ \E q \in Kept' : Suppresses(q, r) /\ score[q] >= score[r]
             \/ /\ \A q \in Kept' : score[q] >= score[r]
                /\ Len(keep') = MaxDet \/ Cardinality(Passing) > Budget
  <2>1. Kept' \subseteq Kept
    BY <1>1, <1>3
  <2>2. ASSUME NEW j \in 1 .. Len(keep), keep[j] \notin Kept',
               score[keep[j]] >= score[r]
        PROVE  /\ \A q \in Kept' : score[q] >= score[r]
               /\ Len(keep') = MaxDet
    <3>1. j > n /\ n = MaxDet
      BY <1>1, <1>3, <2>2
    <3>2. ASSUME NEW i \in 1 .. n PROVE score[keep[i]] >= score[r]
      <4>1. score[keep[i]] >= score[keep[j]]
        BY <1>1, <3>1, <3>2 DEF LoopInvariant
      <4>2. keep[i] \in Candidate /\ keep[j] \in Candidate /\ r \in Candidate
        BY <1>1, <3>2
      <4> QED
        BY <1>1, <2>2, <4>1, <4>2
    <3> QED
      BY <1>2, <1>3, <3>1, <3>2
  <2>3. CASE r \in Kept
    <3>1. PICK j \in 1 .. Len(keep) : keep[j] = r
      BY <1>3, <2>3
    <3>2. score[r] >= score[r]
      BY <1>1
    <3> QED
      BY <2>2, <1>7, <3>1, <3>2
  <2>4. CASE r \notin Kept /\ path # "e2e" /\ Beaten(r)
    <3>1. PICK q \in Kept : Suppresses(q, r) /\ score[q] >= score[r]
      BY <2>4 DEF Beaten
    <3>2. CASE q \in Kept'
      BY <2>4, <3>1, <3>2
    <3>3. CASE q \notin Kept'
      BY <1>3, <2>2, <3>1, <3>3
    <3> QED
      BY <3>2, <3>3
  <2>5. CASE r \notin Kept /\ ~(path # "e2e" /\ Beaten(r))
    BY <1>1, <2>1, <2>5 DEF LoopInvariant
  <2> QED
    BY <2>3, <2>4, <2>5
<1>8. \A q, r : Suppresses(q, r)' <=> Suppresses(q, r)
  BY <1>1 DEF Suppresses
<1>9. KeptByDefinition'
  BY <1>1, <1>2, <1>6, <1>7, <1>8 DEF KeptByDefinition, Beaten, InTail
<1> QED
  BY <1>4, <1>5, <1>9 DEF DecodeInv

\* Nothing else changes what the invariant speaks of.
LEMMA StutterStep ==
    ASSUME DecodeInv, UNCHANGED vars
    PROVE  DecodeInv'
<1>1. UNCHANGED <<path, score, near, phase, order, keep>>
  BY DEF vars, inputs
<1>2. Passing' = Passing /\ Kept' = Kept
  BY <1>1 DEF Passing, Kept
<1>3. /\ Budget' = Budget
      /\ \A p, q : Suppresses(p, q)' <=> Suppresses(p, q)
  BY <1>1, <1>2 DEF Budget, Suppresses
<1>4. \A p : (Beaten(p)' <=> Beaten(p)) /\ (InTail(p)' <=> InTail(p))
  BY <1>1, <1>2, <1>3 DEF Beaten, InTail
<1>5. TypeOK'
  BY <1>1 DEF DecodeInv, TypeOK
<1>6. LoopInvariant'
  BY <1>1, <1>2, <1>3, <1>4 DEF DecodeInv, LoopInvariant
<1>7. KeptByDefinition'
  BY <1>1, <1>2, <1>3, <1>4 DEF DecodeInv, KeptByDefinition
<1> QED
  BY <1>5, <1>6, <1>7 DEF DecodeInv

\* The invariant of the decoding.
THEOREM DecodeInvariant == Spec => []DecodeInv
<1>1. DecodeInv /\ [Next]_vars => DecodeInv'
  BY StutterStep, LimitStep, RoundStep, TruncateStep DEF Next, Finished
<1> QED
  BY InitDecodeInv, <1>1, PTL DEF Spec

\* The result of decoding, with equal scores resolved in any way: sorted,
\* free of overlaps within a class, and complete up to a kept candidate at
\* least as good or the end of the ranking.
THEOREM ResultByDefinition == Spec => []KeptByDefinition
<1>1. DecodeInv => KeptByDefinition
  BY DEF DecodeInv
<1> QED
  BY <1>1, DecodeInvariant, PTL

-----------------------------------------------------------------------------
(* The limits and the suppression of all candidates.                       *)

\* A set of natural numbers that is not empty has a least element.
LEMMA LeastNatural ==
    ASSUME NEW S \in SUBSET Nat, S # {}
    PROVE  \E n \in S : \A m \in S : n <= m
<1> DEFINE R == {ss \in Nat \X Nat : ss[1] < ss[2]}
<1>1. IsWellFoundedOn(R, Nat)
  BY NatLessThanWellFounded DEF OpToRel
<1>2. \A x, y \in Nat : y < x => <<y, x>> \in R
  OBVIOUS
<1> HIDE DEF R
<1>3. PICK x \in S : \A y \in S : ~(<<y, x>> \in R)
  BY <1>1, WFMin
<1>4. ASSUME NEW y \in S PROVE x <= y
  <2>1. x \in Nat /\ y \in Nat /\ ~(y < x)
    BY <1>2, <1>3
  <2> QED BY <2>1
<1> QED BY <1>3, <1>4

\* K is what greedy suppression keeps of S.
IsGreedy(K, S) ==
    \A p \in S : p \in K <=> ~\E q \in K : Suppresses(q, p) /\ score[q] > score[p]

\* Whatever the scores and overlaps, there is such a set: going down the scores,
\* the better ones have been decided.
LEMMA GreedyExists ==
    ASSUME TypeOK, NEW S \in SUBSET Candidate
    PROVE  \E K \in SUBSET S : IsGreedy(K, S)
<1> DEFINE Top(n) == {p \in S : score[p] + n > MaxScore}
           Good(n) == \E K \in SUBSET Top(n) : IsGreedy(K, Top(n))
           Bad == {n \in Nat : ~Good(n)}
<1>0. \A p \in S : score[p] \in Nat /\ score[p] <= MaxScore
  BY DEF TypeOK
<1>1. Top(0) = {} /\ Top(MaxScore + 1) = S
  BY <1>0
<1>2. Good(0)
  BY <1>1 DEF IsGreedy
<1>3. ASSUME NEW n \in Nat, Good(n) PROVE Good(n + 1)
  <2>1. PICK K \in SUBSET Top(n) : IsGreedy(K, Top(n))
    BY <1>3
  <2> DEFINE New == {p \in Top(n + 1) \ Top(n) :
                       ~\E q \in K : Suppresses(q, p) /\ score[q] > score[p]}
             L == K \union New
  <2>2. /\ Top(n) \subseteq Top(n + 1)
        /\ \A p \in Top(n + 1) \ Top(n) : p \in S /\ score[p] = MaxScore - n
        /\ \A p \in Top(n) : p \in S /\ score[p] > MaxScore - n
    BY <1>0
  <2>3. ASSUME NEW p \in Top(n + 1)
        PROVE  p \in L <=> ~\E q \in L : Suppresses(q, p) /\ score[q] > score[p]
    <3>1. ASSUME NEW q \in New, score[q] > score[p] PROVE FALSE
      BY <1>0, <2>2, <3>1
    <3>2. (\E q \in L : Suppresses(q, p) /\ score[q] > score[p])
          <=> (\E q \in K : Suppresses(q, p) /\ score[q] > score[p])
      BY <3>1
    <3>3. CASE p \in Top(n)
      BY <2>1, <3>2, <3>3 DEF IsGreedy
    <3>4. CASE p \notin Top(n)
      BY <2>1, <3>2, <3>4
    <3> QED BY <3>3, <3>4
  <2>4. L \in SUBSET Top(n + 1)
    BY <2>2
  <2> HIDE DEF L, Top
  <2> QED BY <2>3, <2>4 DEF IsGreedy
<1> HIDE DEF Good
<1>4. Bad = {}
  <2>1. SUFFICES ASSUME Bad # {} PROVE FALSE
    OBVIOUS
  <2>2. PICK n \in Bad : \A m \in Bad : n <= m
    BY <2>1, LeastNatural
  <2>3. n \in Nat /\ n # 0 /\ n - 1 \in Nat /\ (n - 1) + 1 = n
    BY <1>2, <2>2
  <2>4. Good(n - 1)
    BY <2>2, <2>3
  <2> QED BY <1>3, <2>2, <2>3, <2>4
<1>5. MaxScore + 1 \in Nat
  OBVIOUS
<1>6. Good(MaxScore + 1)
  BY <1>4, <1>5
<1> HIDE DEF Top
<1> QED BY <1>1, <1>6 DEF Good

\* GreedyKept is the greedy choice it is defined to be.
LEMMA GreedyKeptIs ==
    ASSUME TypeOK, NEW S \in SUBSET Candidate
    PROVE  GreedyKept(S) \in SUBSET S /\ IsGreedy(GreedyKept(S), S)
BY GreedyExists DEF GreedyKept, IsGreedy

\* Only what passes the threshold is kept.
KeptPass == Kept \subseteq Passing

\* The cut at max_det adds nothing.
LEMMA TruncatedKept ==
    ASSUME keep \in Seq(Candidate), Truncate
    PROVE  Kept' \subseteq Kept
<1> DEFINE n == IF Len(keep) < MaxDet THEN Len(keep) ELSE MaxDet
<1>1. /\ keep' = SubSeq(keep, 1, n)
      /\ Len(keep) \in Nat /\ n \in Nat /\ n <= Len(keep)
  BY DEF Truncate
<1>2. /\ keep' \in Seq(Candidate) /\ Len(keep') = n
      /\ \A i \in 1 .. n : keep'[i] = keep[i]
  BY <1>1
<1>3. DOMAIN keep' = 1 .. n /\ DOMAIN keep = 1 .. Len(keep)
  BY <1>1, <1>2
<1> QED
  BY <1>1, <1>2, <1>3 DEF Kept, Range

\* A round keeps a candidate that is left, and those all pass.
LEMMA KeptPassStep ==
    ASSUME DecodeInv, KeptPass, [Next]_vars
    PROVE  KeptPass'
<1>1. CASE Threshold \/ Cap \/ NoCap \/ Prune \/ Finished \/ UNCHANGED vars
  <2>1. score' = score /\ keep' = keep
    BY <1>1 DEF Threshold, Cap, NoCap, Prune, Finished, vars, inputs
  <2> QED BY <2>1 DEF KeptPass, Kept, Passing
<1>2. CASE KeepBest
  <2>1. PICK p \in order : keep' = Append(keep, p)
    BY <1>2 DEF KeepBest
  <2>2. /\ p \in Passing /\ p \in Candidate /\ keep \in Seq(Candidate)
        /\ Passing' = Passing
    BY <1>2, <2>1 DEF KeepBest, inputs, DecodeInv, LoopInvariant, TypeOK, Passing
  <2>3. Kept' = Kept \union {p}
    BY <2>1, <2>2, KeptAfter DEF Kept
  <2> QED BY <2>2, <2>3 DEF KeptPass
<1>3. CASE Truncate
  <2>1. keep \in Seq(Candidate) /\ Passing' = Passing
    BY <1>3 DEF Truncate, inputs, DecodeInv, TypeOK, Passing
  <2>2. Kept' \subseteq Kept
    BY <1>3, <2>1, TruncatedKept
  <2> QED BY <2>1, <2>2 DEF KeptPass
<1> QED BY <1>1, <1>2, <1>3 DEF Next

\* What is kept is the best of what suppression of all candidates keeps.
LEMMA TailOnly == DecodeInv /\ KeptPass => LimitsCutTheTail
<1> SUFFICES ASSUME DecodeInv, KeptPass, phase = "done", path # "e2e", NoTies
             PROVE  /\ Kept \subseteq GreedyKept(Passing)
                    /\ \A p \in Kept, q \in GreedyKept(Passing) :
                          score[q] > score[p] => q \in Kept
  BY DEF LimitsCutTheTail
<1> DEFINE G == GreedyKept(Passing)
<1>1. /\ TypeOK /\ KeptByDefinition /\ Passing \subseteq Candidate
      /\ \A p \in Passing : score[p] \in Nat /\ score[p] <= MaxScore
  BY DEF DecodeInv, TypeOK, Passing
<1>2. G \subseteq Passing /\ IsGreedy(G, Passing)
  BY <1>1, GreedyKeptIs
<1> HIDE DEF G
<1>3. Kept \subseteq Passing
  BY DEF KeptPass
\* A candidate that is missing next to a kept one of a lower score was beaten.
<1>4. ASSUME NEW p \in Kept, NEW q \in Passing \ Kept, score[q] > score[p]
      PROVE  \E r \in Kept : Suppresses(r, q) /\ score[r] > score[q]
  <2>1. ~InTail(q)
    BY <1>1, <1>3, <1>4 DEF InTail
  <2>2. Beaten(q)
    BY <1>1, <1>4, <2>1 DEF KeptByDefinition
  <2>3. PICK r \in Kept : Suppresses(r, q) /\ score[r] >= score[q]
    BY <2>2 DEF Beaten
  <2>4. score[r] # score[q]
    BY <1>3, <1>4, <2>3 DEF NoTies
  <2> QED BY <1>1, <1>3, <2>3, <2>4
\* No kept candidate overlaps another.
<1>5. ASSUME NEW p \in Kept, NEW q \in Kept, score[q] > score[p] PROVE ~Suppresses(q, p)
  <2>1. /\ keep \in Seq(Candidate) /\ Len(keep) \in Nat
        /\ Kept = {keep[i] : i \in 1 .. Len(keep)}
    BY <1>1, KeptAfter DEF TypeOK
  <2>2. PICK i \in 1 .. Len(keep) : keep[i] = q
    BY <2>1
  <2>3. PICK j \in 1 .. Len(keep) : keep[j] = p
    BY <2>1
  <2>4. score[p] \in Nat /\ score[q] \in Nat
    BY <1>1, <1>3
  <2>5. ~(j < i) /\ i # j
    BY <1>1, <1>5, <2>2, <2>3, <2>4 DEF KeptByDefinition
  <2>6. i < j
    BY <2>1, <2>5
  <2> QED BY <1>1, <2>2, <2>3, <2>6 DEF KeptByDefinition
<1>6. Kept \subseteq G
  <2> DEFINE Gap(p) == MaxScore - score[p]
             Wrong == Kept \ G
             Gaps == {Gap(p) : p \in Wrong}
  <2>1. SUFFICES ASSUME Wrong # {} PROVE FALSE
    OBVIOUS
  <2>2. Gaps \in SUBSET Nat /\ Gaps # {}
    BY <1>1, <1>3, <2>1
  <2>3. PICK n \in Gaps : \A m \in Gaps : n <= m
    BY <2>2, LeastNatural
  <2>4. PICK p \in Wrong : \A r \in Wrong : score[r] <= score[p]
    <3>1. PICK p \in Wrong : n = Gap(p)
      BY <2>3
    <3>2. \A r \in Wrong : Gap(p) <= Gap(r)
      BY <2>3, <3>1
    <3> QED BY <1>1, <1>3, <3>2
  <2>5. PICK q \in G : Suppresses(q, p) /\ score[q] > score[p]
    BY <1>2, <1>3, <2>4 DEF IsGreedy
  <2>6. q \notin Kept
    BY <1>5, <2>4, <2>5
  <2>7. PICK r \in Kept : Suppresses(r, q) /\ score[r] > score[q]
    BY <1>2, <1>4, <2>4, <2>5, <2>6
  <2>8. r \in G
    <3>1. score[r] > score[p]
      BY <1>1, <1>2, <1>3, <2>4, <2>5, <2>7
    <3> QED BY <1>1, <1>3, <2>4, <2>7, <3>1
  <2> QED BY <1>2, <2>5, <2>7, <2>8 DEF IsGreedy
<1>7. ASSUME NEW p \in Kept, NEW q \in G, score[q] > score[p] PROVE q \in Kept
  <2>1. SUFFICES ASSUME q \notin Kept PROVE FALSE
    OBVIOUS
  <2>2. PICK r \in Kept : Suppresses(r, q) /\ score[r] > score[q]
    BY <1>2, <1>4, <1>7, <2>1
  <2> QED BY <1>2, <1>6, <2>2 DEF IsGreedy
<1> QED BY <1>6, <1>7 DEF G

\* The limits set for speed cut the end of the list and nothing else: for scores
\* without ties, what a path with suppression keeps is the best of what the
\* suppression of all candidates keeps, down to some score and without a gap.
THEOREM LimitsCutTheTailSafety == Spec => []LimitsCutTheTail
<1>1. Init => KeptPass
  BY DEF Init, KeptPass, Kept, Range
<1>2. Spec => []KeptPass
  BY <1>1, KeptPassStep, DecodeInvariant, PTL DEF Spec
<1> QED BY <1>2, TailOnly, DecodeInvariant, PTL

-----------------------------------------------------------------------------
(* The records.                                                            *)

USE GeometryAssumption

\* The lists are sequences; what is in them is said by ListsInv.
ListTypes ==
    /\ dets \in Seq(Range(dets))
    /\ masks \in Seq(Range(masks))
    /\ records \in Seq(Range(records))

RecordsInv == DecodeInv /\ ColumnsInv /\ ListTypes /\ ListsInv

\* A sequence over any set is one over its range.
LEMMA ListOfItsRange ==
    ASSUME NEW T, NEW s \in Seq(T)
    PROVE  s \in Seq(Range(s))
<1>1. Len(s) \in Nat /\ s \in [1 .. Len(s) -> T]
  BY LenProperties
<1>2. s \in [1 .. Len(s) -> Range(s)]
  BY <1>1 DEF Range
<1> QED
  BY <1>1, <1>2, SeqDef

\* A list with one more element.
LEMMA OneMore ==
    ASSUME NEW s, NEW x, s \in Seq(Range(s))
    PROVE  /\ Len(s) \in Nat
           /\ Append(s, x) \in Seq(Range(Append(s, x)))
           /\ Len(Append(s, x)) = Len(s) + 1
           /\ \A k \in 1 .. Len(s) : Append(s, x)[k] = s[k]
           /\ Append(s, x)[Len(s) + 1] = x
<1>1. s \in Seq(Range(s) \union {x}) /\ Append(s, x) \in Seq(Range(s) \union {x})
  OBVIOUS
<1>2. Append(s, x) \in Seq(Range(Append(s, x)))
  BY <1>1, ListOfItsRange
<1> QED
  BY <1>1, <1>2

\* A list given as a function.
LEMMA AllAtOnce ==
    ASSUME NEW n \in Nat, NEW s, s = [k \in 1 .. n |-> s[k]]
    PROVE  s \in Seq(Range(s)) /\ Len(s) = n
<1>1. s \in [1 .. n -> Range(s)]
  BY DEF Range
<1> QED
  BY <1>1

\* Nothing has been listed before the decoding is over.
LEMMA InitRecordsInv == Init /\ RecordsInit => RecordsInv
<1> SUFFICES ASSUME Init, RecordsInit PROVE RecordsInv
  OBVIOUS
<1>1. Len(<<>>) = 0 /\ <<>> \in Seq(Range(<<>>))
  OBVIOUS
<1>2. ListTypes /\ ListsInv
  BY <1>1 DEF RecordsInit, ListTypes, ListsInv
<1>3. ColumnsInv
  BY DEF Init, ColumnsInv
<1> QED
  BY <1>2, <1>3, InitDecodeInv DEF RecordsInv

\* A finite set can be listed, and a list of it has all of it.
LEMMA Listing ==
    ASSUME NEW S, IsFiniteSet(S)
    PROVE  /\ SetToSeq(S) \in SetToSeqs(S)
           /\ \A list \in SetToSeqs(S) : list \in Seq(S) /\ Range(list) = S
<1> DEFINE n == Cardinality(S)
<1>1. n \in Nat /\ ExistsBijection(1 .. n, S)
  BY FS_CardinalityType
<1>2. PICK f \in [1 .. n -> S] : IsInjective(f)
  BY <1>1 DEF ExistsBijection, Bijection, Injection
<1>3. SetToSeq(S) \in SetToSeqs(S)
  <2>1. SetToSeq(S) \in [1 .. n -> S] /\ IsInjective(SetToSeq(S))
    BY <1>2, Zenon DEF SetToSeq
  <2> QED
    BY <2>1 DEF IsInjective, SetToSeqs
<1>4. ASSUME NEW list \in SetToSeqs(S) PROVE list \in Seq(S) /\ Range(list) = S
  <2>1. list \in [1 .. n -> S] /\ IsInjective(list)
    BY DEF IsInjective, SetToSeqs
  <2>2. list \in Seq(S)
    BY <1>1, <2>1
  <2>3. list \in Injection(1 .. n, S)
    BY <2>1 DEF Injection
  <2>4. IsFiniteSet(1 .. n) /\ Cardinality(1 .. n) = n
    BY <1>1, FS_Interval
  <2>5. list \in Surjection(1 .. n, S)
    BY <2>3, <2>4, FS_Injection
  <2> QED
    BY <2>1, <2>2, <2>5 DEF Surjection, Range
<1> QED
  BY <1>3, <1>4

\* Where a candidate is among the rows.
LEMMA PlaceIs ==
    ASSUME NEW p \in Range(cols.of)
    PROVE  Place(p) \in DOMAIN cols.of /\ cols.of[Place(p)] = p
BY DEF Place, Range

\* The columns are taken together, from the output and at the best.
LEMMA ColumnsStep ==
    ASSUME DecodeInv, ColumnsInv, Decoding
    PROVE  ColumnsInv'
<1>1. UNCHANGED <<path, score, near>> /\ Passing' = Passing
  BY DEF Decoding, Threshold, Cap, NoCap, Prune, KeepBest, Truncate, inputs, Passing
<1>2. /\ TypeOK /\ LoopInvariant /\ keep \in Seq(Candidate)
      /\ Passing \subseteq Candidate
  BY DEF DecodeInv, TypeOK, Passing
<1>3. CASE Threshold /\ cols' = Found
  <2> DEFINE list == SetToSeq(Passing)
  <2>1. list \in Seq(Passing) /\ Range(list) = Passing
    BY PassingFinite, Listing
  <2>2. /\ cols'.of = list
        /\ cols'.anc = [i \in DOMAIN list |-> list[i][1]]
        /\ cols'.cls = [i \in DOMAIN list |-> list[i][2]]
        /\ cols'.sc = [i \in DOMAIN list |-> score[list[i]]]
    BY <1>3 DEF Found
  <2>3. order' = Passing /\ keep' = keep /\ keep = <<>>
    BY <1>2, <1>3 DEF Threshold, LoopInvariant
  <2>4. Kept' = {}
    BY <2>3 DEF Kept, Range
  <2>5. Range(cols'.of) = Passing
    BY <2>1, <2>2
  <2> HIDE DEF list
  <2>6. \A j \in DOMAIN list : list[j] \in Candidate
    BY <1>2, <2>1
  <2> QED
    BY <1>1, <2>2, <2>3, <2>4, <2>5, <2>6 DEF ColumnsInv
<1>4. ASSUME Cap, NEW best \in SetToSeqs(order'),
             cols' = Indexed(cols, [i \in DOMAIN best |-> Place(best[i])])
      PROVE  ColumnsInv'
  <2> DEFINE top == [i \in DOMAIN best |-> Place(best[i])]
  <2>1. /\ order' \subseteq order /\ order \subseteq Passing
        /\ phase = "cap" /\ keep = <<>> /\ keep' = keep
    BY <1>2, <1>4 DEF Cap, BestOf, LoopInvariant
  <2>2. best \in Seq(order') /\ Range(best) = order'
    BY <2>1, PassingFinite, FS_Subset, Listing
  <2>3. Kept' = {}
    BY <2>1 DEF Kept, Range
  <2>4. \A i \in DOMAIN best : top[i] \in DOMAIN cols.of /\ cols.of[top[i]] = best[i]
    BY <2>1, <2>2, PlaceIs DEF ColumnsInv
  <2>5. /\ cols'.of = [i \in DOMAIN best |-> cols.of[top[i]]]
        /\ cols'.anc = [i \in DOMAIN best |-> cols.anc[top[i]]]
        /\ cols'.cls = [i \in DOMAIN best |-> cols.cls[top[i]]]
        /\ cols'.sc = [i \in DOMAIN best |-> cols.sc[top[i]]]
    BY <1>4 DEF Indexed
  <2> HIDE DEF top
  <2>6. DOMAIN cols'.of = DOMAIN best /\ \A i \in DOMAIN best : cols'.of[i] = best[i]
    BY <2>4, <2>5
  <2>7. Range(cols'.of) = order'
    BY <2>2, <2>6 DEF Range
  <2>8. \A j \in DOMAIN cols'.of :
           /\ cols'.of[j] \in Candidate
           /\ cols'.anc[j] = cols'.of[j][1]
           /\ cols'.cls[j] = cols'.of[j][2]
           /\ cols'.sc[j] = score[cols'.of[j]]
    BY <2>1, <2>4, <2>5, <2>6 DEF ColumnsInv
  <2> QED
    BY <1>1, <2>3, <2>7, <2>8 DEF ColumnsInv
<1>5. CASE (NoCap \/ Prune \/ KeepBest \/ Truncate) /\ UNCHANGED cols
  <2>1. phase # "threshold"
    BY <1>5 DEF NoCap, Prune, KeepBest, Truncate
  <2>2. Kept' \union order' \subseteq Kept \union order
    <3>1. CASE NoCap \/ Prune
      <4>1. keep' = keep /\ order' \subseteq order
        BY <3>1 DEF NoCap, Prune, BestOf
      <4> QED
        BY <4>1 DEF Kept
    <3>2. CASE KeepBest
      <4>1. PICK p \in order : keep' = Append(keep, p) /\ order' \subseteq order
        BY <3>2 DEF KeepBest
      <4>2. p \in Candidate
        BY <1>2, <4>1 DEF TypeOK
      <4>3. Kept' = Kept \union {p}
        BY <1>2, <4>1, <4>2, KeptAfter DEF Kept
      <4> QED
        BY <4>1, <4>3
    <3>3. CASE Truncate
      <4>1. order' = order /\ Kept' \subseteq Kept
        BY <1>2, <3>3, TruncatedKept DEF Truncate
      <4> QED
        BY <4>1
    <3> QED
      BY <1>5, <3>1, <3>2, <3>3
  <2> QED
    BY <1>1, <1>5, <2>1, <2>2 DEF ColumnsInv
<1> QED
  BY <1>3, <1>4, <1>5 DEF Decoding

\* A row of the detections has what belongs to its kept candidate, through all
\* of the columns.
LEMMA RowIs ==
    ASSUME DecodeInv, ColumnsInv, phase = "done", NEW k \in 1 .. Len(keep)
    PROVE  Row(k) = [score |-> score[keep[k]], class |-> keep[k][2],
                     anchor |-> keep[k][1], boxLb |-> box[keep[k][1]],
                     box |-> BoxBack(box[keep[k][1]])]
<1>1. keep \in Seq(Candidate) /\ keep[k] \in Kept
  BY DEF DecodeInv, TypeOK, Kept, Range
<1>2. Place(keep[k]) \in DOMAIN cols.of /\ cols.of[Place(keep[k])] = keep[k]
  BY <1>1, PlaceIs DEF ColumnsInv
<1> QED
  BY <1>2 DEF Row, ColumnsInv

\* The decoding goes on as on its own, and is over when the rows are gathered.
LEMMA DecodingStep ==
    ASSUME RecordsInv, Decoding
    PROVE  RecordsInv'
<1>1. DecodeInv'
  <2>1. DecodeInv
    BY DEF RecordsInv
  <2> QED
    BY <2>1, LimitStep, RoundStep, TruncateStep DEF Decoding
<1>2. /\ phase # "done"
      /\ UNCHANGED <<dets, masks, records, out, image, box, task, score>>
  BY DEF Decoding, Threshold, Cap, NoCap, Prune, KeepBest, Truncate, inputs,
         listVars, recordInputs
<1>3. out = "decode" /\ Len(dets) = 0
  BY <1>2 DEF RecordsInv, ListsInv
<1>4. Len(masks) \in Nat /\ Len(records) \in Nat
  BY OneMore DEF RecordsInv, ListTypes
<1>5. Len(masks) = 0 /\ Len(records) = 0
  BY <1>3, <1>4 DEF RecordsInv, ListsInv
<1>6. ListTypes' /\ ListsInv'
  BY <1>2, <1>3, <1>5 DEF RecordsInv, ListTypes, ListsInv
<1>7. ColumnsInv'
  BY ColumnsStep DEF RecordsInv
<1> QED
  BY <1>1, <1>6, <1>7 DEF RecordsInv

\* What the rows, masks and records are made from does not change.
LEMMA SameMakings ==
    ASSUME UNCHANGED <<score, keep, image, box, task, cols>>
    PROVE  /\ \A k : Row(k)' = Row(k)
           /\ \A row : MaskOf(row)' = MaskOf(row)
           /\ UNCHANGED <<dets, masks>> => \A k : Record(k)' = Record(k)
<1>1. /\ \A p : Place(p)' = Place(p)
      /\ \A b : BoxBack(b)' = BoxBack(b)
  BY DEF Place, BoxBack
<1>2. \A k : Row(k)' = Row(k)
  BY <1>1, Zenon DEF Row
<1> QED
  BY <1>2 DEF MaskOf, Span, Record

\* Once the decoding is over the columns stay.
LEMMA SameColumns ==
    ASSUME ColumnsInv, UNCHANGED <<vars, cols>>
    PROVE  ColumnsInv'
BY DEF ColumnsInv, vars, Kept

\* All the columns are gathered at once, by the kept candidates.
LEMMA GatherStep ==
    ASSUME RecordsInv, Gather
    PROVE  RecordsInv'
<1>1. /\ UNCHANGED vars
      /\ UNCHANGED <<score, keep, phase, image, box, task, cols, masks, records>>
      /\ dets' = [k \in 1 .. Len(keep) |-> Row(k)]
      /\ phase = "done" /\ out = "decode"
      /\ out' = IF task = "segment" /\ keep # <<>> THEN "masks" ELSE "records"
      /\ Len(keep) \in Nat /\ (Len(keep) = 0 <=> keep = <<>>)
  BY DEF Gather, vars, inputs, recordInputs, RecordsInv, DecodeInv, TypeOK
<1>2. DecodeInv'
  BY <1>1, StutterStep DEF RecordsInv
<1>3. dets' \in Seq(Range(dets')) /\ Len(dets') = Len(keep)
  BY <1>1, AllAtOnce
<1>4. Len(masks) \in Nat /\ Len(records) \in Nat
  BY OneMore DEF RecordsInv, ListTypes
<1>5. Len(dets) = 0 /\ Len(masks) = 0 /\ Len(records) = 0
  BY <1>1, <1>4 DEF RecordsInv, ListsInv
<1>6. \A k \in 1 .. Len(dets') : dets'[k] = Row(k)'
  BY <1>1, <1>3, SameMakings
<1>7. ListTypes'
  BY <1>1, <1>3 DEF RecordsInv, ListTypes
<1>8. ListsInv'
  BY <1>1, <1>3, <1>5, <1>6 DEF ListsInv
<1> QED
  BY <1>1, <1>2, <1>7, <1>8, SameColumns DEF RecordsInv

\* The masks are those of the rows, at their places.
LEMMA MaskStep ==
    ASSUME RecordsInv, MaskOne \/ MaskAll
    PROVE  RecordsInv'
<1>1. /\ UNCHANGED vars
      /\ UNCHANGED <<score, keep, phase, image, box, task, cols, dets, records>>
      /\ out = "masks" /\ out' \in {"masks", "records"}
      /\ MaskOne => /\ masks' = Append(masks, MaskOf(dets[Len(masks) + 1]))
                    /\ out' = IF Len(masks') = Len(dets) THEN "records" ELSE "masks"
      /\ MaskAll => /\ masks' = [k \in 1 .. Len(dets) |-> MaskOf(dets[k])]
                    /\ out' = "records"
  BY DEF MaskOne, MaskAll, vars, inputs, recordInputs
<1>2. DecodeInv'
  BY <1>1, StutterStep DEF RecordsInv
<1>3. /\ phase = "done" /\ task = "segment" /\ Len(records) = 0
      /\ Len(dets) = Len(keep) /\ Len(masks) < Len(dets)
      /\ \A k \in 1 .. Len(dets) : dets[k] = Row(k)
      /\ \A k \in 1 .. Len(masks) : masks[k] = MaskOf(dets[k])
      /\ Len(dets) \in Nat /\ Len(masks) \in Nat
  BY <1>1, OneMore DEF RecordsInv, ListsInv, ListTypes
<1>4. /\ masks' \in Seq(Range(masks'))
      /\ Len(masks') = IF MaskAll THEN Len(dets) ELSE Len(masks) + 1
      /\ \A k \in 1 .. Len(masks') : masks'[k] = MaskOf(dets[k])
  <2>1. CASE MaskAll
    BY <1>1, <1>3, <2>1, AllAtOnce
  <2>2. CASE MaskOne /\ ~MaskAll
    <3>1. /\ masks \in Seq(Range(masks))
          /\ masks' = Append(masks, MaskOf(dets[Len(masks) + 1]))
      BY <1>1, <2>2 DEF RecordsInv, ListTypes
    <3>2. /\ masks' \in Seq(Range(masks'))
          /\ Len(masks') = Len(masks) + 1
          /\ \A k \in 1 .. Len(masks) : masks'[k] = masks[k]
          /\ masks'[Len(masks) + 1] = MaskOf(dets[Len(masks) + 1])
      BY <3>1, OneMore
    <3> QED
      BY <1>3, <2>2, <3>2
  <2> QED
    BY <2>1, <2>2
<1>5. ListTypes'
  BY <1>1, <1>4 DEF RecordsInv, ListTypes
<1>6. /\ \A k \in 1 .. Len(dets') : dets'[k] = Row(k)'
      /\ \A k \in 1 .. Len(masks') : masks'[k] = MaskOf(dets[k])'
  BY <1>1, <1>3, <1>4, SameMakings
<1>7. ListsInv'
  BY <1>1, <1>3, <1>4, <1>6 DEF ListsInv
<1> QED
  BY <1>1, <1>2, <1>5, <1>7, SameColumns DEF RecordsInv

\* A record is written from its row and its mask, after all masks are made.
LEMMA RecordStep ==
    ASSUME RecordsInv, Serialize \/ Send \/ Sent \/ UNCHANGED allVars
    PROVE  RecordsInv'
<1>1. /\ UNCHANGED vars
      /\ UNCHANGED <<score, keep, phase, image, box, task, cols, dets, masks>>
  BY DEF Serialize, Send, Sent, allVars, recordVars, listVars, vars, inputs, recordInputs
<1>2. DecodeInv' /\ ColumnsInv'
  BY <1>1, StutterStep, SameColumns DEF RecordsInv
<1>3. /\ ListTypes /\ ListsInv
      /\ records \in Seq(Range(records)) /\ Len(records) \in Nat
      /\ Len(dets) \in Nat
  BY OneMore DEF RecordsInv, ListTypes
<1>4. /\ \A k : Row(k)' = Row(k)
      /\ \A row : MaskOf(row)' = MaskOf(row)
      /\ \A k : Record(k)' = Record(k)
  BY <1>1, SameMakings
<1>5. CASE Serialize
  <2>1. /\ out = "records" /\ out' = out /\ Len(records) < Len(dets)
        /\ records' = Append(records, Record(Len(records) + 1))
    BY <1>5 DEF Serialize
  <2>2. /\ records' \in Seq(Range(records'))
        /\ Len(records') = Len(records) + 1
        /\ \A k \in 1 .. Len(records) : records'[k] = records[k]
        /\ records'[Len(records) + 1] = Record(Len(records) + 1)
    BY <1>3, <2>1, OneMore
  <2>3. \A k \in 1 .. Len(records') : records'[k] = Record(k)'
    BY <1>3, <1>4, <2>2 DEF ListsInv
  <2>4. ListTypes'
    BY <1>1, <1>3, <2>2 DEF ListTypes
  <2>5. ListsInv'
    BY <1>1, <1>3, <1>4, <2>1, <2>2, <2>3 DEF ListsInv
  <2> QED
    BY <1>2, <2>4, <2>5 DEF RecordsInv
<1>6. CASE Send \/ Sent \/ UNCHANGED allVars
  <2>1. /\ records' = records
        /\ out' = out \/ (out = "records" /\ out' = "sent" /\ Len(records) = Len(dets))
    BY <1>6 DEF Send, Sent, allVars, recordVars, listVars
  <2>2. ListTypes'
    BY <1>1, <1>3, <2>1 DEF ListTypes
  <2>3. ListsInv'
    BY <1>1, <1>3, <1>4, <2>1 DEF ListsInv
  <2> QED
    BY <1>2, <2>2, <2>3 DEF RecordsInv
<1> QED
  BY <1>5, <1>6

\* The composition keeps the decoding's invariant and fills its lists in step.
THEOREM RecordsInvariant == RecordsSpec => []RecordsInv
<1>1. RecordsInv /\ [RecordsNext]_allVars => RecordsInv'
  BY DecodingStep, GatherStep, MaskStep, RecordStep DEF RecordsNext
<1> QED
  BY InitRecordsInv, <1>1, PTL DEF RecordsSpec

\* Making masks and records leaves the decoding as it is on its own: what is
\* proved of it holds of the composition.
THEOREM RecordsDecode == RecordsSpec => Spec
<1>1. [RecordsNext]_allVars => [Next]_vars
  BY DEF RecordsNext, allVars, Decoding, Next, Gather, MaskOne, MaskAll, Serialize, Send, Sent
<1> QED
  BY <1>1, PTL DEF RecordsSpec, Spec

\* What the composition serializes is the result of decoding by definition.
THEOREM RecordsByDefinition == RecordsSpec => []KeptByDefinition
<1>1. RecordsInv => KeptByDefinition
  BY DEF RecordsInv, DecodeInv
<1> QED
  BY <1>1, RecordsInvariant, PTL

\* Every record is that of the kept candidate at its place, with its own box
\* and its own mask.
THEOREM RecordsAreKept == RecordsSpec => []RecordsOfKept
<1>1. RecordsInv => RecordsOfKept
  <2> SUFFICES ASSUME RecordsInv, out = "sent"
               PROVE  /\ Len(records) = Len(keep)
                      /\ \A k \in 1 .. Len(keep) : IsRecordOf(records[k], keep[k])
    BY DEF RecordsOfKept
  <2>1. /\ Len(records) = Len(keep) /\ Len(dets) = Len(keep)
        /\ Len(masks) = IF task = "segment" THEN Len(keep) ELSE 0
        /\ \A k \in 1 .. Len(keep) : dets[k] = Row(k)
        /\ \A k \in 1 .. Len(masks) : masks[k] = MaskOf(dets[k])
        /\ \A k \in 1 .. Len(keep) : records[k] = Record(k)
        /\ phase = "done" /\ DecodeInv /\ ColumnsInv
    BY DEF RecordsInv, ListsInv
  <2>2. ASSUME NEW k \in 1 .. Len(keep)
        PROVE  IsRecordOf(records[k], keep[k])
    <3>1. records[k] = Record(k) /\ dets[k] = Row(k)
      BY <2>1
    <3>2. Record(k).segmentation = IF task = "segment" THEN <<MaskOf(Row(k))>> ELSE <<>>
      BY <2>1, <3>1 DEF Record
    <3> DEFINE row == Row(k)
    <3>0. row.anchor = keep[k][1] /\ row.boxLb = box[keep[k][1]]
      BY <2>1, RowIs
    <3> HIDE DEF row
    <3>3. MaskOf(row) = [logits |-> keep[k][1],
                            span |-> [a \in Axes |-> Span(a, box[keep[k][1]][a])]]
      BY <3>0, Zenon DEF MaskOf
    <3>4. /\ Record(k).category = coco80_to_coco91[keep[k][2]]
          /\ Record(k).score = score[keep[k]]
          /\ \A a \in Axes :
                Record(k).bbox[a] =
                   <<BoxBack(box[keep[k][1]])[a][1],
                     BoxBack(box[keep[k][1]])[a][2] - BoxBack(box[keep[k][1]])[a][1]>>
      BY <2>1, <3>1, RowIs DEF Record
    <3> QED
      BY <3>1, <3>2, <3>3, <3>4 DEF IsRecordOf, row
  <2> QED
    BY <2>1, <2>2
<1> QED
  BY <1>1, RecordsInvariant, PTL

-----------------------------------------------------------------------------
(* Masks and boxes.                                                        *)

\* A product grows with its factor.
LEMMA Mono ==
    ASSUME NEW a \in Int, NEW b \in Int, NEW c \in Nat, a <= b
    PROVE  c * a <= c * b
OBVIOUS

\* A positive factor cancels.
LEMMA Cancel ==
    ASSUME NEW a \in Int, NEW b \in Int, NEW c \in Nat \ {0}, c * a <= c * b
    PROVE  a <= b
<1>1. SUFFICES ASSUME b + 1 <= a PROVE FALSE
  OBVIOUS
<1>2. c * (b + 1) <= c * a
  BY <1>1, Mono
<1>3. c * (b + 1) = c * b + c
  OBVIOUS
<1>4. c * a \in Int /\ c * b \in Int
  OBVIOUS
<1> QED
  BY <1>2, <1>3, <1>4

\* Quotient and remainder.
LEMMA DivBounds ==
    ASSUME NEW a \in Int, NEW b \in Nat \ {0}
    PROVE  /\ a \div b \in Int /\ a % b \in Int
           /\ b * (a \div b) <= a
           /\ a < b * (a \div b) + b
           /\ a % b = 0 => a = b * (a \div b)
OBVIOUS

\* The rounding of the size moves a point of the resized image by less than a
\* pixel of the input.
LEMMA ScaleBound ==
    ASSUME NEW o \in Nat \ {0}, NEW s \in Nat \ {0},
           NEW num \in Nat \ {0}, NEW den \in Nat \ {0},
           2 * (o * num - s * den) <= den, 2 * (s * den - o * num) <= den,
           NEW x \in Nat, x < 2 * o, NEW k \in Int
    PROVE  /\ o * (2 * k + 1) <= x * s => den * (2 * k) <= x * num
           /\ x * s <= o * (2 * k + 1) => x * num <= den * (2 * k + 2)
<1> DEFINE P == o * num
           Q == s * den
           z == k * den
<1>0. P \in Int /\ Q \in Int /\ z \in Int /\ den \in Int /\ x \in Int
  OBVIOUS
<1>1. x * (2 * Q) <= x * (2 * P + den) /\ x * (2 * P) <= x * (2 * Q + den)
  BY Mono
<1>2. den * x <= den * (2 * o)
  BY Mono
<1>3. /\ den * (o * (2 * k + 1)) = 2 * (o * z) + o * den
      /\ den * (x * s) = x * Q
      /\ x * P = o * (x * num)
      /\ x * (2 * Q) = 2 * (x * Q) /\ x * (2 * P) = 2 * (x * P)
      /\ x * (2 * P + den) = 2 * (x * P) + x * den
      /\ x * (2 * Q + den) = 2 * (x * Q) + x * den
      /\ den * x = x * den /\ den * (2 * o) = 2 * (o * den)
  OBVIOUS
<1>4. o * z \in Int /\ o * den \in Int /\ x * P \in Int /\ x * Q \in Int /\ x * den \in Int
  OBVIOUS
<1>5. o * (2 * z) = 2 * (o * z) /\ o * (2 * z + 2 * den) = 2 * (o * z) + 2 * (o * den)
      /\ den * (2 * k) = 2 * z /\ den * (2 * k + 2) = 2 * z + 2 * den
  OBVIOUS
<1>6. ASSUME o * (2 * k + 1) <= x * s PROVE den * (2 * k) <= x * num
  <2>1. den * (o * (2 * k + 1)) <= den * (x * s)
    BY <1>6, Mono
  <2> HIDE DEF P, Q, z
  <2>2. 2 * (o * z) <= x * P
    BY <1>1, <1>2, <1>3, <1>4, <2>1
  <2>3. o * (2 * z) <= o * (x * num)
    BY <2>2, <1>3, <1>5
  <2>4. 2 * z <= x * num
    BY <1>0, <2>3, Cancel
  <2> QED
    BY <2>4, <1>5
<1>7. ASSUME x * s <= o * (2 * k + 1) PROVE x * num <= den * (2 * k + 2)
  <2>1. den * (x * s) <= den * (o * (2 * k + 1))
    BY <1>7, Mono
  <2> HIDE DEF P, Q, z
  <2>2. x * P <= 2 * (o * z) + 2 * (o * den)
    BY <1>1, <1>2, <1>3, <1>4, <2>1
  <2>3. o * (x * num) <= o * (2 * z + 2 * den)
    BY <2>2, <1>3, <1>5
  <2>4. x * num <= 2 * z + 2 * den
    BY <1>0, <2>3, Cancel
  <2> QED
    BY <2>4, <1>5
<1> QED
  BY <1>6, <1>7

\* `size` pixels are `orig` of them at the scale num / den, rounded.
Resized(orig, size, num, den) ==
    2 * (orig * num - size * den) <= den /\ 2 * (size * den - orig * num) <= den

\* Pixel i of the original is made from p and q, and where those lie.
MadeFrom(orig, size, num, den, i, p, q) ==
    /\ Sources(orig, size, i) = {Greatest(0, p), Least(size - 1, q)}
    /\ q = p \/ q = p + 1
    /\ den * (2 * p) <= (2 * i + 1) * num
    /\ (2 * i + 1) * num <= den * (2 * q + 2)

\* The two pixels a bilinear resize takes pixel i of an axis from, and where
\* they lie, in units of the original image.
LEMMA SourcesBound ==
    ASSUME NEW o \in Nat \ {0}, NEW s \in Nat \ {0},
           NEW num \in Nat \ {0}, NEW den \in Nat \ {0},
           Resized(o, s, num, den),
           NEW i \in 0 .. o - 1
    PROVE  \E p, q \in Int : MadeFrom(o, s, num, den, i, p, q)
<1> DEFINE x == 2 * i + 1
           at == x * s - o
           low == at \div (2 * o)
           high == IF at % (2 * o) = 0 THEN low ELSE low + 1
<1>1. x \in Nat /\ x < 2 * o /\ at \in Int /\ 2 * o \in Nat \ {0} /\ x * s \in Int
  OBVIOUS
<1>2. /\ low \in Int /\ at % (2 * o) \in Int
      /\ (2 * o) * low <= at
      /\ at < (2 * o) * low + 2 * o
      /\ at % (2 * o) = 0 => at = (2 * o) * low
  <2> HIDE DEF at
  <2> QED
    BY <1>1, DivBounds
<1>3. Sources(o, s, i) = {Greatest(0, low), Least(s - 1, high)}
  BY DEF Sources
<1> HIDE DEF low
<1>4. o * (2 * low + 1) = (2 * o) * low + o /\ o * (2 * (low + 1) + 1) = (2 * o) * low + 2 * o + o
  BY <1>2
<1>5. o * (2 * low + 1) <= x * s
  <2> HIDE DEF x
  <2> QED
    BY <1>1, <1>2, <1>4
<1>6. x * s <= o * (2 * high + 1)
  <2> HIDE DEF x
  <2>1. CASE at % (2 * o) = 0
    <3>1. high = low /\ at = (2 * o) * low
      BY <2>1, <1>2
    <3> QED
      BY <1>1, <1>2, <1>4, <3>1
  <2>2. CASE at % (2 * o) # 0
    <3>1. high = low + 1
      BY <2>2
    <3> QED
      BY <1>1, <1>2, <1>4, <3>1
  <2> QED
    BY <2>1, <2>2
<1>7. high \in Int /\ (high = low \/ high = low + 1)
  BY <1>2
<1> HIDE DEF high
<1>8. den * (2 * low) <= x * num /\ x * num <= den * (2 * high + 2)
  <2> HIDE DEF x
  <2> QED
    BY <1>1, <1>2, <1>5, <1>6, <1>7, ScaleBound DEF Resized
<1> QED
  BY <1>2, <1>3, <1>7, <1>8 DEF MadeFrom

\* Pixel i of a mask cut from e1 to e2 and the box from low to high agree.
Follows(orig, size, num, den, i, left, e1, e2, low, high) ==
    LET c == (2 * i + 1) * num
        inside == \A j \in Sources(orig, size, i) :
                     e1 <= 2 * (left + j) /\ 2 * (left + j) < e2
    IN  /\ inside => low - 2 * den <= c /\ c <= high + 2 * den
        /\ low + 2 * (2 * den) <= c /\ c <= high - 2 * (2 * den) => inside

\* Along one axis, the crop of the mask and the edges of the box: `left` pixels
\* of border come off one as pixels and off the other by arithmetic.
LEMMA SpanFollowsEdges ==
    ASSUME NEW o \in Nat \ {0}, NEW s \in Nat \ {0},
           NEW num \in Nat \ {0}, NEW den \in Nat \ {0},
           Resized(o, s, num, den),
           NEW i \in 0 .. o - 1, NEW left \in Int, NEW e1 \in Int, NEW e2 \in Int,
           NEW low \in Int, NEW high \in Int,
           low = Greatest(0, Least(2 * num * o, (e1 - 2 * left) * den)),
           high = Greatest(0, Least(2 * num * o, (e2 - 2 * left) * den))
    PROVE  Follows(o, s, num, den, i, left, e1, e2, low, high)
<1> DEFINE c == (2 * i + 1) * num
           f == e1 - 2 * left
           g == e2 - 2 * left
           inside == \A j \in Sources(o, s, i) :
                        e1 <= 2 * (left + j) /\ 2 * (left + j) < e2
<1>1. PICK p \in Int, q \in Int : MadeFrom(o, s, num, den, i, p, q)
  BY SourcesBound, Zenon
<1>0. /\ Sources(o, s, i) = {Greatest(0, p), Least(s - 1, q)}
      /\ q = p \/ q = p + 1
      /\ den * (2 * p) <= c
      /\ c <= den * (2 * q + 2)
  BY <1>1 DEF MadeFrom
<1> DEFINE first == Greatest(0, p)
           last == Least(s - 1, q)
<1>2. first \in Int /\ last \in Int /\ f \in Int /\ g \in Int
  BY DEF Greatest, Least
<1>3. c \in Int /\ 0 <= c /\ c < 2 * num * o /\ c < den * (2 * s + 1)
      /\ 2 * num * o \in Int
  <2>1. num * (2 * i + 1) <= num * (2 * o - 1)
    BY Mono
  <2>2. num * (2 * i + 1) = c /\ num * (2 * o - 1) = 2 * num * o - num
    OBVIOUS
  <2>3. o * num \in Int /\ s * den \in Int /\ 2 * num * o = 2 * (o * num)
        /\ den * (2 * s + 1) = 2 * (s * den) + den
    OBVIOUS
  <2>4. c \in Int /\ 0 <= c
    OBVIOUS
  <2> QED
    <3> HIDE DEF c
    <3> QED
      BY <2>1, <2>2, <2>3, <2>4 DEF Resized
<1>4. inside <=> f <= 2 * first /\ 2 * first < g /\ f <= 2 * last /\ 2 * last < g
  BY <1>0, <1>2
<1>5. low = Greatest(0, Least(2 * num * o, den * f)) /\ high = Greatest(0, Least(2 * num * o, den * g))
      /\ den * f \in Int /\ den * g \in Int
  <2>1. (e1 - 2 * left) * den = den * f /\ (e2 - 2 * left) * den = den * g
    OBVIOUS
  <2>2. den * f \in Int /\ den * g \in Int
    OBVIOUS
  <2> QED
    BY <2>1, <2>2
<1>6. /\ den * (2 * p + 2) = den * (2 * p) + 2 * den
      /\ den * (2 * q + 2) = den * (2 * q) + 2 * den
      /\ den * (2 * s + 1) = den * (2 * (s - 1)) + 3 * den
      /\ den * (2 * s - 3) = den * (2 * (s - 1)) - den
      /\ \A k \in Int : den * k \in Int
  OBVIOUS
<1> HIDE DEF c, f, g, inside, first, last
<1>7. ASSUME inside PROVE low - 2 * den <= c /\ c <= high + 2 * den
  <2>1. f <= 2 * first /\ 2 * last + 1 <= g
    BY <1>2, <1>4, <1>7
  <2>2. den * f <= den * (2 * first) /\ den * (2 * last + 1) <= den * g
    BY <1>2, <2>1, Mono
  <2>3. den * (2 * first) <= c
    BY <1>0, <1>3 DEF first, Greatest
  <2>4. low <= c
    BY <1>3, <1>5, <1>6, <1>2, <2>2, <2>3 DEF Greatest, Least
  <2>5. den * (2 * last + 1) = den * (2 * last) + den
    BY <1>2
  <2>6. c <= den * g + 2 * den
    BY <1>0, <1>2, <1>3, <1>5, <1>6, <2>2, <2>5 DEF last, Least
  <2>7. c <= high + 2 * den
    BY <1>3, <1>5, <2>6 DEF Greatest, Least
  <2> QED
    BY <1>3, <2>4, <2>7
<1>8. ASSUME low + 2 * (2 * den) <= c, c <= high - 2 * (2 * den) PROVE inside
  <2>1. den * f + 4 * den <= c
    BY <1>3, <1>5, <1>8 DEF Greatest, Least
  <2>2. c + 4 * den <= den * g
    BY <1>3, <1>5, <1>8 DEF Greatest, Least
  <2>3. den * (2 * p) <= c /\ c <= den * (2 * p) + 4 * den
    BY <1>0, <1>2, <1>3, <1>6
  <2>4. f <= 2 * p
    BY <1>2, <1>3, <1>5, <1>6, <2>1, <2>3, Cancel
  <2>5. f <= 2 * (s - 1)
    BY <1>2, <1>3, <1>5, <1>6, <2>1, Cancel
  <2>6. 2 * p + 3 <= g
    <3>1. den * (2 * p + 3) = den * (2 * p) + 3 * den
      OBVIOUS
    <3>2. den * (2 * p + 3) <= den * g
      BY <1>2, <1>3, <1>5, <1>6, <2>2, <2>3, <3>1
    <3> QED
      BY <1>2, <3>2, Cancel
  <2>7. 1 <= g
    <3>1. den * 1 <= den * g
      BY <1>3, <1>5, <2>2
    <3> QED
      BY <1>2, <3>1, Cancel
  <2>8. f <= 2 * first /\ 2 * first < g
    BY <1>2, <2>4, <2>6, <2>7 DEF first, Greatest
  <2>9. f <= 2 * last /\ 2 * last < g
    BY <1>0, <1>2, <2>4, <2>5, <2>6 DEF last, Least
  <2> QED
    BY <1>4, <2>8, <2>9
<1> QED
  BY <1>7, <1>8 DEF c, inside, Follows

\* What the geometry of an image and the boxes are from the start.
GivenOK == image \in Images /\ box \in [Anchors -> [Axes -> Interval]]

\* The scale is a positive fraction.
LEMMA ScalePositive ==
    ASSUME NEW orig \in [Axes -> 1 .. MaxOrig]
    PROVE  /\ Scale(Input.x, Input.y, orig.x, orig.y).num \in Nat \ {0}
           /\ Scale(Input.x, Input.y, orig.x, orig.y).den \in Nat \ {0}
<1>1. {Input.x, Input.y, orig.x, orig.y} \subseteq Nat \ {0}
  BY DEF Axes
<1> QED
  BY <1>1 DEF Scale

\* The sides of an image and of what it is resized to, at one scale.
LEMMA ImageSides ==
    ASSUME image \in Images, NEW a \in Axes
    PROVE  /\ image.orig[a] \in Nat \ {0} /\ image.size[a] \in Nat \ {0}
           /\ image.scale.num \in Nat \ {0} /\ image.scale.den \in Nat \ {0}
           /\ Resized(image.orig[a], image.size[a], image.scale.num, image.scale.den)
           /\ Input[a] \in Nat \ {0}
<1>1. PICK orig \in [Axes -> 1 .. MaxOrig] :
         \E w \in NewSizes(orig.x, Scale(Input.x, Input.y, orig.x, orig.y)) \ {0},
            h \in NewSizes(orig.y, Scale(Input.x, Input.y, orig.x, orig.y)) \ {0} :
            image = [orig |-> orig, size |-> [x |-> w, y |-> h],
                     scale |-> Scale(Input.x, Input.y, orig.x, orig.y)]
  BY DEF Images
<1> DEFINE scale == Scale(Input.x, Input.y, orig.x, orig.y)
<1>2. PICK w \in NewSizes(orig.x, scale) \ {0}, h \in NewSizes(orig.y, scale) \ {0} :
         image = [orig |-> orig, size |-> [x |-> w, y |-> h], scale |-> scale]
  BY <1>1
<1>3. scale.num \in Nat \ {0} /\ scale.den \in Nat \ {0}
  BY ScalePositive
<1>4. orig.x \in 1 .. MaxOrig /\ orig.y \in 1 .. MaxOrig
  BY DEF Axes
<1> HIDE DEF scale
<1>5. /\ w \in Nat \ {0} /\ Resized(orig.x, w, scale.num, scale.den)
      /\ h \in Nat \ {0} /\ Resized(orig.y, h, scale.num, scale.den)
  BY <1>4 DEF NewSizes, Resized
<1>6. image.orig = orig /\ image.size = [x |-> w, y |-> h] /\ image.scale = scale
  BY <1>2
<1>7. CASE a = "x"
  BY <1>3, <1>4, <1>5, <1>6, <1>7 DEF Axes
<1>8. CASE a = "y"
  BY <1>3, <1>4, <1>5, <1>6, <1>8 DEF Axes
<1> QED
  BY <1>7, <1>8 DEF Axes

\* The edges of a box in the original image are integers.
LEMMA BoxInt ==
    ASSUME GivenOK, NEW a \in Axes, NEW p \in Anchors
    PROVE  BoxBack(box[p])[a][1] \in Int /\ BoxBack(box[p])[a][2] \in Int
<1> DEFINE o == image.orig[a]
           s == image.size[a]
           scale == image.scale
<1>1. /\ o \in Nat \ {0} /\ s \in Nat \ {0} /\ scale.num \in Nat \ {0}
      /\ scale.den \in Nat \ {0} /\ Input[a] \in Nat \ {0}
  BY ImageSides DEF GivenOK
<1>2. ASSUME NEW e \in Int PROVE Back(Input[a], o, s, scale, e) \in Int
  <2> HIDE DEF o, s, scale
  <2>1. PadInt(PadTenths(Input[a], s)) \in Int
    BY <1>1 DEF PadInt, RoundTenths, PadTenths
  <2>2. 2 * scale.num * o \in Int
        /\ (e - 2 * PadInt(PadTenths(Input[a], s))) * scale.den \in Int
    BY <1>1, <2>1
  <2> QED
    BY <2>2 DEF Back, Greatest, Least
<1>3. box[p][a][1] \in Int /\ box[p][a][2] \in Int
  BY DEF GivenOK, Interval
<1>4. BoxBack(box[p])[a] = <<Back(Input[a], o, s, scale, box[p][a][1]),
                             Back(Input[a], o, s, scale, box[p][a][2])>>
  BY DEF BoxBack
<1> QED
  BY <1>2, <1>3, <1>4

\* A mask's pixels along one axis are those the box spans, to within the
\* resolution of the input.
LEMMA MaskAlongAxis ==
    ASSUME GivenOK, NEW a \in Axes, NEW p \in Anchors, NEW i \in 0 .. image.orig[a] - 1
    PROVE  LET low == BoxBack(box[p])[a][1]
               high == BoxBack(box[p])[a][2]
           IN  /\ i \in Span(a, box[p][a]) =>
                     low - InputPixel <= Centre(i) /\ Centre(i) <= high + InputPixel
               /\ low + 2 * InputPixel <= Centre(i) /\ Centre(i) <= high - 2 * InputPixel =>
                     i \in Span(a, box[p][a])
<1> DEFINE o == image.orig[a]
           s == image.size[a]
           num == image.scale.num
           den == image.scale.den
           left == MaskLeft(Input[a], s)
           e1 == box[p][a][1]
           e2 == box[p][a][2]
           low == BoxBack(box[p])[a][1]
           high == BoxBack(box[p])[a][2]
<1>1. /\ o \in Nat \ {0} /\ s \in Nat \ {0} /\ num \in Nat \ {0} /\ den \in Nat \ {0}
      /\ Resized(o, s, num, den) /\ Input[a] \in Nat \ {0}
  BY ImageSides DEF GivenOK
<1>2. left \in Int /\ left = PadInt(PadTenths(Input[a], s))
  BY <1>1 DEF MaskLeft, PadInt, RoundTenths, PadTenths
<1>3. e1 \in Int /\ e2 \in Int
  BY DEF GivenOK, Interval
<1>4. /\ low = Greatest(0, Least(2 * num * o, (e1 - 2 * left) * den))
      /\ high = Greatest(0, Least(2 * num * o, (e2 - 2 * left) * den))
  <2>1. BoxBack(box[p])[a] = <<Back(Input[a], o, s, image.scale, e1),
                               Back(Input[a], o, s, image.scale, e2)>>
    BY DEF BoxBack
  <2>2. low = Back(Input[a], o, s, image.scale, e1) /\ high = Back(Input[a], o, s, image.scale, e2)
    BY <2>1
  <2> QED
    BY <1>2, <2>2 DEF Back
<1>5. i \in Span(a, box[p][a]) <=>
         \A j \in Sources(o, s, i) : e1 <= 2 * (left + j) /\ 2 * (left + j) < e2
  BY DEF Span
<1>6. InputPixel = 2 * den /\ Centre(i) = (2 * i + 1) * num
  BY DEF InputPixel, Centre
<1> HIDE DEF o, s, num, den, left, e1, e2, low, high
<1>7. i \in 0 .. o - 1
  BY DEF o
<1>8. low \in Int /\ high \in Int
  <2>1. 2 * num * o \in Int /\ (e1 - 2 * left) * den \in Int /\ (e2 - 2 * left) * den \in Int
    BY <1>1, <1>2, <1>3
  <2> QED
    BY <1>4, <2>1 DEF Greatest, Least
<1>9. Follows(o, s, num, den, i, left, e1, e2, low, high)
  BY <1>1, <1>2, <1>3, <1>4, <1>7, <1>8, SpanFollowsEdges, Zenon
<1> QED
  BY <1>5, <1>6, <1>9, Zenon DEF low, high, Follows

\* The mask and the box of every record agree to within two pixels of the
\* input, whatever the sizes of image and input, the rounding of the scale and
\* the parity of the border.
THEOREM MaskFollowsBoxSafety == RecordsSpec => []MaskFollowsBox
<1>1. RecordsInit /\ image \in Images => GivenOK
  BY DEF RecordsInit, GivenOK
<1>2. GivenOK /\ [RecordsNext]_allVars => GivenOK'
  BY DEF GivenOK, Images, Interval, RecordsNext, allVars, recordVars, recordInputs,
         listVars, Decoding, Gather, MaskOne, MaskAll, Serialize, Send, Sent
<1>3. GivenOK /\ RecordsInv => MaskFollowsBox
  <2> SUFFICES ASSUME GivenOK, RecordsInv,
                      NEW r \in Range(records), NEW m \in Range(r.segmentation),
                      NEW a \in Axes, NEW i \in 0 .. image.orig[a] - 1
               PROVE  LET low == r.bbox[a][1]
                          high == r.bbox[a][1] + r.bbox[a][2]
                      IN  /\ i \in m.span[a] =>
                               low - InputPixel <= Centre(i) /\ Centre(i) <= high + InputPixel
                          /\ low + 2 * InputPixel <= Centre(i)
                             /\ Centre(i) <= high - 2 * InputPixel => i \in m.span[a]
    BY DEF MaskFollowsBox
  <2>1. records \in Seq(Range(records)) /\ Len(records) \in Nat /\ Len(masks) \in Nat
        /\ Len(dets) \in Nat
    BY OneMore DEF RecordsInv, ListTypes
  <2>2. PICK k \in 1 .. Len(records) : r = records[k]
    BY <2>1 DEF Range
  <2>3. out \in {"records", "sent"} /\ k \in 1 .. Len(dets) /\ k \in 1 .. Len(keep)
    BY <2>1 DEF RecordsInv, ListsInv
  <2>4. /\ r = Record(k) /\ dets[k] = Row(k)
        /\ phase = "done" /\ DecodeInv /\ ColumnsInv
    BY <2>2, <2>3 DEF RecordsInv, ListsInv
  <2>5. k <= Len(masks) /\ m = masks[k] /\ masks[k] = MaskOf(dets[k])
    <3>1. r.segmentation = IF k <= Len(masks) THEN <<masks[k]>> ELSE <<>>
      BY <2>4 DEF Record
    <3>2. k <= Len(masks) /\ m = masks[k]
      BY <3>1 DEF Range
    <3> QED
      BY <2>3, <3>2 DEF RecordsInv, ListsInv
  <2> DEFINE p == keep[k][1]
  <2>6. p \in Anchors
    BY <2>3 DEF RecordsInv, DecodeInv, TypeOK, Candidate
  <2>7. m.span[a] = Span(a, box[p][a])
    BY <2>3, <2>4, <2>5, RowIs DEF MaskOf
  <2>8. /\ r.bbox[a][1] = BoxBack(box[p])[a][1]
        /\ r.bbox[a][2] = BoxBack(box[p])[a][2] - BoxBack(box[p])[a][1]
    BY <2>3, <2>4, RowIs DEF Record
  <2>9. BoxBack(box[p])[a][1] \in Int /\ BoxBack(box[p])[a][2] \in Int
    BY <2>6, BoxInt
  <2>10. r.bbox[a][1] + r.bbox[a][2] = BoxBack(box[p])[a][2]
    BY <2>8, <2>9
  <2> HIDE DEF p
  <2> QED
    BY <2>6, <2>7, <2>8, <2>10, MaskAlongAxis
<1> QED
  BY <1>1, <1>2, <1>3, RecordsInvariant, PTL DEF RecordsSpec

=============================================================================
