--------------------------- MODULE Pipeline_proofs ---------------------------
(***************************************************************************)
(* Proofs about ValidationPipeline.run and its clients, for every listing, *)
(* warmup and batch size and whatever images do not decode.                *)
(***************************************************************************)
EXTENDS Pipeline, SequenceTheorems, TLAPS

USE BoundsAssumption

\* What a configuration is made of.
LEMMA ConfigFacts ==
    ASSUME cfg \in Config
    PROVE  /\ cfg.n \in Nat /\ cfg.warmup \in Int
           /\ cfg.batch \in Nat \ {0} /\ cfg.inputBatch \in Nat
           /\ WarmupEnd \in 0 .. cfg.n
  BY DEF Config, RunConfigs, LaneConfigs, WarmupEnd

\* The frames that join the predictions when the next frame f is handed over:
\* they stay in listing order, each wanted one once, each from its own row.
LEMMA CollectStep ==
    ASSUME cfg \in Config, cfg' = cfg,
           Handled \in Nat, Handled' = Handled + 1, Handled + 1 <= cfg.n,
           cfg.client # "bench" => Handled + 1 > WarmupEnd,
           NEW f \in FrameType,
           f.path = Handled + 1, f.row = Handled + 1, f.lb = Handled + 1,
           predicted \in Seq(FrameType),
           OwnRowOwnLetterbox,
           PredictedOnce,
           Collect(f)
    PROVE  /\ predicted' \in Seq(FrameType)
           /\ OwnRowOwnLetterbox'
           /\ PredictedOnce'
<1> DEFINE h == Handled
<1>1. Wanted' = Wanted /\ WarmupEnd' = WarmupEnd
  BY DEF Wanted, Images, WarmupEnd
<1>2. \A p \in Wanted : p \in 1 .. cfg.n
  BY ConfigFacts DEF Wanted, Images
<1>3. CASE cfg.client = "bench" /\ f.path \in cfg.unknown
  <2>1. predicted' = predicted
    BY <1>3 DEF Collect
  <2>2. h + 1 \notin Wanted
    BY <1>3 DEF Wanted
  <2>3. {p \in Wanted : p <= h + 1} = {p \in Wanted : p <= h}
    BY <1>2, <2>2, ConfigFacts
  <2> QED BY <2>1, <2>3, <1>1 DEF OwnRowOwnLetterbox, PredictedOnce
<1>4. CASE ~(cfg.client = "bench" /\ f.path \in cfg.unknown)
  <2>1. predicted' = Append(predicted, f)
    BY <1>4 DEF Collect
  <2>2. /\ predicted' \in Seq(FrameType)
        /\ Len(predicted') = Len(predicted) + 1
        /\ \A k \in 1 .. Len(predicted) : predicted'[k] = predicted[k]
        /\ predicted'[Len(predicted) + 1] = f
    BY <2>1, AppendProperties
  <2>3. h + 1 \in Wanted
    BY <1>4, ConfigFacts DEF Wanted, Images, Config, RunConfigs, LaneConfigs
  <2>4. \A k \in 1 .. Len(predicted) :
           predicted[k].path \in Nat /\ predicted[k].path <= h
    <3> TAKE k \in 1 .. Len(predicted)
    <3>1. predicted[k].path \in {p \in Wanted : p <= h}
      BY DEF PredictedOnce
    <3> QED BY <3>1, <1>2, ConfigFacts
  <2>5. \A j, k \in 1 .. Len(predicted') :
           j < k => predicted'[j].path < predicted'[k].path
    <3> TAKE j, k \in 1 .. Len(predicted')
    <3> HAVE j < k
    <3>1. CASE k = Len(predicted) + 1
      BY <3>1, <2>2, <2>4
    <3>2. CASE k # Len(predicted) + 1
      BY <3>2, <2>2 DEF PredictedOnce
    <3> QED BY <3>1, <3>2
  <2>6. {predicted'[k].path : k \in 1 .. Len(predicted')} =
           {predicted[k].path : k \in 1 .. Len(predicted)} \cup {h + 1}
    BY <2>2
  <2>7. {p \in Wanted : p <= h + 1} = {p \in Wanted : p <= h} \cup {h + 1}
    BY <1>2, <2>3, ConfigFacts
  <2>8. OwnRowOwnLetterbox'
    BY <2>2 DEF OwnRowOwnLetterbox
  <2> QED BY <1>1, <2>2, <2>5, <2>6, <2>7, <2>8 DEF PredictedOnce
<1> QED BY <1>3, <1>4

\* The initial states.
LEMMA InitRunInv == Init => RunInv
<1> SUFFICES ASSUME Init PROVE RunInv
  OBVIOUS
<1> USE DEF Init
<1>1. TypeOK
  BY ConfigFacts DEF TypeOK
<1>2. {predicted[k].path : k \in 1 .. Len(predicted)} = {p \in Wanted : p <= Handled}
  BY ConfigFacts DEF Wanted, Images, Handled
<1> QED
  BY <1>1, <1>2, ConfigFacts
  DEF RunInv, PendingInOrder, PhasePos, TimedMeasuredOnce, PredictedOnce,
      OwnRowOwnLetterbox, HandedOverBeforeNextCall, PublishedComplete, Handled

\* Every step keeps the invariant.
LEMMA StepRunInv == RunInv /\ [Next]_vars => RunInv'
<1> SUFFICES ASSUME RunInv, [Next]_vars PROVE RunInv'
  OBVIOUS
<1>0. cfg \in Config
  BY DEF RunInv, TypeOK
<1>c. cfg' = cfg
  BY DEF Next, Step, Finished, vars, Start, WarmupFrame, EndWarmup, MeasureOne,
         LaneFrame, InferBatch, CollectPending, Fails, LeaveLoop, Score, LaneScore, ScoreRefused
<1>w. WarmupEnd' = WarmupEnd /\ Wanted' = Wanted /\ Images' = Images
  BY <1>c DEF WarmupEnd, Wanted, Images
<1> DEFINE Invs == TypeOK /\ PendingInOrder /\ PhasePos /\ TimedMeasuredOnce
                   /\ PredictedOnce /\ OwnRowOwnLetterbox
                   /\ HandedOverBeforeNextCall /\ PublishedComplete
<1>1. CASE Start
  BY <1>1, <1>0, <1>w, ConfigFacts
  DEF RunInv, Start, TypeOK, PendingInOrder, PhasePos, TimedMeasuredOnce,
      PredictedOnce, OwnRowOwnLetterbox, HandedOverBeforeNextCall,
      PublishedComplete, Handled
<1>2. CASE WarmupFrame
  <2> DEFINE f == Frame(pos + 1, pos + 1, pos + 1)
  <2>0. /\ phase = "warmup" /\ pos < WarmupEnd /\ pending = <<>>
        /\ pos' = pos + 1 /\ calls' = calls + 1
        /\ phase' = phase /\ pending' = pending /\ samples' = samples
        /\ scoredOn' = scoredOn /\ pos \in Nat /\ calls \in Nat
        /\ samples = <<>> /\ WarmupEnd <= cfg.n /\ cfg.n \in Nat
        /\ WarmupEnd \in Nat
    BY <1>2, <1>0, ConfigFacts
    DEF WarmupFrame, RunInv, PendingInOrder, TypeOK, TimedMeasuredOnce
  <2>1. f \in FrameType /\ f.path = pos + 1 /\ f.row = pos + 1 /\ f.lb = pos + 1
    BY <2>0 DEF Frame, FrameType
  <2>h. Handled = pos /\ Handled' = pos + 1
    BY <2>0 DEF Handled
  <2>2. /\ predicted' \in Seq(FrameType)
        /\ OwnRowOwnLetterbox'
        /\ PredictedOnce'
    <3>1. CASE cfg.client = "bench"
      <4>1. Collect(f)
        BY <1>2, <3>1 DEF WarmupFrame
      <4> QED
        <5>1. /\ Handled \in Nat /\ Handled' = Handled + 1 /\ Handled + 1 <= cfg.n
              /\ (cfg.client # "bench" => Handled + 1 > WarmupEnd)
              /\ f.path = Handled + 1 /\ f.row = Handled + 1 /\ f.lb = Handled + 1
          BY <2>0, <2>1, <2>h, <3>1
        <5> HIDE DEF f
        <5> QED
        BY <5>1, <4>1, <2>1, <1>0, <1>c, CollectStep
        DEF RunInv, TypeOK
    <3>2. CASE cfg.client # "bench"
      <4>1. predicted' = predicted
        BY <1>2, <3>2 DEF WarmupFrame
      <4>2. {p \in Wanted : p <= pos + 1} = {p \in Wanted : p <= pos}
        BY <3>2, <2>0, <1>0, ConfigFacts DEF Wanted, Images
      <4> QED
        BY <4>1, <4>2, <2>h, <1>w
        DEF RunInv, TypeOK, PredictedOnce, OwnRowOwnLetterbox
    <3> QED BY <3>1, <3>2
  <2>3. TypeOK'
    BY <2>0, <2>2, <1>c DEF RunInv, TypeOK
  <2> QED
    BY <2>0, <2>2, <2>3, <2>h, <1>w, <1>c, ConfigFacts, <1>0
    DEF RunInv, PendingInOrder, PhasePos, TimedMeasuredOnce,
        HandedOverBeforeNextCall, PublishedComplete
<1>3. CASE EndWarmup
  BY <1>3, <1>0, <1>w, ConfigFacts
  DEF RunInv, EndWarmup, TypeOK, PendingInOrder, PhasePos, TimedMeasuredOnce,
      PredictedOnce, OwnRowOwnLetterbox, HandedOverBeforeNextCall,
      PublishedComplete, Handled
<1>4. CASE MeasureOne \/ LaneFrame
  <2> DEFINE f == Frame(pos + 1, pos + 1, pos + 1)
  <2>0. /\ phase = "measure" /\ pos < cfg.n
        /\ pos' = pos + 1 /\ calls' = calls + 1
        /\ phase' = phase /\ pending' = pending
        /\ samples' = Append(samples, pos + 1)
        /\ scoredOn' = scoredOn /\ pos \in Nat /\ calls \in Nat
        /\ samples \in Seq(Nat) /\ WarmupEnd \in Nat /\ cfg.n \in Nat
        /\ Collect(f)
    BY <1>4, <1>0, ConfigFacts DEF MeasureOne, LaneFrame, RunInv, TypeOK
  <2>p. pending = <<>>
    <3>1. phase # "measure" \/ cfg.batch <= 1
      BY <1>4, <1>0 DEF MeasureOne, LaneFrame, Config, RunConfigs, LaneConfigs
    <3> QED BY <3>1 DEF RunInv, PendingInOrder
  <2>1. f \in FrameType /\ f.path = pos + 1 /\ f.row = pos + 1 /\ f.lb = pos + 1
    BY <2>0 DEF Frame, FrameType
  <2>h. Handled = pos /\ Handled' = pos + 1 /\ WarmupEnd <= pos
    BY <2>0, <2>p DEF Handled, RunInv, PhasePos
  <2>2. /\ predicted' \in Seq(FrameType)
        /\ OwnRowOwnLetterbox'
        /\ PredictedOnce'
    BY <2>0, <2>1, <2>h, <1>0, <1>c, CollectStep DEF RunInv, TypeOK
  <2>s. /\ samples' \in Seq(Nat) /\ Len(samples') = Len(samples) + 1
        /\ \A k \in 1 .. Len(samples) : samples'[k] = samples[k]
        /\ samples'[Len(samples) + 1] = pos + 1
    BY <2>0, AppendProperties
  <2>3. TypeOK'
    BY <2>0, <2>2, <2>s, <1>c DEF RunInv, TypeOK
  <2>4. TimedMeasuredOnce'
    BY <2>0, <2>s, <2>h, <1>w DEF RunInv, TimedMeasuredOnce
  <2> QED
    BY <2>0, <2>p, <2>2, <2>3, <2>4, <2>h, <1>w, <1>c, ConfigFacts, <1>0
    DEF RunInv, PendingInOrder, PhasePos, HandedOverBeforeNextCall, PublishedComplete
<1>5. CASE InferBatch
  <2> DEFINE b == SliceLen
             res == [j \in 1 .. b |-> Frame(pos + j, pos + j, pos + j)]
  <2>0. /\ phase = "measure" /\ pos < cfg.n /\ pending = <<>>
        /\ pos' = pos + b /\ calls' = calls + 1 /\ pending' = res
        /\ phase' = phase /\ samples' = samples /\ predicted' = predicted
        /\ scoredOn' = scoredOn /\ pos \in Nat /\ calls \in Nat
    BY <1>5 DEF InferBatch, RunInv, TypeOK
  <2>1. b \in Nat /\ b >= 1 /\ b <= cfg.batch /\ pos + b <= cfg.n
    BY <2>0, <1>0, ConfigFacts DEF SliceLen
  <2>2. res \in Seq(FrameType) /\ Len(res) = b
        /\ \A k \in 1 .. b : res[k] = [path |-> pos + k, row |-> pos + k,
                                       lb |-> pos + k, call |-> calls + 1]
    BY <2>0, <2>1 DEF Frame, FrameType
  <2>h. Handled = pos /\ Handled' = pos
    BY <2>0, <2>1, <2>2 DEF Handled
  <2>3. TypeOK'
    BY <2>0, <2>1, <2>2, <1>c, <1>0, ConfigFacts DEF RunInv, TypeOK
  <2>4. \A k \in 1 .. Len(pending') :
           pending'[k] = [path |-> Handled' + k, row |-> Handled' + k,
                          lb |-> Handled' + k, call |-> calls']
    <3> HIDE DEF res
    <3> QED BY <2>0, <2>1, <2>2, <2>h
  <2>5. PendingInOrder'
    <3>1. ~(cfg.batch' <= 1)
      BY <1>5, <1>c, <1>0, ConfigFacts DEF InferBatch
    <3>2. phase' = "measure"
      BY <2>0
    <3> HIDE DEF res
    <3> QED BY <3>1, <3>2, <2>4 DEF PendingInOrder
  <2>6. HandedOverBeforeNextCall'
    <3>1. Len(pending') <= cfg.batch'
      BY <2>0, <2>1, <2>2, <1>c
    <3>2. \A k \in 1 .. Len(pending') : pending'[k].call = calls'
      <4> TAKE k \in 1 .. Len(pending')
      <4>1. pending'[k] = [path |-> Handled' + k, row |-> Handled' + k,
                           lb |-> Handled' + k, call |-> calls']
        BY <2>4
      <4>2. [path |-> Handled' + k, row |-> Handled' + k,
             lb |-> Handled' + k, call |-> calls'].call = calls'
        OBVIOUS
      <4> HIDE DEF res
      <4> QED BY <4>1, <4>2
    <3> QED BY <3>1, <3>2 DEF HandedOverBeforeNextCall
  <2> QED
    BY <2>0, <2>3, <2>5, <2>6, <2>h, <1>w, <1>c
    DEF RunInv, PhasePos, TimedMeasuredOnce, PredictedOnce, OwnRowOwnLetterbox,
        PublishedComplete
<1>6. CASE CollectPending
  <2> DEFINE f == Head(pending)
  <2>0. /\ phase = "measure" /\ pending # <<>>
        /\ pos' = pos /\ calls' = calls /\ pending' = Tail(pending)
        /\ phase' = phase /\ samples' = Append(samples, f.path)
        /\ scoredOn' = scoredOn /\ pos \in Nat /\ calls \in Nat
        /\ pending \in Seq(FrameType) /\ samples \in Seq(Nat) /\ Collect(f)
        /\ pos <= cfg.n /\ WarmupEnd \in Nat /\ cfg.n \in Nat
    BY <1>6, <1>0, ConfigFacts DEF CollectPending, RunInv, TypeOK
  <2>1. /\ Len(pending) \in Nat /\ Len(pending) >= 1 /\ f = pending[1] /\ f \in FrameType
        /\ Tail(pending) \in Seq(FrameType)
        /\ Len(Tail(pending)) = Len(pending) - 1
        /\ \A k \in 1 .. Len(Tail(pending)) : Tail(pending)[k] = pending[k + 1]
    BY <2>0
  <2>h. /\ Handled \in Nat /\ Handled' = Handled + 1 /\ WarmupEnd <= Handled
        /\ Handled + 1 <= pos
    BY <2>0, <2>1 DEF Handled, RunInv, PhasePos
  <2>2. f.path = Handled + 1 /\ f.row = Handled + 1 /\ f.lb = Handled + 1
    BY <2>0, <2>1 DEF RunInv, PendingInOrder
  <2>3. /\ predicted' \in Seq(FrameType)
        /\ OwnRowOwnLetterbox'
        /\ PredictedOnce'
    <3>1. Handled + 1 <= cfg.n
      BY <2>0, <2>h
    <3> QED
      BY <3>1, <2>0, <2>1, <2>2, <2>h, <1>0, <1>c, CollectStep DEF RunInv, TypeOK
  <2>s. /\ samples' \in Seq(Nat) /\ Len(samples') = Len(samples) + 1
        /\ \A k \in 1 .. Len(samples) : samples'[k] = samples[k]
        /\ samples'[Len(samples) + 1] = Handled + 1
    BY <2>0, <2>2, <2>h, AppendProperties
  <2>4. TypeOK'
    BY <2>0, <2>1, <2>3, <2>s, <1>c DEF RunInv, TypeOK
  <2>5. TimedMeasuredOnce'
    BY <2>0, <2>s, <2>h, <1>w DEF RunInv, TimedMeasuredOnce
  <2>6. PendingInOrder'
    <3>1. \A k \in 1 .. Len(pending') :
             pending'[k] = [path |-> Handled' + k, row |-> Handled' + k,
                            lb |-> Handled' + k, call |-> calls]
      <4> TAKE k \in 1 .. Len(pending')
      <4>1. pending'[k] = pending[k + 1] /\ k + 1 \in 1 .. Len(pending)
        BY <2>0, <2>1
      <4>2. Handled + (k + 1) = Handled' + k
        BY <2>h
      <4> QED BY <4>1, <4>2 DEF RunInv, PendingInOrder
    <3>2. cfg.batch > 1
      BY <2>0, <1>0, ConfigFacts DEF RunInv, PendingInOrder
    <3> QED BY <3>1, <3>2, <2>0, <1>c, <1>0, ConfigFacts DEF PendingInOrder
  <2>7. HandedOverBeforeNextCall'
    <3>1. \A k \in 1 .. Len(pending') :
             pending'[k] = pending[k + 1] /\ k + 1 \in 1 .. Len(pending)
      BY <2>0, <2>1
    <3>2. Len(pending') <= cfg.batch
      BY <2>0, <2>1, <1>0, ConfigFacts DEF RunInv, HandedOverBeforeNextCall
    <3> QED BY <3>1, <3>2, <2>0, <1>c DEF RunInv, HandedOverBeforeNextCall
  <2> QED
    BY <2>0, <2>3, <2>4, <2>5, <2>6, <2>7, <2>h, <1>w, <1>c
    DEF RunInv, PhasePos, PublishedComplete
<1>7. CASE Fails
  BY <1>7, <1>0, <1>w, <1>c, ConfigFacts
  DEF RunInv, Fails, TypeOK, PendingInOrder, PhasePos, TimedMeasuredOnce,
      PredictedOnce, OwnRowOwnLetterbox, HandedOverBeforeNextCall,
      PublishedComplete, Handled
<1>8. CASE LeaveLoop
  <2>1. {p \in Wanted : p <= cfg.n} = Wanted
    BY <1>0, ConfigFacts DEF Wanted, Images
  <2>2. Handled = cfg.n /\ Handled' = cfg.n
    BY <1>8, <1>0, <1>c, ConfigFacts DEF LeaveLoop, Handled
  <2>3. scoredOn' = {}
    BY <1>8 DEF LeaveLoop, RunInv, PhasePos
  <2>4. /\ phase = "measure" /\ phase' = "written" /\ pos = cfg.n /\ pending = <<>>
        /\ UNCHANGED <<cfg, pos, calls, pending, samples, predicted, scoredOn>>
    BY <1>8 DEF LeaveLoop
  <2>5. TypeOK' /\ PendingInOrder' /\ OwnRowOwnLetterbox' /\ HandedOverBeforeNextCall'
    BY <2>4 DEF RunInv, TypeOK, PendingInOrder, OwnRowOwnLetterbox,
                HandedOverBeforeNextCall, Handled
  <2>6. PhasePos' /\ TimedMeasuredOnce' /\ PredictedOnce'
    BY <2>4, <2>2, <1>w, <2>3
    DEF RunInv, PhasePos, TimedMeasuredOnce, PredictedOnce
  <2>7. PublishedComplete'
    BY <2>1, <2>2, <2>3, <2>4, <1>w
    DEF RunInv, PublishedComplete, TimedMeasuredOnce, PredictedOnce
  <2> QED BY <2>5, <2>6, <2>7 DEF RunInv
<1>9. CASE Score \/ LaneScore
  <2>1. PredictedIds \subseteq Images \ cfg.unknown
    BY <1>9, <1>0, ConfigFacts
    DEF Score, LaneScore, PredictedIds, RunInv, PublishedComplete, Wanted, Images
  <2>2. scoredOn' \subseteq Images \ cfg.unknown
    BY <1>9, <2>1 DEF Score, LaneScore, EvaluatedByCli
  <2>3. Images \subseteq Nat
    BY DEF Images
  <2>4. /\ phase = "written" /\ phase' = "done"
        /\ UNCHANGED <<cfg, pos, calls, pending, samples, predicted>>
    BY <1>9 DEF Score, LaneScore
  <2>5. TypeOK' /\ PendingInOrder' /\ OwnRowOwnLetterbox' /\ HandedOverBeforeNextCall'
    BY <2>4, <2>2, <2>3 DEF RunInv, TypeOK, PendingInOrder, OwnRowOwnLetterbox,
                HandedOverBeforeNextCall, Handled
  <2>6. PhasePos' /\ TimedMeasuredOnce' /\ PredictedOnce'
    BY <2>4, <1>w
    DEF RunInv, PhasePos, TimedMeasuredOnce, PredictedOnce, Handled
  <2>7. PublishedComplete'
    BY <2>2, <2>4, <1>w DEF RunInv, PublishedComplete
  <2> QED BY <2>5, <2>6, <2>7 DEF RunInv
<1>10. CASE ScoreRefused
  BY <1>10, <1>0, <1>w, <1>c, ConfigFacts
  DEF RunInv, ScoreRefused, TypeOK, PendingInOrder, PhasePos, TimedMeasuredOnce,
      PredictedOnce, OwnRowOwnLetterbox, HandedOverBeforeNextCall,
      PublishedComplete, Handled
<1>11. CASE UNCHANGED vars
  BY <1>11, <1>w, <1>c
  DEF vars, RunInv, TypeOK, PendingInOrder, PhasePos, TimedMeasuredOnce,
      PredictedOnce, OwnRowOwnLetterbox, HandedOverBeforeNextCall,
      PublishedComplete, Handled
<1> QED
  BY <1>1, <1>2, <1>3, <1>4, <1>5, <1>6, <1>7, <1>8, <1>9, <1>10, <1>11
  DEF Next, Step, Finished

-----------------------------------------------------------------------------
(* The theorems.                                                           *)

\* The inductive invariant holds in every state of every run.
THEOREM RunInvariance == Spec => []RunInv
<1>1. Init => RunInv
  BY InitRunInv
<1>2. RunInv /\ [Next]_vars => RunInv'
  BY StepRunInv
<1> QED BY <1>1, <1>2, PTL DEF Spec

\* The variables of a run keep their types; the listing is never overrun.
THEOREM RunTypes == Spec => []TypeOK
<1>1. RunInv => TypeOK
  BY DEF RunInv
<1> QED BY <1>1, RunInvariance, PTL

\* Every measured frame gives one timing sample, in order, and no warmup frame
\* does, for every batch size.
THEOREM TimedOnce == Spec => []TimedMeasuredOnce
<1>1. RunInv => TimedMeasuredOnce
  BY DEF RunInv
<1> QED BY <1>1, RunInvariance, PTL

\* The predictions are those of the wanted frames handled so far, each once.
THEOREM PredictedOnceOnly == Spec => []PredictedOnce
<1>1. RunInv => PredictedOnce
  BY DEF RunInv
<1> QED BY <1>1, RunInvariance, PTL

\* Batching never mixes up rows and letterboxes.
THEOREM RowsMatchLetterboxes == Spec => []OwnRowOwnLetterbox
<1>1. RunInv => OwnRowOwnLetterbox
  BY DEF RunInv
<1> QED BY <1>1, RunInvariance, PTL

\* At most one batch of results is held, all of the last backend call.
THEOREM BoundedInHand == Spec => []HandedOverBeforeNextCall
<1>1. RunInv => HandedOverBeforeNextCall
  BY DEF RunInv
<1> QED BY <1>1, RunInvariance, PTL

\* Only complete runs are written and scored.
THEOREM CompleteWhenPublished == Spec => []PublishedComplete
<1>1. RunInv => PublishedComplete
  BY DEF RunInv
<1> QED BY <1>1, RunInvariance, PTL

=============================================================================
