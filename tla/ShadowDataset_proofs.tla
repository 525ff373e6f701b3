------------------------ MODULE ShadowDataset_proofs ------------------------
(***************************************************************************)
(* Proofs about setup_shadow and make_subset, for every set of images and  *)
(* annotations, subset size, arguments of the runs and bound on crashes.   *)
(***************************************************************************)
EXTENDS ShadowDataset, TLAPS

USE DatasetAssumption

\* The empty directory.
LEMMA InitDiskInv == Init => DiskInv
<1> SUFFICES ASSUME Init PROVE DiskInv
  OBVIOUS
<1>1. TypeOK
  BY DEF Init, TypeOK, FileState
<1>2. CleanHistory
  BY DEF Init, CleanHistory
<1> QED
  BY <1>1, <1>2
  DEF Init, DiskInv, MarkerLast, NoDanglingLinks, BuildProgress,
      CleanBuildComplete, ForcedRebuildComplete, Returned

\* The steps of setup_shadow keep the invariant.
LEMMA SetupStep ==
    ASSUME DiskInv, Setup
    PROVE  DiskInv'
<1> USE DEF DiskInv, TypeOK, MarkerLast, NoDanglingLinks, BuildProgress,
            CleanHistory, CleanBuildComplete, ForcedRebuildComplete,
            ShadowComplete, SubsetComplete, Returned, FileState, shadow, subset,
            Call
<1>1. CASE StartRun
  BY <1>1 DEF StartRun
<1>2. CASE AlreadyBuilt
  BY <1>2 DEF AlreadyBuilt, LooksBuilt
<1>3. CASE NotBuilt
  BY <1>3 DEF NotBuilt, LooksBuilt
<1>4. CASE LinkImage
  BY <1>4 DEF LinkImage, Images
<1>5. CASE LinkAnnotations
  BY <1>5 DEF LinkAnnotations
<1>6. CASE KeepLabels
  BY <1>6 DEF KeepLabels
<1>7. CASE Convert
  BY <1>7 DEF Convert
<1>8. CASE MoveLabel
  BY <1>8 DEF MoveLabel
<1>9. CASE LabelsMoved
  BY <1>9 DEF LabelsMoved
<1>10. CASE WriteList
  BY <1>10 DEF WriteList
<1>11. CASE WriteYaml
  BY <1>11 DEF WriteYaml
<1> QED
  BY <1>1, <1>2, <1>3, <1>4, <1>5, <1>6, <1>7, <1>8, <1>9, <1>10, <1>11 DEF Setup

\* The steps of make_subset keep the invariant.
LEMMA SubsetStep ==
    ASSUME DiskInv, Subset
    PROVE  DiskInv'
<1> USE DEF DiskInv, TypeOK, MarkerLast, NoDanglingLinks, BuildProgress,
            CleanHistory, CleanBuildComplete, ForcedRebuildComplete,
            ShadowComplete, SubsetComplete, Returned, FileState, shadow, subset,
            Call
<1>1. CASE NoSubset
  BY <1>1 DEF NoSubset
<1>2. CASE SubsetBuilt
  BY <1>2 DEF SubsetBuilt
<1>3. CASE SubsetNotBuilt
  BY <1>3 DEF SubsetNotBuilt
<1>4. CASE WriteSubsetGt
  BY <1>4 DEF WriteSubsetGt, Images, Selected
<1>5. CASE LinkSubsetImage
  BY <1>5 DEF LinkSubsetImage, Images, Selected
<1>6. CASE SubsetImagesLinked
  BY <1>6 DEF SubsetImagesLinked
<1>7. CASE LinkSubsetLabel
  BY <1>7 DEF LinkSubsetLabel, Linkable
<1>8. CASE SubsetLabelsLinked
  BY <1>8 DEF SubsetLabelsLinked, Linkable
<1>9. CASE WriteSubsetList
  BY <1>9 DEF WriteSubsetList
<1>10. CASE WriteSubsetYaml
  BY <1>10 DEF WriteSubsetYaml
<1>11. CASE ProcessEnds
  BY <1>11 DEF ProcessEnds
<1> QED
  BY <1>1, <1>2, <1>3, <1>4, <1>5, <1>6, <1>7, <1>8, <1>9, <1>10, <1>11 DEF Subset

\* A crash keeps the invariant.
LEMMA FaultsStep ==
    ASSUME DiskInv, Crash \/ CrashWriting
    PROVE  DiskInv'
<1> USE DEF DiskInv, TypeOK, MarkerLast, NoDanglingLinks, BuildProgress,
            CleanHistory, CleanBuildComplete, ForcedRebuildComplete,
            ShadowComplete, SubsetComplete, Returned, FileState, shadow, subset,
            Call
<1>1. CASE Crash
  BY <1>1 DEF Crash, Running
<1>2. CASE CrashWriting
  BY <1>2 DEF CrashWriting, Cut
<1> QED
  BY <1>1, <1>2

\* The inductive invariant holds in every reachable state.
THEOREM DiskInvariance == Spec => []DiskInv
<1>1. Init => DiskInv
  BY InitDiskInv
<1>2. DiskInv /\ [Next]_vars => DiskInv'
  <2> SUFFICES ASSUME DiskInv, [Next]_vars PROVE DiskInv'
    OBVIOUS
  <2>1. CASE Next
    BY <2>1, SetupStep, SubsetStep, FaultsStep DEF Next
  <2>2. CASE UNCHANGED vars
    BY <2>2 DEF vars, DiskInv, TypeOK, MarkerLast, NoDanglingLinks, BuildProgress,
                CleanHistory, CleanBuildComplete, ForcedRebuildComplete,
                ShadowComplete, SubsetComplete, Returned
  <2> QED BY <2>1, <2>2
<1> QED BY <1>1, <1>2, PTL DEF Spec

\* The yaml is never there before the links, the annotations and labels.
THEOREM MarkerSafety == Spec => []MarkerLast
<1>1. DiskInv => MarkerLast
  BY DEF DiskInv
<1> QED BY <1>1, DiskInvariance, PTL

\* A forced rebuild that returns has repaired the shadow.
THEOREM ForcedRebuildSafety == Spec => []ForcedRebuildComplete
<1>1. DiskInv => ForcedRebuildComplete
  BY DEF DiskInv
<1> QED BY <1>1, DiskInvariance, PTL

\* What is returned is complete as long as nothing has crashed.
THEOREM CleanBuildSafety == Spec => []CleanBuildComplete
<1>1. DiskInv => CleanBuildComplete
  BY DEF DiskInv
<1> QED BY <1>1, DiskInvariance, PTL

\* The links of the subset have their targets in the shadow.
THEOREM LinkSafety == Spec => []NoDanglingLinks
<1>1. DiskInv => NoDanglingLinks
  BY DEF DiskInv
<1> QED BY <1>1, DiskInvariance, PTL

\* A run that is not forced changes nothing of a shadow marked as built.
THEOREM IdempotenceSafety == Spec => BuiltStaysUntouched
<1>1. DiskInv /\ [Next]_vars => [yaml # "none" /\ ~call.force => UNCHANGED shadow]_vars
  <2> SUFFICES ASSUME DiskInv, Next, yaml # "none", ~call.force PROVE UNCHANGED shadow
    OBVIOUS
  <2>1. pc \notin {"links", "convert", "move", "list", "yaml"}
    BY DEF DiskInv, BuildProgress
  <2> QED
    BY <2>1 DEF Next, Setup, Subset, shadow, StartRun, AlreadyBuilt, NotBuilt, LinkImage, LinkAnnotations, KeepLabels, Convert, MoveLabel, LabelsMoved, WriteList, WriteYaml, NoSubset, SubsetBuilt, SubsetNotBuilt, WriteSubsetGt, LinkSubsetImage, SubsetImagesLinked, LinkSubsetLabel, SubsetLabelsLinked, WriteSubsetList, WriteSubsetYaml, ProcessEnds, Crash, CrashWriting, Cut
<1> QED BY <1>1, DiskInvariance, PTL DEF Spec, BuiltStaysUntouched

=============================================================================
