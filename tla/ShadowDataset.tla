---------------------------- MODULE ShadowDataset ----------------------------
(***************************************************************************)
(* benchmarks/coco_dataset.py: the shadow COCO data set that setup_shadow  *)
(* builds on disk and the N-image subset that make_subset cuts from it, as *)
(* run_benchmark_a, batch_sweep and qnn_infer call them: one process at a  *)
(* time, which may die at any point and be started again.                  *)
(*                                                                         *)
(* The images are 1 .. NImages in the order of their file names; the       *)
(* ground truth lists the same images.                                     *)
(***************************************************************************)
EXTENDS Integers, FiniteSets

CONSTANTS
    NImages,      \* images in images_dir
    Annotated,    \* images for which convert_coco writes a label file
    SubsetSize,   \* n of make_subset
    Calls,        \* the arguments runs are made with
    MaxCrashes    \* bound on crashes

Images == 1 .. NImages

\* all_images[:n]
Selected == {i \in Images : i <= SubsetSize}

\* force of setup_shadow; whether make_subset is called and its own force.
Call == [force : BOOLEAN, subset : BOOLEAN, subForce : BOOLEAN]

ASSUME DatasetAssumption ==
    /\ NImages \in Nat \ {0}
    /\ Annotated \subseteq 1 .. NImages
    /\ Annotated # {}
    /\ SubsetSize \in Nat \ {0}
    /\ Calls \subseteq Call
    /\ MaxCrashes \in Nat

VARIABLES
    pc,         \* where the running process is; "off" when none runs
    call,       \* its arguments
    converted,  \* label files in its temporary directory
    links,      \* images/val2017 of the shadow
    annLink,    \* annotations/instances_val2017.json
    labels,     \* labels/val2017
    list,       \* images/val2017.txt
    yaml,       \* coco-val.yaml
    subGt,      \* the filtered ground truth of the subset
    subLinks,   \* its images/val2017
    subLabels,  \* its labels/val2017
    subList,    \* its images/val2017.txt
    subYaml,    \* its yaml
    crashes     \* crashes so far

shadow == <<links, annLink, labels, list, yaml>>
subset == <<subGt, subLinks, subLabels, subList, subYaml>>
vars == <<pc, call, converted, links, annLink, labels, list, yaml,
          subGt, subLinks, subLabels, subList, subYaml, crashes>>

\* A file that is absent, cut short or written.
FileState == {"none", "torn", "whole"}

Init ==
    /\ pc = "off"
    /\ call \in Calls
    /\ converted = {}
    /\ links = {}
    /\ annLink = FALSE
    /\ labels = {}
    /\ list = "none"
    /\ yaml = "none"
    /\ subGt = "none"
    /\ subLinks = {}
    /\ subLabels = {}
    /\ subList = "none"
    /\ subYaml = "none"
    /\ crashes = 0

-----------------------------------------------------------------------------
(* setup_shadow.                                                           *)

StartRun ==
    /\ pc = "off"
    /\ call' \in Calls
    /\ pc' = "check"
    /\ converted' = {}
    /\ UNCHANGED <<shadow, subset, crashes>>

\* Mutant: a run never takes the shadow for built.
NeverBuilt == FALSE

\* yaml_path.exists() and any(labels_dir.iterdir()), unless forced.
LooksBuilt == yaml # "none" /\ labels # {} /\ ~call.force

AlreadyBuilt ==
    /\ pc = "check"
    /\ LooksBuilt
    /\ pc' = "subCheck"
    /\ UNCHANGED <<call, converted, shadow, subset, crashes>>

\* Mutant: the yaml is written first.
YamlFirst ==
    /\ pc = "check"
    /\ ~LooksBuilt
    /\ pc' = "links"
    /\ yaml' = "whole"
    /\ UNCHANGED <<call, converted, links, annLink, labels, list, subset, crashes>>

NotBuilt ==
    /\ pc = "check"
    /\ ~LooksBuilt
    /\ pc' = "links"
    /\ UNCHANGED <<call, converted, shadow, subset, crashes>>

\* The next missing link in the order of the file names.
LinkImage ==
    /\ pc = "links"
    /\ \E i \in Images \ links :
          /\ \A j \in Images \ links : i <= j
          /\ links' = links \cup {i}
    /\ UNCHANGED <<pc, call, converted, annLink, labels, list, yaml, subset, crashes>>

\* All images are linked: the annotations follow.
LinkAnnotations ==
    /\ pc = "links"
    /\ links = Images
    /\ annLink' = TRUE
    /\ pc' = "convert"
    /\ UNCHANGED <<call, converted, links, labels, list, yaml, subset, crashes>>

\* Mutant: force does not reach the conversion.
KeepLabelsForced ==
    /\ pc = "convert"
    /\ labels # {}
    /\ pc' = "list"
    /\ UNCHANGED <<call, converted, shadow, subset, crashes>>

\* already_converted: some label file is there.
KeepLabels ==
    /\ pc = "convert"
    /\ labels # {} /\ ~call.force
    /\ pc' = "list"
    /\ UNCHANGED <<call, converted, shadow, subset, crashes>>

\* convert_coco into a fresh temporary directory.
Convert ==
    /\ pc = "convert"
    /\ labels = {} \/ call.force
    /\ converted' = Annotated
    /\ pc' = "move"
    /\ UNCHANGED <<call, shadow, subset, crashes>>

\* Label files move one by one, in the order of the directory.
MoveLabel ==
    /\ pc = "move"
    /\ \E l \in converted :
          /\ converted' = converted \ {l}
          /\ labels' = labels \cup {l}
    /\ UNCHANGED <<pc, call, links, annLink, list, yaml, subset, crashes>>

\* Mutant: not all files are moved.
MoveSome ==
    /\ pc = "move"
    /\ labels # {}
    /\ pc' = "list"
    /\ UNCHANGED <<call, converted, shadow, subset, crashes>>

LabelsMoved ==
    /\ pc = "move"
    /\ converted = {}
    /\ pc' = "list"
    /\ UNCHANGED <<call, converted, shadow, subset, crashes>>

\* _write_val_txt: the images linked in the shadow.
WriteList ==
    /\ pc = "list"
    /\ list' = "whole"
    /\ pc' = "yaml"
    /\ UNCHANGED <<call, converted, links, annLink, labels, yaml, subset, crashes>>

\* _write_dataset_yaml, the last step: what LooksBuilt asks for.
WriteYaml ==
    /\ pc = "yaml"
    /\ yaml' = "whole"
    /\ pc' = "subCheck"
    /\ UNCHANGED <<call, converted, links, annLink, labels, list, subset, crashes>>

-----------------------------------------------------------------------------
(* make_subset.                                                            *)

\* No --max-images: the full data set is used.
NoSubset ==
    /\ pc = "subCheck"
    /\ ~call.subset
    /\ pc' = "done"
    /\ UNCHANGED <<call, converted, shadow, subset, crashes>>

SubsetBuilt ==
    /\ pc = "subCheck"
    /\ call.subset
    /\ subYaml # "none" /\ ~call.subForce
    /\ pc' = "done"
    /\ UNCHANGED <<call, converted, shadow, subset, crashes>>

SubsetNotBuilt ==
    /\ pc = "subCheck"
    /\ call.subset
    /\ subYaml = "none" \/ call.subForce
    /\ pc' = "subGt"
    /\ UNCHANGED <<call, converted, shadow, subset, crashes>>

WriteSubsetGt ==
    /\ pc = "subGt"
    /\ subGt' = "whole"
    /\ pc' = "subLinks"
    /\ UNCHANGED <<call, converted, shadow, subLinks, subLabels, subList, subYaml, crashes>>

LinkSubsetImage ==
    /\ pc = "subLinks"
    /\ \E i \in Selected \ subLinks : subLinks' = subLinks \cup {i}
    /\ UNCHANGED <<pc, call, converted, shadow, subGt, subLabels, subList, subYaml, crashes>>

SubsetImagesLinked ==
    /\ pc = "subLinks"
    /\ Selected \subseteq subLinks
    /\ pc' = "subLabels"
    /\ UNCHANGED <<call, converted, shadow, subset, crashes>>

\* not link.exists() and target.exists()
Linkable == (Selected \cap labels) \ subLabels

LinkSubsetLabel ==
    /\ pc = "subLabels"
    /\ \E i \in Linkable : subLabels' = subLabels \cup {i}
    /\ UNCHANGED <<pc, call, converted, shadow, subGt, subLinks, subList, subYaml, crashes>>

SubsetLabelsLinked ==
    /\ pc = "subLabels"
    /\ Linkable = {}
    /\ pc' = "subList"
    /\ UNCHANGED <<call, converted, shadow, subset, crashes>>

WriteSubsetList ==
    /\ pc = "subList"
    /\ subList' = "whole"
    /\ pc' = "subYaml"
    /\ UNCHANGED <<call, converted, shadow, subGt, subLinks, subLabels, subYaml, crashes>>

\* Again the last step, and the only one the next run asks for.
WriteSubsetYaml ==
    /\ pc = "subYaml"
    /\ subYaml' = "whole"
    /\ pc' = "done"
    /\ UNCHANGED <<call, converted, shadow, subGt, subLinks, subLabels, subList, crashes>>

\* The benchmark uses the data set and the process ends.
ProcessEnds ==
    /\ pc = "done"
    /\ pc' = "off"
    /\ UNCHANGED <<call, converted, shadow, subset, crashes>>

-----------------------------------------------------------------------------
(* Crashes.                                                                *)

Running == pc \notin {"off", "done"}

\* The process is killed between two steps, or a step raises.
Crash ==
    /\ Running
    /\ crashes < MaxCrashes
    /\ crashes' = crashes + 1
    /\ pc' = "off"
    /\ UNCHANGED <<call, converted, shadow, subset>>

\* What write_text or json.dump was writing stays cut short.
Cut(step, file) == IF pc = step THEN "torn" ELSE file

CrashWriting ==
    /\ pc \in {"list", "yaml", "subGt", "subList", "subYaml"}
    /\ crashes < MaxCrashes
    /\ crashes' = crashes + 1
    /\ pc' = "off"
    /\ list' = Cut("list", list)
    /\ yaml' = Cut("yaml", yaml)
    /\ subGt' = Cut("subGt", subGt)
    /\ subList' = Cut("subList", subList)
    /\ subYaml' = Cut("subYaml", subYaml)
    /\ UNCHANGED <<call, converted, links, annLink, labels, subLinks, subLabels>>

Setup ==
    \/ StartRun \/ AlreadyBuilt \/ NotBuilt \/ LinkImage \/ LinkAnnotations
    \/ KeepLabels \/ Convert \/ MoveLabel \/ LabelsMoved \/ WriteList \/ WriteYaml

Subset ==
    \/ NoSubset \/ SubsetBuilt \/ SubsetNotBuilt \/ WriteSubsetGt
    \/ LinkSubsetImage \/ SubsetImagesLinked \/ LinkSubsetLabel
    \/ SubsetLabelsLinked \/ WriteSubsetList \/ WriteSubsetYaml \/ ProcessEnds

Next == Setup \/ Subset \/ Crash \/ CrashWriting

Spec == Init /\ [][Next]_vars

-----------------------------------------------------------------------------
(* Properties.                                                             *)

\* Types; each file on disk is one the functions make.
TypeOK ==
    /\ pc \in {"off", "check", "links", "convert", "move", "list", "yaml",
               "subCheck", "subGt", "subLinks", "subLabels", "subList",
               "subYaml", "done"}
    /\ call \in Call
    /\ converted \subseteq Annotated
    /\ links \subseteq Images
    /\ annLink \in BOOLEAN
    /\ labels \subseteq Annotated
    /\ {list, yaml, subGt, subList, subYaml} \subseteq FileState
    /\ subLinks \subseteq Selected
    /\ subLabels \subseteq Selected
    /\ crashes \in Nat

\* All that setup_shadow promises to create.
ShadowComplete ==
    /\ links = Images
    /\ annLink
    /\ labels = Annotated
    /\ list = "whole"
    /\ yaml = "whole"

SubsetComplete ==
    /\ subGt = "whole"
    /\ subLinks = Selected
    /\ subLabels = Selected \cap Annotated
    /\ subList = "whole"
    /\ subYaml = "whole"

\* setup_shadow has returned to the process that runs.
Returned ==
    pc \in {"subCheck", "subGt", "subLinks", "subLabels", "subList", "subYaml", "done"}

\* The yaml marks a shadow whose images and annotations are all linked and
\* which has labels: what is written last is not there before the rest, in
\* the first build, in a rebuild and after any number of crashes.
MarkerLast ==
    yaml # "none" => links = Images /\ annLink /\ labels # {}

\* As long as no process has died, what setup_shadow and make_subset return is
\* complete.
CleanBuildComplete ==
    crashes = 0 =>
        /\ Returned => ShadowComplete
        /\ pc = "done" /\ call.subset => SubsetComplete

\* The way out the log line names: whatever crashes left behind, a rebuild with
\* force=True that returns has repaired the shadow.
ForcedRebuildComplete == Returned /\ call.force => ShadowComplete

\* The links of a subset never dangle: their targets exist in the shadow.
NoDanglingLinks ==
    /\ subLinks \subseteq links
    /\ subLabels \subseteq labels

\* Idempotence: a run that is not forced leaves a shadow that is marked as
\* built alone, from its first step to its last (also when a crash cut the
\* yaml short: only a forced run repairs that).
BuiltStaysUntouched ==
    [][yaml # "none" /\ ~call.force => UNCHANGED shadow]_vars

\* What each step of a build can rely on.
BuildProgress ==
    /\ pc \in {"convert", "move", "list", "yaml"} => links = Images
    /\ pc \in {"convert", "move", "list", "yaml"} => annLink
    /\ pc = "move" => labels \cup converted = Annotated
    /\ pc \in {"list", "yaml"} => labels # {}
    /\ pc \in {"list", "yaml"} /\ call.force => labels = Annotated
    /\ pc = "yaml" => list = "whole"
    /\ pc \in {"links", "convert", "move", "list", "yaml"} /\ ~call.force =>
          yaml = "none"
    /\ Returned => yaml # "none"

\* As long as nothing has crashed no build is left half done.
CleanHistory ==
    crashes = 0 =>
        /\ "torn" \notin {list, yaml, subGt, subList, subYaml}
        /\ pc # "move" => labels \in {{}, Annotated}
        /\ yaml = "whole" => labels = Annotated /\ list = "whole"
        /\ subYaml = "whole" => SubsetComplete
        /\ pc \in {"subLinks", "subLabels", "subList", "subYaml"} => subGt = "whole"
        /\ pc \in {"subLabels", "subList", "subYaml"} => subLinks = Selected
        /\ pc \in {"subList", "subYaml"} => subLabels = Selected \cap Annotated
        /\ pc = "subYaml" => subList = "whole"
        /\ pc = "done" /\ call.subset => subYaml = "whole"

\* The inductive invariant.
DiskInv ==
    /\ TypeOK
    /\ MarkerLast
    /\ NoDanglingLinks
    /\ BuildProgress
    /\ CleanHistory
    /\ CleanBuildComplete
    /\ ForcedRebuildComplete

\* setup_shadow: "Build a shadow COCO dataset (idempotent)", with "YOLO-format
\* labels via convert_coco": what it returns has all the labels.
LabelsComplete == Returned => labels = Annotated

=============================================================================
