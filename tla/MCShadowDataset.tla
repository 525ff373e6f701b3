--------------------------- MODULE MCShadowDataset ---------------------------
(***************************************************************************)
(* Instances of ShadowDataset for TLC: three images of which two have      *)
(* labels, one of these inside the subset of two: a crash can leave either *)
(* label alone, and the subset has an image without labels.                *)
(***************************************************************************)
EXTENDS ShadowDataset

FewAnnotated == {2, 3}

\* Every combination of the arguments; the benchmark's own calls never force.
AnyCall == Call
BenchmarkCalls == {[force |-> FALSE, subset |-> s, subForce |-> FALSE] : s \in BOOLEAN}

=============================================================================
