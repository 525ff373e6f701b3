------------------------------- MODULE MCDecode -------------------------------
(***************************************************************************)
(* Instances of Decode for TLC: three anchors, one of which also scores in *)
(* a second class, so that four candidates can all have different scores,  *)
(* suppress each other in a chain, and exceed each of the limits.          *)
(***************************************************************************)
EXTENDS Decode

FewCells == \A a \in Anchors \ {1} : score[<<a, 2>>] = 0

MCInit == Init /\ FewCells
MCSpec == MCInit /\ [][Next]_vars

=============================================================================
