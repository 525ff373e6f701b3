---------------------------- MODULE MCDvapiWorker ----------------------------
(***************************************************************************)
(* An instance of DvapiWorker for TLC: one warm-up call and three measured *)
(* ones, so that a failed inference can follow a completed one, come first *)
(* and come last.                                                          *)
(***************************************************************************)
EXTENDS DvapiWorker

MCInit == Init
MCSpec == MCInit /\ [][Next]_vars

=============================================================================
