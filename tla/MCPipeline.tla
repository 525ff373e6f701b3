------------------------------ MODULE MCPipeline ------------------------------
(***************************************************************************)
(* Instances of Pipeline for TLC.  Listings of up to four images and       *)
(* batches of up to three give full, short and single-frame last batches   *)
(* for every length of the warmup.                                         *)
(***************************************************************************)
EXTENDS Pipeline

\* At most two special images, one of each kind.
FewSpecial ==
    /\ \A special \in {cfg.unreadable, cfg.blank, cfg.unknown} :
          Cardinality(special) <= 1 /\ special \subseteq Images
    /\ cfg.unreadable = {} \/ cfg.blank = {} \/ cfg.unknown = {}

MCInit == Init /\ FewSpecial

MCSpec == MCInit /\ [][Next]_vars /\ WF_vars(Step)

\* Two images, one of them without detections.
BlankInit ==
    /\ Init
    /\ cfg.n = 2
    /\ cfg.blank \subseteq {2}
    /\ cfg.unreadable = {}
    /\ cfg.unknown = {}

BlankSpec == BlankInit /\ [][Next]_vars

=============================================================================
