----------------------------- MODULE MCAra2Infer -----------------------------
(***************************************************************************)
(* Instances of Ara2Infer for TLC.  Five images in chunks of three give an *)
(* odd split (3 = 1 + 2), a short last chunk and a second split of a half; *)
(* the image that may be bad is in the middle of the first chunk.          *)
(***************************************************************************)
EXTENDS Ara2Infer

OneBadImage == {1}

=============================================================================
