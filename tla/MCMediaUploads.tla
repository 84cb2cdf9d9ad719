--------------------------- MODULE MCMediaUploads ---------------------------
(* A small instance of MediaUploads for TLC. *)
EXTENDS MediaUploads, TLC

MediaSymmetry ==
    Permutations(Assets) \cup Permutations(ValidBytes) \cup Permutations(Requests)
=============================================================================
