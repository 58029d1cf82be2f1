--------------------------- MODULE MCStickerImport ---------------------------
(***************************************************************************)
(* Small instances of StickerImport for TLC.                               *)
(***************************************************************************)
EXTENDS StickerImport, TLC

Symmetry == Permutations(Imports) \cup Permutations(Files)
=============================================================================
