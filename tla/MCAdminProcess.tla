--------------------------- MODULE MCAdminProcess ---------------------------
(***************************************************************************)
(* Small instances of AdminProcess for TLC.                                *)
(***************************************************************************)
EXTENDS AdminProcess, TLC

Symmetry == Permutations(Attempts) \cup Permutations(Requests)
=============================================================================
