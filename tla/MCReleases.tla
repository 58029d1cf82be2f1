---------------------------- MODULE MCReleases ----------------------------
(***************************************************************************)
(* Small instances of Releases for TLC.                                    *)
(***************************************************************************)
EXTENDS Releases, TLC

Symmetry == Permutations(Admins)
=============================================================================
