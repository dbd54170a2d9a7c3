---------------------------- MODULE MC_StatusDb ----------------------------
(***************************************************************************)
(* Small instances of StatusDb for TLC.                                    *)
(***************************************************************************)
EXTENDS StatusDb, TLC

(* Process deaths between an operation on updates/ and its fsync pile up   *)
(* states that a power failure may leave.  Three of them are enough for a  *)
(* journal that is half unlinked; the proofs have no such bound.           *)
CONSTANT MaxViews

FewViews == Cardinality(uViews) <= MaxViews

Symmetry == Permutations(Pkgs)
=============================================================================
