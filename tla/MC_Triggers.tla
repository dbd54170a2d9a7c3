---------------------------- MODULE MC_Triggers ----------------------------
(***************************************************************************)
(* Small instances of Triggers for TLC.                                    *)
(***************************************************************************)
EXTENDS TriggersHistory, TLC, FiniteSets

CONSTANTS
    MaxUnincorp,    \* activations that may wait in Unincorp
    MaxInterested   \* packages that may be interested in some trigger

FewActivations ==
    /\ Cardinality(unincorp) <= MaxUnincorp
    /\ Cardinality({p \in Pkgs : \E t \in Trigs : interest[t][p] # "none"}) <= MaxInterested

Symmetry == Permutations(Pkgs)
=============================================================================
