-------------------------- MODULE TriggersHistory --------------------------
(***************************************************************************)
(* What happens to an activation.  The history variable owed holds, for    *)
(* each package, the triggers of which it must still be told: they were    *)
(* activated while it was interested and configured, and it has remained   *)
(* configured since.                                                       *)
(***************************************************************************)
EXTENDS Triggers

VARIABLE owed

HistoryInit == owed = [q \in Pkgs |-> {}]

NewlyActivated == {a[1] : a \in unincorp' \ unincorp}

HistoryNext ==
    owed' = [q \in Pkgs |->
                IF disk'[q].status < TRIGGERSAWAITED THEN {}
                ELSE owed[q] \cup {t \in NewlyActivated : interest[t][q] # "none"}]

OwedInit == Init /\ HistoryInit

HistorySpec == OwedInit /\ [][Next /\ HistoryNext]_<<vars, owed>>

(***************************************************************************)
(* No activation is lost: what dpkg-trigger has recorded is in Unincorp or *)
(* among the pending triggers in the database, whenever dpkg dies.         *)
(***************************************************************************)
NoActivationLost ==
    \A q \in Pkgs : \A t \in owed[q] :
        t \in disk[q].trigpend \/ \E p \in Pkgs \cup {NoPkg} : <<t, p>> \in unincorp
=============================================================================
