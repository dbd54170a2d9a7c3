-------------------------- MODULE StatusDbReaders --------------------------
(***************************************************************************)
(* What a reader of the status database sees.  modstatdb_open() with       *)
(* msdbrw_readonly takes no lock, so the writer goes on while the reader   *)
(* is between its read of status, its scandir() of updates/ and its reads  *)
(* of the entries it found.  Two history variables record what happened    *)
(* meanwhile.                                                              *)
(***************************************************************************)
EXTENDS StatusDb

VARIABLES
    overlap,   \* was status replaced, or an entry unlinked, while reading?
    snapshot   \* the database as it was when the reader listed updates/

Reading(p) == cstatus[p] = "readonly" /\ pc[p] \in {"scan", "parseUpdate"}

HistoryInit ==
    /\ overlap = [p \in Procs |-> FALSE]
    /\ snapshot = [p \in Procs |-> EmptyDb]

(* A checkpoint by some other process is a new status or a shorter journal. *)
CheckpointStep == status' # status \/ ~(Entries(updates) \subseteq Entries(updates)')

HistoryNext ==
    /\ overlap' = [p \in Procs |->
                     IF pc'[p] \in {"closed", "parseStatus"} THEN FALSE
                     ELSE overlap[p] \/ (Reading(p) /\ CheckpointStep)]
    /\ snapshot' = [p \in Procs |->
                     IF pc'[p] = "closed" THEN EmptyDb
                     ELSE IF At(p, "scan") /\ pc'[p] # "scan" THEN Recover(status, updates)
                     ELSE snapshot[p]]

ReadersInit == Init /\ HistoryInit
ReadersNext == Next /\ HistoryNext
ReadersSpec == ReadersInit /\ [][ReadersNext]_<<vars, overlap, snapshot>>
                           /\ \A p \in Procs : WF_vars(Continue(p))

(***************************************************************************)
(* A reader that no checkpoint overtook has exactly the database as it was *)
(* at one instant, whatever the writer noted in the meantime: an entry of  *)
(* the journal is complete when it gets its name and is never rewritten.   *)
(***************************************************************************)
ReaderSeesSnapshot ==
    \A p \in Procs :
        cstatus[p] = "readonly" /\ At(p, "ready") /\ ~overlap[p]
            => mem[p] = snapshot[p]
=============================================================================
