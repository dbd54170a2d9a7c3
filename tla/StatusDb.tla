------------------------------ MODULE StatusDb ------------------------------
(***************************************************************************)
(* The dpkg status database: lib/dpkg/dbmodify.c, with writedb() of        *)
(* lib/dpkg/dump.c and the atomic replacement of lib/dpkg/atomic-file.c.   *)
(*                                                                         *)
(* The database is one big file, status, plus a journal: a directory       *)
(* updates/ of numbered files, each holding the stanza of one package.     *)
(* A writer (dpkg) holds a lock; modstatdb_note() appends to the journal,  *)
(* modstatdb_checkpoint() rewrites status and then deletes the journal,    *)
(* and whoever opens the database next replays the journal over status.    *)
(* Readers (dpkg-query, dpkg -l) do the same reads with no lock at all.    *)
(*                                                                         *)
(* Every step below is one system call that another process, or a crash,   *)
(* can tell apart.  Two kinds of crash are modelled: a process dies (a     *)
(* signal, or an I/O error, which makes dpkg exit), and the power fails.   *)
(* After a power failure each directory is in one of the states it has     *)
(* passed through since its last fsync (dir_sync_path): sViews and uViews  *)
(* are these sets of states.  A file that was renamed into place without   *)
(* an fsync may come back empty.                                           *)
(***************************************************************************)
EXTENDS Integers, FiniteSets

CONSTANTS
    Procs,       \* the processes that open the database
    Pkgs,        \* package names
    Vals,        \* what a stanza can say about a package
    Blank,       \* a package without a stanza: never installed, or purged
    MAXUPDATES,  \* journal entries before a forced checkpoint (250 in dpkg)
    NoProc,      \* the lock is free
    NoPkg,       \* no package is being noted
    NoFile       \* no file of this name in updates/

ASSUME MaxUpdatesAssumption == MAXUPDATES \in Nat
ASSUME BlankAssumption == Blank \in Vals
ASSUME NoProcAssumption == NoProc \notin Procs
ASSUME NoPkgAssumption == NoPkg \notin Pkgs
ASSUME NoFileAssumption == NoFile \notin [pkg : Pkgs, val : Vals] \cup [Pkgs -> Vals]

VARIABLES
    status,      \* contents of the status file
    updates,     \* updates/0000, updates/0001, ...: a stanza or NoFile
    sViews,      \* contents of status that a power failure may leave
    uViews,      \* contents of updates/ that a power failure may leave
    lock,        \* owner of the fcntl() lock on the database
    pc,          \* where each process is
    cstatus,     \* the mode in which the process has the database open
    mem,         \* the package hash table of the process
    cur,         \* the package being noted
    synced,      \* has the file being written been fsynced?
    todo,        \* journal entries that the current loop has not reached
    cdlist,      \* journal entries that cleanupdates() found
    nextupdate,  \* index of the next journal entry
    resume       \* where the process goes when a checkpoint is complete

disk  == <<status, updates, sViews, uViews>>
local == <<pc, cstatus, mem, cur, synced, todo, cdlist, nextupdate, resume>>
vars  == <<status, updates, sViews, uViews, lock, pc, cstatus, mem, cur,
           synced, todo, cdlist, nextupdate, resume>>

Index   == 0 .. MAXUPDATES
Db      == [Pkgs -> Vals]
Stanza  == [pkg : Pkgs, val : Vals]
Journal == [Index -> Stanza \cup {NoFile}]

Labels == {"closed", "parseStatus", "scan", "parseUpdate", "ready",
           "noteFsync", "noteRename", "noteDirSync", "noteNext",
           "wdbOpen", "wdbFsync", "wdbRename", "wdbDirSync",
           "unlink", "unlinkDirSync", "unlock"}

EmptyDb      == [q \in Pkgs |-> Blank]
EmptyJournal == [k \in Index |-> NoFile]

(***************************************************************************)
(* What cleanupdates() makes of a status file s and a journal u: the last  *)
(* entry about a package wins, else its stanza in s.                       *)
(***************************************************************************)
Entries(u)    == {k \in Index : u[k] # NoFile}
About(u, q)   == {k \in Entries(u) : u[k].pkg = q}
Latest(u, q)  == CHOOSE k \in About(u, q) : \A j \in About(u, q) : j <= k
Value(s, u, q) == IF About(u, q) = {} THEN s[q] ELSE u[Latest(u, q)].val
Recover(s, u)  == [q \in Pkgs |-> Value(s, u, q)]

(***************************************************************************)
(* The values a package may turn out to have if the power fails now.       *)
(***************************************************************************)
Held(q) == {Value(s, u, q) : s \in sViews, u \in uViews}

-----------------------------------------------------------------------------
Init ==
    /\ status = EmptyDb
    /\ updates = EmptyJournal
    /\ sViews = {EmptyDb}
    /\ uViews = {EmptyJournal}
    /\ lock = NoProc
    /\ pc = [p \in Procs |-> "closed"]
    /\ cstatus = [p \in Procs |-> "readonly"]
    /\ mem = [p \in Procs |-> EmptyDb]
    /\ cur = [p \in Procs |-> NoPkg]
    /\ synced = [p \in Procs |-> FALSE]
    /\ todo = [p \in Procs |-> {}]
    /\ cdlist = [p \in Procs |-> {}]
    /\ nextupdate = [p \in Procs |-> 0]
    /\ resume = [p \in Procs |-> "ready"]

At(p, l)   == pc[p] = l
Goto(p, l) == pc' = [pc EXCEPT ![p] = l]

-----------------------------------------------------------------------------
(***************************************************************************)
(* modstatdb_open(): a reader takes no lock; a writer takes it with        *)
(* F_SETLK and gives up if another process has it.                         *)
(***************************************************************************)
OpenReadOnly(p) ==
    /\ At(p, "closed")
    /\ cstatus' = [cstatus EXCEPT ![p] = "readonly"]
    /\ Goto(p, "parseStatus")
    /\ UNCHANGED <<disk, lock, mem, cur, synced, todo, cdlist, nextupdate, resume>>

TakeLock(p) ==
    /\ At(p, "closed")
    /\ lock' = p
    /\ cstatus' = [cstatus EXCEPT ![p] = "write"]
    /\ Goto(p, "parseStatus")
    /\ UNCHANGED <<disk, mem, cur, synced, todo, cdlist, nextupdate, resume>>

OpenWriteUnlocked(p) == TakeLock(p)    \* fault: somebody may have the lock
OpenWrite(p) == lock = NoProc /\ TakeLock(p)

(***************************************************************************)
(* cleanupdates(): read status, list the journal, replay it in the order   *)
(* of the names.  An entry that has vanished in the meantime reads as      *)
(* empty (pdb_allow_empty).  A writer that found entries then writes       *)
(* status and removes them, exactly as a checkpoint does.                  *)
(***************************************************************************)
ParseStatus(p) ==
    /\ At(p, "parseStatus")
    /\ mem' = [mem EXCEPT ![p] = status]
    /\ Goto(p, "scan")
    /\ UNCHANGED <<disk, lock, cstatus, cur, synced, todo, cdlist, nextupdate, resume>>

ScanUpdates(p) ==
    /\ At(p, "scan")
    /\ todo' = [todo EXCEPT ![p] = Entries(updates)]
    /\ cdlist' = [cdlist EXCEPT ![p] = Entries(updates)]
    /\ Goto(p, IF Entries(updates) = {} THEN "ready" ELSE "parseUpdate")
    /\ UNCHANGED <<disk, lock, cstatus, mem, cur, synced, nextupdate, resume>>

Apply(db, entry) ==
    IF entry = NoFile THEN db ELSE [db EXCEPT ![entry.pkg] = entry.val]

First(S) == CHOOSE k \in S : \A j \in S : k <= j

ParseUpdate(p) ==
    LET k == First(todo[p]) IN
    /\ At(p, "parseUpdate")
    /\ mem' = [mem EXCEPT ![p] = Apply(@, updates[k])]
    /\ IF todo[p] # {k}
       THEN /\ todo' = [todo EXCEPT ![p] = @ \ {k}]
            /\ UNCHANGED <<pc, cdlist, resume>>
       ELSE /\ todo' = [todo EXCEPT ![p] = IF cstatus[p] = "write" THEN cdlist[p] ELSE {}]
            /\ cdlist' = [cdlist EXCEPT ![p] = {}]
            /\ resume' = [resume EXCEPT ![p] = "ready"]
            /\ Goto(p, IF cstatus[p] = "write" THEN "wdbOpen" ELSE "ready")
    /\ UNCHANGED <<disk, lock, cstatus, cur, synced, nextupdate>>

-----------------------------------------------------------------------------
(***************************************************************************)
(* What an open session does.  Most of dpkg changes a package in memory    *)
(* and then notes it; "dpkg --set-selections" and others only change       *)
(* memory and leave the writing to modstatdb_shutdown().                   *)
(***************************************************************************)
Writing(p) == At(p, "ready") /\ cstatus[p] = "write"

SetPackage(p, q, v) ==
    /\ Writing(p)
    /\ mem' = [mem EXCEPT ![p][q] = v]
    /\ UNCHANGED <<disk, lock, pc, cstatus, cur, synced, todo, cdlist, nextupdate, resume>>

(* modstatdb_note_core(): tmp.i is written, flushed and truncated, ...     *)
NoteWrite(p, q) ==
    /\ Writing(p)
    /\ cur' = [cur EXCEPT ![p] = q]
    /\ synced' = [synced EXCEPT ![p] = FALSE]
    /\ Goto(p, "noteFsync")
    /\ UNCHANGED <<disk, lock, cstatus, mem, todo, cdlist, nextupdate, resume>>

NoteFsyncSkipped(p) ==    \* fault: tmp.i is closed without an fsync
    /\ At(p, "noteFsync")
    /\ Goto(p, "noteRename")
    /\ UNCHANGED <<disk, lock, cstatus, mem, cur, synced, todo, cdlist, nextupdate, resume>>

(* ... fsynced and closed, ...                                             *)
NoteFsync(p) ==
    /\ At(p, "noteFsync")
    /\ synced' = [synced EXCEPT ![p] = TRUE]
    /\ Goto(p, "noteRename")
    /\ UNCHANGED <<disk, lock, cstatus, mem, cur, todo, cdlist, nextupdate, resume>>

(* A file that was not fsynced may come back empty, even if its directory  *)
(* was: an empty journal entry reads as none.                              *)
EmptyEntry(p) ==
    IF synced[p] THEN {} ELSE {[updates EXCEPT ![nextupdate[p]] = NoFile]}

EmptyStatus(p) == IF synced[p] THEN {} ELSE {EmptyDb}

(* ... renamed to the next journal entry; tmp.i holds the stanza that was  *)
(* made from memory, which does not change until the note is complete.     *)
NoteRename(p) ==
    LET entry == [pkg |-> cur[p], val |-> mem[p][cur[p]]] IN
    /\ At(p, "noteRename")
    /\ updates' = [updates EXCEPT ![nextupdate[p]] = entry]
    /\ uViews' = uViews \cup {updates'} \cup EmptyEntry(p)
    /\ Goto(p, "noteDirSync")
    /\ UNCHANGED <<status, sViews, lock, cstatus, mem, cur, synced, todo, cdlist, nextupdate, resume>>

NoteDirSync(p) ==
    /\ At(p, "noteDirSync")
    /\ uViews' = {updates} \cup EmptyEntry(p)
    /\ Goto(p, "noteNext")
    /\ UNCHANGED <<status, updates, sViews, lock, cstatus, mem, cur, synced, todo, cdlist, nextupdate, resume>>

(* The start of modstatdb_checkpoint() with n journal entries.             *)
StartCheckpoint(p, n, next) ==
    /\ todo' = [todo EXCEPT ![p] = 0 .. n - 1]
    /\ resume' = [resume EXCEPT ![p] = next]
    /\ Goto(p, "wdbOpen")

NoteNextSameName(p) ==    \* fault: nextupdate is not incremented
    /\ At(p, "noteNext")
    /\ cur' = [cur EXCEPT ![p] = NoPkg]
    /\ Goto(p, "ready")
    /\ UNCHANGED <<disk, lock, cstatus, mem, synced, todo, cdlist, nextupdate, resume>>

(* nextupdate++, a checkpoint if the journal is full, and createimptmp().  *)
CountNote(p, limit) ==
    LET n == nextupdate[p] + 1 IN
    /\ At(p, "noteNext")
    /\ nextupdate' = [nextupdate EXCEPT ![p] = n]
    /\ cur' = [cur EXCEPT ![p] = NoPkg]
    /\ IF n > limit THEN StartCheckpoint(p, n, "ready")
                    ELSE Goto(p, "ready") /\ UNCHANGED <<todo, resume>>
    /\ UNCHANGED <<disk, lock, cstatus, mem, synced, cdlist>>

NoteNext(p)     == CountNote(p, MAXUPDATES)

(* trig_transitional_activate() checkpoints in the middle of a session.    *)
Checkpoint(p) ==
    /\ Writing(p)
    /\ StartCheckpoint(p, nextupdate[p], "ready")
    /\ UNCHANGED <<disk, lock, cstatus, mem, cur, synced, cdlist, nextupdate>>

-----------------------------------------------------------------------------
(***************************************************************************)
(* writedb(statusfile, wdb_must_sync): status-new is written, fsynced and  *)
(* renamed over status; then the directory is fsynced.                     *)
(***************************************************************************)
WritedbOpen(p) ==
    /\ At(p, "wdbOpen")
    /\ synced' = [synced EXCEPT ![p] = FALSE]
    /\ Goto(p, "wdbFsync")
    /\ UNCHANGED <<disk, lock, cstatus, mem, cur, todo, cdlist, nextupdate, resume>>

WritedbFsync(p) ==
    /\ At(p, "wdbFsync")
    /\ synced' = [synced EXCEPT ![p] = TRUE]
    /\ Goto(p, "wdbRename")
    /\ UNCHANGED <<disk, lock, cstatus, mem, cur, todo, cdlist, nextupdate, resume>>

WritedbRename(p) ==
    /\ At(p, "wdbRename")
    /\ status' = mem[p]
    /\ sViews' = sViews \cup {mem[p]} \cup EmptyStatus(p)
    /\ Goto(p, "wdbDirSync")
    /\ UNCHANGED <<updates, uViews, lock, cstatus, mem, cur, synced, todo, cdlist, nextupdate, resume>>

WritedbDirSyncSkipped(p) ==    \* fault: the new status is not yet durable
    /\ At(p, "wdbDirSync")
    /\ Goto(p, IF todo[p] = {} THEN "unlinkDirSync" ELSE "unlink")
    /\ UNCHANGED <<disk, lock, cstatus, mem, cur, synced, todo, cdlist, nextupdate, resume>>

WritedbDirSync(p) ==
    /\ At(p, "wdbDirSync")
    /\ sViews' = {status} \cup EmptyStatus(p)
    /\ Goto(p, IF todo[p] = {} THEN "unlinkDirSync" ELSE "unlink")
    /\ UNCHANGED <<status, updates, uViews, lock, cstatus, mem, cur, synced, todo, cdlist, nextupdate, resume>>

(* The journal entries are unlinked one by one, oldest first, ...          *)
Unlink(p, k, rest) ==
    /\ At(p, "unlink")
    /\ updates' = [updates EXCEPT ![k] = NoFile]
    /\ uViews' = uViews \cup {updates'}
    /\ todo' = [todo EXCEPT ![p] = rest]
    /\ Goto(p, IF rest = {} THEN "unlinkDirSync" ELSE "unlink")
    /\ UNCHANGED <<status, sViews, lock, cstatus, mem, cur, synced, cdlist, nextupdate, resume>>

UnlinkNoAdvance(p)   == Unlink(p, First(todo[p]), todo[p])                   \* fault: loops for ever
UnlinkUpdate(p)      == Unlink(p, First(todo[p]), todo[p] \ {First(todo[p])})

(* ... the directory is fsynced and the numbering starts again.            *)
EndCheckpoint(p, views, next) ==
    /\ At(p, "unlinkDirSync")
    /\ uViews' = views
    /\ nextupdate' = [nextupdate EXCEPT ![p] = next]
    /\ Goto(p, resume[p])
    /\ UNCHANGED <<status, updates, sViews, lock, cstatus, mem, cur, synced, todo, cdlist, resume>>

UnlinkDirSyncSkipped(p) == EndCheckpoint(p, uViews, 0)                   \* fault: no fsync
UnlinkDirSync(p)        == EndCheckpoint(p, {updates}, 0)

(***************************************************************************)
(* modstatdb_shutdown(): a writer checkpoints and then releases the lock.  *)
(***************************************************************************)
Shutdown(p) ==
    /\ Writing(p)
    /\ StartCheckpoint(p, nextupdate[p], "unlock")
    /\ UNCHANGED <<disk, lock, cstatus, mem, cur, synced, cdlist, nextupdate>>

(* The process is gone, or has forgotten the database (pkg_hash_reset).    *)
Forget(P) ==
    /\ pc' = [p \in Procs |-> IF p \in P THEN "closed" ELSE pc[p]]
    /\ cstatus' = [p \in Procs |-> IF p \in P THEN "readonly" ELSE cstatus[p]]
    /\ mem' = [p \in Procs |-> IF p \in P THEN EmptyDb ELSE mem[p]]
    /\ cur' = [p \in Procs |-> IF p \in P THEN NoPkg ELSE cur[p]]
    /\ synced' = [p \in Procs |-> IF p \in P THEN FALSE ELSE synced[p]]
    /\ todo' = [p \in Procs |-> IF p \in P THEN {} ELSE todo[p]]
    /\ cdlist' = [p \in Procs |-> IF p \in P THEN {} ELSE cdlist[p]]
    /\ nextupdate' = [p \in Procs |-> IF p \in P THEN 0 ELSE nextupdate[p]]
    /\ resume' = [p \in Procs |-> IF p \in P THEN "ready" ELSE resume[p]]
    /\ lock' = IF lock \in P THEN NoProc ELSE lock

Unlock(p) ==
    /\ At(p, "unlock")
    /\ Forget({p})
    /\ UNCHANGED disk

CloseReadOnly(p) ==
    /\ At(p, "ready")
    /\ cstatus[p] = "readonly"
    /\ Forget({p})
    /\ UNCHANGED disk

(***************************************************************************)
(* Crashes.  The kernel drops the lock of a process that dies and keeps    *)
(* the files as every process sees them.  A power failure ends every       *)
(* process and leaves each directory in one of the states of its view.     *)
(***************************************************************************)
Die(p) ==
    /\ pc[p] # "closed"
    /\ Forget({p})
    /\ UNCHANGED disk

PowerLoss ==
    /\ status' \in sViews
    /\ updates' \in uViews
    /\ sViews' = {status'}
    /\ uViews' = {updates'}
    /\ Forget(Procs)

-----------------------------------------------------------------------------
(* The steps a process takes by itself once an operation is under way.     *)
Continue(p) ==
    \/ ParseStatus(p) \/ ScanUpdates(p) \/ ParseUpdate(p)
    \/ NoteFsync(p) \/ NoteRename(p) \/ NoteDirSync(p) \/ NoteNext(p)
    \/ WritedbOpen(p) \/ WritedbFsync(p) \/ WritedbRename(p) \/ WritedbDirSync(p)
    \/ UnlinkUpdate(p) \/ UnlinkDirSync(p) \/ Unlock(p)

(* What the user asks of dpkg.                                             *)
Request(p) ==
    \/ OpenReadOnly(p) \/ OpenWrite(p)
    \/ \E q \in Pkgs, v \in Vals : SetPackage(p, q, v)
    \/ \E q \in Pkgs : NoteWrite(p, q)
    \/ Checkpoint(p) \/ Shutdown(p) \/ CloseReadOnly(p)

Next ==
    \/ \E p \in Procs : Continue(p) \/ Request(p) \/ Die(p)
    \/ PowerLoss

Spec == Init /\ [][Next]_vars
-----------------------------------------------------------------------------
(* The variables have the types that the comments above give them.         *)
TypeOK ==
    /\ status \in Db
    /\ updates \in Journal
    /\ sViews \in SUBSET Db
    /\ uViews \in SUBSET Journal
    /\ lock \in Procs \cup {NoProc}
    /\ pc \in [Procs -> Labels]
    /\ cstatus \in [Procs -> {"readonly", "write"}]
    /\ mem \in [Procs -> Db]
    /\ cur \in [Procs -> Pkgs \cup {NoPkg}]
    /\ synced \in [Procs -> BOOLEAN]
    /\ todo \in [Procs -> SUBSET Index]
    /\ cdlist \in [Procs -> SUBSET Index]
    /\ nextupdate \in [Procs -> 0 .. MAXUPDATES + 1]
    /\ resume \in [Procs -> {"ready", "unlock"}]

(***************************************************************************)
(* While a writer works, the journal holds exactly the entries it has      *)
(* written since its last checkpoint: no other process adds or removes     *)
(* one, and recovery leaves none behind.  This is what makes the names     *)
(* that modstatdb_note_core() and modstatdb_checkpoint() compute from      *)
(* nextupdate the right ones, and every unlink() of a checkpoint succeed.  *)
(***************************************************************************)
JournalMatchesCounter ==
    \A p \in Procs : cstatus[p] = "write" =>
        /\ pc[p] \in {"ready", "noteFsync", "noteRename", "unlock"}
              => Entries(updates) = 0 .. nextupdate[p] - 1
        /\ pc[p] \in {"noteDirSync", "noteNext"}
              => Entries(updates) = 0 .. nextupdate[p]
        /\ pc[p] \in {"wdbOpen", "wdbFsync", "wdbRename", "wdbDirSync", "unlink"}
              => Entries(updates) = todo[p]
        /\ pc[p] = "unlinkDirSync" => Entries(updates) = {}

(***************************************************************************)
(* The parts of an inductive invariant, from which the properties below    *)
(* are proved in StatusDbProofs.                                           *)
(***************************************************************************)
Replaying     == {"parseStatus", "scan", "parseUpdate"}
Noting        == {"noteFsync", "noteRename", "noteDirSync", "noteNext"}
Checkpointing == {"wdbOpen", "wdbFsync", "wdbRename", "wdbDirSync", "unlink", "unlinkDirSync"}

(* Whoever is about to change a file holds the lock, and is alone.         *)
LockProtects ==
    \A p \in Procs :
        /\ cstatus[p] = "write" <=> lock = p
        /\ pc[p] \in Noting \cup Checkpointing \cup {"unlock"} => cstatus[p] = "write"
        /\ pc[p] = "closed" => cstatus[p] = "readonly"

(* The local variables of a process agree with where it is.                *)
LocalState ==
    \A p \in Procs :
        /\ pc[p] \in {"parseUpdate", "unlink"} => todo[p] # {}
        /\ pc[p] \in Replaying \cup {"closed", "unlock"} => nextupdate[p] = 0
        /\ pc[p] \in Noting \cup {"ready"} => nextupdate[p] \in Index
        /\ pc[p] \in Noting => cur[p] \in Pkgs
        /\ pc[p] \in {"noteRename", "noteDirSync", "wdbRename", "wdbDirSync"} => synced[p]

(* The power may fail at once after a step.                                *)
ViewsAreCurrent == status \in sViews /\ updates \in uViews

(* What is on the disk at each point of the writer.                        *)
WriterProgress ==
    \A p \in Procs : cstatus[p] = "write" =>
        /\ pc[p] = "parseUpdate" => cdlist[p] = Entries(updates)
        /\ pc[p] \in {"noteDirSync", "noteNext"}
              => updates[nextupdate[p]] = [pkg |-> cur[p], val |-> mem[p][cur[p]]]
        /\ pc[p] = "noteNext" => uViews = {updates}
        /\ pc[p] \in {"wdbDirSync", "unlink", "unlinkDirSync", "unlock"} => status = mem[p]
        /\ pc[p] \in {"unlink", "unlinkDirSync", "unlock"} => sViews = {status}
        /\ pc[p] = "unlock" => uViews = {updates}

(* The journal without the entries T, which are still to be replayed.      *)
Without(u, T) == [k \in Index |-> IF k \in T THEN NoFile ELSE u[k]]

(* A writer that replays the journal has applied a prefix of it.           *)
ReplayProgress ==
    \A p \in Procs : cstatus[p] = "write" =>
        /\ pc[p] = "scan" => mem[p] = status
        /\ pc[p] = "parseUpdate" =>
              /\ todo[p] \subseteq Entries(updates)
              /\ \A k \in todo[p], j \in Entries(updates) \ todo[p] : j < k
              /\ mem[p] = Recover(status, Without(updates, todo[p]))

DurabilityInv ==
    TypeOK /\ LockProtects /\ LocalState /\ ViewsAreCurrent
    /\ JournalMatchesCounter /\ WriterProgress

(***************************************************************************)
(* Once modstatdb_note() has fsynced the updates directory, no crash can   *)
(* lose the package it noted.                                              *)
(***************************************************************************)
NotedIsDurable ==
    \A p \in Procs : At(p, "noteNext") => Held(cur[p]) = {mem[p][cur[p]]}

(***************************************************************************)
(* When modstatdb_shutdown() lets go of the lock, everything the session   *)
(* had in memory is on the disk, including what it never noted.            *)
(***************************************************************************)
ShutdownIsDurable ==
    \A p \in Procs : At(p, "unlock") => \A q \in Pkgs : Held(q) = {mem[p][q]}

(***************************************************************************)
(* A writer that has replayed the journal has the database that Recover    *)
(* defines, although it read it file by file: no process changed a file    *)
(* under its feet.                                                         *)
(***************************************************************************)
WriterReadsRecover ==
    [][\A p \in Procs :
          /\ cstatus[p] = "write"
          /\ pc[p] \in {"scan", "parseUpdate"}
          /\ pc'[p] \in {"ready", "wdbOpen"}
          => mem'[p] = Recover(status', updates')]_vars

(***************************************************************************)
(* Nothing old comes back: a package can only turn out to have a value     *)
(* that it could already have, or the one the writer has in memory.  This  *)
(* covers the journal that is replayed twice, the checkpoint that stops    *)
(* between two unlinks, and journal entries that a power failure brings    *)
(* back after they were unlinked.                                          *)
(***************************************************************************)
OnlyWriterAddsValues ==
    [][\A q \in Pkgs :
          Held(q)' \subseteq Held(q) \cup {mem[p][q] : p \in {r \in Procs : lock = r}}]_vars

(***************************************************************************)
(* An operation that a process has begun comes to an end: it reaches the   *)
(* point where the session is open again, or the database is closed.       *)
(***************************************************************************)
OperationsEnd == \A p \in Procs : []<>(pc[p] \in {"ready", "closed"})

(***************************************************************************)
(* The status database implements DurableDb.  The session begins when the  *)
(* journal has been replayed.                                              *)
(***************************************************************************)
InSession(p) == lock = p /\ pc[p] \notin {"parseStatus", "scan", "parseUpdate"}

NoSession == NoFile

Durable == INSTANCE DurableDb WITH
    held <- [q \in Pkgs |-> Held(q)],
    session <- IF \E p \in Procs : InSession(p) THEN mem[lock] ELSE NoSession

DurableSpec == Durable!Spec

=============================================================================
