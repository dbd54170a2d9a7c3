--------------------------- MODULE StatusDbProofs ---------------------------
(***************************************************************************)
(* Proofs about StatusDb, for any number of processes, packages and        *)
(* journal entries: its invariant and mutual exclusion; that it implements *)
(* DurableDb, whatever a crash leaves; and what readers see that take no   *)
(* lock.                                                                   *)
(***************************************************************************)
EXTENDS StatusDb, StatusDbReaders, WellFoundedInduction, TLAPS

(***************************************************************************)
(* A set of natural numbers has a first element; it is the entry that      *)
(* cleanupdates() and modstatdb_checkpoint() handle next.                  *)
(***************************************************************************)
LEMMA FirstIsLeast ==
    ASSUME NEW S \in SUBSET Nat, S # {}
    PROVE  First(S) \in S /\ \A j \in S : First(S) <= j
<1> DEFINE R == {ss \in Nat \X Nat : ss[1] < ss[2]}
<1>1. IsWellFoundedOn(R, Nat)
  BY NatLessThanWellFounded DEF OpToRel
<1>2. PICK k \in S : \A j \in S : ~(<<j, k>> \in R)
  <2> HIDE DEF R
  <2>1. S \subseteq Nat
    OBVIOUS
  <2> QED BY <1>1, <2>1, WFMin, Zenon
<1>3. ASSUME NEW j \in S
      PROVE  k <= j
  <2>1. j \in Nat /\ k \in Nat
    OBVIOUS
  <2>2. ~(j < k)
    <3> SUFFICES ASSUME j < k PROVE <<j, k>> \in R
      BY <1>2
    <3> QED BY <2>1
  <2> QED BY <2>1, <2>2, SMT
<1> QED BY <1>3 DEF First

(***************************************************************************)
(* A set of journal indices also has a last element: the entry that        *)
(* decides what a package is, if there is any entry about it.              *)
(***************************************************************************)
LEMMA LatestIsGreatest ==
    ASSUME NEW u, NEW q, About(u, q) # {}
    PROVE  Latest(u, q) \in About(u, q) /\ \A j \in About(u, q) : j <= Latest(u, q)
<1> DEFINE T == {MAXUPDATES - k : k \in About(u, q)}
<1>1. About(u, q) \subseteq Index /\ Index \subseteq Nat
  BY MaxUpdatesAssumption, SMT DEF About, Entries, Index
<1>2. T \in SUBSET Nat /\ T # {}
  BY <1>1, MaxUpdatesAssumption, SMT DEF Index
<1>3. PICK t \in T : \A j \in T : t <= j
  <2> HIDE DEF T
  <2> QED BY <1>2, FirstIsLeast
<1>4. PICK k \in About(u, q) : t = MAXUPDATES - k
  BY <1>3
<1>5. ASSUME NEW j \in About(u, q)
      PROVE  j <= k
  <2>1. MAXUPDATES - j \in T
    OBVIOUS
  <2>2. t <= MAXUPDATES - j
    BY <1>3, <2>1
  <2>3. j \in Nat /\ k \in Nat
    BY <1>1
  <2> QED BY <1>4, <2>2, <2>3, MaxUpdatesAssumption, SMT
<1> QED BY <1>5 DEF Latest
-----------------------------------------------------------------------------
USE DEF Goto, At, Writing, disk, TakeLock, CountNote, Unlink, EndCheckpoint, EmptyEntry, EmptyStatus

(* An empty status file is a database, an empty updates/ a journal.        *)
LEMMA EmptyTypes == EmptyDb \in Db /\ EmptyJournal \in Journal
BY BlankAssumption DEF EmptyDb, Db, EmptyJournal, Journal

(***************************************************************************)
(* Replaying an entry, or none, gives a database.                          *)
(***************************************************************************)
LEMMA ApplyType ==
    ASSUME NEW db \in Db, NEW entry \in Stanza \cup {NoFile}
    PROVE  Apply(db, entry) \in Db
BY DEF Apply, Db, Stanza

(***************************************************************************)
(* modstatdb_open() of the first run finds the invariant true.             *)
(***************************************************************************)
LEMMA InvInit == Init => DurabilityInv
<1> SUFFICES ASSUME Init PROVE DurabilityInv
  OBVIOUS
<1>1. TypeOK
  BY EmptyTypes, MaxUpdatesAssumption DEF Init, TypeOK, Labels
<1>2. LockProtects /\ LocalState /\ ViewsAreCurrent /\ JournalMatchesCounter /\ WriterProgress
  BY NoProcAssumption DEF Init, LockProtects, LocalState, ViewsAreCurrent,
     JournalMatchesCounter, WriterProgress, Noting, Checkpointing, Replaying
<1> QED BY <1>1, <1>2 DEF DurabilityInv

(***************************************************************************)
(* A process that forgets the database, and a machine that loses power.    *)
(***************************************************************************)
LEMMA ForgetKeepsInv ==
    ASSUME DurabilityInv, NEW P \in SUBSET Procs, Forget(P),
           status' \in Db, updates' \in Journal,
           sViews' \in SUBSET Db, uViews' \in SUBSET Journal, ViewsAreCurrent',
           P = Procs \/ UNCHANGED disk
    PROVE  DurabilityInv'
<1> USE DEF DurabilityInv
<1>1. TypeOK'
  <2>1. mem' \in [Procs -> Db] /\ lock' \in Procs \cup {NoProc}
    BY EmptyTypes DEF TypeOK, Forget
  <2>2. pc' \in [Procs -> Labels] /\ cstatus' \in [Procs -> {"readonly", "write"}]
    BY DEF TypeOK, Forget, Labels
  <2>3. cur' \in [Procs -> Pkgs \cup {NoPkg}] /\ synced' \in [Procs -> BOOLEAN]
    BY DEF TypeOK, Forget
  <2>4. todo' \in [Procs -> SUBSET Index] /\ cdlist' \in [Procs -> SUBSET Index]
    BY DEF TypeOK, Forget
  <2>5. nextupdate' \in [Procs -> 0 .. MAXUPDATES + 1]
    BY MaxUpdatesAssumption DEF TypeOK, Forget
  <2>6. resume' \in [Procs -> {"ready", "unlock"}]
    BY DEF TypeOK, Forget
  <2> QED BY <2>1, <2>2, <2>3, <2>4, <2>5, <2>6 DEF TypeOK
<1>2. LockProtects'
  BY NoProcAssumption DEF TypeOK, LockProtects, Forget, Noting, Checkpointing
<1>3. LocalState'
  BY DEF TypeOK, LocalState, Forget, Noting, Replaying
<1>4. JournalMatchesCounter' /\ WriterProgress'
  BY DEF TypeOK, JournalMatchesCounter, WriterProgress, Forget
<1> QED BY <1>1, <1>2, <1>3, <1>4

(***************************************************************************)
(* The steps that matter are the replay, which must see the whole journal; *)
(* the rename of a note, which must use a free name; and the unlinks of a  *)
(* checkpoint, which must find their files.                                *)
(***************************************************************************)
LEMMA KeepParseUpdate ==
    ASSUME DurabilityInv, NEW p \in Procs, ParseUpdate(p)
    PROVE  DurabilityInv'
<1> DEFINE k == First(todo[p])
<1>0. /\ TypeOK /\ LockProtects /\ LocalState /\ ViewsAreCurrent
      /\ JournalMatchesCounter /\ WriterProgress
  BY DEF DurabilityInv
<1>1. /\ pc[p] = "parseUpdate" /\ mem' = [mem EXCEPT ![p] = Apply(mem[p], updates[k])]
      /\ UNCHANGED <<status, updates, sViews, uViews, lock, cstatus, cur, synced, nextupdate>>
  BY DEF ParseUpdate
<1>2. k \in todo[p]
  <2>1. todo[p] \in SUBSET Nat /\ todo[p] # {}
    BY <1>0, <1>1, MaxUpdatesAssumption DEF TypeOK, LocalState, Index
  <2> QED BY <2>1, FirstIsLeast
<1>3. mem' \in [Procs -> Db]
  <2>1. updates[k] \in Stanza \cup {NoFile} /\ mem[p] \in Db
    BY <1>0, <1>2 DEF TypeOK, Journal
  <2>2. Apply(mem[p], updates[k]) \in Db
    BY <2>1, ApplyType
  <2> QED BY <1>0, <1>1, <2>2 DEF TypeOK
<1>4. \/ /\ todo' = [todo EXCEPT ![p] = @ \ {k}] /\ todo[p] \ {k} # {}
         /\ UNCHANGED <<pc, cdlist, resume>>
      \/ /\ todo' = [todo EXCEPT ![p] = IF cstatus[p] = "write" THEN cdlist[p] ELSE {}]
         /\ cdlist' = [cdlist EXCEPT ![p] = {}]
         /\ resume' = [resume EXCEPT ![p] = "ready"]
         /\ pc' = [pc EXCEPT ![p] = IF cstatus[p] = "write" THEN "wdbOpen" ELSE "ready"]
  BY <1>2 DEF ParseUpdate
<1> HIDE DEF k
<1>5. TypeOK'
  BY <1>0, <1>1, <1>3, <1>4 DEF TypeOK, Labels
<1>6. LockProtects' /\ ViewsAreCurrent'
  BY <1>0, <1>1, <1>4 DEF TypeOK, LockProtects, ViewsAreCurrent, Noting, Checkpointing
<1>7. LocalState'
  BY <1>0, <1>1, <1>4, MaxUpdatesAssumption DEF TypeOK, LocalState, Noting, Replaying, Index
<1>8. JournalMatchesCounter' /\ WriterProgress'
  <2> SUFFICES ASSUME NEW r \in Procs, cstatus[r] = "write"
               PROVE  /\ pc'[r] = pc[r] \/ (pc'[r] = "wdbOpen" /\ r = p)
                      /\ pc[r] # "parseUpdate" => /\ pc'[r] = pc[r] /\ todo'[r] = todo[r]
                                                  /\ mem'[r] = mem[r] /\ cdlist'[r] = cdlist[r]
                      /\ pc'[r] = "parseUpdate" => cdlist'[r] = Entries(updates)
                      /\ pc'[r] = "wdbOpen" => todo'[r] = Entries(updates)
    BY <1>0, <1>1 DEF JournalMatchesCounter, WriterProgress
  <2>1. pc[r] = "parseUpdate" => cdlist[r] = Entries(updates)
    BY <1>0 DEF WriterProgress
  <2>2. CASE r # p
    BY <1>0, <1>1, <1>4, <2>1, <2>2 DEF TypeOK, JournalMatchesCounter
  <2>3. CASE r = p
    BY <1>0, <1>1, <1>4, <2>1, <2>3 DEF TypeOK
  <2> QED BY <2>2, <2>3
<1> QED BY <1>5, <1>6, <1>7, <1>8 DEF DurabilityInv

(* The rename of a note uses the first free name of the journal.           *)
LEMMA KeepNoteRename ==
    ASSUME DurabilityInv, NEW p \in Procs, NoteRename(p)
    PROVE  DurabilityInv'
<1> DEFINE k == nextupdate[p]
           entry == [pkg |-> cur[p], val |-> mem[p][cur[p]]]
<1>0. /\ TypeOK /\ LockProtects /\ LocalState /\ ViewsAreCurrent
      /\ JournalMatchesCounter /\ WriterProgress
  BY DEF DurabilityInv
<1>1. /\ pc[p] = "noteRename" /\ synced[p] /\ cstatus[p] = "write" /\ k \in Index /\ cur[p] \in Pkgs
      /\ pc' = [pc EXCEPT ![p] = "noteDirSync"]
      /\ UNCHANGED <<status, sViews, lock, cstatus, mem, cur, synced, todo, cdlist, nextupdate, resume>>
  BY <1>0 DEF NoteRename, LocalState, LockProtects, Noting
<1>2. updates' = [updates EXCEPT ![k] = entry] /\ uViews' = uViews \cup {updates'}
  BY <1>1 DEF NoteRename
<1>3. entry \in Stanza /\ entry # NoFile
  BY <1>0, <1>1, NoFileAssumption DEF Stanza, TypeOK, Db
<1>4. updates' \in Journal /\ updates'[k] = entry /\ Entries(updates') = Entries(updates) \cup {k}
  <2> HIDE DEF k, entry
  <2> QED BY <1>0, <1>1, <1>2, <1>3 DEF TypeOK, Journal, Entries
<1>5. Entries(updates') = 0 .. k
  <2>1. Entries(updates) = 0 .. k - 1
    BY <1>0, <1>1 DEF JournalMatchesCounter
  <2> QED BY <1>1, <1>4, <2>1, MaxUpdatesAssumption DEF Index
<1>6. TypeOK'
  <2>1. uViews' \in SUBSET Journal
    BY <1>0, <1>2, <1>4 DEF TypeOK
  <2>2. pc' \in [Procs -> Labels]
    BY <1>0, <1>1 DEF TypeOK, Labels
  <2> QED BY <1>0, <1>1, <1>4, <2>1, <2>2 DEF TypeOK
<1>7. LockProtects' /\ ViewsAreCurrent'
  BY <1>0, <1>1, <1>2 DEF TypeOK, LockProtects, ViewsAreCurrent, Noting, Checkpointing
<1>8. LocalState'
  BY <1>0, <1>1 DEF TypeOK, LocalState, Noting, Replaying
<1>9. JournalMatchesCounter'
  BY <1>0, <1>1, <1>5 DEF TypeOK, LockProtects, JournalMatchesCounter
<1>10. WriterProgress'
  BY <1>0, <1>1, <1>4 DEF TypeOK, LockProtects, WriterProgress
<1> QED BY <1>6, <1>7, <1>8, <1>9, <1>10 DEF DurabilityInv

(* nextupdate++ keeps the name free, or starts a checkpoint of every       *)
(* entry.                                                                  *)
LEMMA KeepNoteNext ==
    ASSUME DurabilityInv, NEW p \in Procs, NoteNext(p)
    PROVE  DurabilityInv'
<1> DEFINE m == nextupdate[p] + 1
<1>0. /\ TypeOK /\ LockProtects /\ LocalState /\ ViewsAreCurrent
      /\ JournalMatchesCounter /\ WriterProgress
  BY DEF DurabilityInv
<1>1. /\ pc[p] = "noteNext" /\ cstatus[p] = "write" /\ nextupdate[p] \in Index
      /\ cur' = [cur EXCEPT ![p] = NoPkg]
      /\ UNCHANGED <<status, updates, sViews, uViews, lock, cstatus, mem, synced, cdlist>>
  BY <1>0 DEF NoteNext, LocalState, LockProtects, Noting
<1>2. Entries(updates) = 0 .. m - 1 /\ 0 .. m - 1 \subseteq Index /\ m \in 0 .. MAXUPDATES + 1
  BY <1>0, <1>1, MaxUpdatesAssumption DEF JournalMatchesCounter, Index
<1>3. /\ nextupdate' = [nextupdate EXCEPT ![p] = m]
      /\ \/ /\ todo' = [todo EXCEPT ![p] = 0 .. m - 1]
            /\ resume' = [resume EXCEPT ![p] = "ready"]
            /\ pc' = [pc EXCEPT ![p] = "wdbOpen"]
         \/ /\ m \in Index
            /\ pc' = [pc EXCEPT ![p] = "ready"]
            /\ UNCHANGED <<todo, resume>>
  BY <1>2, MaxUpdatesAssumption DEF NoteNext, StartCheckpoint, Index
<1> HIDE DEF m
<1>4. TypeOK'
  <2>1. todo' \in [Procs -> SUBSET Index]
    <3>1. todo' = [todo EXCEPT ![p] = 0 .. m - 1] \/ todo' = todo
      BY <1>3
    <3>2. 0 .. m - 1 \in SUBSET Index /\ todo \in [Procs -> SUBSET Index]
      BY <1>0, <1>2 DEF TypeOK
    <3> QED BY ONLY <3>1, <3>2
  <2>2. nextupdate' \in [Procs -> 0 .. MAXUPDATES + 1]
    BY <1>0, <1>2, <1>3 DEF TypeOK
  <2>3. pc' \in [Procs -> Labels] /\ resume' \in [Procs -> {"ready", "unlock"}]
    BY <1>0, <1>3 DEF TypeOK, Labels
  <2>4. cur' \in [Procs -> Pkgs \cup {NoPkg}]
    BY <1>0, <1>1 DEF TypeOK
  <2> QED BY <1>0, <1>1, <2>1, <2>2, <2>3, <2>4 DEF TypeOK
<1>5. LockProtects' /\ ViewsAreCurrent'
  BY <1>0, <1>1, <1>3 DEF TypeOK, LockProtects, ViewsAreCurrent, Noting, Checkpointing
<1>6. LocalState'
  BY <1>0, <1>1, <1>3 DEF TypeOK, LocalState, Noting, Replaying
<1>7. JournalMatchesCounter'
  BY <1>0, <1>1, <1>2, <1>3 DEF TypeOK, LockProtects, JournalMatchesCounter
<1>8. WriterProgress'
  BY <1>0, <1>1, <1>3 DEF TypeOK, LockProtects, WriterProgress
<1> QED BY <1>4, <1>5, <1>6, <1>7, <1>8 DEF DurabilityInv

(* An unlink of a checkpoint removes an entry that is there.               *)
LEMMA KeepUnlinkUpdate ==
    ASSUME DurabilityInv, NEW p \in Procs, UnlinkUpdate(p)
    PROVE  DurabilityInv'
<1> DEFINE k == First(todo[p])
<1>0. /\ TypeOK /\ LockProtects /\ LocalState /\ ViewsAreCurrent
      /\ JournalMatchesCounter /\ WriterProgress
  BY DEF DurabilityInv
<1>1. /\ pc[p] = "unlink" /\ cstatus[p] = "write" /\ lock = p /\ todo[p] # {}
      /\ updates' = [updates EXCEPT ![k] = NoFile]
      /\ uViews' = uViews \cup {updates'}
      /\ todo' = [todo EXCEPT ![p] = @ \ {k}]
      /\ pc' = [pc EXCEPT ![p] = IF todo[p] = {k} THEN "unlinkDirSync" ELSE "unlink"]
      /\ UNCHANGED <<status, sViews, lock, cstatus, mem, cur, synced, cdlist, nextupdate, resume>>
  BY <1>0 DEF UnlinkUpdate, LocalState, LockProtects, Checkpointing
<1>2. k \in todo[p] /\ todo[p] \in SUBSET Index
  <2>1. todo[p] \in SUBSET Nat /\ todo[p] \in SUBSET Index
    BY <1>0, MaxUpdatesAssumption DEF TypeOK, Index
  <2> QED BY <1>1, <2>1, FirstIsLeast
<1>3. todo[p] = {k} <=> todo[p] \ {k} = {}
  BY <1>2
<1> HIDE DEF k
<1>4. updates' \in Journal /\ Entries(updates') = Entries(updates) \ {k}
  BY <1>0, <1>1, <1>2 DEF TypeOK, Journal, Entries
<1>5. TypeOK'
  <2>1. uViews' \in SUBSET Journal
    BY <1>0, <1>1, <1>4 DEF TypeOK
  <2>2. todo' \in [Procs -> SUBSET Index] /\ pc' \in [Procs -> Labels]
    BY <1>0, <1>1 DEF TypeOK, Labels
  <2> QED BY <1>0, <1>1, <1>4, <2>1, <2>2 DEF TypeOK
<1>6. LockProtects' /\ ViewsAreCurrent'
  BY <1>0, <1>1 DEF TypeOK, LockProtects, ViewsAreCurrent, Noting, Checkpointing
<1>7. LocalState'
  BY <1>0, <1>1, <1>3 DEF TypeOK, LocalState, Noting, Replaying
<1>8. JournalMatchesCounter'
  BY <1>0, <1>1, <1>3, <1>4 DEF TypeOK, LockProtects, JournalMatchesCounter
<1>9. WriterProgress'
  BY <1>0, <1>1 DEF TypeOK, LockProtects, WriterProgress
<1> QED BY <1>5, <1>6, <1>7, <1>8, <1>9 DEF DurabilityInv

(* The end of a checkpoint: the journal is empty and nextupdate is 0.      *)
LEMMA KeepUnlinkDirSync ==
    ASSUME DurabilityInv, NEW p \in Procs, UnlinkDirSync(p)
    PROVE  DurabilityInv'
<1>0. /\ TypeOK /\ LockProtects /\ LocalState /\ ViewsAreCurrent
      /\ JournalMatchesCounter /\ WriterProgress
  BY DEF DurabilityInv
<1>1. /\ pc[p] = "unlinkDirSync" /\ cstatus[p] = "write" /\ lock = p
      /\ uViews' = {updates} /\ nextupdate' = [nextupdate EXCEPT ![p] = 0]
      /\ pc' = [pc EXCEPT ![p] = resume[p]] /\ resume[p] \in {"ready", "unlock"}
      /\ UNCHANGED <<status, updates, sViews, lock, cstatus, mem, cur, synced, todo, cdlist, resume>>
  BY <1>0 DEF UnlinkDirSync, LockProtects, Checkpointing, TypeOK
<1>2. 0 .. 0 - 1 = {} /\ 0 \in Index
  BY MaxUpdatesAssumption DEF Index
<1>3. TypeOK'
  BY <1>0, <1>1, MaxUpdatesAssumption DEF TypeOK, Labels
<1>4. LockProtects' /\ ViewsAreCurrent'
  BY <1>0, <1>1 DEF TypeOK, LockProtects, ViewsAreCurrent, Noting, Checkpointing
<1>5. LocalState'
  BY <1>0, <1>1, <1>2 DEF TypeOK, LocalState, Noting, Replaying
<1>6. JournalMatchesCounter'
  BY <1>0, <1>1, <1>2 DEF TypeOK, LockProtects, JournalMatchesCounter
<1>7. WriterProgress'
  BY <1>0, <1>1 DEF TypeOK, LockProtects, WriterProgress
<1> QED BY <1>3, <1>4, <1>5, <1>6, <1>7 DEF DurabilityInv

(***************************************************************************)
(* Every step keeps the invariant.                                         *)
(***************************************************************************)
LEMMA InvStep == DurabilityInv /\ [Next]_vars => DurabilityInv'
<1> SUFFICES ASSUME DurabilityInv, [Next]_vars PROVE DurabilityInv'
  OBVIOUS
<1>0. CASE UNCHANGED vars
  BY <1>0 DEF vars, DurabilityInv, TypeOK, LockProtects, LocalState, ViewsAreCurrent,
     JournalMatchesCounter, WriterProgress
<1> USE MaxUpdatesAssumption, NoProcAssumption
    DEF DurabilityInv, TypeOK, LockProtects, LocalState, ViewsAreCurrent,
        JournalMatchesCounter, WriterProgress, Noting, Checkpointing, Replaying, Index, Db, Labels
<1>1. ASSUME NEW p \in Procs, OpenReadOnly(p) PROVE DurabilityInv'
  BY <1>1 DEF OpenReadOnly
<1>2. ASSUME NEW p \in Procs, OpenWrite(p) PROVE DurabilityInv'
  BY <1>2 DEF OpenWrite
<1>3. ASSUME NEW p \in Procs, ParseStatus(p) PROVE DurabilityInv'
  BY <1>3 DEF ParseStatus
<1>4. ASSUME NEW p \in Procs, ScanUpdates(p) PROVE DurabilityInv'
  BY <1>4 DEF ScanUpdates, Entries
<1>5. ASSUME NEW p \in Procs, ParseUpdate(p) PROVE DurabilityInv'
  BY ONLY <1>5, DurabilityInv, KeepParseUpdate
<1>6. ASSUME NEW p \in Procs, NEW q \in Pkgs, NEW v \in Vals, SetPackage(p, q, v) PROVE DurabilityInv'
  BY <1>6 DEF SetPackage
<1>7. ASSUME NEW p \in Procs, NEW q \in Pkgs, NoteWrite(p, q) PROVE DurabilityInv'
  BY <1>7 DEF NoteWrite
<1>8. ASSUME NEW p \in Procs, NoteFsync(p) PROVE DurabilityInv'
  BY <1>8 DEF NoteFsync
<1>9. ASSUME NEW p \in Procs, NoteRename(p) PROVE DurabilityInv'
  BY ONLY <1>9, DurabilityInv, KeepNoteRename
<1>10. ASSUME NEW p \in Procs, NoteDirSync(p) PROVE DurabilityInv'
  BY <1>10 DEF NoteDirSync
<1>11. ASSUME NEW p \in Procs, NoteNext(p) PROVE DurabilityInv'
  BY ONLY <1>11, DurabilityInv, KeepNoteNext
<1>12. ASSUME NEW p \in Procs, WritedbOpen(p) PROVE DurabilityInv'
  BY <1>12 DEF WritedbOpen
<1>13. ASSUME NEW p \in Procs, WritedbFsync(p) PROVE DurabilityInv'
  BY <1>13 DEF WritedbFsync
<1>14. ASSUME NEW p \in Procs, WritedbRename(p) PROVE DurabilityInv'
  BY <1>14 DEF WritedbRename
<1>15. ASSUME NEW p \in Procs, WritedbDirSync(p) PROVE DurabilityInv'
  BY <1>15 DEF WritedbDirSync
<1>16. ASSUME NEW p \in Procs, UnlinkUpdate(p) PROVE DurabilityInv'
  BY ONLY <1>16, DurabilityInv, KeepUnlinkUpdate
<1>17. ASSUME NEW p \in Procs, UnlinkDirSync(p) PROVE DurabilityInv'
  BY ONLY <1>17, DurabilityInv, KeepUnlinkDirSync
<1>18. ASSUME NEW p \in Procs, Checkpoint(p) PROVE DurabilityInv'
  BY <1>18 DEF Checkpoint, StartCheckpoint
<1>19. ASSUME NEW p \in Procs, Shutdown(p) PROVE DurabilityInv'
  BY <1>19 DEF Shutdown, StartCheckpoint
<1>20. ASSUME NEW p \in Procs, Unlock(p) \/ CloseReadOnly(p) \/ Die(p) PROVE DurabilityInv'
  <2>1. Forget({p}) /\ UNCHANGED disk
    BY <1>20 DEF Unlock, CloseReadOnly, Die
  <2>2. /\ {p} \in SUBSET Procs /\ ViewsAreCurrent'
        /\ status' \in Db /\ updates' \in Journal
        /\ sViews' \in SUBSET Db /\ uViews' \in SUBSET Journal
    BY <2>1
  <2> QED BY ONLY DurabilityInv, <2>1, <2>2, ForgetKeepsInv
<1>21. ASSUME PowerLoss PROVE DurabilityInv'
  BY <1>21, ForgetKeepsInv DEF PowerLoss
<1> QED BY <1>0, <1>1, <1>2, <1>3, <1>4, <1>5, <1>6, <1>7, <1>8, <1>9, <1>10, <1>11, <1>12, <1>13, <1>14, <1>15, <1>16, <1>17, <1>18, <1>19, <1>20, <1>21 DEF Next, Continue, Request

(***************************************************************************)
(* The inductive invariant: the lock excludes other writers, the journal   *)
(* is what the writer's counters say, and at each point of a note or a     *)
(* checkpoint of dbmodify.c the disk holds what the steps before it wrote. *)
(***************************************************************************)
THEOREM Invariance == Spec => []DurabilityInv
BY InvInit, InvStep, PTL DEF Spec

(***************************************************************************)
(* Type correctness of the status database.                                *)
(***************************************************************************)
THEOREM TypeCorrect == Spec => []TypeOK
<1>1. DurabilityInv => TypeOK
  BY DEF DurabilityInv
<1> QED BY <1>1, Invariance, PTL

(***************************************************************************)
(* The names that modstatdb_note_core() and modstatdb_checkpoint() derive  *)
(* from nextupdate are always those of the files that are there.           *)
(***************************************************************************)
THEOREM JournalCorrect == Spec => []JournalMatchesCounter
<1>1. DurabilityInv => JournalMatchesCounter
  BY DEF DurabilityInv
<1> QED BY <1>1, Invariance, PTL

(***************************************************************************)
(* The newest entry of a journal decides what its package is, whichever    *)
(* status file is under it.                                                *)
(***************************************************************************)
LEMMA NewestEntryDecides ==
    ASSUME NEW s, NEW u, NEW k \in Index, NEW q, NEW v,
           u[k] = [pkg |-> q, val |-> v], u[k] # NoFile,
           \A j \in Entries(u) : j <= k
    PROVE  Value(s, u, q) = v
<1>1. k \in About(u, q)
  BY DEF About, Entries
<1>2. Latest(u, q) \in About(u, q) /\ k <= Latest(u, q)
  BY <1>1, LatestIsGreatest
<1>3. Latest(u, q) \in Index /\ Latest(u, q) <= k
  BY <1>2 DEF About, Entries
<1>4. Latest(u, q) = k
  BY <1>2, <1>3, MaxUpdatesAssumption DEF Index
<1> QED BY <1>1, <1>4 DEF Value

(***************************************************************************)
(* modstatdb_note(): when the updates directory has been fsynced, a crash  *)
(* of any kind leaves the noted package as it is in memory.                *)
(***************************************************************************)
THEOREM NotesAreDurable == Spec => []NotedIsDurable
<1>1. DurabilityInv => NotedIsDurable
  <2> SUFFICES ASSUME DurabilityInv, NEW p \in Procs, pc[p] = "noteNext"
               PROVE  Held(cur[p]) = {mem[p][cur[p]]}
    BY DEF NotedIsDurable
  <2> USE DEF DurabilityInv
  <2> DEFINE k == nextupdate[p]
             q == cur[p]
  <2>1. cstatus[p] = "write"
    BY DEF LockProtects, Noting
  <2>2. k \in Index /\ uViews = {updates} /\ sViews # {}
    BY <2>1 DEF LocalState, Noting, WriterProgress, ViewsAreCurrent
  <2>3. updates[k] = [pkg |-> q, val |-> mem[p][q]]
    BY <2>1 DEF WriterProgress
  <2>4. Entries(updates) = 0 .. k
    BY <2>1 DEF JournalMatchesCounter
  <2>5. updates[k] # NoFile /\ \A j \in Entries(updates) : j <= k
    BY <2>2, <2>4, MaxUpdatesAssumption DEF Index, Entries
  <2>6. \A s \in sViews : Value(s, updates, q) = mem[p][q]
    BY <2>2, <2>3, <2>5, NewestEntryDecides
  <2> QED BY <2>2, <2>6 DEF Held
<1> QED BY <1>1, Invariance, PTL

(* The invariant implies that modstatdb_unlock() comes after the data.     *)
LEMMA InvShutdown == DurabilityInv => ShutdownIsDurable
<1> SUFFICES ASSUME DurabilityInv, NEW p \in Procs, pc[p] = "unlock", NEW q \in Pkgs
             PROVE  Held(q) = {mem[p][q]}
  BY DEF ShutdownIsDurable
<1> USE DEF DurabilityInv
<1>1. cstatus[p] = "write"
  BY DEF LockProtects
<1>2. sViews = {mem[p]} /\ uViews = {updates}
  BY <1>1 DEF WriterProgress
<1>3. nextupdate[p] = 0
  BY DEF LocalState
<1>4. Entries(updates) = 0 .. nextupdate[p] - 1
  BY <1>1 DEF JournalMatchesCounter
<1>5. About(updates, q) = {}
  BY <1>3, <1>4 DEF About
<1> QED BY <1>2, <1>5 DEF Held, Value

(***************************************************************************)
(* modstatdb_shutdown(): before the lock is released, everything that the  *)
(* session had in memory is on the disk.                                   *)
(***************************************************************************)
THEOREM ShutdownsAreDurable == Spec => []ShutdownIsDurable
BY InvShutdown, Invariance, PTL
-----------------------------------------------------------------------------
(* The status database implements DurableDb.                               *)

USE DEF Goto, At, Writing, disk, TakeLock, CountNote, Unlink, EndCheckpoint, EmptyEntry, EmptyStatus

(***************************************************************************)
(* Value depends only on the entries about the package.                    *)
(***************************************************************************)
LEMMA SameEntriesSameValue ==
    ASSUME NEW s, NEW u, NEW w, NEW q,
           About(u, q) = About(w, q), \A k \in About(u, q) : u[k] = w[k]
    PROVE  Value(s, u, q) = Value(s, w, q)
<1>1. Latest(u, q) = Latest(w, q)
  BY DEF Latest
<1>2. CASE About(u, q) = {}
  BY <1>2 DEF Value
<1>3. CASE About(u, q) # {}
  BY <1>1, <1>3, LatestIsGreatest DEF Value
<1> QED BY <1>2, <1>3

(* The value of a package in a recovered database is one of Vals.          *)
LEMMA ValueType ==
    ASSUME NEW s \in Db, NEW u \in Journal, NEW q \in Pkgs
    PROVE  Value(s, u, q) \in Vals
<1>1. CASE About(u, q) = {}
  BY <1>1 DEF Value, Db
<1>2. CASE About(u, q) # {}
  <2>1. Latest(u, q) \in Index /\ u[Latest(u, q)] # NoFile
    BY <1>2, LatestIsGreatest DEF About, Entries
  <2>2. u[Latest(u, q)] \in Stanza
    BY <2>1 DEF Journal
  <2> QED BY <1>2, <2>2 DEF Value, Stanza
<1> QED BY <1>1, <1>2

(***************************************************************************)
(* What a crash can leave for a package is never empty and is a value.     *)
(***************************************************************************)
LEMMA HeldType ==
    ASSUME DurabilityInv, NEW q \in Pkgs
    PROVE  Held(q) # {} /\ Held(q) \in SUBSET Vals
<1>1. Value(status, updates, q) \in Held(q)
  BY DEF DurabilityInv, ViewsAreCurrent, Held
<1>2. \A s \in sViews, u \in uViews : Value(s, u, q) \in Vals
  BY ValueType DEF DurabilityInv, TypeOK
<1> QED BY <1>1, <1>2 DEF Held

(***************************************************************************)
(* Replaying the first of the remaining entries replays a longer prefix.   *)
(***************************************************************************)
LEMMA ReplayOne ==
    ASSUME NEW s \in Db, NEW u \in Journal, NEW T, T \subseteq Entries(u),
           NEW k \in T, \A j \in T : k <= j,
           \A i \in T, j \in Entries(u) \ T : j < i
    PROVE  /\ Apply(Recover(s, Without(u, T)), u[k]) = Recover(s, Without(u, T \ {k}))
           /\ \A i \in T \ {k}, j \in Entries(u) \ (T \ {k}) : j < i
<1> DEFINE w == Without(u, T)
           x == Without(u, T \ {k})
<1>0. k \in Index /\ T \subseteq Index /\ Entries(u) \subseteq Index /\ Index \subseteq Nat
  BY MaxUpdatesAssumption DEF Entries, Index
<1>1. u[k] \in Stanza /\ u[k] # NoFile
  BY <1>0 DEF Entries, Journal
<1>2. Entries(w) = Entries(u) \ T /\ Entries(x) = (Entries(u) \ T) \cup {k}
  BY <1>0, <1>1 DEF Entries, Without
<1>3. x[k] = u[k] /\ \A j \in Entries(w) : x[j] = u[j] /\ w[j] = u[j]
  BY <1>0 DEF Entries, Without
<1>4. \A i \in T \ {k}, j \in Entries(u) \ (T \ {k}) : j < i
  <2> SUFFICES ASSUME NEW i \in T \ {k}, NEW j \in Entries(u) \ (T \ {k})
               PROVE  j < i
    OBVIOUS
  <2>1. CASE j = k
    <3>1. k <= i /\ k # i /\ k \in Nat /\ i \in Nat
      BY <1>0
    <3> QED BY <2>1, <3>1
  <2>2. CASE j # k
    BY <2>2
  <2> QED BY <2>1, <2>2
<1>5. \A j \in Entries(x) : j <= k
  BY <1>0, <1>2
<1> HIDE DEF w, x
<1>6. ASSUME NEW q \in Pkgs
      PROVE  Apply(Recover(s, w), u[k])[q] = Value(s, x, q)
  <2>1. Apply(Recover(s, w), u[k]) = [Recover(s, w) EXCEPT ![u[k].pkg] = u[k].val]
    BY <1>1 DEF Apply
  <2>2. CASE q = u[k].pkg
    <3>1. x[k] = [pkg |-> q, val |-> u[k].val] /\ x[k] # NoFile
      BY <1>1, <1>3, <2>2 DEF Stanza
    <3>2. Value(s, x, q) = u[k].val
      BY <1>0, <1>5, <3>1, NewestEntryDecides
    <3> QED BY <2>1, <2>2, <3>2 DEF Recover
  <2>3. CASE q # u[k].pkg
    <3>1. About(w, q) = About(x, q) /\ \A j \in About(w, q) : w[j] = x[j]
      BY <1>2, <1>3, <2>3 DEF About
    <3>2. Value(s, w, q) = Value(s, x, q)
      BY <3>1, SameEntriesSameValue
    <3> QED BY <2>1, <2>3, <3>2 DEF Recover
  <2> QED BY <2>2, <2>3
<1>7. Apply(Recover(s, w), u[k]) = Recover(s, x)
  <2>1. DOMAIN Apply(Recover(s, w), u[k]) = Pkgs
    BY <1>1 DEF Apply, Recover
  <2>2. Apply(Recover(s, w), u[k]) = [q \in Pkgs |-> Apply(Recover(s, w), u[k])[q]]
    BY <1>1 DEF Apply, Recover
  <2> QED BY <1>6, <2>2 DEF Recover
<1> QED BY <1>4, <1>7 DEF w, x

(* With no entry, the database is the status file; with all of them        *)
(* replayed, it is Recover of the two.                                     *)
LEMMA ReplayEnds ==
    ASSUME NEW s \in Db, NEW u \in Journal
    PROVE  /\ s = Recover(s, Without(u, Entries(u)))
           /\ Without(u, {}) = u
           /\ Entries(u) = {} => s = Recover(s, u)
<1>1. ASSUME NEW w, Entries(w) = {} PROVE s = Recover(s, w)
  <2>1. \A q \in Pkgs : Value(s, w, q) = s[q]
    BY <1>1 DEF Value, About
  <2> QED BY <2>1 DEF Recover, Db
<1>2. Entries(Without(u, Entries(u))) = {}
  BY DEF Entries, Without
<1>3. Without(u, {}) = u
  BY DEF Without, Journal
<1> QED BY <1>1, <1>2, <1>3

(***************************************************************************)
(* The writer that replays is not disturbed: nobody else changes a file.   *)
(***************************************************************************)
LEMMA OthersLeaveDiskAlone ==
    ASSUME DurabilityInv, NEW p \in Procs, lock = p, NEW r \in Procs, r # p,
           Continue(r) \/ Request(r) \/ Die(r)
    PROVE  /\ UNCHANGED <<status, updates, sViews, uViews, lock>>
           /\ pc'[p] = pc[p] /\ cstatus'[p] = cstatus[p] /\ mem'[p] = mem[p]
           /\ todo'[p] = todo[p]
<1> USE DEF DurabilityInv, TypeOK, LockProtects, Noting, Checkpointing, disk
<1>0. cstatus[r] # "write" /\ pc[r] \notin Noting \cup Checkpointing \cup {"unlock"} /\ lock # NoProc
  BY NoProcAssumption
<1>1. CASE OpenReadOnly(r) \/ OpenWrite(r) \/ ParseStatus(r) \/ ScanUpdates(r)
  BY <1>0, <1>1 DEF OpenReadOnly, OpenWrite, ParseStatus, ScanUpdates
<1>2. CASE ParseUpdate(r)
  BY <1>0, <1>2 DEF ParseUpdate
<1>3. CASE CloseReadOnly(r) \/ Die(r)
  <2>1. Forget({r}) /\ UNCHANGED disk /\ p \notin {r} /\ lock \notin {r}
    BY <1>3 DEF CloseReadOnly, Die
  <2> QED BY <2>1 DEF Forget
<1>4. CASE \/ NoteFsync(r) \/ NoteRename(r) \/ NoteDirSync(r) \/ NoteNext(r)
           \/ WritedbOpen(r) \/ WritedbFsync(r) \/ WritedbRename(r) \/ WritedbDirSync(r)
           \/ UnlinkUpdate(r) \/ UnlinkDirSync(r) \/ Unlock(r)
  BY <1>0, <1>4 DEF NoteFsync, NoteRename, NoteDirSync, NoteNext, WritedbOpen, WritedbFsync,
     WritedbRename, WritedbDirSync, UnlinkUpdate, UnlinkDirSync, Unlock
<1>5. CASE \/ Checkpoint(r) \/ Shutdown(r)
           \/ \E q \in Pkgs, v \in Vals : SetPackage(r, q, v)
           \/ \E q \in Pkgs : NoteWrite(r, q)
  BY <1>0, <1>5 DEF Checkpoint, Shutdown, SetPackage, NoteWrite
<1> QED BY <1>1, <1>2, <1>3, <1>4, <1>5 DEF Continue, Request

(***************************************************************************)
(* The step with which a writer replays one journal entry.                 *)
(***************************************************************************)
LEMMA ReplayParse ==
    ASSUME DurabilityInv, ReplayProgress, NEW p \in Procs, cstatus[p] = "write", ParseUpdate(p)
    PROVE  LET k == First(todo[p]) IN
           /\ UNCHANGED <<status, updates, cstatus>>
           /\ mem'[p] = Recover(status, Without(updates, todo[p] \ {k}))
           /\ \A i \in todo[p] \ {k}, j \in Entries(updates) \ (todo[p] \ {k}) : j < i
           /\ todo[p] = {k} => pc'[p] = "wdbOpen" /\ mem'[p] = Recover(status, updates)
           /\ todo[p] # {k} => pc'[p] = "parseUpdate" /\ todo'[p] = todo[p] \ {k}
<1> DEFINE k == First(todo[p])
<1>1. /\ pc[p] = "parseUpdate" /\ todo[p] # {} /\ todo[p] \in SUBSET Nat
      /\ status \in Db /\ updates \in Journal /\ mem \in [Procs -> Db]
      /\ todo \in [Procs -> SUBSET Index] /\ pc \in [Procs -> Labels]
  BY MaxUpdatesAssumption DEF ParseUpdate, DurabilityInv, LocalState, TypeOK, Index
<1>2. /\ todo[p] \subseteq Entries(updates)
      /\ \A i \in todo[p], j \in Entries(updates) \ todo[p] : j < i
      /\ mem[p] = Recover(status, Without(updates, todo[p]))
  BY <1>1 DEF ReplayProgress
<1>3. k \in todo[p] /\ \A j \in todo[p] : k <= j
  BY <1>1, FirstIsLeast
<1>4. mem'[p] = Apply(mem[p], updates[k])
  BY <1>1 DEF ParseUpdate
<1>5. UNCHANGED <<status, updates, cstatus>>
  BY DEF ParseUpdate
<1>6. /\ mem'[p] = Recover(status, Without(updates, todo[p] \ {k}))
      /\ \A i \in todo[p] \ {k}, j \in Entries(updates) \ (todo[p] \ {k}) : j < i
  <2> HIDE DEF k
  <2> QED BY <1>1, <1>2, <1>3, <1>4, ReplayOne
<1>7. ASSUME todo[p] = {k} PROVE pc'[p] = "wdbOpen" /\ mem'[p] = Recover(status, updates)
  <2>1. pc'[p] = "wdbOpen"
    BY <1>1, <1>7 DEF ParseUpdate
  <2>2. todo[p] \ {k} = {}
    BY <1>7
  <2> QED BY <1>1, <1>6, <2>1, <2>2, ReplayEnds
<1>8. ASSUME todo[p] # {k} PROVE pc'[p] = "parseUpdate" /\ todo'[p] = todo[p] \ {k}
  BY <1>1, <1>8 DEF ParseUpdate
<1> QED BY <1>5, <1>6, <1>7, <1>8

(* Every step keeps what a replaying writer has read in step with the      *)
(* disk.                                                                   *)
LEMMA ReplayStep == DurabilityInv /\ ReplayProgress /\ [Next]_vars => ReplayProgress'
<1> SUFFICES ASSUME DurabilityInv, ReplayProgress, [Next]_vars,
                    NEW p \in Procs, cstatus'[p] = "write", pc'[p] \in {"scan", "parseUpdate"}
             PROVE  /\ pc'[p] = "scan" => mem'[p] = status'
                    /\ pc'[p] = "parseUpdate" =>
                         /\ todo'[p] \subseteq Entries(updates')
                         /\ \A k \in todo'[p], j \in Entries(updates') \ todo'[p] : j < k
                         /\ mem'[p] = Recover(status', Without(updates', todo'[p]))
  BY DEF ReplayProgress
<1>0. TypeOK /\ LockProtects
  BY DEF DurabilityInv
<1>1. CASE UNCHANGED vars
  BY <1>1 DEF vars, ReplayProgress
<1>2. CASE PowerLoss
  BY <1>2 DEF PowerLoss, Forget
<1>3. ASSUME NEW r \in Procs, r # p, Continue(r) \/ Request(r) \/ Die(r)
      PROVE  /\ pc'[p] = pc[p] /\ cstatus'[p] = cstatus[p] /\ mem'[p] = mem[p] /\ todo'[p] = todo[p]
             /\ cstatus[p] = "write" /\ UNCHANGED <<status, updates>>
  <2>1. cstatus[p] = "write" /\ lock = p
    <3>1. CASE cstatus[p] = "write"
      BY <1>0, <3>1 DEF LockProtects
    <3>2. CASE cstatus[p] # "write"
      <4>1. CASE OpenReadOnly(r) \/ OpenWrite(r)
        BY <1>0, <1>3, <3>2, <4>1 DEF TypeOK, OpenReadOnly, OpenWrite
      <4>2. CASE CloseReadOnly(r) \/ Die(r) \/ Unlock(r)
        BY <1>0, <1>3, <3>2, <4>2 DEF TypeOK, CloseReadOnly, Die, Unlock, Forget
      <4>3. CASE UNCHANGED cstatus
        BY <3>2, <4>3
      <4> QED BY <1>3, <4>1, <4>2, <4>3 DEF Continue, Request, ParseStatus, ScanUpdates,
              ParseUpdate, NoteFsync, NoteRename, NoteDirSync, NoteNext, WritedbOpen,
              WritedbFsync, WritedbRename, WritedbDirSync, UnlinkUpdate, UnlinkDirSync,
              Checkpoint, Shutdown, SetPackage, NoteWrite
    <3> QED BY <3>1, <3>2
  <2> QED BY <1>3, <2>1, OthersLeaveDiskAlone
<1>4. CASE \E r \in Procs : r # p /\ (Continue(r) \/ Request(r) \/ Die(r))
  BY <1>3, <1>4 DEF ReplayProgress
<1>5. CASE ParseStatus(p)
  BY <1>0, <1>5 DEF ParseStatus, TypeOK
<1>6. CASE ScanUpdates(p)
  <2>1. /\ pc[p] = "scan" /\ mem'[p] = mem[p] /\ UNCHANGED <<status, updates, cstatus>>
        /\ todo'[p] = Entries(updates) /\ pc'[p] # "scan"
    BY <1>0, <1>6 DEF ScanUpdates, TypeOK
  <2>2. mem[p] = status
    BY <2>1 DEF ReplayProgress
  <2>3. mem'[p] = Recover(status', Without(updates', todo'[p]))
    BY <1>0, <2>1, <2>2, ReplayEnds DEF TypeOK
  <2> QED BY <2>1, <2>3
<1>7. CASE ParseUpdate(p)
  <2>1. cstatus[p] = "write" /\ pc[p] = "parseUpdate"
    BY <1>7 DEF ParseUpdate
  <2> DEFINE k == First(todo[p])
  <2>2. /\ UNCHANGED <<status, updates>>
        /\ mem'[p] = Recover(status, Without(updates, todo[p] \ {k}))
        /\ \A i \in todo[p] \ {k}, j \in Entries(updates) \ (todo[p] \ {k}) : j < i
        /\ todo[p] = {k} => pc'[p] = "wdbOpen"
        /\ todo[p] # {k} => pc'[p] = "parseUpdate" /\ todo'[p] = todo[p] \ {k}
    BY <1>7, <2>1, ReplayParse
  <2>3. todo[p] \subseteq Entries(updates)
    BY <2>1 DEF ReplayProgress
  <2> HIDE DEF k
  <2> QED BY <2>2, <2>3
<1>8. CASE OpenReadOnly(p) \/ OpenWrite(p) \/ CloseReadOnly(p) \/ Die(p) \/ Unlock(p)
  BY <1>0, <1>8 DEF OpenReadOnly, OpenWrite, CloseReadOnly, Die, Unlock, Forget, TypeOK
<1>9. CASE \/ NoteFsync(p) \/ NoteRename(p) \/ NoteDirSync(p) \/ NoteNext(p)
           \/ WritedbOpen(p) \/ WritedbFsync(p) \/ WritedbRename(p) \/ WritedbDirSync(p)
           \/ UnlinkUpdate(p) \/ UnlinkDirSync(p) \/ Checkpoint(p) \/ Shutdown(p)
           \/ \E q \in Pkgs, v \in Vals : SetPackage(p, q, v)
           \/ \E q \in Pkgs : NoteWrite(p, q)
  BY <1>0, <1>9 DEF NoteFsync, NoteRename, NoteDirSync, NoteNext, StartCheckpoint, WritedbOpen,
     WritedbFsync, WritedbRename, WritedbDirSync, UnlinkUpdate, UnlinkDirSync, Checkpoint,
     Shutdown, SetPackage, NoteWrite, TypeOK
<1> QED BY <1>1, <1>2, <1>4, <1>5, <1>6, <1>7, <1>8, <1>9 DEF Next, Continue, Request

(***************************************************************************)
(* A writer in cleanupdates() has applied exactly the journal entries that *)
(* come before the ones its loop has still to reach.                       *)
(***************************************************************************)
THEOREM ReplayInvariance == Spec => [](DurabilityInv /\ ReplayProgress)
<1>1. Init => ReplayProgress
  BY DEF Init, ReplayProgress
<1> QED BY <1>1, ReplayStep, Invariance, PTL DEF Spec

(***************************************************************************)
(* What each step may add to the values that a crash can leave.            *)
(***************************************************************************)
OwnersValue(q) == {mem[p][q] : p \in {r \in Procs : lock = r}}

(* A step adds to them at most what the owner of the lock has in memory.   *)
LEMMA HeldStep ==
    ASSUME DurabilityInv, [Next]_vars, NEW q \in Pkgs
    PROVE  Held(q)' \subseteq Held(q) \cup OwnersValue(q)
<1> USE DEF DurabilityInv
<1>1. CASE sViews' \subseteq sViews /\ uViews' \subseteq uViews
  BY <1>1 DEF Held
<1>2. ASSUME NEW p \in Procs, NoteRename(p) PROVE Held(q)' \subseteq Held(q) \cup OwnersValue(q)
  <2> DEFINE k == nextupdate[p]
  <2>0. pc[p] = "noteRename" /\ synced[p] /\ cstatus[p] = "write" /\ lock = p
    BY <1>2 DEF NoteRename, LocalState, LockProtects, Noting
  <2>1. sViews' = sViews /\ uViews' = uViews \cup {updates'}
    BY <1>2, <2>0 DEF NoteRename
  <2>2. k \in Index /\ cur[p] \in Pkgs /\ mem[p] \in Db
    BY <2>0 DEF LocalState, Noting, TypeOK
  <2>3. updates'[k] = [pkg |-> cur[p], val |-> mem[p][cur[p]]] /\ \A j \in Index \ {k} : updates'[j] = updates[j]
    BY <1>2, <2>2 DEF NoteRename, TypeOK, Journal
  <2>4. updates'[k] # NoFile
    BY <2>2, <2>3, NoFileAssumption DEF Db
  <2>5. Entries(updates) = 0 .. k - 1 /\ Entries(updates') = Entries(updates) \cup {k}
    BY <2>0, <2>2, <2>3, <2>4 DEF JournalMatchesCounter, Entries
  <2>6. \A j \in Entries(updates') : j <= k
    BY <2>2, <2>5, MaxUpdatesAssumption DEF Index
  <2>7. ASSUME NEW s \in sViews PROVE Value(s, updates', q) \in Held(q) \cup OwnersValue(q)
    <3>1. CASE q = cur[p]
      <4>1. Value(s, updates', q) = mem[p][q]
        BY <2>2, <2>3, <2>4, <2>6, <3>1, NewestEntryDecides
      <4> QED BY <2>0, <4>1 DEF OwnersValue
    <3>2. CASE q # cur[p]
      <4>1. k \notin Entries(updates)
        BY <2>2, <2>5, MaxUpdatesAssumption DEF Index
      <4>2. About(updates', q) = About(updates, q)
        BY <2>3, <2>5, <3>2, <4>1 DEF About, Entries
      <4>3. \A j \in About(updates, q) : updates'[j] = updates[j]
        BY <2>3, <4>1 DEF About, Entries
      <4>4. Value(s, updates', q) = Value(s, updates, q)
        BY <4>2, <4>3, SameEntriesSameValue
      <4> QED BY <4>4 DEF Held, ViewsAreCurrent
    <3> QED BY <3>1, <3>2
  <2> QED BY <2>1, <2>7 DEF Held
<1>3. ASSUME NEW p \in Procs, WritedbRename(p) PROVE Held(q)' \subseteq Held(q) \cup OwnersValue(q)
  <2>1. lock = p /\ uViews' = uViews /\ sViews' = sViews \cup {mem[p]}
    BY <1>3 DEF WritedbRename, LocalState, LockProtects, Checkpointing
  <2>2. ASSUME NEW u \in uViews PROVE Value(mem[p], u, q) \in Held(q) \cup OwnersValue(q)
    <3>1. CASE About(u, q) = {}
      BY <2>1, <3>1 DEF Value, OwnersValue
    <3>2. CASE About(u, q) # {}
      <4>1. Value(mem[p], u, q) = Value(status, u, q)
        BY <3>2 DEF Value
      <4> QED BY <4>1 DEF Held, ViewsAreCurrent
    <3> QED BY <3>1, <3>2
  <2> QED BY <2>1, <2>2 DEF Held
<1>4. ASSUME NEW p \in Procs, UnlinkUpdate(p) PROVE Held(q)' \subseteq Held(q) \cup OwnersValue(q)
  <2> DEFINE k == First(todo[p])
  <2>1. pc[p] = "unlink" /\ cstatus[p] = "write" /\ lock = p
    BY <1>4 DEF UnlinkUpdate, LockProtects, Checkpointing
  <2>2. sViews' = sViews /\ sViews = {mem[p]} /\ uViews' = uViews \cup {updates'}
    BY <1>4, <2>1 DEF UnlinkUpdate, WriterProgress
  <2>3. todo[p] \in SUBSET Nat /\ todo[p] # {} /\ todo[p] = Entries(updates)
    BY <2>1, MaxUpdatesAssumption DEF TypeOK, LocalState, JournalMatchesCounter, Index
  <2>4. k \in Entries(updates) /\ \A j \in Entries(updates) : k <= j
    BY <2>3, FirstIsLeast
  <2>5. updates'[k] = NoFile /\ \A j \in Index \ {k} : updates'[j] = updates[j]
    BY <1>4, <2>4 DEF UnlinkUpdate, TypeOK, Journal, Entries
  <2> HIDE DEF k
  <2>6. Value(mem[p], updates', q) \in Held(q) \cup OwnersValue(q)
    <3>1. CASE About(updates', q) = {}
      BY <2>1, <3>1 DEF Value, OwnersValue
    <3>2. CASE About(updates', q) # {}
      <4>1. About(updates', q) = About(updates, q) \ {k}
        BY <2>4, <2>5 DEF About, Entries
      <4>2. About(updates, q) # {}
        BY <3>2, <4>1
      <4> DEFINE n == Latest(updates', q)
                 m == Latest(updates, q)
      <4>3. n \in About(updates', q) /\ \A j \in About(updates', q) : j <= n
        BY <3>2, LatestIsGreatest
      <4>4. m \in About(updates, q) /\ \A j \in About(updates, q) : j <= m
        BY <4>2, LatestIsGreatest
      <4>5. n \in Nat /\ m \in Nat /\ k \in Nat /\ k <= n /\ n # k /\ n <= m
        BY <2>3, <2>4, <4>1, <4>3, <4>4 DEF About
      <4>6. m # k
        BY <4>5
      <4>7. n = m
        BY <4>1, <4>3, <4>4, <4>5, <4>6
      <4>8. updates'[m] = updates[m]
        BY <2>5, <4>4, <4>6 DEF About, Entries
      <4>9. Value(mem[p], updates', q) = Value(mem[p], updates, q)
        BY <3>2, <4>2, <4>7, <4>8 DEF Value
      <4> QED BY <2>2, <4>9 DEF Held, ViewsAreCurrent
    <3> QED BY <3>1, <3>2
  <2> QED BY <2>2, <2>6 DEF Held
<1>5. CASE PowerLoss
  BY <1>1, <1>5 DEF PowerLoss
<1>6. CASE UNCHANGED vars
  BY <1>1, <1>6 DEF vars
<1>7. ASSUME NEW p \in Procs, NoteDirSync(p) \/ WritedbDirSync(p) \/ UnlinkDirSync(p)
      PROVE Held(q)' \subseteq Held(q) \cup OwnersValue(q)
  BY <1>1, <1>7 DEF NoteDirSync, WritedbDirSync, UnlinkDirSync, ViewsAreCurrent, LocalState
<1>8. ASSUME NEW p \in Procs,
             \/ OpenReadOnly(p) \/ OpenWrite(p) \/ ParseStatus(p) \/ ScanUpdates(p) \/ ParseUpdate(p)
             \/ NoteFsync(p) \/ NoteNext(p) \/ WritedbOpen(p) \/ WritedbFsync(p)
             \/ Unlock(p) \/ CloseReadOnly(p) \/ Die(p) \/ Checkpoint(p) \/ Shutdown(p)
             \/ \E r \in Pkgs, v \in Vals : SetPackage(p, r, v)
             \/ \E r \in Pkgs : NoteWrite(p, r)
      PROVE Held(q)' \subseteq Held(q) \cup OwnersValue(q)
  <2>1. UNCHANGED <<sViews, uViews>>
    BY <1>8 DEF OpenReadOnly, OpenWrite, ParseStatus, ScanUpdates, ParseUpdate, NoteFsync, NoteNext,
       WritedbOpen, WritedbFsync, Unlock, CloseReadOnly, Die, Checkpoint, Shutdown, SetPackage, NoteWrite
  <2> QED BY <1>1, <2>1
<1> QED BY <1>2, <1>3, <1>4, <1>5, <1>6, <1>7, <1>8 DEF Next, Continue, Request

(***************************************************************************)
(* No old value of a package comes back, whatever is lost and whenever:    *)
(* a step adds at most what the lock owner has in memory.                  *)
(***************************************************************************)
THEOREM NothingComesBack == Spec => OnlyWriterAddsValues
<1>1. DurabilityInv /\ [Next]_vars =>
        [\A q \in Pkgs : Held(q)' \subseteq Held(q) \cup {mem[p][q] : p \in {r \in Procs : lock = r}}]_vars
  BY HeldStep DEF OwnersValue
<1> QED BY <1>1, Invariance, PTL DEF Spec, OnlyWriterAddsValues

(***************************************************************************)
(* The steps that begin a session: a writer has listed an empty journal,   *)
(* or has replayed the last entry.                                         *)
(***************************************************************************)
LEMMA SessionBegins ==
    ASSUME DurabilityInv, ReplayProgress, NEW p \in Procs, cstatus[p] = "write",
           pc[p] \in Replaying, ScanUpdates(p) \/ ParseUpdate(p), pc'[p] \notin Replaying
    PROVE  mem'[p] = Recover(status, updates) /\ UNCHANGED <<status, updates>>
<1>0. TypeOK
  BY DEF DurabilityInv
<1>1. CASE ScanUpdates(p)
  <2>1. pc[p] = "scan" /\ mem'[p] = mem[p] /\ UNCHANGED <<status, updates>> /\ Entries(updates) = {}
    BY <1>0, <1>1 DEF ScanUpdates, TypeOK, Replaying
  <2>2. mem[p] = status
    BY <2>1 DEF ReplayProgress
  <2> QED BY <1>0, <2>1, <2>2, ReplayEnds DEF TypeOK
<1>2. CASE ParseUpdate(p)
  BY <1>2, ReplayParse DEF Replaying
<1> QED BY <1>1, <1>2

(***************************************************************************)
(* cleanupdates() of a writer computes Recover, file by file.              *)
(***************************************************************************)
THEOREM ReplayIsRecover == Spec => WriterReadsRecover
<1>1. ASSUME DurabilityInv, ReplayProgress, [Next]_vars, NEW p \in Procs, cstatus[p] = "write",
             pc[p] \in {"scan", "parseUpdate"}, pc'[p] \in {"ready", "wdbOpen"}
      PROVE  mem'[p] = Recover(status', updates')
  <2>0. TypeOK /\ lock = p
    BY <1>1 DEF DurabilityInv, LockProtects
  <2>1. CASE ScanUpdates(p) \/ ParseUpdate(p)
    <3>1. mem'[p] = Recover(status, updates) /\ UNCHANGED <<status, updates>>
      BY <1>1, <2>1, SessionBegins DEF Replaying
    <3> QED BY <3>1
  <2>2. CASE UNCHANGED vars
    BY <1>1, <2>2 DEF vars
  <2>3. CASE PowerLoss
    BY <1>1, <2>3 DEF PowerLoss, Forget
  <2>4. ASSUME NEW r \in Procs, r # p, Continue(r) \/ Request(r) \/ Die(r) PROVE FALSE
    BY <1>1, <2>0, <2>4, OthersLeaveDiskAlone
  <2>5. CASE Die(p) \/ Unlock(p) \/ CloseReadOnly(p)
    BY <1>1, <2>0, <2>5 DEF Die, Unlock, CloseReadOnly, Forget, TypeOK
  <2>6. CASE \/ OpenReadOnly(p) \/ OpenWrite(p) \/ ParseStatus(p)
             \/ NoteFsync(p) \/ NoteRename(p) \/ NoteDirSync(p) \/ NoteNext(p)
             \/ WritedbOpen(p) \/ WritedbFsync(p) \/ WritedbRename(p) \/ WritedbDirSync(p)
             \/ UnlinkUpdate(p) \/ UnlinkDirSync(p) \/ Checkpoint(p) \/ Shutdown(p)
             \/ \E q \in Pkgs, v \in Vals : SetPackage(p, q, v)
             \/ \E q \in Pkgs : NoteWrite(p, q)
    BY <1>1, <2>0, <2>6 DEF OpenReadOnly, OpenWrite, ParseStatus, NoteFsync, NoteRename, NoteDirSync,
       NoteNext, WritedbOpen, WritedbFsync, WritedbRename, WritedbDirSync, UnlinkUpdate,
       UnlinkDirSync, Checkpoint, Shutdown, SetPackage, NoteWrite, TypeOK
  <2> QED BY <1>1, <2>1, <2>2, <2>3, <2>4, <2>5, <2>6 DEF Next, Continue, Request
<1>2. DurabilityInv /\ ReplayProgress /\ [Next]_vars =>
        [\A p \in Procs :
           /\ cstatus[p] = "write"
           /\ pc[p] \in {"scan", "parseUpdate"}
           /\ pc'[p] \in {"ready", "wdbOpen"}
           => mem'[p] = Recover(status', updates')]_vars
  BY <1>1
<1> QED BY <1>2, ReplayInvariance, PTL DEF Spec, WriterReadsRecover

-----------------------------------------------------------------------------
(***************************************************************************)
(* The refinement mapping.                                                 *)
(***************************************************************************)
HeldMap    == [q \in Pkgs |-> Held(q)]
SessionMap == IF \E p \in Procs : InSession(p) THEN mem[lock] ELSE NoSession

(* The session is the memory of the lock owner.                            *)
LEMMA SessionIsOwners ==
    ASSUME DurabilityInv
    PROVE  /\ \A p \in Procs : InSession(p) => SessionMap = mem[p] /\ SessionMap # NoSession
           /\ (\A p \in Procs : ~InSession(p)) => SessionMap = NoSession
<1>1. ASSUME NEW p \in Procs, InSession(p) PROVE SessionMap = mem[p] /\ SessionMap # NoSession
  <2>1. SessionMap = mem[p] /\ mem[p] \in Db
    BY <1>1 DEF SessionMap, InSession, DurabilityInv, TypeOK
  <2> QED BY <2>1, NoFileAssumption DEF NoSession, Db
<1> QED BY <1>1 DEF SessionMap

(* The refinement mapping gives each package a set of values.              *)
LEMMA HeldMapType ==
    ASSUME DurabilityInv
    PROVE  HeldMap \in [Pkgs -> SUBSET Vals] /\ \A q \in Pkgs : HeldMap[q] # {}
BY HeldType DEF HeldMap

(***************************************************************************)
(* A process without the lock can at most take it.                         *)
(***************************************************************************)
LEMMA ReaderStep ==
    ASSUME DurabilityInv, NEW r \in Procs, lock # r, Continue(r) \/ Request(r) \/ Die(r)
    PROVE  /\ UNCHANGED <<sViews, uViews>>
           /\ \/ lock' = lock
              \/ lock = NoProc /\ lock' = r /\ pc'[r] \in Replaying
           /\ \A p \in Procs \ {r} : pc'[p] = pc[p] /\ mem'[p] = mem[p]
<1> USE DEF DurabilityInv, TypeOK, LockProtects, Noting, Checkpointing, Replaying
<1>0. cstatus[r] # "write" /\ pc[r] \notin Noting \cup Checkpointing \cup {"unlock"}
  OBVIOUS
<1>1. CASE OpenReadOnly(r) \/ OpenWrite(r) \/ ParseStatus(r) \/ ScanUpdates(r)
  BY <1>0, <1>1 DEF OpenReadOnly, OpenWrite, ParseStatus, ScanUpdates
<1>2. CASE ParseUpdate(r)
  BY <1>0, <1>2 DEF ParseUpdate
<1>3. CASE CloseReadOnly(r) \/ Die(r)
  <2>1. Forget({r}) /\ UNCHANGED disk /\ lock \notin {r}
    BY <1>3 DEF CloseReadOnly, Die
  <2> QED BY <2>1 DEF Forget
<1>4. CASE \/ NoteFsync(r) \/ NoteRename(r) \/ NoteDirSync(r) \/ NoteNext(r)
           \/ WritedbOpen(r) \/ WritedbFsync(r) \/ WritedbRename(r) \/ WritedbDirSync(r)
           \/ UnlinkUpdate(r) \/ UnlinkDirSync(r) \/ Unlock(r)
  BY <1>0, <1>4 DEF NoteFsync, NoteRename, NoteDirSync, NoteNext, WritedbOpen, WritedbFsync,
     WritedbRename, WritedbDirSync, UnlinkUpdate, UnlinkDirSync, Unlock
<1>5. CASE \/ Checkpoint(r) \/ Shutdown(r)
           \/ \E q \in Pkgs, v \in Vals : SetPackage(r, q, v)
           \/ \E q \in Pkgs : NoteWrite(r, q)
  BY <1>0, <1>5 DEF Checkpoint, Shutdown, SetPackage, NoteWrite
<1> QED BY <1>1, <1>2, <1>3, <1>4, <1>5 DEF Continue, Request

(***************************************************************************)
(* Every step of the status database is a step of DurableDb, or none.      *)
(***************************************************************************)
LEMMA RefinementStep ==
    ASSUME DurabilityInv, DurabilityInv', ReplayProgress, [Next]_vars
    PROVE  [Durable!Next]_(Durable!vars)
<1> DEFINE Goal == [Durable!Next]_(Durable!vars)
<1> USE DEF HeldMap, SessionMap
<1>0. HeldMap' \in [Pkgs -> SUBSET Vals] /\ \A q \in Pkgs : HeldMap[q] # {} /\ HeldMap'[q] # {}
  <2> HIDE DEF HeldMap
  <2>1. HeldMap \in [Pkgs -> SUBSET Vals] /\ \A q \in Pkgs : HeldMap[q] # {}
    BY HeldMapType
  <2>2. HeldMap' \in [Pkgs -> SUBSET Vals] /\ \A q \in Pkgs : HeldMap'[q] # {}
    <3>1. ASSUME NEW q \in Pkgs PROVE Held(q)' \in SUBSET Vals /\ Held(q)' # {}
      <4>1. \A x \in sViews', u \in uViews' : Value(x, u, q) \in Vals
        BY ValueType DEF DurabilityInv, TypeOK
      <4>2. Value(status', updates', q) \in Held(q)'
        BY DEF DurabilityInv, ViewsAreCurrent, Held
      <4> QED BY <4>1, <4>2 DEF Held
    <3> QED BY <3>1 DEF HeldMap
  <2> QED BY <2>1, <2>2
<1>1. ASSUME UNCHANGED <<HeldMap, SessionMap>> PROVE Goal
  BY <1>1 DEF Durable!vars
<1>2. ASSUME SessionMap' = NoSession, \A q \in Pkgs : HeldMap'[q] \subseteq HeldMap[q] PROVE Goal
  BY <1>0, <1>2 DEF Durable!Next, Durable!Crash, Durable!Resolves
<1>3. ASSUME SessionMap = NoSession, SessionMap' \in Db,
             \A q \in Pkgs : SessionMap'[q] \in HeldMap[q], UNCHANGED HeldMap
      PROVE  Goal
  BY <1>0, <1>3 DEF Durable!Next, Durable!Open, Durable!Db, Db
<1>4. ASSUME NEW q \in Pkgs, NEW v \in Vals, SessionMap # NoSession,
             SessionMap' = [SessionMap EXCEPT ![q] = v], UNCHANGED HeldMap
      PROVE  Goal
  BY <1>0, <1>4 DEF Durable!Next, Durable!Set
<1>5. ASSUME SessionMap # NoSession, UNCHANGED SessionMap,
             \A q \in Pkgs : HeldMap'[q] \subseteq HeldMap[q] \cup {SessionMap[q]}
      PROVE  Goal
  BY <1>0, <1>5 DEF Durable!Next, Durable!Save
<1>6. ASSUME SessionMap # NoSession, SessionMap' = NoSession, UNCHANGED HeldMap,
             \A q \in Pkgs : HeldMap[q] = {SessionMap[q]}
      PROVE  Goal
  BY <1>0, <1>6 DEF Durable!Next, Durable!Close
<1> HIDE DEF Goal
<1>7. UNCHANGED <<sViews, uViews>> => UNCHANGED HeldMap
  BY DEF Held
<1> HIDE DEF HeldMap, SessionMap
<1>t. TypeOK /\ LockProtects /\ TypeOK' /\ LockProtects'
  BY DEF DurabilityInv
<1>8. /\ \A p \in Procs : InSession(p) => SessionMap = mem[p] /\ SessionMap # NoSession
      /\ (\A p \in Procs : ~InSession(p)) => SessionMap = NoSession
  BY SessionIsOwners
<1>9. /\ \A p \in Procs : InSession(p)' => SessionMap' = mem'[p]
      /\ (\A p \in Procs : ~InSession(p)') => SessionMap' = NoSession
  BY DEF SessionMap, InSession
<1>10. CASE UNCHANGED vars
  <2>1. UNCHANGED SessionMap
    BY <1>10 DEF vars, SessionMap, InSession
  <2> QED BY <1>1, <1>7, <1>10, <2>1 DEF vars, Goal
<1>11. CASE PowerLoss
  <2>1. \A p \in Procs : ~InSession(p)'
    BY <1>11, <1>t, NoProcAssumption DEF PowerLoss, Forget, InSession, TypeOK
  <2>2. sViews' \subseteq sViews /\ uViews' \subseteq uViews
    BY <1>11 DEF PowerLoss
  <2>3. \A q \in Pkgs : HeldMap'[q] \subseteq HeldMap[q]
    BY <2>2 DEF HeldMap, Held
  <2> QED BY <1>2, <1>9, <2>1, <2>3 DEF Goal
<1>12. ASSUME NEW r \in Procs, lock # r, Continue(r) \/ Request(r) \/ Die(r) PROVE Goal
  <2>1. /\ UNCHANGED <<sViews, uViews>>
        /\ lock' = lock \/ (lock = NoProc /\ lock' = r /\ pc'[r] \in Replaying)
        /\ \A p \in Procs \ {r} : pc'[p] = pc[p] /\ mem'[p] = mem[p]
    BY <1>12, ReaderStep
  <2>2. CASE \E p \in Procs : InSession(p)
    <3> PICK p \in Procs : InSession(p)
      BY <2>2
    <3>1. lock = p /\ lock' = p /\ p # r /\ lock # NoProc
      BY <1>12, <2>1, NoProcAssumption DEF InSession
    <3>2. InSession(p)' /\ mem'[p] = mem[p]
      BY <2>1, <3>1 DEF InSession
    <3> QED BY <1>1, <1>7, <1>8, <1>9, <2>1, <3>2
  <2>3. CASE \A p \in Procs : ~InSession(p)
    <3>1. \A p \in Procs : ~InSession(p)'
      BY <1>12, <2>1, <2>3 DEF InSession, Replaying
    <3> QED BY <1>1, <1>7, <1>8, <1>9, <2>1, <2>3, <3>1
  <2> QED BY <2>2, <2>3
<1>13. ASSUME NEW r \in Procs, lock = r, Continue(r) \/ Request(r) \/ Die(r) PROVE Goal
  <2>0. cstatus[r] = "write" /\ \A p \in Procs \ {r} : ~InSession(p)
    BY <1>13, <1>t DEF LockProtects, InSession
  <2>1. CASE ParseStatus(r) \/ ScanUpdates(r) \/ ParseUpdate(r)
    <3>1. /\ pc[r] \in Replaying /\ UNCHANGED <<sViews, uViews, lock>>
          /\ pc[r] = "parseStatus" => pc'[r] = "scan"
      BY <2>1, <1>t DEF ParseStatus, ScanUpdates, ParseUpdate, Replaying, TypeOK
    <3>2. \A p \in Procs : ~InSession(p)
      BY <2>0, <3>1 DEF InSession, Replaying
    <3>3. CASE pc'[r] \in Replaying
      <4>1. \A p \in Procs : ~InSession(p)'
        BY <1>13, <3>1, <3>3 DEF InSession, Replaying
      <4> QED BY <1>1, <1>7, <1>8, <1>9, <3>1, <3>2, <4>1
    <3>4. CASE pc'[r] \notin Replaying
      <4>1. ScanUpdates(r) \/ ParseUpdate(r)
        BY <2>1, <3>4, <1>t DEF ParseStatus, Replaying, TypeOK
      <4>2. mem'[r] = Recover(status, updates)
        BY <2>0, <3>1, <3>4, <4>1, SessionBegins
      <4>3. InSession(r)'
        BY <1>13, <3>1, <3>4 DEF InSession, Replaying
      <4>4. mem'[r] \in Db
        BY <1>t DEF TypeOK
      <4>5. ASSUME NEW q \in Pkgs PROVE mem'[r][q] \in HeldMap[q]
        BY <4>2 DEF Recover, HeldMap, Held, DurabilityInv, ViewsAreCurrent
      <4> QED BY <1>3, <1>7, <1>8, <1>9, <3>1, <3>2, <4>3, <4>4, <4>5
    <3> QED BY <3>3, <3>4
  <2>2. CASE \E q \in Pkgs, v \in Vals : SetPackage(r, q, v)
    <3> PICK q \in Pkgs, v \in Vals : SetPackage(r, q, v)
      BY <2>2
    <3>1. /\ UNCHANGED <<sViews, uViews, lock, pc>> /\ pc[r] = "ready"
          /\ mem'[r] = [mem[r] EXCEPT ![q] = v]
      BY <1>t DEF SetPackage, TypeOK
    <3>2. InSession(r) /\ InSession(r)'
      BY <1>13, <3>1 DEF InSession
    <3> QED BY <1>4, <1>7, <1>8, <1>9, <3>1, <3>2
  <2>3. CASE Unlock(r)
    <3>1. pc[r] = "unlock" /\ Forget({r}) /\ UNCHANGED disk
      BY <2>3 DEF Unlock
    <3>2. lock' = NoProc
      BY <1>13, <3>1 DEF Forget
    <3>3. InSession(r) /\ \A p \in Procs : ~InSession(p)'
      BY <1>13, <3>1, <3>2, NoProcAssumption DEF InSession
    <3>4. \A q \in Pkgs : HeldMap[q] = {mem[r][q]}
      BY <3>1, InvShutdown DEF ShutdownIsDurable, HeldMap
    <3> QED BY <1>6, <1>7, <1>8, <1>9, <3>1, <3>3, <3>4
  <2>4. CASE Die(r) \/ CloseReadOnly(r)
    <3>1. Forget({r}) /\ UNCHANGED disk
      BY <2>4 DEF Die, CloseReadOnly
    <3>2. \A p \in Procs : ~InSession(p)'
      BY <1>13, <3>1, NoProcAssumption DEF Forget, InSession
    <3>3. UNCHANGED HeldMap
      BY <1>7, <3>1
    <3> QED BY <1>2, <1>9, <3>2, <3>3
  <2>5. CASE OpenReadOnly(r) \/ OpenWrite(r)
    BY <2>0, <2>5, <1>t DEF OpenReadOnly, OpenWrite, LockProtects
  <2>6. CASE \/ NoteFsync(r) \/ NoteRename(r) \/ NoteDirSync(r) \/ NoteNext(r)
             \/ WritedbOpen(r) \/ WritedbFsync(r) \/ WritedbRename(r) \/ WritedbDirSync(r)
             \/ UnlinkUpdate(r) \/ UnlinkDirSync(r) \/ Checkpoint(r) \/ Shutdown(r)
             \/ \E q \in Pkgs : NoteWrite(r, q)
    <3>1. /\ UNCHANGED <<lock, mem>> /\ pc[r] \notin Replaying /\ pc'[r] \notin Replaying
      BY <2>6, <1>t DEF NoteFsync, NoteRename, NoteDirSync, NoteNext, StartCheckpoint, WritedbOpen,
         WritedbFsync, WritedbRename, WritedbDirSync, UnlinkUpdate, UnlinkDirSync, Checkpoint,
         Shutdown, NoteWrite, TypeOK, Replaying
    <3>2. InSession(r) /\ InSession(r)'
      BY <1>13, <3>1 DEF InSession, Replaying
    <3>3. SessionMap = mem[r] /\ SessionMap # NoSession /\ UNCHANGED SessionMap
      BY <1>8, <1>9, <3>1, <3>2
    <3>4. ASSUME NEW q \in Pkgs PROVE HeldMap'[q] \subseteq HeldMap[q] \cup {SessionMap[q]}
      <4>1. Held(q)' \subseteq Held(q) \cup OwnersValue(q)
        BY HeldStep
      <4>2. OwnersValue(q) = {mem[r][q]}
        BY <1>13 DEF OwnersValue
      <4> QED BY <3>3, <4>1, <4>2 DEF HeldMap
    <3> QED BY <1>5, <3>3, <3>4
  <2> QED BY <1>13, <2>1, <2>2, <2>3, <2>4, <2>5, <2>6 DEF Continue, Request
<1> QED BY <1>10, <1>11, <1>12, <1>13 DEF Next, Goal

(***************************************************************************)
(* The status database, with its journal, its checkpoints, its lock-free   *)
(* readers and its crashes, implements one durable register per package.   *)
(***************************************************************************)
THEOREM Refinement == Spec => DurableSpec
<1>1. Init => Durable!Init
  <2> SUFFICES ASSUME Init PROVE Durable!Init
    OBVIOUS
  <2>1. \A p \in Procs : ~InSession(p)
    BY NoProcAssumption DEF Init, InSession
  <2>2. ASSUME NEW q \in Pkgs PROVE Held(q) = {Blank}
    <3>1. About(EmptyJournal, q) = {}
      BY DEF About, Entries, EmptyJournal
    <3>2. Value(EmptyDb, EmptyJournal, q) = Blank
      BY <3>1 DEF Value, EmptyDb
    <3> QED BY <3>2 DEF Init, Held
  <2> QED BY <2>1, <2>2 DEF Durable!Init
<1>2. DurabilityInv /\ DurabilityInv' /\ ReplayProgress /\ [Next]_vars => [Durable!Next]_(Durable!vars)
  BY RefinementStep
<1> QED BY <1>1, <1>2, ReplayInvariance, PTL DEF Spec, DurableSpec, Durable!Spec
-----------------------------------------------------------------------------
(***************************************************************************)
(* What a reader without a lock sees.  The entries that it found when it   *)
(* listed updates/ are its journal; nobody rewrites one of them, and while *)
(* no checkpoint has overtaken the reader they are all there.              *)
(***************************************************************************)
Seen(p) == Without(updates, Index \ cdlist[p])

ReaderProgress ==
    \A p \in Procs : cstatus[p] = "readonly" /\ ~overlap[p] =>
        /\ pc[p] = "scan" => mem[p] = status
        /\ pc[p] = "parseUpdate" =>
              /\ cdlist[p] \subseteq Entries(updates) /\ todo[p] \subseteq cdlist[p]
              /\ \A k \in todo[p], j \in cdlist[p] \ todo[p] : j < k
              /\ mem[p] = Recover(status, Without(Seen(p), todo[p]))
              /\ snapshot[p] = Recover(status, Seen(p))
        /\ pc[p] = "ready" => mem[p] = snapshot[p]

(* The entries of a journal that was cut down to some of them.             *)
LEMMA SeenEntries ==
    ASSUME NEW u \in Journal, NEW C, C \subseteq Entries(u)
    PROVE  /\ Without(u, Index \ C) \in Journal
           /\ Entries(Without(u, Index \ C)) = C
           /\ \A k \in C : Without(u, Index \ C)[k] = u[k]
BY DEF Without, Journal, Entries

(* A process leaves the local state of the others alone.                   *)
LEMMA OthersLeaveMemoryAlone ==
    ASSUME TypeOK, NEW p \in Procs, NEW r \in Procs, r # p,
           Continue(r) \/ Request(r) \/ Die(r)
    PROVE  /\ pc'[p] = pc[p] /\ cstatus'[p] = cstatus[p] /\ mem'[p] = mem[p]
           /\ todo'[p] = todo[p] /\ cdlist'[p] = cdlist[p]
<1> USE DEF TypeOK
<1>1. CASE OpenReadOnly(r) \/ OpenWrite(r) \/ ParseStatus(r) \/ ScanUpdates(r)
  BY <1>1 DEF OpenReadOnly, OpenWrite, ParseStatus, ScanUpdates
<1>2. CASE ParseUpdate(r)
  BY <1>2 DEF ParseUpdate
<1>3. CASE CloseReadOnly(r) \/ Die(r) \/ Unlock(r)
  <2>1. Forget({r}) /\ p \notin {r}
    BY <1>3 DEF CloseReadOnly, Die, Unlock
  <2> QED BY <2>1 DEF Forget
<1>4. CASE \/ NoteFsync(r) \/ NoteRename(r) \/ NoteDirSync(r) \/ NoteNext(r)
           \/ WritedbOpen(r) \/ WritedbFsync(r) \/ WritedbRename(r) \/ WritedbDirSync(r)
           \/ UnlinkUpdate(r) \/ UnlinkDirSync(r)
  BY <1>4 DEF NoteFsync, NoteRename, NoteDirSync, NoteNext, StartCheckpoint, WritedbOpen,
     WritedbFsync, WritedbRename, WritedbDirSync, UnlinkUpdate, UnlinkDirSync
<1>5. CASE \/ Checkpoint(r) \/ Shutdown(r)
           \/ \E q \in Pkgs, v \in Vals : SetPackage(r, q, v)
           \/ \E q \in Pkgs : NoteWrite(r, q)
  BY <1>5 DEF Checkpoint, Shutdown, StartCheckpoint, SetPackage, NoteWrite
<1> QED BY <1>1, <1>2, <1>3, <1>4, <1>5 DEF Continue, Request

(* A step that is not a checkpoint's rewrites no entry of the journal: a   *)
(* note takes a name that is free.                                         *)
LEMMA EntriesStay ==
    ASSUME DurabilityInv, NEW r \in Procs, Continue(r) \/ Request(r) \/ Die(r), ~CheckpointStep
    PROVE  /\ status' = status /\ Entries(updates) \subseteq Entries(updates')
           /\ \A k \in Entries(updates) : updates'[k] = updates[k]
<1>1. status' = status /\ Entries(updates) \subseteq Entries(updates')
  BY DEF CheckpointStep
<1>2. CASE NoteRename(r)
  <2>1. Entries(updates) = 0 .. nextupdate[r] - 1 /\ nextupdate[r] \in Nat
    BY <1>2, MaxUpdatesAssumption DEF NoteRename, DurabilityInv, TypeOK, LockProtects, Noting,
       JournalMatchesCounter
  <2>2. nextupdate[r] \notin Entries(updates)
    BY <2>1
  <2>3. \A k \in Entries(updates) : updates'[k] = updates[k]
    BY <1>2, <2>2 DEF NoteRename, DurabilityInv, TypeOK, Journal, Entries
  <2> QED BY <1>1, <2>3
<1>3. CASE UnlinkUpdate(r)
  <2>1. Entries(updates) = todo[r] /\ todo[r] # {} /\ todo[r] \in SUBSET Nat
    BY <1>3, MaxUpdatesAssumption DEF UnlinkUpdate, DurabilityInv, TypeOK, LockProtects,
       Checkpointing, JournalMatchesCounter, LocalState, Index
  <2>2. First(todo[r]) \in Entries(updates)
    BY <2>1, FirstIsLeast
  <2>3. First(todo[r]) \notin Entries(updates')
    BY <1>3, <2>2 DEF UnlinkUpdate, DurabilityInv, TypeOK, Journal, Entries
  <2> QED BY <1>1, <2>2, <2>3
<1>4. CASE UNCHANGED updates
  BY <1>1, <1>4
<1> QED BY <1>2, <1>3, <1>4 DEF Continue, Request, ParseStatus, ScanUpdates, ParseUpdate,
        NoteFsync, NoteDirSync, NoteNext, WritedbOpen, WritedbFsync, WritedbRename,
        WritedbDirSync, UnlinkDirSync, Unlock, OpenReadOnly, OpenWrite, SetPackage, NoteWrite,
        Checkpoint, Shutdown, CloseReadOnly, Die

(* The step with which a reader replays one journal entry.                 *)
LEMMA ReaderParse ==
    ASSUME DurabilityInv, ReaderProgress, NEW p \in Procs, cstatus[p] = "readonly", ~overlap[p],
           ParseUpdate(p)
    PROVE  LET k == First(todo[p]) IN
           /\ UNCHANGED <<status, updates>> /\ snapshot[p] = Recover(status, Seen(p))
           /\ mem'[p] = Recover(status, Without(Seen(p), todo[p] \ {k}))
           /\ cdlist[p] \subseteq Entries(updates) /\ todo[p] \subseteq cdlist[p]
           /\ \A i \in todo[p] \ {k}, j \in cdlist[p] \ (todo[p] \ {k}) : j < i
           /\ todo[p] = {k} => pc'[p] = "ready" /\ mem'[p] = snapshot[p]
           /\ todo[p] # {k} => /\ pc'[p] = "parseUpdate" /\ todo'[p] = todo[p] \ {k}
                               /\ cdlist'[p] = cdlist[p]
<1> DEFINE k == First(todo[p])
<1>1. /\ pc[p] = "parseUpdate" /\ todo[p] # {} /\ todo[p] \in SUBSET Nat
      /\ status \in Db /\ updates \in Journal /\ mem \in [Procs -> Db]
      /\ todo \in [Procs -> SUBSET Index] /\ pc \in [Procs -> Labels]
  BY MaxUpdatesAssumption DEF ParseUpdate, DurabilityInv, LocalState, TypeOK, Index
<1>2. /\ cdlist[p] \subseteq Entries(updates) /\ todo[p] \subseteq cdlist[p]
      /\ \A i \in todo[p], j \in cdlist[p] \ todo[p] : j < i
      /\ mem[p] = Recover(status, Without(Seen(p), todo[p]))
      /\ snapshot[p] = Recover(status, Seen(p))
  BY <1>1 DEF ReaderProgress
<1>3. k \in todo[p] /\ \A j \in todo[p] : k <= j
  BY <1>1, FirstIsLeast
<1>4. Seen(p) \in Journal /\ Entries(Seen(p)) = cdlist[p] /\ Seen(p)[k] = updates[k]
  <2>1. k \in cdlist[p]
    BY <1>2, <1>3
  <2> HIDE DEF k
  <2> QED BY <1>1, <1>2, <2>1, SeenEntries DEF Seen
<1>5. mem'[p] = Apply(mem[p], Seen(p)[k]) /\ UNCHANGED <<status, updates>>
  BY <1>1, <1>4 DEF ParseUpdate
<1>6. /\ mem'[p] = Recover(status, Without(Seen(p), todo[p] \ {k}))
      /\ \A i \in todo[p] \ {k}, j \in cdlist[p] \ (todo[p] \ {k}) : j < i
  <2> HIDE DEF k
  <2> QED BY <1>1, <1>2, <1>3, <1>4, <1>5, ReplayOne
<1>7. ASSUME todo[p] = {k} PROVE pc'[p] = "ready" /\ mem'[p] = snapshot[p]
  <2>1. pc'[p] = "ready"
    BY <1>1, <1>7 DEF ParseUpdate
  <2>2. todo[p] \ {k} = {}
    BY <1>7
  <2> QED BY <1>1, <1>2, <1>4, <1>6, <2>1, <2>2, ReplayEnds
<1>8. ASSUME todo[p] # {k}
      PROVE  pc'[p] = "parseUpdate" /\ todo'[p] = todo[p] \ {k} /\ cdlist'[p] = cdlist[p]
  BY <1>1, <1>8 DEF ParseUpdate
<1> QED BY <1>2, <1>5, <1>6, <1>7, <1>8

(* Every step keeps what a reader has read a prefix of what it listed.     *)
LEMMA ReaderProgressStep ==
    DurabilityInv /\ ReaderProgress /\ Next /\ HistoryNext => ReaderProgress'
<1> SUFFICES ASSUME DurabilityInv, ReaderProgress, Next, HistoryNext, NEW p \in Procs,
                    cstatus'[p] = "readonly", ~overlap'[p]
             PROVE  /\ pc'[p] = "scan" => mem'[p] = status'
                    /\ pc'[p] = "parseUpdate" =>
                          /\ cdlist'[p] \subseteq Entries(updates') /\ todo'[p] \subseteq cdlist'[p]
                          /\ \A k \in todo'[p], j \in cdlist'[p] \ todo'[p] : j < k
                          /\ mem'[p] = Recover(status', Without(Seen(p)', todo'[p]))
                          /\ snapshot'[p] = Recover(status', Seen(p)')
                    /\ pc'[p] = "ready" => mem'[p] = snapshot'[p]
  BY DEF ReaderProgress
<1>0. TypeOK /\ LockProtects
  BY DEF DurabilityInv
<1>1. CASE pc'[p] \in {"closed", "parseStatus"}
  BY <1>1
<1>2. CASE pc'[p] \notin {"closed", "parseStatus"}
  <2>1. ~overlap[p] /\ (Reading(p) => ~CheckpointStep)
    BY <1>2 DEF HistoryNext
  <2>2. snapshot'[p] = IF At(p, "scan") /\ pc'[p] # "scan" THEN Recover(status, updates)
                       ELSE snapshot[p]
    BY <1>2 DEF HistoryNext
  <2>3. CASE PowerLoss
    BY <1>2, <2>3 DEF PowerLoss, Forget
  <2>4. ASSUME NEW r \in Procs, r # p, Continue(r) \/ Request(r) \/ Die(r)
        PROVE  /\ pc'[p] = "scan" => mem'[p] = status'
               /\ pc'[p] = "parseUpdate" =>
                     /\ cdlist'[p] \subseteq Entries(updates') /\ todo'[p] \subseteq cdlist'[p]
                     /\ \A k \in todo'[p], j \in cdlist'[p] \ todo'[p] : j < k
                     /\ mem'[p] = Recover(status', Without(Seen(p)', todo'[p]))
                     /\ snapshot'[p] = Recover(status', Seen(p)')
               /\ pc'[p] = "ready" => mem'[p] = snapshot'[p]
    <3>1. /\ pc'[p] = pc[p] /\ cstatus'[p] = cstatus[p] /\ mem'[p] = mem[p]
          /\ todo'[p] = todo[p] /\ cdlist'[p] = cdlist[p] /\ snapshot'[p] = snapshot[p]
      BY <1>0, <2>2, <2>4, OthersLeaveMemoryAlone
    <3>2. CASE Reading(p)
      <4>1. /\ status' = status /\ Entries(updates) \subseteq Entries(updates')
            /\ \A k \in Entries(updates) : updates'[k] = updates[k]
        BY <2>1, <2>4, <3>2, EntriesStay
      <4>2. ASSUME pc[p] = "parseUpdate" PROVE Seen(p)' = Seen(p)
        <5>1. cdlist[p] \subseteq Entries(updates)
          BY <2>1, <3>1, <4>2 DEF ReaderProgress
        <5>2. \A k \in Index \ (Index \ cdlist[p]) : updates'[k] = updates[k]
          BY <4>1, <5>1
        <5> QED BY <3>1, <5>2 DEF Seen, Without
      <4> QED BY <2>1, <3>1, <4>1, <4>2 DEF ReaderProgress
    <3>3. CASE ~Reading(p)
      BY <2>1, <3>1, <3>3 DEF ReaderProgress, Reading
    <3> QED BY <3>2, <3>3
  <2>5. CASE ParseStatus(p)
    BY <1>0, <2>5 DEF ParseStatus, TypeOK
  <2>6. CASE ScanUpdates(p)
    <3>1. /\ pc[p] = "scan" /\ mem'[p] = mem[p] /\ UNCHANGED <<status, updates, cstatus>>
          /\ todo'[p] = Entries(updates) /\ cdlist'[p] = Entries(updates) /\ pc'[p] # "scan"
          /\ pc'[p] = "ready" => Entries(updates) = {}
      BY <1>0, <2>6 DEF ScanUpdates, TypeOK
    <3>2. mem[p] = status /\ snapshot'[p] = Recover(status, updates)
      BY <2>1, <2>2, <3>1 DEF ReaderProgress
    <3>3. Seen(p)' = updates
      <4>1. \A k \in Index \ Entries(updates) : updates[k] = NoFile
        BY DEF Entries
      <4> QED BY <1>0, <3>1, <4>1 DEF Seen, Without, TypeOK, Journal
    <3>4. status = Recover(status, Without(updates, Entries(updates)))
      BY <1>0, ReplayEnds DEF TypeOK
    <3>5. Entries(updates) = {} => status = Recover(status, updates)
      BY <1>0, ReplayEnds DEF TypeOK
    <3> QED BY <3>1, <3>2, <3>3, <3>4, <3>5
  <2>7. CASE ParseUpdate(p)
    <3>1. cstatus[p] = "readonly" /\ pc[p] = "parseUpdate" /\ snapshot'[p] = snapshot[p]
      BY <2>2, <2>7 DEF ParseUpdate
    <3> DEFINE k == First(todo[p])
    <3>2. /\ UNCHANGED <<status, updates>> /\ snapshot[p] = Recover(status, Seen(p))
          /\ mem'[p] = Recover(status, Without(Seen(p), todo[p] \ {k}))
          /\ cdlist[p] \subseteq Entries(updates) /\ todo[p] \subseteq cdlist[p]
          /\ \A i \in todo[p] \ {k}, j \in cdlist[p] \ (todo[p] \ {k}) : j < i
          /\ todo[p] = {k} => pc'[p] = "ready" /\ mem'[p] = snapshot[p]
          /\ todo[p] # {k} => /\ pc'[p] = "parseUpdate" /\ todo'[p] = todo[p] \ {k}
                              /\ cdlist'[p] = cdlist[p]
      BY <2>1, <2>7, <3>1, ReaderParse
    <3> HIDE DEF k
    <3>3. CASE todo[p] = {k}
      BY <3>1, <3>2, <3>3
    <3>4. CASE todo[p] # {k}
      <4>1. Seen(p)' = Seen(p)
        BY <3>2, <3>4 DEF Seen
      <4> QED BY <3>1, <3>2, <3>4, <4>1
    <3> QED BY <3>3, <3>4
  <2>8. CASE OpenReadOnly(p) \/ OpenWrite(p) \/ CloseReadOnly(p) \/ Die(p) \/ Unlock(p)
    BY <1>0, <1>2, <2>8 DEF OpenReadOnly, OpenWrite, CloseReadOnly, Die, Unlock, Forget, TypeOK
  <2>9. CASE \/ NoteFsync(p) \/ NoteRename(p) \/ NoteDirSync(p) \/ NoteNext(p)
             \/ WritedbOpen(p) \/ WritedbFsync(p) \/ WritedbRename(p) \/ WritedbDirSync(p)
             \/ UnlinkUpdate(p) \/ UnlinkDirSync(p) \/ Checkpoint(p) \/ Shutdown(p)
             \/ \E q \in Pkgs, v \in Vals : SetPackage(p, q, v)
             \/ \E q \in Pkgs : NoteWrite(p, q)
    <3>1. cstatus[p] = "write" /\ cstatus' = cstatus
      BY <1>0, <2>9 DEF NoteFsync, NoteRename, NoteDirSync, NoteNext, WritedbOpen, WritedbFsync,
         WritedbRename, WritedbDirSync, UnlinkUpdate, UnlinkDirSync, Checkpoint, Shutdown,
         SetPackage, NoteWrite, LockProtects, Noting, Checkpointing
    <3> QED BY <3>1
  <2> QED BY <2>3, <2>4, <2>5, <2>6, <2>7, <2>8, <2>9 DEF Next, Continue, Request
<1> QED BY <1>1, <1>2

(***************************************************************************)
(* A reader that no checkpoint overtook has the database of one instant,   *)
(* although modstatdb_open() with msdbrw_readonly takes no lock and the    *)
(* writer goes on noting packages: what the reader lists when it scans     *)
(* updates/ is what it ends up with.                                       *)
(***************************************************************************)
THEOREM ReadersSeeSnapshots == ReadersSpec => []ReaderSeesSnapshot
<1>1. ReadersInit => DurabilityInv /\ ReaderProgress
  BY InvInit DEF ReadersInit, Init, ReaderProgress
<1>2. /\ DurabilityInv /\ ReaderProgress /\ [ReadersNext]_<<vars, overlap, snapshot>>
      => (DurabilityInv /\ ReaderProgress)'
  <2> SUFFICES ASSUME DurabilityInv, ReaderProgress, [ReadersNext]_<<vars, overlap, snapshot>>
               PROVE  DurabilityInv' /\ ReaderProgress'
    OBVIOUS
  <2>1. DurabilityInv'
    BY InvStep DEF ReadersNext
  <2>2. CASE ReadersNext
    BY <2>1, <2>2, ReaderProgressStep DEF ReadersNext
  <2>3. CASE UNCHANGED <<vars, overlap, snapshot>>
    BY <2>1, <2>3 DEF vars, ReaderProgress, Seen
  <2> QED BY <2>2, <2>3
<1>3. ReaderProgress => ReaderSeesSnapshot
  BY DEF ReaderProgress, ReaderSeesSnapshot
<1> QED BY <1>1, <1>2, <1>3, PTL DEF ReadersSpec
=============================================================================
