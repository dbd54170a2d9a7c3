---------------------------- MODULE FilesProofs ----------------------------
(***************************************************************************)
(* Proofs about the files of packages.  FileInstall, for any number of     *)
(* tries: a file of an archive has its old or its new contents at every    *)
(* moment, and an unpacking that ends, well or undone, leaves nothing next *)
(* to it.  RemoveFiles, for any set of packages that share what packages   *)
(* may share: a removal takes nothing of the others, a purge leaves        *)
(* nothing of its own.  InfoDb, for any packages and types of control      *)
(* files: an installed package has the control files of its version.       *)
(* TrigDeferred, for any number of dpkg-trigger processes: no activation   *)
(* and no interest is lost, whoever is killed and whenever.                *)
(***************************************************************************)
EXTENDS FileInstall, RemoveFiles, InfoDb, TrigDeferred, FiniteSetTheorems, TLAPS

Kinds == {"absent", "file", "link", "dir", "dirlink", "node"}
Contents == {"none", "old", "theirs", "raw", "new", "lost"}
Objects == [kind : Kinds, data : Contents, safe : BOOLEAN, inode : Nat]
Types == {"file", "hardlink", "symlink", "dir", "node"}
Undoing == {"cu_installnew", "cu_restore", "cu_new"}
Ended == {"done", "failed", "broken", "dead"}
Extracting == {"check", "remains", "extract", "perms", "backup", "install", "archived", "placed"}

(***************************************************************************)
(* The inductive invariant.                                                *)
(***************************************************************************)
TypeOK ==
  /\ disk \in [FileNames -> [Parts -> Objects]]
  /\ item \in [type : Types, conff : BOOLEAN] /\ (item.conff => item.type = "file")
  /\ ground \in Grounds
  /\ listed \in BOOLEAN /\ pushed \in BOOLEAN
  /\ before \in Objects
  /\ tarpc \in {"start"} \cup Extracting \cup Undoing \cup Ended
  /\ tries \in Nat

\* There is one way not to be there, and nothing is newer than this try.
ObjectsOK ==
  \A n \in FileNames, p \in Parts :
    /\ disk[n][p].kind = "absent" => disk[n][p] = Absent
    /\ disk[n][p].inode <= tries

\* Nothing is extracted next to the name that the package does not use.
OtherNameIsClear ==
  /\ ground.divert # "other" => \A p \in Parts : disk["f.distrib"][p] = Absent
  /\ ground.divert = "other" => disk["f"]["tmp"] = Absent /\ disk["f"]["new"] = Absent

\* What is or was in the place is on the disk, and it is not half made.
PlaceIsSolid ==
  ground.force # {"unsafe-io"} =>
    \A p \in {"main", "tmp"} :
      At(p).kind # "absent" => At(p).safe /\ At(p).data \in {"old", "new"}

PlaceIsTaken == Atomic => At("main").kind # "absent"

\* What lies in .dpkg-new while it waits for its rename.
Fresh ==
  /\ At("new").kind \notin {"absent", "dirlink"} /\ At("new").inode = tries
  /\ item.type # "dir" => At("new").kind # "dir"
  /\ ground.force # {"unsafe-io"} =>
       At("new").safe \/ (item.type = "file" /\ "DEFERRED_FSYNC" \in flags)
\* Nothing has been done to the place yet.
Unmoved ==
  /\ At("main") = before
  /\ flags \cap {"PLACED_ON_DISK", "DEFERRED_RENAME", "NO_ATOMIC_OVERWRITE"} = {}
\* The old object is kept in .dpkg-tmp, and is in its place if it is replaced atomically.
BackedUp ==
  /\ At("tmp") = before
  /\ "NO_ATOMIC_OVERWRITE" \in flags => item.type = "dir" \/ before.kind = "dir"
  /\ "PLACED_ON_DISK" \notin flags /\ "NO_ATOMIC_OVERWRITE" \notin flags => At("main") = before
  /\ "PLACED_ON_DISK" \notin flags /\ "NO_ATOMIC_OVERWRITE" \in flags => At("main") = Absent
\* The new object is in its place, or complete next to it.
InPlace ==
  /\ "PLACED_ON_DISK" \in flags /\ At("new") = Absent
  /\ At("main").data = "new" /\ At("main").kind # "absent"
Waiting == "PLACED_ON_DISK" \notin flags /\ Fresh /\ At("new").data = "new"

\* What the archive did with the entry: nothing, a conffile kept in .dpkg-new, or an installation.
Skipped == ~pushed /\ Unmoved
Kept == item.conff /\ pushed /\ Unmoved /\ At("tmp") = Absent
Made == ~item.conff /\ pushed /\ listed /\ BackedUp

\* How far the unpacking is, step by step of tarobject() and tar_deferred_extract().
Phase ==
  /\ tarpc \in {"start", "check", "remains"} => ~pushed
  /\ tarpc = "start" => \A p \in Parts : At(p).inode < tries
  /\ tarpc \in Extracting \cup Undoing =>
       before.inode < tries /\ (before.kind = "absent" => before = Absent)
  /\ tarpc \in {"check", "remains", "extract", "perms", "backup"} => Unmoved /\ listed
  /\ tarpc = "remains" => At("new") = Absent
  /\ tarpc = "extract" => At("new") = Absent
  /\ tarpc \in {"extract", "perms", "backup"} => pushed /\ At("tmp") = Absent
  /\ tarpc \in {"perms", "backup"} => Fresh
  /\ tarpc = "backup" => ~item.conff /\ Waiting
  /\ tarpc = "install" => Made /\ Waiting /\ "DEFERRED_RENAME" \notin flags
  /\ tarpc = "archived" =>
       \/ Skipped \/ Kept
       \/ Made /\ Waiting /\ "DEFERRED_RENAME" \in flags
       \/ Made /\ InPlace /\ "DEFERRED_RENAME" \notin flags
  /\ tarpc = "placed" => Skipped \/ Kept \/ (Made /\ InPlace)

\* How far cu_installnew() is.
Undo ==
  /\ tarpc \in Undoing => pushed
  /\ tarpc = "cu_installnew" => (Unmoved /\ At("tmp") = Absent) \/ Made
  /\ tarpc = "cu_restore" =>
       /\ ~item.conff /\ ground.divert # "other"
       /\ At("tmp") = before /\ before.kind # "absent"
  /\ tarpc = "cu_new" /\ ground.divert # "other" => At("main") = before /\ At("tmp") = Absent

FileInv ==
  /\ TypeOK /\ ObjectsOK /\ OtherNameIsClear /\ PlaceIsSolid /\ PlaceIsTaken
  /\ Phase /\ Undo /\ EndsWhole

-----------------------------------------------------------------------------
\* The file system around the path, and what an assignment to one name of it does.
Disks == [FileNames -> [Parts -> Objects]]

LEMMA Put ==
  ASSUME NEW d \in Disks, NEW n \in FileNames, NEW p \in Parts, NEW o \in Objects
  PROVE  /\ [d EXCEPT ![n][p] = o] \in Disks
         /\ [d EXCEPT ![n][p] = o][n][p] = o
         /\ \A m \in FileNames, q \in Parts :
              m # n \/ q # p => [d EXCEPT ![n][p] = o][m][q] = d[m][q]
BY DEF Disks

LEMMA AbsentIsObject == Absent \in Objects
BY DEF Absent, Obj, Objects, Kinds, Contents

\* What a step does to the disk: one object is put somewhere, or one is renamed.
Puts(n, p, o) ==
  /\ disk' \in Disks /\ disk'[n][p] = o
  /\ \A m \in FileNames, q \in Parts : m # n \/ q # p => disk'[m][q] = disk[m][q]
Moves(n, from, to) ==
  /\ disk' \in Disks /\ disk'[n][to] = disk[n][from]
  /\ \/ disk'[n][from] = Absent
     \/ disk'[n][from] = disk[n][from] /\ disk[n][to] = disk[n][from] /\ disk[n][to].kind # "absent"
  /\ \A m \in FileNames, q \in Parts : m # n \/ q \notin {from, to} => disk'[m][q] = disk[m][q]

LEMMA PutOne ==
  ASSUME disk \in Disks, NEW n \in FileNames, NEW p \in Parts, NEW o \in Objects,
         disk' = [disk EXCEPT ![n][p] = o]
  PROVE  Puts(n, p, o)
BY DEF Disks, Puts

LEMMA MoveOne ==
  ASSUME disk \in Disks, NEW n \in FileNames, NEW from \in Parts, NEW to \in Parts, from # to,
         disk' = Renamed(n, from, to)
  PROVE  Moves(n, from, to)
<1>1. CASE disk[n][from] = disk[n][to] /\ disk[n][from].kind \in {"file", "node"}
    BY <1>1 DEF Renamed, Moves
<1>2. CASE ~(disk[n][from] = disk[n][to] /\ disk[n][from].kind \in {"file", "node"})
  <2>. DEFINE d1 == [disk EXCEPT ![n][to] = disk[n][from]]
              d2 == [d1 EXCEPT ![n][from] = Absent]
  <2>1. disk' = d2
      BY <1>2 DEF Renamed
  <2>2. disk[n][from] \in Objects
      BY DEF Disks
  <2>3. /\ d1 \in Disks /\ d1[n][to] = disk[n][from]
        /\ \A m \in FileNames, q \in Parts : m # n \/ q # to => d1[m][q] = disk[m][q]
      BY <2>2, Put
  <2>. HIDE DEF d1
  <2>4. /\ d2 \in Disks /\ d2[n][from] = Absent
        /\ \A m \in FileNames, q \in Parts : m # n \/ q # from => d2[m][q] = d1[m][q]
      BY <2>3, Put, AbsentIsObject
  <2>. QED
      BY <2>1, <2>3, <2>4 DEF Moves
<1>. QED
    BY <1>1, <1>2

\* The name that is used depends on the diversion only.
LEMMA NameInUse ==
  /\ namenodetouse \in FileNames /\ (namenodetouse = "f" <=> ground.divert # "other")
  /\ UNCHANGED ground => namenodetouse' = namenodetouse
BY DEF namenodetouse, FileNames

-----------------------------------------------------------------------------
LEMMA InitInv == FileInit => FileInv
<1>. SUFFICES ASSUME FileInit PROVE FileInv
    OBVIOUS
<1>1. TypeOK
  <2>1. Empty \in [Parts -> Objects]
      BY AbsentIsObject DEF Empty, Parts
  <2>2. \A k \in Kinds, d \in {"old", "theirs"} : Obj(k, d, TRUE, 0) \in Objects
      BY DEF Obj, Objects, Contents
  <2>3. disk \in [FileNames -> [Parts -> Objects]]
    <3>1. \A o \in Objects : [Empty EXCEPT !.main = o] \in [Parts -> Objects]
        BY <2>1 DEF Parts
    <3>. HIDE DEF Empty
    <3>2. PICK k \in Kinds :
            LET there == [Empty EXCEPT !.main = IF k = "absent" THEN Absent
                                                ELSE Obj(k, "old", TRUE, 0)]
                theirs == [Empty EXCEPT !.main = Obj("file", "theirs", TRUE, 0)]
            IN disk = IF ground.divert = "other"
                      THEN [n \in FileNames |-> IF n = "f" THEN theirs ELSE there]
                      ELSE [n \in FileNames |-> IF n = "f" THEN there ELSE Empty]
        BY DEF FileInit, Kinds
    <3>3. /\ [Empty EXCEPT !.main = Obj("file", "theirs", TRUE, 0)] \in [Parts -> Objects]
          /\ [Empty EXCEPT !.main = IF k = "absent" THEN Absent ELSE Obj(k, "old", TRUE, 0)]
                \in [Parts -> Objects]
        BY <2>2, <3>1, AbsentIsObject DEF Kinds
    <3>. QED
        BY <2>1, <3>2, <3>3
  <2>4. before \in Objects
      BY <2>3 DEF FileInit, At, namenodetouse, Parts, FileNames
  <2>. QED
      BY <2>3, <2>4 DEF FileInit, TypeOK, Types, Extracting
<1>2. ObjectsOK /\ OtherNameIsClear
    BY <1>1 DEF FileInit, ObjectsOK, OtherNameIsClear, Empty, Obj, Parts, FileNames, Absent
<1>3. PlaceIsSolid /\ PlaceIsTaken
    BY <1>1 DEF FileInit, PlaceIsSolid, PlaceIsTaken, Atomic, Empty, Obj, Parts, FileNames,
       Absent, At, namenodetouse
<1>4. \A p \in Parts : At(p).inode < tries
    BY <1>1, NameInUse DEF FileInit, Empty, Obj, Parts, FileNames, Absent, At
<1>5. Phase /\ Undo /\ EndsWhole
    BY <1>1, <1>4 DEF FileInit, Phase, Undo, EndsWhole, Extracting, Undoing
<1>. QED
    BY <1>1, <1>2, <1>3, <1>5 DEF FileInv

\* A step that leaves the disk and the names alone keeps what is said of the disk.
LEMMA SameDisk ==
  ASSUME FileInv, UNCHANGED <<disk, item, ground, before, tries>>,
         listed' \in BOOLEAN, pushed' \in BOOLEAN,
         tarpc' \in {"start"} \cup Extracting \cup Undoing \cup Ended
  PROVE  TypeOK' /\ ObjectsOK' /\ OtherNameIsClear' /\ PlaceIsSolid' /\ PlaceIsTaken'
BY DEF FileInv, TypeOK, ObjectsOK, OtherNameIsClear, PlaceIsSolid, PlaceIsTaken, At,
   namenodetouse, Atomic

LEMMA ErrorStep == FileInv /\ Error => FileInv'
<1>. SUFFICES ASSUME FileInv, Error PROVE FileInv'
    OBVIOUS
<1>. USE DEF FileInv
<1>1. TypeOK' /\ ObjectsOK' /\ OtherNameIsClear' /\ PlaceIsSolid' /\ PlaceIsTaken'
    BY SameDisk DEF Error, Fail, Go, TypeOK, Extracting, Undoing, Ended
<1>2. Phase' /\ Undo' /\ EndsWhole'
    BY DEF Error, Fail, Go, TypeOK, Extracting, Undoing, Ended, Phase, Undo, EndsWhole, At,
       namenodetouse, Skipped, Kept, Made, BackedUp, Unmoved, Waiting, InPlace
<1>. QED
    BY <1>1, <1>2

LEMMA KilledStep == FileInv /\ Killed => FileInv'
<1>. SUFFICES ASSUME FileInv, Killed PROVE FileInv'
    OBVIOUS
<1>1. TypeOK' /\ ObjectsOK' /\ OtherNameIsClear' /\ PlaceIsSolid' /\ PlaceIsTaken'
    BY SameDisk DEF Killed, Running, Go, FileInv, TypeOK, Extracting, Undoing, Ended
<1>2. Phase' /\ Undo' /\ EndsWhole'
    BY DEF Killed, Running, Go, FileInv, TypeOK, Phase, Undo, EndsWhole, Untouched,
       Extracting, Undoing, Ended, Parts, FileNames, At, Skipped, Kept, Made, BackedUp,
       Unmoved, Waiting, InPlace, Fresh, namenodetouse
<1>. QED
    BY <1>1, <1>2 DEF FileInv

LEMMA CleanupFailsStep == FileInv /\ CleanupFails => FileInv'
<1>. SUFFICES ASSUME FileInv, CleanupFails PROVE FileInv'
    OBVIOUS
<1>1. TypeOK' /\ ObjectsOK' /\ OtherNameIsClear' /\ PlaceIsSolid' /\ PlaceIsTaken'
    BY SameDisk DEF CleanupFails, Go, FileInv, TypeOK, Extracting, Undoing, Ended
<1>2. Phase' /\ Undo' /\ EndsWhole'
    BY DEF CleanupFails, Go, FileInv, TypeOK, Phase, Undo, EndsWhole, Untouched,
       Extracting, Undoing, Ended, Parts, FileNames, At, Skipped, Kept, Made, BackedUp,
       Unmoved, Waiting, InPlace, Fresh, namenodetouse
<1>. QED
    BY <1>1, <1>2 DEF FileInv

LEMMA SkipStep == FileInv /\ tarobject_skip_entry => FileInv'
<1>. SUFFICES ASSUME FileInv, tarobject_skip_entry PROVE FileInv'
    OBVIOUS
<1>1. TypeOK' /\ ObjectsOK' /\ OtherNameIsClear' /\ PlaceIsSolid' /\ PlaceIsTaken'
    BY SameDisk DEF tarobject_skip_entry, Go, FileInv, TypeOK, Extracting, Undoing, Ended
<1>2. Phase' /\ Undo' /\ EndsWhole'
    BY DEF tarobject_skip_entry, Go, FileInv, TypeOK, Phase, Undo, EndsWhole, Untouched,
       Extracting, Undoing, Ended, Parts, FileNames, At, Skipped, Kept, Made, BackedUp,
       Unmoved, Waiting, InPlace, Fresh, namenodetouse
<1>. QED
    BY <1>1, <1>2 DEF FileInv

LEMMA HashStep == FileInv /\ tarobject_hash => FileInv'
<1>. SUFFICES ASSUME FileInv, tarobject_hash PROVE FileInv'
    OBVIOUS
<1>1. TypeOK' /\ ObjectsOK' /\ OtherNameIsClear' /\ PlaceIsSolid' /\ PlaceIsTaken'
    BY SameDisk DEF tarobject_hash, Fail, Go, FileInv, TypeOK, Extracting, Undoing, Ended
<1>2. Phase' /\ Undo' /\ EndsWhole'
    BY DEF tarobject_hash, Fail, Go, FileInv, TypeOK, Phase, Undo, EndsWhole, Untouched,
       Extracting, Undoing, Ended, Parts, FileNames, At, Skipped, Kept, Made, BackedUp,
       Unmoved, Waiting, InPlace, Fresh, namenodetouse
<1>. QED
    BY <1>1, <1>2 DEF FileInv

LEMMA RemainsNewStep == FileInv /\ RemoveRemains("check", "remains", "new") => FileInv'
<1>. SUFFICES ASSUME FileInv, RemoveRemains("check", "remains", "new") PROVE FileInv'
    OBVIOUS
<1>1. Puts(namenodetouse, "new", Absent)
    BY PutOne, NameInUse, AbsentIsObject DEF RemoveRemains, Place, FileInv, TypeOK, Disks,
       Parts
<1>2. Absent.kind = "absent" /\ Absent.inode = 0
    BY DEF Absent, Obj
<1>T. TypeOK' /\ ObjectsOK' /\ OtherNameIsClear' /\ PlaceIsSolid' /\ PlaceIsTaken'
    BY <1>1, <1>2, NameInUse DEF RemoveRemains, Go, Puts, FileInv, TypeOK, Disks,
       Extracting, Undoing, Ended, ObjectsOK, OtherNameIsClear, PlaceIsSolid, PlaceIsTaken,
       At, Atomic, Parts, FileNames
<1>P. Phase' /\ Undo' /\ EndsWhole'
    BY <1>1, <1>2, NameInUse DEF RemoveRemains, Go, Puts, FileInv, TypeOK, Phase, Undo,
       EndsWhole, Untouched, Extracting, Undoing, Ended, Parts, FileNames, At, Skipped,
       Kept, Made, BackedUp, Unmoved, Waiting, InPlace, Fresh
<1>. QED
    BY <1>T, <1>P DEF FileInv

LEMMA RemainsTmpStep == FileInv /\ RemoveRemains("remains", "extract", "tmp") => FileInv'
<1>. SUFFICES ASSUME FileInv, RemoveRemains("remains", "extract", "tmp") PROVE FileInv'
    OBVIOUS
<1>1. Puts(namenodetouse, "tmp", Absent)
    BY PutOne, NameInUse, AbsentIsObject DEF RemoveRemains, Place, FileInv, TypeOK, Disks,
       Parts
<1>2. Absent.kind = "absent" /\ Absent.inode = 0
    BY DEF Absent, Obj
<1>T. TypeOK' /\ ObjectsOK' /\ OtherNameIsClear' /\ PlaceIsSolid' /\ PlaceIsTaken'
    BY <1>1, <1>2, NameInUse DEF RemoveRemains, Go, Puts, FileInv, TypeOK, Disks,
       Extracting, Undoing, Ended, ObjectsOK, OtherNameIsClear, PlaceIsSolid, PlaceIsTaken,
       At, Atomic, Parts, FileNames
<1>P. Phase' /\ Undo' /\ EndsWhole'
    BY <1>1, <1>2, NameInUse DEF RemoveRemains, Go, Puts, FileInv, TypeOK, Phase, Undo,
       EndsWhole, Untouched, Extracting, Undoing, Ended, Parts, FileNames, At, Skipped,
       Kept, Made, BackedUp, Unmoved, Waiting, InPlace, Fresh
<1>. QED
    BY <1>T, <1>P DEF FileInv

LEMMA ExtractStep == FileInv /\ tarobject_extract => FileInv'
<1>. SUFFICES ASSUME FileInv, tarobject_extract PROVE FileInv'
    OBVIOUS
<1>1. /\ New \in Objects /\ New.kind \notin {"absent", "dirlink"} /\ New.inode = tries
      /\ New.safe = (item.type # "file") /\ (item.type # "dir" => New.kind # "dir")
    BY DEF New, Obj, Objects, Kinds, Contents, FileInv, TypeOK, Types
<1>2. Puts(namenodetouse, "new", New)
    BY <1>1, PutOne, NameInUse DEF tarobject_extract, Place, FileInv, TypeOK, Disks, Parts
<1>T. TypeOK' /\ ObjectsOK' /\ OtherNameIsClear' /\ PlaceIsSolid' /\ PlaceIsTaken'
    BY <1>1, <1>2, NameInUse DEF tarobject_extract, Go, Puts, FileInv, TypeOK, Disks,
       Extracting, Undoing, Ended, ObjectsOK, OtherNameIsClear, PlaceIsSolid, PlaceIsTaken,
       At, Atomic, Parts, FileNames
<1>P. Phase' /\ Undo' /\ EndsWhole'
    BY <1>1, <1>2, NameInUse DEF tarobject_extract, Go, Puts, FileInv, TypeOK, Phase, Undo,
       EndsWhole, Untouched, Extracting, Undoing, Ended, Parts, FileNames, At, Skipped,
       Kept, Made, BackedUp, Unmoved, Waiting, InPlace, Fresh, InForce, Grounds
<1>. QED
    BY <1>T, <1>P DEF FileInv

LEMMA SetPermsStep == FileInv /\ tarobject_set_perms => FileInv'
<1>. SUFFICES ASSUME FileInv, tarobject_set_perms PROVE FileInv'
    OBVIOUS
<1>. DEFINE o == [At("new") EXCEPT !.data = "new"]
<1>0. At("new") \in Objects
    BY NameInUse DEF At, FileInv, TypeOK, Parts
<1>1. /\ o \in Objects /\ o.kind = At("new").kind /\ o.inode = At("new").inode
      /\ o.safe = At("new").safe /\ o.data = "new"
    BY <1>0 DEF Objects, Contents
<1>2. Puts(namenodetouse, "new", o)
    BY <1>1, PutOne, NameInUse DEF tarobject_set_perms, Place, FileInv, TypeOK, Disks, Parts
<1>3. At("new").kind # "absent"
    BY DEF tarobject_set_perms, FileInv, Phase, Fresh
<1>. HIDE DEF o
<1>T. TypeOK' /\ ObjectsOK' /\ OtherNameIsClear' /\ PlaceIsSolid' /\ PlaceIsTaken'
    BY <1>1, <1>2, <1>3, NameInUse DEF tarobject_set_perms, Go, Puts, FileInv, TypeOK,
       Disks, Extracting, Undoing, Ended, ObjectsOK, OtherNameIsClear, PlaceIsSolid,
       PlaceIsTaken, At, Atomic, Parts, FileNames
<1>P. Phase' /\ Undo' /\ EndsWhole'
    BY <1>1, <1>2, <1>3, NameInUse DEF tarobject_set_perms, Go, Puts, FileInv, TypeOK,
       Phase, Undo, EndsWhole, Untouched, Extracting, Undoing, Ended, Parts, FileNames, At,
       Skipped, Kept, Made, BackedUp, Unmoved, Waiting, InPlace, Fresh
<1>. QED
    BY <1>T, <1>P DEF FileInv

LEMMA FsyncStep == FileInv /\ tar_deferred_fsync => FileInv'
<1>. SUFFICES ASSUME FileInv, tar_deferred_fsync PROVE FileInv'
    OBVIOUS
<1>. DEFINE o == [At("new") EXCEPT !.safe = TRUE]
<1>0. At("new") \in Objects
    BY NameInUse DEF At, FileInv, TypeOK, Parts
<1>1. /\ o \in Objects /\ o.kind = At("new").kind /\ o.inode = At("new").inode
      /\ o.safe /\ o.data = At("new").data
    BY <1>0 DEF Objects
<1>2. Puts(namenodetouse, "new", o)
    BY <1>1, PutOne, NameInUse DEF tar_deferred_fsync, Place, FileInv, TypeOK, Disks, Parts
<1>3. At("new").kind # "absent"
    BY DEF tar_deferred_fsync, FileInv, Phase, Skipped, Kept, Made, Waiting, Fresh, Unmoved
<1>. HIDE DEF o
<1>T. TypeOK' /\ ObjectsOK' /\ OtherNameIsClear' /\ PlaceIsSolid' /\ PlaceIsTaken'
    BY <1>1, <1>2, <1>3, NameInUse DEF tar_deferred_fsync, Go, Puts, FileInv, TypeOK,
       Disks, Extracting, Undoing, Ended, ObjectsOK, OtherNameIsClear, PlaceIsSolid,
       PlaceIsTaken, At, Atomic, Parts, FileNames
<1>P. Phase' /\ Undo' /\ EndsWhole'
    BY <1>1, <1>2, <1>3, NameInUse DEF tar_deferred_fsync, Go, Puts, FileInv, TypeOK,
       Phase, Undo, EndsWhole, Untouched, Extracting, Undoing, Ended, Parts, FileNames, At,
       Skipped, Kept, Made, BackedUp, Unmoved, Waiting, InPlace, Fresh
<1>. QED
    BY <1>T, <1>P DEF FileInv

LEMMA BackupStep == FileInv /\ MakeBackup => FileInv'
<1>. SUFFICES ASSUME FileInv, MakeBackup PROVE FileInv'
    OBVIOUS
<1>1. Absent.kind = "absent" /\ Absent.inode = 0 /\ Absent \in Objects
    BY AbsentIsObject DEF Absent, Obj
<1>2. At("main") \in Objects /\ At("main") = before /\ At("tmp") = Absent
    BY NameInUse DEF At, MakeBackup, FileInv, TypeOK, Disks, Parts, Phase, Unmoved
<1>3. \/ disk' = disk /\ flags' = flags /\ At("main").kind = "absent"
      \/ /\ Puts(namenodetouse, "tmp", At("main")) /\ flags' = flags
         /\ At("main").kind \notin {"absent", "dir"} /\ item.type # "dir"
      \/ /\ Moves(namenodetouse, "main", "tmp") /\ flags' = flags \cup {"NO_ATOMIC_OVERWRITE"}
         /\ item.type = "dir" \/ before.kind = "dir"
         /\ At("main").kind # "absent"
    BY <1>2, PutOne, MoveOne, NameInUse DEF MakeBackup, Exists, Place, IsDir, Nonatomic,
       FileInv, TypeOK, Disks, Parts
<1>T. TypeOK' /\ ObjectsOK' /\ OtherNameIsClear' /\ PlaceIsSolid' /\ PlaceIsTaken'
    BY <1>1, <1>2, <1>3, NameInUse DEF MakeBackup, Go, Puts, Moves, FileInv, TypeOK, Disks,
       Extracting, Undoing, Ended, ObjectsOK, OtherNameIsClear, PlaceIsSolid, PlaceIsTaken,
       At, Atomic, Parts, FileNames
<1>P. Phase' /\ Undo' /\ EndsWhole'
    BY <1>1, <1>2, <1>3, NameInUse DEF MakeBackup, Go, Puts, Moves, FileInv, TypeOK, Phase,
       Undo, EndsWhole, Untouched, Extracting, Undoing, Ended, Parts, FileNames, At,
       Skipped, Kept, Made, BackedUp, Unmoved, Waiting, InPlace, Fresh
<1>. QED
    BY <1>T, <1>P DEF FileInv

LEMMA InstallStep == FileInv /\ InstallOrDefer => FileInv'
<1>. SUFFICES ASSUME FileInv, InstallOrDefer PROVE FileInv'
    OBVIOUS
<1>1. Absent.kind = "absent" /\ Absent.inode = 0 /\ Absent \in Objects
    BY AbsentIsObject DEF Absent, Obj
<1>2. Made /\ Waiting /\ "DEFERRED_RENAME" \notin flags /\ before.inode < tries
    BY DEF InstallOrDefer, FileInv, Phase, Extracting
<1>3. At("main") # At("new")
    BY <1>1, <1>2, NameInUse DEF Made, Waiting, Fresh, BackedUp, FileInv, TypeOK, Objects
<1>4. \/ disk' = disk /\ flags' = flags \cup {"DEFERRED_RENAME"}
      \/ /\ Moves(namenodetouse, "new", "main") /\ flags' = flags \cup Placed
         /\ item.type \in {"dir", "node"}
    BY MoveOne, NameInUse DEF InstallOrDefer, FileInv, TypeOK, Disks, Parts, Types
<1>T. TypeOK' /\ ObjectsOK' /\ OtherNameIsClear' /\ PlaceIsSolid' /\ PlaceIsTaken'
    BY <1>1, <1>2, <1>3, <1>4, NameInUse DEF InstallOrDefer, Go, Moves, Placed, FileInv,
       TypeOK, Disks, Extracting, Undoing, Ended, ObjectsOK, OtherNameIsClear,
       PlaceIsSolid, PlaceIsTaken, At, Atomic, Parts, FileNames, Made, Waiting, Fresh,
       BackedUp
<1>P. Phase' /\ Undo' /\ EndsWhole'
    BY <1>1, <1>2, <1>3, <1>4, NameInUse DEF InstallOrDefer, Go, Moves, Placed, FileInv,
       TypeOK, Phase, Undo, EndsWhole, Untouched, Extracting, Undoing, Ended, Parts,
       FileNames, At, Skipped, Kept, Made, BackedUp, Unmoved, Waiting, InPlace, Fresh
<1>. QED
    BY <1>T, <1>P DEF FileInv

LEMMA PlaceStep == FileInv /\ tar_deferred_extract => FileInv'
<1>. SUFFICES ASSUME FileInv, tar_deferred_extract PROVE FileInv'
    OBVIOUS
<1>1. Absent.kind = "absent" /\ Absent.inode = 0 /\ Absent \in Objects
    BY AbsentIsObject DEF Absent, Obj
<1>2. CASE "DEFERRED_RENAME" \notin flags
  <2>1. UNCHANGED <<disk, flags>>
      BY <1>2 DEF tar_deferred_extract
  <2>2. TypeOK' /\ ObjectsOK' /\ OtherNameIsClear' /\ PlaceIsSolid' /\ PlaceIsTaken'
      BY <2>1, SameDisk DEF tar_deferred_extract, Go, FileInv, TypeOK, Extracting, Undoing,
         Ended
  <2>3. Phase' /\ Undo' /\ EndsWhole'
      BY <1>2, <2>1 DEF tar_deferred_extract, Go, namenodetouse, FileInv, TypeOK, Phase,
         Undo, EndsWhole, Untouched, Extracting, Undoing, Ended, Parts, FileNames, At,
         Skipped, Kept, Made, BackedUp, Unmoved, Waiting, InPlace, Fresh
  <2>. QED
      BY <2>2, <2>3 DEF FileInv
<1>3. CASE "DEFERRED_RENAME" \in flags
  <2>1. Made /\ Waiting /\ before.inode < tries /\ (before.kind = "absent" => before = Absent)
      BY <1>3 DEF tar_deferred_extract, FileInv, Phase, Extracting, Skipped, Kept, Unmoved
  <2>2. At("main") # At("new")
      BY <1>1, <2>1, NameInUse DEF Made, Waiting, Fresh, BackedUp, FileInv, TypeOK, Objects
  <2>3. /\ Moves(namenodetouse, "new", "main") /\ "DEFERRED_FSYNC" \notin flags
        /\ flags' = (flags \ {"DEFERRED_RENAME"}) \cup Placed
      BY <1>3, MoveOne, NameInUse DEF tar_deferred_extract, FileInv, TypeOK, Disks, Parts
  <2>4. TypeOK' /\ ObjectsOK' /\ OtherNameIsClear' /\ PlaceIsSolid' /\ PlaceIsTaken'
      BY <1>1, <2>1, <2>2, <2>3, NameInUse DEF tar_deferred_extract, Go, Moves, Placed,
         FileInv, TypeOK, Disks, Extracting, Undoing, Ended, ObjectsOK, OtherNameIsClear,
         PlaceIsSolid, PlaceIsTaken, At, Atomic, Parts, FileNames, Made, Waiting, Fresh,
         BackedUp
  <2>5. Phase' /\ Undo' /\ EndsWhole'
      BY <1>1, <2>1, <2>2, <2>3, NameInUse DEF tar_deferred_extract, Go, Moves, Placed,
         FileInv, TypeOK, Phase, Undo, EndsWhole, Untouched, Extracting, Undoing, Ended,
         Parts, FileNames, At, Skipped, Kept, Made, BackedUp, Unmoved, Waiting, InPlace,
         Fresh
  <2>. QED
      BY <2>4, <2>5 DEF FileInv
<1>. QED
    BY <1>2, <1>3

LEMMA RemoveBackupStep == FileInv /\ pkg_remove_backup_files => FileInv'
<1>. SUFFICES ASSUME FileInv, pkg_remove_backup_files PROVE FileInv'
    OBVIOUS
<1>1. Absent.kind = "absent" /\ Absent.inode = 0 /\ Absent \in Objects
    BY AbsentIsObject DEF Absent, Obj
<1>2. IF listed /\ ~item.conff THEN Puts(namenodetouse, "tmp", Absent) ELSE disk' = disk
    BY <1>1, PutOne, NameInUse DEF pkg_remove_backup_files, Place, FileInv, TypeOK, Disks,
       Parts
<1>T. TypeOK' /\ ObjectsOK' /\ OtherNameIsClear' /\ PlaceIsSolid' /\ PlaceIsTaken'
    BY <1>1, <1>2, NameInUse DEF pkg_remove_backup_files, Go, Puts, FileInv, TypeOK, Disks,
       Extracting, Undoing, Ended, ObjectsOK, OtherNameIsClear, PlaceIsSolid, PlaceIsTaken,
       At, Atomic, Parts, FileNames
<1>P. Phase' /\ Undo' /\ EndsWhole'
    BY <1>1, <1>2, NameInUse DEF pkg_remove_backup_files, Go, Puts, FileInv, TypeOK, Phase,
       Undo, EndsWhole, Untouched, Extracting, Undoing, Ended, Parts, FileNames, At,
       Skipped, Kept, Made, BackedUp, Unmoved, Waiting, InPlace, Fresh, OtherNameIsClear
<1>. QED
    BY <1>T, <1>P DEF FileInv

LEMMA CuRemoveStep == FileInv /\ cu_installnew_remove => FileInv'
<1>. SUFFICES ASSUME FileInv, cu_installnew_remove PROVE FileInv'
    OBVIOUS
<1>1. Absent.kind = "absent" /\ Absent.inode = 0 /\ Absent \in Objects
    BY AbsentIsObject DEF Absent, Obj
<1>2. \/ disk' = disk
         /\ \/ Restores /\ "NO_ATOMIC_OVERWRITE" \notin flags
            \/ ~Restores /\ "PLACED_ON_DISK" \notin flags
      \/ Puts("f", "main", Absent)
         /\ \/ Restores /\ "NO_ATOMIC_OVERWRITE" \in flags
            \/ ~Restores /\ "PLACED_ON_DISK" \in flags
    BY <1>1, PutOne DEF cu_installnew_remove, FileInv, TypeOK, Disks, Parts, FileNames
<1>3. TypeOK'
    BY <1>1, <1>2 DEF cu_installnew_remove, Go, Puts, Restores, FileInv, TypeOK,
       Disks, Extracting, Undoing, Ended, Parts, FileNames
<1>4. ObjectsOK' /\ OtherNameIsClear'
    BY <1>1, <1>2, NameInUse DEF cu_installnew_remove, Go, Puts, Restores, FileInv, TypeOK,
       Disks, ObjectsOK, OtherNameIsClear, At, Atomic, Parts, FileNames
<1>T. TypeOK' /\ ObjectsOK' /\ OtherNameIsClear' /\ PlaceIsSolid' /\ PlaceIsTaken'
    BY <1>1, <1>2, <1>3, <1>4, NameInUse DEF cu_installnew_remove, Go, Puts, Restores, FileInv, TypeOK,
       Disks, Extracting, Undoing, Ended, OtherNameIsClear, PlaceIsSolid,
       PlaceIsTaken, At, Atomic, Parts, FileNames, Undo, Phase, Made, BackedUp, Unmoved
<1>P. Phase' /\ Undo' /\ EndsWhole'
    BY <1>1, <1>2, NameInUse DEF cu_installnew_remove, Go, Puts, Restores, FileInv, TypeOK,
       Phase, Undo, EndsWhole, Untouched, Extracting, Undoing, Ended, Parts, FileNames, At,
       Skipped, Kept, Made, BackedUp, Unmoved, Waiting, InPlace, Fresh, OtherNameIsClear
<1>. QED
    BY <1>T, <1>P DEF FileInv

LEMMA CuRestoreStep == FileInv /\ cu_installnew_restore => FileInv'
<1>. SUFFICES ASSUME FileInv, cu_installnew_restore PROVE FileInv'
    OBVIOUS
<1>1. Absent.kind = "absent" /\ Absent.inode = 0 /\ Absent \in Objects
    BY AbsentIsObject DEF Absent, Obj
<1>2. /\ disk' \in Disks /\ disk'["f"]["main"] = disk["f"]["tmp"] /\ disk'["f"]["tmp"] = Absent
      /\ \A m \in FileNames, q \in Parts : m # "f" \/ q = "new" => disk'[m][q] = disk[m][q]
    BY <1>1 DEF cu_installnew_restore, Renamed, FileInv, TypeOK, Disks, Parts, FileNames
<1>T. TypeOK' /\ ObjectsOK' /\ OtherNameIsClear' /\ PlaceIsSolid' /\ PlaceIsTaken'
    BY <1>1, <1>2, NameInUse DEF cu_installnew_restore, Go, FileInv, TypeOK, Disks,
       Extracting, Undoing, Ended, ObjectsOK, OtherNameIsClear, PlaceIsSolid, PlaceIsTaken,
       At, Atomic, Parts, FileNames, Undo, Phase
<1>P. Phase' /\ Undo' /\ EndsWhole'
    BY <1>1, <1>2, NameInUse DEF cu_installnew_restore, Go, FileInv, TypeOK, Phase, Undo,
       EndsWhole, Untouched, Extracting, Undoing, Ended, Parts, FileNames, At, Skipped,
       Kept, Made, BackedUp, Unmoved, Waiting, InPlace, Fresh
<1>. QED
    BY <1>T, <1>P DEF FileInv

LEMMA CuNewStep == FileInv /\ cu_installnew => FileInv'
<1>. SUFFICES ASSUME FileInv, cu_installnew PROVE FileInv'
    OBVIOUS
<1>1. Absent.kind = "absent" /\ Absent.inode = 0 /\ Absent \in Objects
    BY AbsentIsObject DEF Absent, Obj
<1>2. Puts("f", "new", Absent)
    BY <1>1, PutOne DEF cu_installnew, FileInv, TypeOK, Disks, Parts, FileNames
<1>T. TypeOK' /\ ObjectsOK' /\ OtherNameIsClear' /\ PlaceIsSolid' /\ PlaceIsTaken'
    BY <1>1, <1>2, NameInUse DEF cu_installnew, Go, Puts, FileInv, TypeOK, Disks,
       Extracting, Undoing, Ended, ObjectsOK, OtherNameIsClear, PlaceIsSolid, PlaceIsTaken,
       At, Atomic, Parts, FileNames
<1>P. Phase' /\ Undo' /\ EndsWhole'
    BY <1>1, <1>2, NameInUse DEF cu_installnew, Go, Puts, FileInv, TypeOK, Phase, Undo,
       EndsWhole, Untouched, Extracting, Undoing, Ended, Parts, FileNames, At, Skipped,
       Kept, Made, BackedUp, Unmoved, Waiting, InPlace, Fresh, OtherNameIsClear
<1>. QED
    BY <1>T, <1>P DEF FileInv

LEMMA PowerStep == FileInv /\ PowerFails => FileInv'
<1>. SUFFICES ASSUME FileInv, PowerFails PROVE FileInv'
    OBVIOUS
<1>. DEFINE After(o) == IF o.safe THEN o ELSE [o EXCEPT !.data = "lost", !.safe = TRUE]
<1>1. \A o \in Objects : /\ After(o) \in Objects /\ After(o).kind = o.kind
                          /\ After(o).inode = o.inode /\ (o.safe => After(o) = o)
    BY DEF Objects, Contents
<1>2. disk' = [n \in FileNames |-> [p \in Parts |-> After(disk[n][p])]]
    BY DEF PowerFails
<1>. HIDE DEF After
<1>3. disk' \in Disks /\ \A n \in FileNames, p \in Parts : disk'[n][p] = After(disk[n][p])
    BY <1>1, <1>2 DEF FileInv, TypeOK, Disks
<1>4. Absent.kind = "absent" /\ Absent.safe /\ Absent \in Objects
    BY AbsentIsObject DEF Absent, Obj
<1>5. UNCHANGED <<item, ground, flags, listed, pushed, before, tries>> /\ tarpc' = "dead"
    BY DEF PowerFails, Go
<1>T. TypeOK' /\ ObjectsOK' /\ OtherNameIsClear' /\ PlaceIsSolid' /\ PlaceIsTaken'
    BY <1>1, <1>3, <1>4, <1>5, NameInUse DEF FileInv, FileInv, TypeOK, Disks, Extracting,
       Undoing, Ended, ObjectsOK, OtherNameIsClear, PlaceIsSolid, PlaceIsTaken, At, Atomic,
       Parts, FileNames
<1>P. Phase' /\ Undo' /\ EndsWhole'
    BY <1>1, <1>3, <1>4, <1>5, NameInUse DEF FileInv, FileInv, TypeOK, Phase, Undo,
       EndsWhole, Untouched, Extracting, Undoing, Ended, Parts, FileNames, At, Skipped,
       Kept, Made, BackedUp, Unmoved, Waiting, InPlace, Fresh
<1>. QED
    BY <1>T, <1>P DEF FileInv

LEMMA StartStep == FileInv /\ tarobject => FileInv'
<1>. SUFFICES ASSUME FileInv, tarobject PROVE FileInv'
    OBVIOUS
<1>1. Absent.kind = "absent" /\ Absent.inode = 0 /\ Absent \in Objects
    BY AbsentIsObject DEF Absent, Obj
<1>2. tarpc = "start" /\ ~pushed /\ listed' = TRUE /\ UNCHANGED <<item, ground, pushed, tries>>
    BY DEF tarobject, FileInv, Phase
<1>3. CASE tarpc' = "failed"
  <2>1. UNCHANGED <<disk, before>>
      BY <1>3 DEF tarobject, Go
  <2>2. TypeOK' /\ ObjectsOK' /\ OtherNameIsClear' /\ PlaceIsSolid' /\ PlaceIsTaken'
      BY <1>2, <1>3, <2>1, SameDisk DEF FileInv, TypeOK, Ended
  <2>3. Phase' /\ Undo' /\ EndsWhole'
      BY <1>2, <1>3, <2>1 DEF FileInv, Phase, Undo, EndsWhole, Extracting, Undoing
  <2>. QED
      BY <2>2, <2>3 DEF FileInv
<1>4. CASE tarpc' # "failed"
  <2>1. /\ tarpc' = "check" /\ before' = disk'[namenodetouse]["main"]
        /\ disk' = IF Exists("main") THEN disk ELSE Renamed(namenodetouse, "tmp", "main")
        /\ flags' \cap {"PLACED_ON_DISK", "DEFERRED_RENAME", "NO_ATOMIC_OVERWRITE"} = {}
      BY <1>2, <1>4 DEF tarobject, Fail, Go
  <2>2. disk' = disk \/ Moves(namenodetouse, "tmp", "main")
      BY <2>1, MoveOne, NameInUse DEF FileInv, TypeOK, Disks, Parts
  <2>3. disk' \in Disks /\ before' \in Objects
      BY <2>1, <2>2, NameInUse DEF Moves, FileInv, TypeOK, Disks, Parts
  <2>4. TypeOK' /\ ObjectsOK' /\ OtherNameIsClear' /\ PlaceIsSolid' /\ PlaceIsTaken'
      BY <1>1, <1>2, <2>1, <2>2, <2>3, NameInUse DEF Moves, FileInv, TypeOK, Disks,
         Extracting, Undoing, Ended, ObjectsOK, OtherNameIsClear, PlaceIsSolid,
         PlaceIsTaken, At, Atomic, Parts, FileNames
  <2>5. Phase' /\ Undo' /\ EndsWhole'
      BY <1>1, <1>2, <2>1, <2>2, <2>3, NameInUse DEF Moves, FileInv, ObjectsOK, TypeOK,
         Phase, Undo, EndsWhole, Untouched, Extracting, Undoing, Ended, Parts, FileNames,
         At, Skipped, Kept, Made, BackedUp, Unmoved, Waiting, InPlace, Fresh
  <2>. QED
      BY <2>4, <2>5 DEF FileInv
<1>. QED
    BY <1>3, <1>4

LEMMA RetryStep == FileInv /\ Retry => FileInv'
<1>. SUFFICES ASSUME FileInv, Retry PROVE FileInv'
    OBVIOUS
<1>1. TypeOK'
  <2>1. tries' \in Nat /\ pushed' \in BOOLEAN /\ listed' \in BOOLEAN /\ tarpc' = "start"
    <3>1. tries' = tries + 1 /\ tries \in Nat
        BY DEF Retry, FileInv, TypeOK
    <3>2. pushed' \in BOOLEAN /\ listed' \in BOOLEAN /\ tarpc' = "start"
        BY Zenon DEF Retry, Go
    <3>. QED
        BY <3>1, <3>2
  <2>2. UNCHANGED <<disk, item, ground, before>> /\ TypeOK
      BY DEF Retry, FileInv
  <2>3. tarpc' \in {"start"} \cup Extracting \cup Undoing \cup Ended
      BY <2>1
  <2>. QED
      BY <2>1, <2>2, <2>3 DEF TypeOK
<1>2. ObjectsOK'
  <2>1. \A n \in FileNames, p \in Parts : disk[n][p].inode \in Nat
      BY DEF FileInv, TypeOK, Objects
  <2>. QED
      BY <2>1 DEF Retry, FileInv, TypeOK, ObjectsOK
<1>3. OtherNameIsClear' /\ PlaceIsSolid' /\ PlaceIsTaken'
    BY DEF Retry, FileInv, OtherNameIsClear, PlaceIsSolid, PlaceIsTaken, At, namenodetouse,
       Atomic
<1>4. Phase' /\ Undo' /\ EndsWhole'
    BY NameInUse DEF Retry, Go, FileInv, ObjectsOK, TypeOK, Phase, Undo, EndsWhole,
       Untouched, Extracting, Undoing, Ended, Parts, FileNames, At, Skipped, Kept, Made,
       BackedUp, Unmoved, Waiting, InPlace, Fresh, Objects
<1>. QED
    BY <1>1, <1>2, <1>3, <1>4 DEF FileInv

LEMMA StepInv == FileInv /\ [FileNext]_filevars => FileInv'
<1>. SUFFICES ASSUME FileInv, [FileNext]_filevars PROVE FileInv'
    OBVIOUS
<1>1. CASE UNCHANGED filevars
  <2>1. TypeOK' /\ ObjectsOK' /\ OtherNameIsClear' /\ PlaceIsSolid' /\ PlaceIsTaken'
      BY <1>1, SameDisk DEF filevars, FileInv, TypeOK
  <2>2. Phase' /\ Undo' /\ EndsWhole'
      BY <1>1 DEF filevars, namenodetouse, FileInv, TypeOK, Phase, Undo, EndsWhole,
         Untouched, Extracting, Undoing, Ended, Parts, FileNames, At, Skipped, Kept, Made,
         BackedUp, Unmoved, Waiting, InPlace, Fresh
  <2>. QED
      BY <2>1, <2>2 DEF FileInv
<1>. QED
    BY <1>1, StartStep, SkipStep, HashStep, RemainsNewStep, RemainsTmpStep, ExtractStep,
       SetPermsStep, BackupStep, InstallStep, FsyncStep, PlaceStep, RemoveBackupStep,
       ErrorStep, CuRemoveStep, CuRestoreStep, CuNewStep, CleanupFailsStep, KilledStep,
       PowerStep, RetryStep DEF FileNext

-----------------------------------------------------------------------------
(***************************************************************************)
(* The invariant holds from the first system call of the unpacking on, for *)
(* every kind of entry, every diversion and owner of the path and however  *)
(* often dpkg is killed, the power fails and the archive is unpacked again *)
(* (tarobject(), tar_deferred_extract(), cu_installnew()).                 *)
(***************************************************************************)
THEOREM FileInvariant == FileSpec => []FileInv
BY InitInv, StepInv, PTL DEF FileSpec

(***************************************************************************)
(* A path that is replaced atomically is there at every moment, with its   *)
(* old or its new contents: tarobject() never touches it before its backup *)
(* and tar_deferred_extract() renames over it only what was synced.        *)
(***************************************************************************)
THEOREM OldOrNewAlways == FileSpec => []OldOrNew
<1>1. FileInv => OldOrNew
    BY NameInUse DEF FileInv, OldOrNew, PlaceIsSolid, PlaceIsTaken, Atomic
<1>. QED
    BY <1>1, FileInvariant, PTL

(***************************************************************************)
(* An unpacking that cu_installnew() has undone leaves the path as it was, *)
(* one that has passed pkg_remove_backup_files() has the new object there, *)
(* and nothing remains next to it.                                         *)
(***************************************************************************)
THEOREM UnpackingEndsWhole == FileSpec => []EndsWhole
<1>1. FileInv => EndsWhole
    BY DEF FileInv
<1>. QED
    BY <1>1, FileInvariant, PTL


-----------------------------------------------------------------------------
(***************************************************************************)
(* Removal: the inductive invariant, in two halves.  KeepInv is about what *)
(* a walk over a list takes from the others, PurgeInv about what it leaves.*)
(***************************************************************************)
RemovalTypes ==
  /\ shipped \in Ships
  /\ lists \in [PkgInfos -> SUBSET Paths] /\ \A p \in PkgInfos : lists[p] \subseteq shipped[p]
  /\ conffiles \in [PkgInfos -> SUBSET Paths]
  /\ \A p \in PkgInfos : conffiles[p] \subseteq shipped[p] \cap Conffiles
  /\ stat \in [PkgInfos -> {"unpacked", "halfinst", "config", "notinst"}]
  /\ rpc \in {"idle", "files", "postrm", "purge", "conffiles", "purged", "dirs"}
  /\ rpc # "idle" => pkg \in PkgInfos
  /\ rpc \in {"files", "postrm"} => stat[pkg] = "halfinst"
  /\ rpc \in {"purge", "conffiles", "purged", "dirs"} => stat[pkg] = "config"

\* What a walk over the list has still before it, and what it has kept.
WalkIsOrdered ==
  /\ rpc = "conffiles" => todo \subseteq conffiles[pkg]
  /\ rpc \in {"files", "dirs"} =>
       /\ todo \subseteq lists[pkg] /\ leftover \subseteq lists[pkg] \ todo
       /\ \A n \in todo : Parent[n] \in lists[pkg] => Parent[n] \in todo

\* The list of an unpacked package is what it has shipped.
UnpackedIsListed ==
  \A p \in PkgInfos : stat[p] = "unpacked" => lists[p] = shipped[p]

\* Nobody who is past the walk over his files has one of an unpacked package in his list.
Past(p) == stat[p] = "config" \/ (rpc = "postrm" /\ p = pkg)
SharedIsForgotten ==
  \A p \in PkgInfos : stat[p] = "unpacked" =>
    /\ \A q \in PkgInfos : Past(q) => lists[q] \cap shipped[p] \subseteq Dirs
    /\ rpc = "files" => leftover \cap shipped[p] \subseteq Dirs

KeepInv == RemovalTypes /\ WalkIsOrdered /\ UnpackedIsListed /\ SharedIsForgotten /\ OthersKeepTheirFiles

\* What is on the disk is in a directory, and what is in a list has its directory there too.
DiskIsClosed ==
  /\ \A n \in ondisk \cap Paths :
       /\ \E p \in PkgInfos : n \in shipped[p]
       /\ Parent[n] \in Paths => Parent[n] \in ondisk
  /\ Own \in ondisk /\ OwnDir \in Paths \cap Dirs => OwnDir \in ondisk
ListsAreClosed ==
  /\ \A p \in PkgInfos : \A n \in lists[p] : Parent[n] \in Paths => Parent[n] \in lists[p]
  /\ rpc = "files" => \A n \in leftover : Parent[n] \in Paths => Parent[n] \in leftover \cup todo

\* The directories of conffiles stay until the conffiles are purged.
ConffilesHaveDirs ==
  \A p \in PkgInfos : stat[p] \in {"unpacked", "halfinst"} =>
    \A n \in conffiles[p] \cap lists[p] : Parent[n] \in Paths => Parent[n] \in ondisk

\* After the files are gone a list has directories and conffiles, in the end only directories.
OnlyDirsAndConffiles ==
  /\ \A p \in PkgInfos : Past(p) => lists[p] \subseteq Dirs \cup conffiles[p]
  /\ rpc \in {"purged", "dirs"} => lists[pkg] \subseteq Dirs
  /\ rpc = "files" => leftover \subseteq Dirs \cup conffiles[pkg]
  /\ rpc \in {"files", "dirs"} => leftover \cap Dirs \subseteq ondisk

\* What a walk has passed is kept, gone, or in the list of somebody else.
PassedIsDone ==
  /\ rpc \in {"files", "dirs"} =>
       \A n \in lists[pkg] \ (todo \cup leftover) : n \notin ondisk \/ OwnedBy(n) \ {pkg} # {}
  /\ rpc = "conffiles" => \A n \in conffiles[pkg] \cap lists[pkg] : n \in todo \/ n \notin ondisk
  /\ rpc = "dirs" => \A n \in leftover : Children(n) # {}

\* What is in no list any more is a directory that is not empty.
AllIsListed ==
  \A n \in ondisk \cap Paths : OwnedBy(n) # {} \/ (n \in Dirs /\ Children(n) # {})

PurgeInv ==
  /\ DiskIsClosed /\ ListsAreClosed /\ ConffilesHaveDirs /\ OnlyDirsAndConffiles
  /\ PassedIsDone /\ AllIsListed

-----------------------------------------------------------------------------
(* One step of a walk over the list: what becomes of the path.             *)
Passing(n) ==
  /\ rpc \in {"files", "dirs"} /\ n \in todo /\ \A m \in todo : ~Below(n, m)
  /\ todo' = todo \ {n}
  /\ UNCHANGED <<lists, conffiles, stat, postrm, shipped, pkg, want, rpc, removals>>

Takes(n) ==
  /\ ondisk' = ondisk \ {n} /\ UNCHANGED leftover
  /\ n \in Dirs => Children(n) = {}
  /\ n \in Dirs \cap ondisk => OwnedBy(n) \ {pkg} = {} /\ \A m \in leftover : ~Below(n, m)
  /\ rpc = "files" =>
       /\ n \notin conffiles[pkg] /\ (n \notin Dirs => ~removal_bulk_file_is_shared(n))
       /\ n \in Dirs \cap ondisk => ~dir_has_conffiles(n)
  /\ rpc = "dirs" => n \in Dirs

Leaves(n) ==
  /\ leftover' = leftover \cup {n} /\ UNCHANGED ondisk
  /\ \/ n \in Dirs /\ n \in ondisk
     \/ n \in Dirs /\ Children(n) # {}
     \/ rpc = "files" /\ n \in conffiles[pkg] /\ (n \in Dirs \/ ~removal_bulk_file_is_shared(n))
     \/ rpc = "dirs" /\ n \notin Dirs
  /\ rpc = "dirs" /\ n \in Dirs => Children(n) # {} \/ \E m \in leftover : Below(n, m)

Forgets(n) ==
  /\ UNCHANGED <<leftover, ondisk>>
  /\ \/ OwnedBy(n) \ {pkg} # {}
     \/ rpc = "dirs" /\ (n \in conffiles[pkg] \/ n \notin ondisk)
  /\ n \in Dirs /\ rpc = "files" =>
       n \in ondisk /\ ~dir_has_conffiles(n) /\ \A m \in leftover : ~Below(n, m)

LEMMA WalkStep ==
  ASSUME removal_bulk_remove_files \/ removal_bulk_remove_leftover_dirs
  PROVE  \E n \in todo : Passing(n) /\ (Takes(n) \/ Leaves(n) \/ Forgets(n))
<1>. USE DEF Takes, Leaves, Forgets, Keep, Unlink, Forget, Try, Blocked, Block,
             dir_is_used_by_pkg, dir_is_used_by_others
<1>1. CASE removal_bulk_remove_files
    <2>1. PICK n \in Deepest :
            /\ todo' = todo \ {n}
            /\ IF n \notin Dirs /\ removal_bulk_file_is_shared(n) THEN Forget
               ELSE IF n \in conffiles[pkg] \/ (n \in Dirs \cap ondisk /\ dir_has_conffiles(n))
                    THEN Keep(n)
               ELSE IF Blocked(n) THEN Block(n) ELSE Try(n)
        BY <1>1 DEF removal_bulk_remove_files
    <2>2. Passing(n)
        BY <1>1, <2>1 DEF removal_bulk_remove_files, Passing, Deepest
    <2>3. rpc = "files"
        BY <1>1 DEF removal_bulk_remove_files
    <2>4. CASE n \notin Dirs /\ removal_bulk_file_is_shared(n)
        <3>1. OwnedBy(n) \ {pkg} # {}
            BY <2>4 DEF removal_bulk_file_is_shared
        <3>2. Forgets(n)
            BY <2>1, <2>4, <3>1
        <3>. QED
            BY <2>2, <3>2 DEF Deepest
    <2>5. CASE ~(n \notin Dirs /\ removal_bulk_file_is_shared(n))
               /\ (n \in conffiles[pkg] \/ (n \in Dirs \cap ondisk /\ dir_has_conffiles(n)))
        <3>1. Leaves(n)
            BY <2>1, <2>3, <2>5
        <3>. QED
            BY <2>2, <3>1 DEF Deepest
    <2>6. CASE ~(n \notin Dirs /\ removal_bulk_file_is_shared(n))
               /\ ~(n \in conffiles[pkg] \/ (n \in Dirs \cap ondisk /\ dir_has_conffiles(n)))
        <3>1. Takes(n) \/ Leaves(n) \/ Forgets(n)
            BY <2>1, <2>3, <2>6
        <3>. QED
            BY <2>2, <3>1 DEF Deepest
    <2>. QED
        BY <2>4, <2>5, <2>6
<1>2. CASE removal_bulk_remove_leftover_dirs
    <2>1. PICK n \in Deepest :
            /\ todo' = todo \ {n}
            /\ IF n \in conffiles[pkg] THEN Forget
               ELSE IF Blocked(n) THEN Block(n)
               ELSE IF n \in Dirs THEN Try(n)
               ELSE IF n \in ondisk THEN Keep(n) ELSE Forget
        BY <1>2 DEF removal_bulk_remove_leftover_dirs
    <2>2. Passing(n)
        BY <1>2, <2>1 DEF removal_bulk_remove_leftover_dirs, Passing, Deepest
    <2>3. rpc = "dirs"
        BY <1>2 DEF removal_bulk_remove_leftover_dirs
    <2>4. Takes(n) \/ Leaves(n) \/ Forgets(n)
        BY <2>1, <2>3
    <2>. QED
        BY <2>2, <2>4 DEF Deepest
<1>. QED
    BY <1>1, <1>2

(* A file that another instance has in its list is found to be shared.     *)
LEMMA IsShared ==
  ASSUME RemovalTypes, pkg \in PkgInfos, stat[pkg] # "notinst",
         NEW p \in PkgInfos, p # pkg, stat[p] # "notinst", SetOf[p] = SetOf[pkg],
         NEW n \in lists[p]
  PROVE  removal_bulk_file_is_shared(n)
<1>. DEFINE S == {q \in PkgInfos : SetOf[q] = SetOf[pkg] /\ stat[q] # "notinst"}
<1>1. IsFiniteSet(S) /\ Cardinality(S) \in Nat
    BY PkgInfosAssumption, FS_Subset, FS_CardinalityType
<1>2. {p} \in SUBSET S /\ {p} # S /\ Cardinality({p}) = 1
    BY FS_Singleton
<1>3. Cardinality({p}) <= Cardinality(S) /\ Cardinality(S) # Cardinality({p})
    <2>. HIDE DEF S
    <2>. QED
        BY <1>1, <1>2, FS_Subset
<1>4. Cardinality(S) > 1
    <2>. HIDE DEF S
    <2>. QED
        BY <1>1, <1>2, <1>3
<1>. QED
    BY <1>4 DEF removal_bulk_file_is_shared, OwnedBy

(***************************************************************************)
(* What the others have.                                                   *)
(***************************************************************************)
LEMMA KeepInit == RemoveInit => KeepInv
BY ShipsAssumption, PathsAssumption
   DEF RemoveInit, KeepInv, RemovalTypes, WalkIsOrdered, UnpackedIsListed, SharedIsForgotten, Past,
       OthersKeepTheirFiles

LEMMA KeepStep == KeepInv /\ [RemoveNext]_removevars => KeepInv'
<1>. SUFFICES ASSUME KeepInv, [RemoveNext]_removevars PROVE KeepInv'
    OBVIOUS
<1>. USE DEF KeepInv
<1>1. ASSUME NEW n \in todo, Passing(n), Takes(n) \/ Leaves(n) \/ Forgets(n)
      PROVE  KeepInv'
    <2>1. /\ pkg \in PkgInfos /\ stat[pkg] \notin {"unpacked", "notinst"}
          /\ n \in lists[pkg] /\ n \in shipped[pkg]
        BY <1>1 DEF RemovalTypes, WalkIsOrdered, Passing
    <2>2. RemovalTypes'
        BY <1>1 DEF RemovalTypes, Passing
    <2>3. WalkIsOrdered'
        BY <1>1 DEF WalkIsOrdered, Passing, Takes, Leaves, Forgets, Below
    <2>4. UnpackedIsListed'
        BY <1>1 DEF UnpackedIsListed, Passing
    <2>5. ASSUME NEW p \in PkgInfos, stat[p] = "unpacked", n \in shipped[p], n \notin Dirs
          PROVE  rpc = "files" /\ removal_bulk_file_is_shared(n)
        <3>1. n \in lists[p] /\ p # pkg
            BY <2>1, <2>5 DEF UnpackedIsListed
        <3>2. SetOf[p] = SetOf[pkg]
            BY <2>1, <2>5, ShipsAssumption DEF RemovalTypes
        <3>3. removal_bulk_file_is_shared(n)
            BY <2>1, <2>5, <3>1, <3>2, IsShared
        <3>4. rpc # "dirs"
            BY <2>1, <2>5 DEF SharedIsForgotten, Past, RemovalTypes
        <3>. QED
            BY <1>1, <3>3, <3>4 DEF Passing
    <2>6. SharedIsForgotten'
        <3>1. ASSUME NEW p \in PkgInfos, stat[p] = "unpacked", rpc = "files"
              PROVE  leftover' \cap shipped[p] \subseteq Dirs
            <4>1. n \in leftover' \ leftover /\ n \notin Dirs => n \notin shipped[p]
                BY <1>1, <2>5, <3>1 DEF Takes, Leaves, Forgets
            <4>. QED
                BY <1>1, <3>1, <4>1 DEF SharedIsForgotten, Takes, Leaves, Forgets
        <3>. QED
            BY <1>1, <3>1 DEF SharedIsForgotten, Past, Passing
    <2>7. OthersKeepTheirFiles'
        <3>1. ASSUME NEW p \in PkgInfos, stat[p] = "unpacked", n \in shipped[p], n \in ondisk
              PROVE  ~Takes(n)
            <4>1. CASE n \in Dirs
                <5>1. p \in OwnedBy(n) \ {pkg}
                    BY <2>1, <3>1 DEF OwnedBy, UnpackedIsListed
                <5>. QED
                    BY <3>1, <4>1, <5>1 DEF Takes
            <4>2. CASE n \notin Dirs
                BY <2>5, <3>1, <4>2 DEF Takes
            <4>. QED
                BY <4>1, <4>2
        <3>. QED
            BY <1>1, <3>1 DEF OthersKeepTheirFiles, Passing, Takes, Leaves, Forgets
    <2>. QED
        BY <2>2, <2>3, <2>4, <2>6, <2>7
<1>2. CASE RemovalStart
    <2>1. PICK p \in PkgInfos :
            /\ stat[p] # "notinst" /\ pkg' = p
            /\ \/ stat[p] = "config" /\ rpc' = "purge" /\ todo' = {} /\ UNCHANGED stat
               \/ /\ stat[p] # "config" /\ rpc' = "files" /\ todo' = lists[p]
                  /\ stat' = [stat EXCEPT ![p] = "halfinst"]
        BY <1>2 DEF RemovalStart, Walk
    <2>2. rpc = "idle" /\ leftover' = {} /\ UNCHANGED <<ondisk, lists, conffiles, shipped>>
        BY <1>2 DEF RemovalStart, Walk
    <2>3. RemovalTypes'
        BY <2>1, <2>2 DEF RemovalTypes
    <2>4. WalkIsOrdered'
        BY <2>1, <2>2 DEF WalkIsOrdered, Below
    <2>5. UnpackedIsListed' /\ OthersKeepTheirFiles'
        BY <2>1, <2>2 DEF UnpackedIsListed, OthersKeepTheirFiles, RemovalTypes
    <2>6. SharedIsForgotten'
        BY <2>1, <2>2 DEF SharedIsForgotten, Past, RemovalTypes
    <2>. QED
        BY <2>3, <2>4, <2>5, <2>6
<1>3. CASE FilesList
    <2>1. /\ rpc = "files" /\ rpc' = "postrm" /\ lists' = [lists EXCEPT ![pkg] = leftover]
          /\ UNCHANGED <<ondisk, conffiles, stat, shipped, pkg, todo, leftover>>
        BY <1>3 DEF FilesList, write_filelist_except
    <2>2. RemovalTypes'
        BY <2>1 DEF RemovalTypes, WalkIsOrdered
    <2>3. WalkIsOrdered' /\ OthersKeepTheirFiles'
        BY <2>1 DEF WalkIsOrdered, OthersKeepTheirFiles
    <2>4. UnpackedIsListed'
        BY <2>1 DEF UnpackedIsListed, RemovalTypes
    <2>5. SharedIsForgotten'
        BY <2>1 DEF SharedIsForgotten, Past, RemovalTypes
    <2>. QED
        BY <2>2, <2>3, <2>4, <2>5
<1>4. CASE PostrmRemove
    <2>1. /\ rpc = "postrm" /\ rpc' = "purge" /\ stat' = [stat EXCEPT ![pkg] = "config"]
          /\ UNCHANGED <<ondisk, lists, conffiles, shipped, pkg, todo, leftover>>
        BY <1>4 DEF PostrmRemove
    <2>2. RemovalTypes'
        BY <2>1 DEF RemovalTypes
    <2>3. WalkIsOrdered' /\ UnpackedIsListed' /\ OthersKeepTheirFiles'
        BY <2>1 DEF WalkIsOrdered, OthersKeepTheirFiles, UnpackedIsListed, RemovalTypes
    <2>4. SharedIsForgotten'
        BY <2>1 DEF SharedIsForgotten, Past, RemovalTypes
    <2>. QED
        BY <2>2, <2>3, <2>4
<1>5. CASE removal_bulk
    <2>1. /\ rpc = "purge" /\ UNCHANGED <<ondisk, lists, conffiles, stat, shipped>>
          /\ \/ /\ UNCHANGED pkg /\ leftover' = {}
                /\ \/ rpc' = "dirs" /\ todo' = lists[pkg]
                   \/ rpc' = "conffiles" /\ todo' = conffiles[pkg]
             \/ rpc' = "idle"
        BY <1>5 DEF removal_bulk, Walk, Quit
    <2>2. RemovalTypes'
        BY <2>1 DEF RemovalTypes
    <2>3. WalkIsOrdered'
        BY <2>1 DEF WalkIsOrdered, RemovalTypes
    <2>4. UnpackedIsListed' /\ OthersKeepTheirFiles' /\ SharedIsForgotten'
        BY <2>1 DEF OthersKeepTheirFiles, UnpackedIsListed, SharedIsForgotten, Past
    <2>. QED
        BY <2>2, <2>3, <2>4
<1>6. CASE removal_bulk_remove_configfiles
    <2>1. PICK c \in todo :
            /\ rpc = "conffiles" /\ todo' = todo \ {c}
            /\ ondisk' = IF c \in lists[pkg] THEN ondisk \ {c} ELSE ondisk
            /\ UNCHANGED <<lists, conffiles, stat, shipped, pkg, leftover, rpc>>
        BY <1>6 DEF removal_bulk_remove_configfiles
    <2>2. RemovalTypes' /\ WalkIsOrdered' /\ UnpackedIsListed' /\ SharedIsForgotten'
        BY <2>1 DEF RemovalTypes, WalkIsOrdered, UnpackedIsListed, SharedIsForgotten, Past
    <2>3. OthersKeepTheirFiles'
        <3>1. c \in Conffiles /\ c \notin Dirs /\ stat[pkg] = "config" /\ pkg \in PkgInfos
            BY <2>1, PathsAssumption DEF WalkIsOrdered, RemovalTypes
        <3>2. ASSUME NEW p \in PkgInfos, stat[p] = "unpacked", c \in lists[pkg]
              PROVE  c \notin shipped[p]
            BY <2>1, <3>1, <3>2 DEF SharedIsForgotten, Past
        <3>. QED
            BY <2>1, <3>2 DEF OthersKeepTheirFiles
    <2>. QED
        BY <2>2, <2>3
<1>7. CASE ConffilesList
    <2>1. /\ rpc = "conffiles" /\ rpc' = "purged"
          /\ lists' = [lists EXCEPT ![pkg] = lists[pkg] \ conffiles[pkg]]
          /\ UNCHANGED <<ondisk, conffiles, stat, shipped, pkg, todo, leftover>>
        BY <1>7 DEF ConffilesList, write_filelist_except
    <2>2. RemovalTypes'
        BY <2>1 DEF RemovalTypes
    <2>3. WalkIsOrdered' /\ OthersKeepTheirFiles' /\ UnpackedIsListed'
        BY <2>1 DEF WalkIsOrdered, OthersKeepTheirFiles, UnpackedIsListed, RemovalTypes
    <2>4. SharedIsForgotten'
        BY <2>1 DEF SharedIsForgotten, Past, RemovalTypes
    <2>. QED
        BY <2>2, <2>3, <2>4
<1>8. CASE PostrmPurge
    <2>1. /\ rpc = "purged" /\ conffiles' = [conffiles EXCEPT ![pkg] = {}]
          /\ UNCHANGED <<ondisk, lists, stat, shipped>> /\ leftover' = {}
          /\ \/ rpc' = "dirs" /\ todo' = lists[pkg] /\ UNCHANGED pkg
             \/ rpc' = "idle"
        BY <1>8 DEF PostrmPurge, Walk, Quit
    <2>2. RemovalTypes'
        BY <2>1 DEF RemovalTypes
    <2>3. WalkIsOrdered'
        BY <2>1 DEF WalkIsOrdered
    <2>4. UnpackedIsListed' /\ OthersKeepTheirFiles' /\ SharedIsForgotten'
        BY <2>1 DEF OthersKeepTheirFiles, UnpackedIsListed, SharedIsForgotten, Past
    <2>. QED
        BY <2>2, <2>3, <2>4
<1>9. CASE RemovalDone
    <2>1. /\ rpc = "dirs" /\ rpc' = "idle"
          /\ stat' = [stat EXCEPT ![pkg] = "notinst"] /\ lists' = [lists EXCEPT ![pkg] = {}]
          /\ UNCHANGED <<ondisk, conffiles, shipped>>
        BY <1>9 DEF RemovalDone, Quit
    <2>2. RemovalTypes'
        BY <2>1 DEF RemovalTypes
    <2>3. WalkIsOrdered' /\ OthersKeepTheirFiles' /\ UnpackedIsListed'
        BY <2>1 DEF WalkIsOrdered, OthersKeepTheirFiles, UnpackedIsListed, RemovalTypes
    <2>4. SharedIsForgotten'
        BY <2>1 DEF SharedIsForgotten, Past, RemovalTypes
    <2>. QED
        BY <2>2, <2>3, <2>4
<1>10. CASE RemovalStops
    BY <1>10 DEF RemovalStops, Quit, RemovalTypes, WalkIsOrdered, UnpackedIsListed,
       SharedIsForgotten, Past, OthersKeepTheirFiles
<1>11. CASE Admin
    BY <1>11 DEF Admin, RemovalTypes, WalkIsOrdered, UnpackedIsListed,
       SharedIsForgotten, Past, OthersKeepTheirFiles, Below
<1>12. CASE UNCHANGED removevars
    BY <1>12 DEF removevars, RemovalTypes, WalkIsOrdered, UnpackedIsListed,
       SharedIsForgotten, Past, OthersKeepTheirFiles, Below
<1>. QED
    BY <1>1, <1>2, <1>3, <1>4, <1>5, <1>6, <1>7, <1>8, <1>9, <1>10, <1>11, <1>12, WalkStep
       DEF RemoveNext

\* removal_bulk_remove_files() and removal_bulk_file_is_shared(): however the removals and purges of
\* packages are interrupted, killed and repeated, nobody takes a file, a conffile or a directory of a
\* package that is unpacked, be it another package or the instance of its own for another
\* architecture.
THEOREM OthersAlwaysKeepTheirFiles == RemoveSpec => []OthersKeepTheirFiles
<1>1. KeepInv => OthersKeepTheirFiles
    BY DEF KeepInv
<1>. QED
    BY <1>1, KeepInit, KeepStep, PTL DEF RemoveSpec

-----------------------------------------------------------------------------
(***************************************************************************)
(* What is purged.                                                         *)
(***************************************************************************)
LEMMA PurgeInit == RemoveInit => PurgeInv
<1>. SUFFICES ASSUME RemoveInit PROVE PurgeInv
    OBVIOUS
<1>. USE DEF RemoveInit
<1>1. \A p \in PkgInfos : \A n \in lists[p] : Parent[n] \in Paths => Parent[n] \in lists[p]
    BY ShipsAssumption
<1>2. DiskIsClosed
    BY <1>1, ShipsAssumption, PathsAssumption DEF DiskIsClosed
<1>3. ListsAreClosed
    BY <1>1 DEF ListsAreClosed
<1>4. ConffilesHaveDirs
    BY <1>1 DEF ConffilesHaveDirs
<1>5. OnlyDirsAndConffiles /\ PassedIsDone
    BY DEF OnlyDirsAndConffiles, PassedIsDone, Past
<1>6. AllIsListed
    BY ShipsAssumption, PathsAssumption DEF AllIsListed, OwnedBy
<1>. QED
    BY <1>2, <1>3, <1>4, <1>5, <1>6 DEF PurgeInv

(* A directory that is not empty is there.                                 *)
LEMMA ParentIsThere ==
  ASSUME DiskIsClosed, NEW n \in Dirs \cap Paths, Children(n) # {}
  PROVE  n \in ondisk
BY DEF DiskIsClosed, Children

LEMMA PurgeWalk ==
  ASSUME KeepInv, PurgeInv, NEW n \in todo, Passing(n), Takes(n) \/ Leaves(n) \/ Forgets(n)
  PROVE  PurgeInv'
<1>. USE DEF KeepInv, PurgeInv
<1>1. /\ pkg \in PkgInfos /\ stat[pkg] \notin {"unpacked", "notinst"}
      /\ n \in lists[pkg] /\ n \in shipped[pkg] /\ n \in Paths /\ n # Own
      /\ rpc \in {"files", "dirs"} /\ todo' = todo \ {n}
      /\ UNCHANGED <<lists, conffiles, stat, shipped, pkg, rpc>>
      /\ ondisk' \in {ondisk, ondisk \ {n}} /\ (ondisk' # ondisk => Takes(n))
    BY PathsAssumption DEF RemovalTypes, WalkIsOrdered, Passing, Takes, Leaves, Forgets
<1>2. Parent[n] \in Paths => Parent[n] \in lists[pkg] \cap Dirs
    BY <1>1, ShipsAssumption DEF ListsAreClosed, RemovalTypes
<1>3. ASSUME Takes(n), n \in Dirs
      PROVE  Children(n) = {} /\ \A m \in ondisk \cap Paths : Parent[m] # n
    BY <1>3 DEF Takes, Children
<1>4. \A d : Children(d)' = Children(d) \ {n} \/ Children(d)' = Children(d)
    BY <1>1 DEF Children
<1>5. \A d : OwnedBy(d)' = OwnedBy(d)
    BY <1>1 DEF OwnedBy
<1>6. rpc = "dirs" => n \in Dirs
    BY <1>1 DEF OnlyDirsAndConffiles
<1>7. DiskIsClosed'
    <2>1. ASSUME NEW m \in ondisk' \cap Paths, Parent[m] \in Paths
          PROVE  Parent[m] \in ondisk'
        <3>1. Parent[m] \in ondisk /\ m \in ondisk
            BY <1>1, <2>1 DEF DiskIsClosed
        <3>2. Takes(n) /\ Parent[m] = n => n \in Dirs
            BY <1>1, <2>1, <3>1, ShipsAssumption DEF DiskIsClosed, RemovalTypes
        <3>. QED
            BY <1>1, <1>3, <2>1, <3>1, <3>2
    <2>2. Takes(n) /\ Own \in ondisk /\ n \in Dirs => OwnDir # n
        BY <1>3 DEF Children
    <2>. QED
        BY <1>1, <2>1, <2>2 DEF DiskIsClosed
<1>8. ListsAreClosed'
    <2>. SUFFICES ASSUME rpc = "files", NEW m \in leftover', Parent[m] \in Paths
                  PROVE  Parent[m] \in leftover' \cup todo'
        BY <1>1 DEF ListsAreClosed
    <2>1. CASE m = n /\ m \notin leftover
        <3>1. n \in conffiles[pkg] \/ (n \in Dirs /\ n \in ondisk)
            BY <1>1, <2>1, ParentIsThere DEF Takes, Leaves, Forgets
        <3>2. Parent[n] \in ondisk
            BY <1>1, <2>1, <3>1 DEF ConffilesHaveDirs, DiskIsClosed, RemovalTypes
        <3>3. Parent[n] # n
            BY <1>1 DEF Passing, Below
        <3>4. Parent[n] \in todo \cup leftover
            BY <1>1, <1>2, <2>1 DEF WalkIsOrdered
        <3>. QED
            BY <1>1, <2>1, <3>3, <3>4 DEF Takes, Leaves, Forgets
    <2>2. CASE m \in leftover /\ Parent[m] # n
        BY <1>1, <2>2 DEF ListsAreClosed, Takes, Leaves, Forgets
    <2>3. CASE m \in leftover /\ Parent[m] = n
        <3>1. m \in lists[pkg] /\ m \in shipped[pkg]
            BY <1>1, <2>3 DEF WalkIsOrdered, RemovalTypes
        <3>2. n \in Dirs
            BY <1>1, <2>3, <3>1, ShipsAssumption DEF RemovalTypes
        <3>3. n \in ondisk
            <4>1. CASE m \in Dirs
                BY <1>1, <2>3, <3>1, <4>1 DEF OnlyDirsAndConffiles, DiskIsClosed, RemovalTypes
            <4>2. CASE m \notin Dirs
                BY <1>1, <2>3, <3>1, <4>2 DEF OnlyDirsAndConffiles, ConffilesHaveDirs, RemovalTypes
            <4>. QED
                BY <4>1, <4>2
        <3>4. ~Takes(n) /\ ~Forgets(n)
            BY <2>3, <3>2, <3>3 DEF Takes, Forgets, Below
        <3>. QED
            BY <2>3, <3>4 DEF Leaves
    <2>. QED
        BY <1>1, <2>1, <2>2, <2>3 DEF Takes, Leaves, Forgets
<1>9. ConffilesHaveDirs'
    <2>. SUFFICES ASSUME NEW p \in PkgInfos, stat[p] \in {"unpacked", "halfinst"},
                         NEW m \in conffiles[p] \cap lists[p], Parent[m] = n, Takes(n), n \in ondisk
                  PROVE  FALSE
        BY <1>1 DEF ConffilesHaveDirs
    <2>1. n \in Dirs /\ n \in lists[p]
        BY <1>1, ShipsAssumption DEF ListsAreClosed, RemovalTypes
    <2>2. CASE p = pkg
        BY <1>1, <2>1, <2>2 DEF Takes, dir_has_conffiles, Below, RemovalTypes
    <2>3. CASE p # pkg
        <3>1. p \in OwnedBy(n) \ {pkg}
            BY <2>1, <2>3 DEF OwnedBy
        <3>. QED
            BY <2>1, <3>1 DEF Takes
    <2>. QED
        BY <2>2, <2>3
<1>10. OnlyDirsAndConffiles'
    <2>1. rpc = "files" => leftover' \subseteq Dirs \cup conffiles[pkg]
        BY <1>1 DEF OnlyDirsAndConffiles, Takes, Leaves, Forgets
    <2>2. leftover' \cap Dirs \subseteq ondisk'
        <3>1. Leaves(n) /\ n \in Dirs => n \in ondisk
            BY <1>1, <1>6, ParentIsThere, PathsAssumption DEF Leaves, RemovalTypes
        <3>2. n \notin leftover
            BY <1>1 DEF WalkIsOrdered
        <3>. QED
            BY <1>1, <3>1, <3>2 DEF OnlyDirsAndConffiles, Takes, Leaves, Forgets
    <2>. QED
        BY <1>1, <2>1, <2>2 DEF OnlyDirsAndConffiles, Past
<1>11. PassedIsDone'
    <2>1. ASSUME NEW m \in lists[pkg] \ (todo' \cup leftover')
          PROVE  m \notin ondisk' \/ OwnedBy(m) \ {pkg} # {}
        <3>1. CASE m = n
            <4>1. rpc = "dirs" => n \notin conffiles[pkg]
                BY <1>1, <1>6, PathsAssumption DEF RemovalTypes
            <4>. QED
                BY <1>1, <2>1, <3>1, <4>1 DEF Takes, Leaves, Forgets
        <3>2. CASE m # n
            BY <1>1, <2>1, <3>2 DEF PassedIsDone, Takes, Leaves, Forgets
        <3>. QED
            BY <3>1, <3>2
    <2>2. ASSUME rpc = "dirs", NEW m \in leftover'
          PROVE  Children(m)' # {}
        <3>1. CASE m = n /\ Leaves(n)
            <4>1. Children(n) # {}
                <5>1. ASSUME NEW k \in leftover, Below(n, k)
                      PROVE  k \in Children(n)
                    <6>1. k \in Dirs /\ k \in Paths
                        BY <1>1, <2>2, <5>1 DEF OnlyDirsAndConffiles, WalkIsOrdered, RemovalTypes
                    <6>. QED
                        BY <1>1, <5>1, <6>1 DEF OnlyDirsAndConffiles, Children, Below
                <5>. QED
                    BY <1>6, <2>2, <3>1, <5>1 DEF Leaves
            <4>2. Children(n)' = Children(n)
                BY <3>1 DEF Leaves, Children
            <4>. QED
                BY <3>1, <4>1, <4>2
        <3>2. CASE m \in leftover
            <4>1. Children(m) # {} /\ ~Below(m, n)
                BY <1>1, <2>2, <3>2 DEF PassedIsDone, WalkIsOrdered, Below
            <4>2. n \notin Children(m)
                BY <1>1, <4>1 DEF Children, Below
            <4>. QED
                BY <1>4, <4>1, <4>2
        <3>. QED
            BY <2>2, <3>1, <3>2 DEF Takes, Leaves, Forgets
    <2>. QED
        BY <1>1, <1>5, <2>1, <2>2 DEF PassedIsDone
<1>12. AllIsListed'
    <2>. SUFFICES ASSUME NEW m \in ondisk' \cap Paths, OwnedBy(m) = {}
                  PROVE  m \in Dirs /\ Children(m)' # {}
        BY <1>5 DEF AllIsListed
    <2>1. m \in Dirs /\ Children(m) # {}
        BY <1>1 DEF AllIsListed
    <2>2. n \notin Children(m)
        <3>1. n \in Children(m) => Parent[n] = m
            BY <1>1 DEF Children
        <3>2. Parent[n] = m => pkg \in OwnedBy(m)
            BY <1>1, <1>2 DEF OwnedBy
        <3>. QED
            BY <3>1, <3>2
    <2>. QED
        BY <1>4, <2>1, <2>2
<1>. QED
    BY <1>7, <1>8, <1>9, <1>10, <1>11, <1>12

LEMMA PurgeStep == KeepInv /\ PurgeInv /\ [RemoveNext]_removevars => PurgeInv'
<1>. SUFFICES ASSUME KeepInv, PurgeInv, [RemoveNext]_removevars PROVE PurgeInv'
    OBVIOUS
<1>. USE DEF KeepInv, PurgeInv
<1>1. ASSUME NEW n \in todo, Passing(n), Takes(n) \/ Leaves(n) \/ Forgets(n)
      PROVE  PurgeInv'
    BY <1>1, PurgeWalk
<1>2. CASE RemovalStart
    <2>1. PICK p \in PkgInfos :
            /\ stat[p] # "notinst" /\ pkg' = p
            /\ \/ stat[p] = "config" /\ rpc' = "purge" /\ todo' = {} /\ UNCHANGED stat
               \/ /\ stat[p] # "config" /\ rpc' = "files" /\ todo' = lists[p]
                  /\ stat' = [stat EXCEPT ![p] = "halfinst"]
        BY <1>2 DEF RemovalStart, Walk
    <2>2. rpc = "idle" /\ leftover' = {} /\ UNCHANGED <<ondisk, lists, conffiles, shipped>>
        BY <1>2 DEF RemovalStart, Walk
    <2>3. \A q \in PkgInfos : stat'[q] = stat[q] \/
            (stat[q] \in {"unpacked", "halfinst"} /\ stat'[q] = "halfinst")
        BY <2>1 DEF RemovalTypes
    <2>4. \A n : OwnedBy(n)' = OwnedBy(n) /\ Children(n)' = Children(n)
        BY <2>2, <2>3 DEF OwnedBy, Children
    <2>5. DiskIsClosed' /\ ListsAreClosed'
        BY <2>1, <2>2 DEF DiskIsClosed, ListsAreClosed
    <2>6. ConffilesHaveDirs'
        BY <2>2, <2>3 DEF ConffilesHaveDirs
    <2>7. OnlyDirsAndConffiles'
        BY <2>1, <2>2, <2>3 DEF OnlyDirsAndConffiles, Past
    <2>8. PassedIsDone' /\ AllIsListed'
        BY <2>1, <2>2, <2>4 DEF PassedIsDone, AllIsListed
    <2>. QED
        BY <2>5, <2>6, <2>7, <2>8
<1>3. CASE FilesList
    <2>1. /\ rpc = "files" /\ rpc' = "postrm" /\ lists' = [lists EXCEPT ![pkg] = leftover]
          /\ todo = {} /\ pkg \in PkgInfos /\ leftover \subseteq lists[pkg]
          /\ UNCHANGED <<ondisk, conffiles, stat, shipped, pkg, todo, leftover>>
        BY <1>3 DEF FilesList, write_filelist_except, RemovalTypes, WalkIsOrdered
    <2>2. \A p \in PkgInfos : lists'[p] = IF p = pkg THEN leftover ELSE lists[p]
        BY <2>1 DEF RemovalTypes
    <2>3. DiskIsClosed'
        BY <2>1 DEF DiskIsClosed
    <2>4. ListsAreClosed' /\ ConffilesHaveDirs'
        BY <2>1, <2>2 DEF ListsAreClosed, ConffilesHaveDirs
    <2>5. OnlyDirsAndConffiles'
        BY <2>1, <2>2 DEF OnlyDirsAndConffiles, Past
    <2>6. PassedIsDone'
        BY <2>1 DEF PassedIsDone
    <2>7. AllIsListed'
        <3>. SUFFICES ASSUME NEW n \in ondisk \cap Paths, OwnedBy(n)' = {}
                      PROVE  n \in Dirs /\ Children(n) # {}
            BY <2>1 DEF AllIsListed, Children
        <3>1. OwnedBy(n) \ {pkg} = {}
            BY <2>1, <2>2 DEF OwnedBy
        <3>2. pkg \in OwnedBy(n) => n \in lists[pkg] /\ n \notin leftover
            BY <2>1, <2>2 DEF OwnedBy
        <3>3. OwnedBy(n) = {}
            BY <2>1, <3>1, <3>2 DEF PassedIsDone
        <3>. QED
            BY <3>3 DEF AllIsListed
    <2>. QED
        BY <2>3, <2>4, <2>5, <2>6, <2>7
<1>4. CASE PostrmRemove
    <2>1. /\ rpc = "postrm" /\ rpc' = "purge" /\ stat' = [stat EXCEPT ![pkg] = "config"]
          /\ stat[pkg] = "halfinst" /\ pkg \in PkgInfos
          /\ UNCHANGED <<ondisk, lists, conffiles, shipped, pkg, todo, leftover>>
        BY <1>4 DEF PostrmRemove, RemovalTypes
    <2>2. \A p \in PkgInfos : stat'[p] = IF p = pkg THEN "config" ELSE stat[p]
        BY <2>1 DEF RemovalTypes
    <2>3. \A n : OwnedBy(n)' = OwnedBy(n) /\ Children(n)' = Children(n)
        BY <2>1, <2>2 DEF OwnedBy, Children
    <2>4. DiskIsClosed' /\ ListsAreClosed'
        BY <2>1 DEF DiskIsClosed, ListsAreClosed
    <2>5. ConffilesHaveDirs'
        BY <2>1, <2>2 DEF ConffilesHaveDirs
    <2>6. OnlyDirsAndConffiles'
        BY <2>1, <2>2 DEF OnlyDirsAndConffiles, Past
    <2>7. PassedIsDone' /\ AllIsListed'
        BY <2>1, <2>3 DEF PassedIsDone, AllIsListed
    <2>. QED
        BY <2>4, <2>5, <2>6, <2>7
<1>5. CASE removal_bulk
    <2>1. /\ rpc = "purge" /\ UNCHANGED <<ondisk, lists, conffiles, stat, shipped>>
          /\ \/ /\ UNCHANGED pkg /\ leftover' = {}
                /\ \/ rpc' = "dirs" /\ todo' = lists[pkg] /\ conffiles[pkg] = {}
                   \/ rpc' = "conffiles" /\ todo' = conffiles[pkg]
             \/ rpc' = "idle"
        BY <1>5 DEF removal_bulk, Walk, Quit
    <2>2. stat[pkg] = "config" /\ pkg \in PkgInfos
        BY <2>1 DEF RemovalTypes
    <2>3. \A n : OwnedBy(n)' = OwnedBy(n) /\ Children(n)' = Children(n)
        BY <2>1 DEF OwnedBy, Children
    <2>4. DiskIsClosed' /\ ListsAreClosed' /\ ConffilesHaveDirs'
        BY <2>1 DEF DiskIsClosed, ListsAreClosed, ConffilesHaveDirs
    <2>5. OnlyDirsAndConffiles'
        BY <2>1, <2>2 DEF OnlyDirsAndConffiles, Past
    <2>6. PassedIsDone' /\ AllIsListed'
        BY <2>1, <2>3 DEF PassedIsDone, AllIsListed
    <2>. QED
        BY <2>4, <2>5, <2>6
<1>6. CASE removal_bulk_remove_configfiles
    <2>1. PICK c \in todo :
            /\ rpc = "conffiles" /\ todo' = todo \ {c}
            /\ ondisk' = IF c \in lists[pkg] THEN ondisk \ {c} ELSE ondisk
            /\ UNCHANGED <<lists, conffiles, stat, shipped, pkg, leftover, rpc>>
        BY <1>6 DEF removal_bulk_remove_configfiles
    <2>2. /\ c \in Paths /\ c \in Conffiles /\ c \notin Dirs /\ c # Own /\ c \in shipped[pkg]
          /\ stat[pkg] = "config" /\ pkg \in PkgInfos
        BY <2>1, PathsAssumption DEF WalkIsOrdered, RemovalTypes
    <2>3. \A p \in PkgInfos : \A n \in shipped[p] : Parent[n] # c
        BY <2>2, ShipsAssumption DEF RemovalTypes
    <2>4. DiskIsClosed'
        BY <2>1, <2>2, <2>3 DEF DiskIsClosed
    <2>5. ListsAreClosed' /\ OnlyDirsAndConffiles'
        BY <2>1 DEF ListsAreClosed, OnlyDirsAndConffiles, Past
    <2>6. ConffilesHaveDirs'
        BY <2>1, <2>3 DEF ConffilesHaveDirs, RemovalTypes
    <2>7. PassedIsDone'
        BY <2>1 DEF PassedIsDone
    <2>8. AllIsListed'
        <3>. SUFFICES ASSUME NEW m \in ondisk' \cap Paths, OwnedBy(m)' = {}
                      PROVE  m \in Dirs /\ Children(m)' # {}
            BY DEF AllIsListed
        <3>1. OwnedBy(m) = {} /\ m \in ondisk
            BY <2>1 DEF OwnedBy
        <3>2. m \in Dirs /\ Children(m) # {}
            BY <3>1 DEF AllIsListed
        <3>3. c \in lists[pkg] => Parent[c] # m
            BY <2>2, <3>1 DEF ListsAreClosed, OwnedBy
        <3>. QED
            BY <2>1, <2>2, <3>2, <3>3 DEF Children
    <2>. QED
        BY <2>4, <2>5, <2>6, <2>7, <2>8
<1>7. CASE ConffilesList
    <2>1. /\ rpc = "conffiles" /\ rpc' = "purged" /\ todo = {}
          /\ lists' = [lists EXCEPT ![pkg] = lists[pkg] \ conffiles[pkg]]
          /\ stat[pkg] = "config" /\ pkg \in PkgInfos
          /\ UNCHANGED <<ondisk, conffiles, stat, shipped, pkg, todo, leftover>>
        BY <1>7 DEF ConffilesList, write_filelist_except, RemovalTypes
    <2>2. \A p \in PkgInfos :
             lists'[p] = IF p = pkg THEN lists[p] \ conffiles[p] ELSE lists[p]
        BY <2>1 DEF RemovalTypes
    <2>3. DiskIsClosed'
        BY <2>1 DEF DiskIsClosed
    <2>4. ListsAreClosed'
        <3>1. ASSUME NEW n \in lists[pkg], Parent[n] \in Paths
              PROVE  Parent[n] \in lists[pkg] \ conffiles[pkg]
            BY <2>1, <3>1, ShipsAssumption, PathsAssumption DEF ListsAreClosed, RemovalTypes
        <3>. QED
            BY <2>1, <2>2, <3>1 DEF ListsAreClosed
    <2>5. ConffilesHaveDirs'
        BY <2>1, <2>2 DEF ConffilesHaveDirs
    <2>6. OnlyDirsAndConffiles'
        BY <2>1, <2>2 DEF OnlyDirsAndConffiles, Past
    <2>7. PassedIsDone'
        BY <2>1 DEF PassedIsDone
    <2>8. AllIsListed'
        <3>. SUFFICES ASSUME NEW n \in ondisk \cap Paths, OwnedBy(n)' = {}
                      PROVE  n \in Dirs /\ Children(n) # {}
            BY <2>1 DEF AllIsListed, Children
        <3>1. OwnedBy(n) \ {pkg} = {}
            BY <2>1, <2>2 DEF OwnedBy
        <3>2. pkg \in OwnedBy(n) => n \in lists[pkg] /\ n \in conffiles[pkg]
            BY <2>1, <2>2 DEF OwnedBy
        <3>3. OwnedBy(n) = {}
            BY <2>1, <3>1, <3>2 DEF PassedIsDone
        <3>. QED
            BY <3>3 DEF AllIsListed
    <2>. QED
        BY <2>3, <2>4, <2>5, <2>6, <2>7, <2>8
<1>8. CASE PostrmPurge
    <2>1. /\ rpc = "purged" /\ conffiles' = [conffiles EXCEPT ![pkg] = {}]
          /\ UNCHANGED <<ondisk, lists, stat, shipped>> /\ leftover' = {}
          /\ stat[pkg] = "config" /\ pkg \in PkgInfos
          /\ \/ rpc' = "dirs" /\ todo' = lists[pkg] /\ UNCHANGED pkg
             \/ rpc' = "idle"
        BY <1>8 DEF PostrmPurge, Walk, Quit, RemovalTypes
    <2>2. \A p \in PkgInfos : conffiles'[p] = IF p = pkg THEN {} ELSE conffiles[p]
        BY <2>1 DEF RemovalTypes
    <2>3. \A n : OwnedBy(n)' = OwnedBy(n) /\ Children(n)' = Children(n)
        BY <2>1 DEF OwnedBy, Children
    <2>4. DiskIsClosed' /\ ListsAreClosed' /\ ConffilesHaveDirs'
        BY <2>1, <2>2 DEF DiskIsClosed, ListsAreClosed, ConffilesHaveDirs
    <2>5. OnlyDirsAndConffiles'
        BY <2>1, <2>2 DEF OnlyDirsAndConffiles, Past
    <2>6. PassedIsDone' /\ AllIsListed'
        BY <2>1, <2>3 DEF PassedIsDone, AllIsListed
    <2>. QED
        BY <2>4, <2>5, <2>6
<1>9. CASE RemovalDone
    <2>1. /\ rpc = "dirs" /\ rpc' = "idle" /\ todo = {}
          /\ stat' = [stat EXCEPT ![pkg] = "notinst"] /\ lists' = [lists EXCEPT ![pkg] = {}]
          /\ stat[pkg] = "config" /\ pkg \in PkgInfos
          /\ UNCHANGED <<ondisk, conffiles, shipped>>
        BY <1>9 DEF RemovalDone, Quit, RemovalTypes
    <2>2. \A p \in PkgInfos : /\ lists'[p] = IF p = pkg THEN {} ELSE lists[p]
                              /\ stat'[p] = IF p = pkg THEN "notinst" ELSE stat[p]
        BY <2>1 DEF RemovalTypes
    <2>3. DiskIsClosed'
        BY <2>1 DEF DiskIsClosed
    <2>4. ListsAreClosed' /\ ConffilesHaveDirs'
        BY <2>1, <2>2 DEF ListsAreClosed, ConffilesHaveDirs
    <2>5. OnlyDirsAndConffiles'
        BY <2>1, <2>2 DEF OnlyDirsAndConffiles, Past
    <2>6. PassedIsDone'
        BY <2>1 DEF PassedIsDone
    <2>7. AllIsListed'
        <3>. SUFFICES ASSUME NEW n \in ondisk \cap Paths, OwnedBy(n)' = {}
                      PROVE  n \in Dirs /\ Children(n) # {}
            BY <2>1 DEF AllIsListed, Children
        <3>1. OwnedBy(n) \ {pkg} = {}
            BY <2>1, <2>2 DEF OwnedBy
        <3>2. CASE n \in leftover
            BY <2>1, <3>2 DEF PassedIsDone, OnlyDirsAndConffiles, WalkIsOrdered
        <3>3. CASE n \notin leftover
            <4>1. OwnedBy(n) = {}
                BY <2>1, <3>1, <3>3 DEF PassedIsDone, OwnedBy
            <4>. QED
                BY <4>1 DEF AllIsListed
        <3>. QED
            BY <3>2, <3>3
    <2>. QED
        BY <2>3, <2>4, <2>5, <2>6, <2>7
<1>10. CASE RemovalStops
    <2>1. rpc' = "idle" /\ UNCHANGED <<ondisk, lists, conffiles, stat, shipped>>
        BY <1>10 DEF RemovalStops, Quit
    <2>2. \A n : OwnedBy(n)' = OwnedBy(n) /\ Children(n)' = Children(n)
        BY <2>1 DEF OwnedBy, Children
    <2>3. DiskIsClosed' /\ ListsAreClosed' /\ ConffilesHaveDirs'
        BY <2>1 DEF DiskIsClosed, ListsAreClosed, ConffilesHaveDirs
    <2>4. OnlyDirsAndConffiles' /\ PassedIsDone' /\ AllIsListed'
        BY <2>1, <2>2 DEF OnlyDirsAndConffiles, Past, PassedIsDone, AllIsListed
    <2>. QED
        BY <2>3, <2>4
<1>11. CASE Admin
    <2>1. /\ rpc = "idle" /\ OwnDir \in ondisk /\ ondisk' = ondisk \cup {Own}
          /\ UNCHANGED <<lists, conffiles, stat, shipped, rpc>> /\ Own \notin Paths
        BY <1>11, PathsAssumption DEF Admin
    <2>2. \A n : OwnedBy(n)' = OwnedBy(n) /\ Children(n) \subseteq Children(n)'
        BY <2>1 DEF OwnedBy, Children
    <2>3. DiskIsClosed' /\ ListsAreClosed' /\ ConffilesHaveDirs'
        BY <2>1 DEF DiskIsClosed, ListsAreClosed, ConffilesHaveDirs
    <2>4. OnlyDirsAndConffiles' /\ PassedIsDone' /\ AllIsListed'
        BY <2>1, <2>2 DEF OnlyDirsAndConffiles, Past, PassedIsDone, AllIsListed
    <2>. QED
        BY <2>3, <2>4
<1>12. CASE UNCHANGED removevars
    <2>1. \A n : OwnedBy(n)' = OwnedBy(n) /\ Children(n)' = Children(n)
        BY <1>12 DEF OwnedBy, Children, removevars
    <2>. QED
        BY <1>12, <2>1 DEF removevars, DiskIsClosed, ListsAreClosed, ConffilesHaveDirs,
           OnlyDirsAndConffiles, Past, PassedIsDone, AllIsListed
<1>. QED
    BY <1>1, <1>2, <1>3, <1>4, <1>5, <1>6, <1>7, <1>8, <1>9, <1>10, <1>11, <1>12, WalkStep
       DEF RemoveNext

\* removal_bulk_remove_configfiles() and removal_bulk_remove_leftover_dirs(): once all packages that
\* shipped a path are purged it is gone, whatever was interrupted before: what a cut-short removal
\* kept was still in the list that the next one read.  Only a directory that still has something in it
\* is left.
THEOREM PurgedIsAlwaysGone == RemoveSpec => []PurgedIsGone
<1>1. KeepInv /\ PurgeInv => PurgedIsGone
    <2>. SUFFICES ASSUME KeepInv, PurgeInv, NEW n \in Paths \cap ondisk,
                         \A p \in PkgInfos : n \in shipped[p] => stat[p] = "notinst"
                  PROVE  n \in Dirs /\ Children(n) # {}
        BY DEF PurgedIsGone
    <2>1. OwnedBy(n) = {}
        BY DEF KeepInv, RemovalTypes, OwnedBy
    <2>. QED
        BY <2>1 DEF PurgeInv, AllIsListed
<1>2. KeepInv /\ PurgeInv /\ [RemoveNext]_removevars => (KeepInv /\ PurgeInv)'
    BY KeepStep, PurgeStep
<1>. QED
    BY <1>1, <1>2, KeepInit, PurgeInit, PTL DEF RemoveSpec

-----------------------------------------------------------------------------
(***************************************************************************)
(* The information files: the inductive invariant.                         *)
(***************************************************************************)
InfoFiles == [pkg : InfoPkgs, qual : BOOLEAN, type : {List} \cup FileTypes, ver : 1 .. 2]
Upgrades == {"link", "format", "unlink", "commit"}
Updates == {"list", "match", "install", "layout", "note"}
TypesOf(p) == {List} \cup ships[p]
Whole(p, q, types, v) ==
  /\ \A f \in info : f.pkg = p /\ f.qual = q => f.type \in types /\ f.ver = v
  /\ \A t \in types : File(p, q, t, v) \in info

InfoTypes ==
  /\ info \subseteq InfoFiles /\ format \in 0 .. 1 /\ formatnew \in BOOLEAN
  /\ same \in [InfoPkgs -> BOOLEAN] /\ ships \in [InfoPkgs -> SUBSET FileTypes]
  /\ stands \in [InfoPkgs -> {"whole", "half", "config", "none"}]
  /\ ipc \in {"idle", "open", "clean", "purge"} \cup Upgrades \cup Updates
  /\ ipc \in Updates \cup {"clean", "purge"} => job.pkg \in InfoPkgs
  /\ ipc \in Updates => job.same \in BOOLEAN /\ job.ships \in SUBSET FileTypes

\* Only the upgrade of the layout meets the old one, and it leaves a mark.
OldFormat ==
  /\ ipc \in Upgrades => formatnew
  /\ formatnew => format = 0
  /\ format = 0 => ipc \in {"idle"} \cup Upgrades /\ \A p \in InfoPkgs : stands[p] = "whole"
  /\ ipc \notin Upgrades => rename_head = {}

\* In the old layout each file has its old name, or its new one, or both.
EachHasAName ==
  format = 0 => \A p \in InfoPkgs :
    /\ ~same[p] => Whole(p, FALSE, TypesOf(p), 1)
    /\ \A f \in info : f.pkg = p => f.type \in TypesOf(p) /\ f.ver = 1
    /\ \A t \in TypesOf(p) : \E q \in BOOLEAN : File(p, q, t, 1) \in info

\* What was linked has both names, and what has the old one is to lose it.
Linked ==
  /\ \A f \in rename_head :
       /\ f \in InfoFiles /\ ~f.qual /\ same[f.pkg] /\ f.ver = 1 /\ f.type \in TypesOf(f.pkg)
       /\ [f EXCEPT !.qual = TRUE] \in info
  /\ ipc \in {"format", "unlink", "commit"} =>
       \A f \in info : ~f.qual /\ same[f.pkg] => f \in rename_head
  /\ ipc = "commit" => rename_head = {}

\* In the new layout a package is whole, or removed but for list and postrm.
NamesAreUnique ==
  \A f, g \in info : f.pkg = g.pkg /\ f.qual = g.qual /\ f.type = g.type => f = g
NewFormat ==
  format = 1 => \A p \in InfoPkgs :
    /\ stands[p] = "whole" => Whole(p, same[p], TypesOf(p), 1)
    /\ stands[p] = "config" =>
         \A f \in pkg_infodb_foreach(p, same[p]) : f.type \in {List, Postrm}

\* How far an update or a removal is.
Progress ==
  /\ ipc \in Updates \cup {"clean"} => stands[job.pkg] = "half"
  /\ ipc = "purge" => stands[job.pkg] = "config"
  /\ ipc \in {"match", "install"} =>
       /\ match_head \subseteq {f \in pkg_infodb_foreach(job.pkg, job.same) : f.type # List}
       /\ File(job.pkg, job.same, List, 2) \in info
       /\ \A f \in pkg_infodb_foreach(job.pkg, job.same) \ match_head :
            f.ver = 2 /\ f.type \in {List} \cup job.ships
  /\ ipc = "install" => match_head = {}
  /\ ipc \in {"layout", "note"} => Whole(job.pkg, job.same, {List} \cup job.ships, 2)

InfoInv ==
  /\ InfoTypes /\ OldFormat /\ EachHasAName /\ Linked /\ NamesAreUnique /\ NewFormat /\ Progress

LEMMA NameTaken ==
  ASSUME NEW f \in InfoFiles, Rename(f)
  PROVE  \A g : g \in info' <=> g = f \/ (g \in info /\ ~(g.pkg = f.pkg /\ g.qual = f.qual /\ g.type = f.type))
BY DEF Rename

LEMMA FileIs ==
  /\ \A p \in InfoPkgs, q \in BOOLEAN, t \in {List} \cup FileTypes, v \in 1 .. 2 :
       /\ File(p, q, t, v) \in InfoFiles
       /\ File(p, q, t, v).pkg = p /\ File(p, q, t, v).qual = q
       /\ File(p, q, t, v).type = t /\ File(p, q, t, v).ver = v
  /\ \A f \in InfoFiles : f = File(f.pkg, f.qual, f.type, f.ver)
BY DEF File, InfoFiles

LEMMA SameName ==
  \A f, g \in InfoFiles :
    f.pkg = g.pkg /\ f.qual = g.qual /\ f.type = g.type /\ f.ver = g.ver => f = g
BY DEF InfoFiles

LEMMA InfoInitInv == InfoInit => InfoInv
<1>. SUFFICES ASSUME InfoInit PROVE InfoInv
    OBVIOUS
<1>1. \A f : f \in info <=>
        \E p \in InfoPkgs : \E t \in TypesOf(p) : f = File(p, Qualified(same[p], format), t, 1)
    BY DEF InfoInit, TypesOf
<1>2. \A p \in InfoPkgs : TypesOf(p) \subseteq {List} \cup FileTypes /\ Qualified(same[p], format) \in BOOLEAN
    BY DEF InfoInit, TypesOf, Qualified
<1>3. InfoTypes
  <2>1. info \subseteq InfoFiles
      BY <1>1, <1>2, FileIs
  <2>. QED
      BY <2>1 DEF InfoInit, InfoTypes, Upgrades, Updates
<1>4. OldFormat
    BY DEF InfoInit, OldFormat, Upgrades
<1>5. EachHasAName /\ NewFormat /\ NamesAreUnique
  <2>1. \A p \in InfoPkgs : Whole(p, Qualified(same[p], format), TypesOf(p), 1)
      BY <1>1, <1>2, FileIs DEF Whole
  <2>2. \A p \in InfoPkgs : format = 1 => Qualified(same[p], format) = same[p]
      BY DEF InfoInit, Qualified
  <2>3. \A p \in InfoPkgs : format = 0 => Qualified(same[p], format) = FALSE
      BY DEF InfoInit, Qualified
  <2>4. NewFormat
      BY <2>1, <2>2 DEF InfoInit, NewFormat
  <2>5. EachHasAName
    <3>1. \A p \in InfoPkgs : \A f \in info : f.pkg = p => f.type \in TypesOf(p) /\ f.ver = 1
        BY <1>1, <1>2, FileIs
    <3>2. format = 0 => \A p \in InfoPkgs : Whole(p, FALSE, TypesOf(p), 1)
        BY <2>1, <2>3
    <3>3. format = 0 => \A p \in InfoPkgs : \A t \in TypesOf(p) : File(p, FALSE, t, 1) \in info
        BY <3>2 DEF Whole
    <3>4. FALSE \in BOOLEAN
        OBVIOUS
    <3>. QED
        BY <3>1, <3>2, <3>3, <3>4, Zenon DEF EachHasAName
  <2>6. NamesAreUnique
      BY <1>1, <1>2, FileIs DEF NamesAreUnique
  <2>. QED
      BY <2>4, <2>5, <2>6
<1>6. Linked /\ Progress
    BY DEF InfoInit, Linked, Progress, Upgrades, Updates
<1>. QED
    BY <1>3, <1>4, <1>5, <1>6 DEF InfoInv

LEMMA SameFiles ==
  ASSUME InfoInv, UNCHANGED <<info, format, same, ships, stands>>
  PROVE  EachHasAName' /\ NamesAreUnique' /\ NewFormat'
BY DEF InfoInv, EachHasAName, NamesAreUnique, NewFormat, Whole, TypesOf, pkg_infodb_foreach

LEMMA UpgradeStep ==
  ASSUME InfoInv, Open \/ pkg_infodb_write_format \/ InfoFails \/ InfoKilled
  PROVE  InfoInv'
<1>1. UNCHANGED <<info, format, same, ships, stands>>
    BY DEF Open, pkg_infodb_write_format, InfoFails, InfoKilled, DiskSame
<1>2. EachHasAName' /\ NamesAreUnique' /\ NewFormat'
    BY <1>1, SameFiles
<1>3. OldFormat'
    BY DEF Open, pkg_infodb_write_format, InfoFails, InfoKilled, DiskSame, Quiet, InfoInv, OldFormat,
       InfoTypes, Upgrades, pkg_infodb_read_format, db_upgrading
<1>4. InfoTypes'
    BY DEF Open, pkg_infodb_write_format, InfoFails, InfoKilled, DiskSame, Quiet, InfoInv, InfoTypes,
       Upgrades, Updates
<1>5. Linked' /\ Progress'
    BY DEF Open, pkg_infodb_write_format, InfoFails, InfoKilled, DiskSame, Quiet, InfoInv, OldFormat,
       Linked, Progress, Upgrades, Updates, TypesOf
<1>. QED
    BY <1>2, <1>3, <1>4, <1>5 DEF InfoInv

LEMMA OldFormatNow ==
  ASSUME InfoInv, ipc \in Upgrades
  PROVE  /\ format = 0 /\ formatnew /\ \A p \in InfoPkgs : stands[p] = "whole"
         /\ \A f \in info : f \in InfoFiles /\ f.type \in TypesOf(f.pkg) /\ f.ver = 1
BY DEF InfoInv, OldFormat, EachHasAName, InfoTypes, InfoFiles

LEMMA LinkStep ==
  ASSUME InfoInv, pkg_infodb_link_multiarch_files
  PROVE  InfoInv'
<1>0. ipc = "link" /\ ipc \in Upgrades /\ ipc' \in Upgrades /\ ipc' \in {"link", "format"}
    BY DEF pkg_infodb_link_multiarch_files, Upgrades
<1>. USE <1>0
<1>Old. /\ format = 0 /\ formatnew /\ \A p \in InfoPkgs : stands[p] = "whole"
       /\ \A f \in info : f \in InfoFiles /\ f.type \in TypesOf(f.pkg) /\ f.ver = 1
    BY OldFormatNow
<1>1. CASE ToLink = {}
  <2>1. UNCHANGED <<info, format, formatnew, same, ships, stands, rename_head>>
      BY <1>1 DEF pkg_infodb_link_multiarch_files, DiskSame
  <2>2. \A f \in info : ~f.qual /\ same[f.pkg] => f \in rename_head
      BY <1>Old, <1>1 DEF ToLink, InfoFiles
  <2>3. EachHasAName' /\ NamesAreUnique' /\ NewFormat'
      BY <2>1, SameFiles
  <2>4. InfoTypes' /\ OldFormat'
      BY <2>1 DEF InfoInv, InfoTypes, OldFormat, Upgrades, Updates
  <2>5. Linked' /\ Progress'
      BY <2>1, <2>2 DEF InfoInv, Linked, Progress, TypesOf, Updates
  <2>. QED
      BY <2>3, <2>4, <2>5 DEF InfoInv
<1>2. CASE ToLink # {}
  <2>1. PICK f \in ToLink :
          /\ rename_head' = rename_head \cup {f} /\ UNCHANGED ipc
          /\ IF Named(f.pkg, TRUE, f.type) # {} THEN UNCHANGED info
             ELSE info' = info \cup {[f EXCEPT !.qual = TRUE]}
      BY <1>2 DEF pkg_infodb_link_multiarch_files
  <2>2. UNCHANGED <<format, formatnew, same, ships, stands>>
      BY DEF pkg_infodb_link_multiarch_files, DiskSame
  <2>3. f \in info /\ f \in InfoFiles /\ ~f.qual /\ same[f.pkg] /\ f.type \in TypesOf(f.pkg) /\ f.ver = 1
      BY <1>Old DEF ToLink
  <2>. DEFINE n == [f EXCEPT !.qual = TRUE]
  <2>4. n \in InfoFiles /\ n.pkg = f.pkg /\ n.qual = TRUE /\ n.type = f.type /\ n.ver = 1
      BY <2>3 DEF InfoFiles
  <2>5. info' = info \cup {n}
    <3>1. CASE Named(f.pkg, TRUE, f.type) # {}
      <4>1. PICK g \in info : g.pkg = f.pkg /\ g.qual = TRUE /\ g.type = f.type
          BY <3>1 DEF Named
      <4>2. g = n
          BY <1>Old, <4>1, <2>4, SameName
      <4>. QED
          BY <2>1, <3>1, <4>2
    <3>. QED
        BY <2>1, <3>1
  <2>6. n \in info \/ \A g \in info : ~(g.pkg = n.pkg /\ g.qual = n.qual /\ g.type = n.type)
    <3>1. SUFFICES ASSUME NEW g \in info, g.pkg = n.pkg, g.qual = n.qual, g.type = n.type
                   PROVE  n \in info
        OBVIOUS
    <3>2. g = n
        BY <1>Old, <2>4, <3>1, SameName
    <3>. QED
        BY <3>2
  <2>. HIDE DEF n
  <2>7. InfoTypes' /\ OldFormat'
      BY <2>1, <2>2, <2>4, <2>5 DEF InfoInv, InfoTypes, OldFormat, Upgrades, Updates
  <2>8. EachHasAName'
      BY <2>2, <2>3, <2>4, <2>5 DEF InfoInv, EachHasAName, Whole, TypesOf
  <2>New. NewFormat'
      BY <1>Old, <2>2 DEF NewFormat
  <2>9. NamesAreUnique'
      BY <2>5, <2>6 DEF InfoInv, NamesAreUnique
  <2>10. Linked'
      BY <2>1, <2>2, <2>3, <2>5 DEF InfoInv, Linked, TypesOf, n
  <2>11. Progress'
      BY <1>0, <2>1 DEF Progress, Updates
  <2>. QED
      BY <2>7, <2>8, <2>New, <2>9, <2>10, <2>11 DEF InfoInv
<1>. QED
    BY <1>1, <1>2

LEMMA UnlinkStep ==
  ASSUME InfoInv, pkg_infodb_unlink_monoarch_files
  PROVE  InfoInv'
<1>0. ipc = "unlink" /\ ipc \in Upgrades /\ ipc' \in Upgrades /\ ipc' \in {"unlink", "commit"}
    BY DEF pkg_infodb_unlink_monoarch_files, Upgrades
<1>. USE <1>0
<1>Old. /\ format = 0 /\ formatnew /\ \A p \in InfoPkgs : stands[p] = "whole"
       /\ \A f \in info : f \in InfoFiles /\ f.type \in TypesOf(f.pkg) /\ f.ver = 1
    BY OldFormatNow
<1>Same. UNCHANGED <<format, formatnew, same, ships, stands>>
    BY DEF pkg_infodb_unlink_monoarch_files, DiskSame
<1>1. CASE rename_head = {}
  <2>1. UNCHANGED <<info, rename_head>>
      BY <1>1 DEF pkg_infodb_unlink_monoarch_files
  <2>2. EachHasAName' /\ NamesAreUnique' /\ NewFormat'
      BY <1>Same, <2>1, SameFiles
  <2>3. InfoTypes' /\ OldFormat'
      BY <1>Same, <2>1 DEF InfoInv, InfoTypes, OldFormat, Upgrades, Updates
  <2>4. Linked' /\ Progress'
      BY <1>Same, <1>1, <2>1 DEF InfoInv, Linked, Progress, TypesOf, Updates
  <2>. QED
      BY <2>2, <2>3, <2>4 DEF InfoInv
<1>2. CASE rename_head # {}
  <2>1. PICK f \in rename_head : info' = info \ {f} /\ rename_head' = rename_head \ {f} /\ UNCHANGED ipc
      BY <1>2 DEF pkg_infodb_unlink_monoarch_files
  <2>. DEFINE n(g) == [g EXCEPT !.qual = TRUE]
  <2>2. \A g \in rename_head :
          /\ g \in InfoFiles /\ ~g.qual /\ same[g.pkg] /\ g.ver = 1 /\ g.type \in TypesOf(g.pkg)
          /\ n(g) \in info
      BY DEF InfoInv, Linked
  <2>3. \A g \in rename_head : n(g) # f /\ n(g).pkg = g.pkg /\ n(g).type = g.type /\ n(g).qual = TRUE
      BY <2>2 DEF InfoFiles
  <2>4. InfoTypes' /\ OldFormat'
      BY <1>Same, <2>1 DEF InfoInv, InfoTypes, OldFormat, Upgrades, Updates
  <2>5. EachHasAName'
    <3>1. n(f) = File(f.pkg, TRUE, f.type, 1)
      <4>1. n(f) \in InfoFiles /\ n(f).pkg = f.pkg /\ n(f).type = f.type /\ n(f).qual = TRUE /\ n(f).ver = 1
          BY <2>2 DEF InfoFiles
      <4>2. n(f) = File(n(f).pkg, n(f).qual, n(f).type, n(f).ver)
          BY <4>1, FileIs
      <4>. QED
          BY <4>1, <4>2
    <3>2. n(f) \in info'
        BY <2>1, <2>2, <2>3
    <3>3. f = File(f.pkg, FALSE, f.type, 1)
        BY <2>2 DEF InfoFiles, File
    <3>4. ASSUME NEW p \in InfoPkgs, NEW t \in TypesOf(p)
          PROVE  \E q \in BOOLEAN : File(p, q, t, 1) \in info'
      <4>1. PICK q \in BOOLEAN : File(p, q, t, 1) \in info
          BY <1>Old DEF InfoInv, EachHasAName
      <4>2. CASE File(p, q, t, 1) = f
        <5>1. p = f.pkg /\ t = f.type
            BY <4>2, <3>3 DEF File
        <5>2. File(p, TRUE, t, 1) \in info' /\ TRUE \in BOOLEAN
            BY <3>1, <3>2, <5>1
        <5>. QED
            BY <5>2, Zenon
      <4>3. CASE File(p, q, t, 1) # f
          BY <4>1, <4>3, <2>1
      <4>. QED
          BY <4>2, <4>3
    <3>5. \A p \in InfoPkgs : ~same[p] => Whole(p, FALSE, TypesOf(p), 1)'
      <4>1. SUFFICES ASSUME NEW p \in InfoPkgs, ~same[p] PROVE Whole(p, FALSE, TypesOf(p), 1)'
          OBVIOUS
      <4>2. Whole(p, FALSE, TypesOf(p), 1)
          BY <1>Old, <4>1 DEF InfoInv, EachHasAName
      <4>3. \A t : File(p, FALSE, t, 1) # f
        <5>1. \A t : File(p, FALSE, t, 1).pkg = p
            BY DEF File
        <5>2. f.pkg # p
            BY <2>2, <4>1
        <5>. QED
            BY <5>1, <5>2
      <4>. QED
          BY <1>Same, <2>1, <4>2, <4>3 DEF Whole, TypesOf
    <3>6. \A p \in InfoPkgs : \A g \in info' : g.pkg = p => g.type \in TypesOf(p) /\ g.ver = 1
        BY <1>Old, <2>1 DEF InfoFiles
    <3>. QED
        BY <1>Same, <3>4, <3>5, <3>6 DEF EachHasAName, TypesOf
  <2>6. NamesAreUnique'
      BY <2>1 DEF InfoInv, NamesAreUnique
  <2>7. NewFormat'
      BY <1>Old, <1>Same DEF NewFormat
  <2>8. Linked'
      BY <1>Same, <2>1, <2>2, <2>3 DEF InfoInv, Linked, TypesOf
  <2>9. Progress'
      BY DEF Progress, Updates, Upgrades
  <2>. QED
      BY <2>4, <2>5, <2>6, <2>7, <2>8, <2>9 DEF InfoInv
<1>. QED
    BY <1>1, <1>2

LEMMA CommitStep == ASSUME InfoInv, Commit PROVE InfoInv'
<1>0. ipc = "commit" /\ ipc \in Upgrades /\ ipc' = "open" /\ format' = 1 /\ formatnew' = FALSE
    BY DEF Commit, Upgrades
<1>Old. /\ format = 0 /\ formatnew /\ \A p \in InfoPkgs : stands[p] = "whole"
       /\ \A f \in info : f \in InfoFiles /\ f.type \in TypesOf(f.pkg) /\ f.ver = 1
    BY <1>0, OldFormatNow
<1>Same. UNCHANGED <<info, same, ships, stands, rename_head>>
    BY DEF Commit, DiskSame
<1>1. InfoTypes'
  <2>1. ipc' \notin Updates \cup {"clean", "purge"} /\ ipc' \notin Updates
      BY <1>0 DEF Updates
  <2>2. formatnew' \in BOOLEAN
      BY <1>0, Zenon
  <2>3. format' \in 0 .. 1
      BY <1>0
  <2>. QED
      BY <1>0, <1>Same, <2>1, <2>2, <2>3 DEF InfoInv, InfoTypes
<1>Fmt. OldFormat'
  <2>1. ipc' \notin Upgrades /\ rename_head' = {}
      BY <1>0, <1>Same DEF Upgrades, InfoInv, Linked
  <2>. QED
      BY <1>0, <2>1 DEF OldFormat
<1>2. EachHasAName' /\ NamesAreUnique' /\ Linked' /\ Progress'
    BY <1>0, <1>Same DEF InfoInv, EachHasAName, NamesAreUnique, Linked, Progress, Updates, TypesOf
<1>3. NewFormat'
  <2>1. SUFFICES ASSUME NEW p \in InfoPkgs PROVE Whole(p, same[p], TypesOf(p), 1)
      BY <1>Old, <1>Same DEF NewFormat, Whole, TypesOf
  <2>2. CASE ~same[p]
    <3>1. same[p] = FALSE
        BY <2>2 DEF InfoInv, InfoTypes
    <3>. QED
        BY <1>Old, <3>1 DEF InfoInv, EachHasAName
  <2>3. CASE same[p]
    <3>1. same[p] = TRUE
        BY <2>3 DEF InfoInv, InfoTypes
    <3>2. \A f \in info : f.pkg = p => f.qual
        BY <1>0, <2>3 DEF InfoInv, Linked
    <3>3. \A t \in TypesOf(p) : \E q \in BOOLEAN : File(p, q, t, 1) \in info
        BY <1>Old DEF InfoInv, EachHasAName
    <3>4. \A t \in TypesOf(p) : File(p, TRUE, t, 1) \in info
        BY <3>2, <3>3 DEF File
    <3>. QED
        BY <1>Old, <3>1, <3>4 DEF Whole
  <2>. QED
      BY <2>2, <2>3
<1>. QED
    BY <1>1, <1>Fmt, <1>2, <1>3 DEF InfoInv

LEMMA AbortStep == ASSUME InfoInv, cu_abort_db_upgrade PROVE InfoInv'
<1>0. ipc \in Upgrades /\ ipc' = "idle" /\ rename_head' = {} /\ formatnew' = FALSE
    BY DEF cu_abort_db_upgrade, Quiet, Upgrades
<1>Old. /\ format = 0 /\ formatnew /\ \A p \in InfoPkgs : stands[p] = "whole"
       /\ \A f \in info : f \in InfoFiles /\ f.type \in TypesOf(f.pkg) /\ f.ver = 1
    BY <1>0, OldFormatNow
<1>Same. UNCHANGED <<format, same, ships, stands>>
    BY DEF cu_abort_db_upgrade, DiskSame
<1>. DEFINE n(g) == [g EXCEPT !.qual = TRUE]
<1>1. info' = (info \cup rename_head) \ {n(f) : f \in rename_head}
    BY DEF cu_abort_db_upgrade
<1>2. \A g \in rename_head :
        /\ g \in InfoFiles /\ ~g.qual /\ same[g.pkg] /\ g.ver = 1 /\ g.type \in TypesOf(g.pkg)
    BY DEF InfoInv, Linked
<1>3. \A g \in rename_head : n(g).pkg = g.pkg /\ n(g).type = g.type /\ n(g).qual = TRUE
    BY <1>2 DEF InfoFiles
<1>4. \A g \in info' : g \in InfoFiles /\ g.ver = 1 /\ g.type \in TypesOf(g.pkg)
    BY <1>Old, <1>1, <1>2
<1>5. rename_head \subseteq info'
    BY <1>1, <1>2, <1>3
<1>6. InfoTypes' /\ OldFormat'
    BY <1>0, <1>Old, <1>Same, <1>4 DEF InfoInv, InfoTypes, OldFormat, Upgrades, Updates
<1>7. NamesAreUnique'
    BY <1>4, SameName DEF NamesAreUnique
<1>8. NewFormat' /\ Linked' /\ Progress'
    BY <1>0, <1>Old, <1>Same DEF NewFormat, Linked, Progress, Updates, Upgrades
<1>9. EachHasAName'
  <2>1. ASSUME NEW p \in InfoPkgs, NEW t \in TypesOf(p)
        PROVE  \E q \in BOOLEAN : File(p, q, t, 1) \in info'
    <3>1. PICK q \in BOOLEAN : File(p, q, t, 1) \in info
        BY <1>Old DEF InfoInv, EachHasAName
    <3>2. CASE File(p, q, t, 1) \in info'
        BY <3>2
    <3>3. CASE File(p, q, t, 1) \notin info'
      <4>1. PICK f \in rename_head : File(p, q, t, 1) = n(f)
          BY <1>1, <3>1, <3>3
      <4>2. f.pkg = p /\ f.type = t /\ f.qual = FALSE /\ f.ver = 1
          BY <1>2, <1>3, <4>1 DEF File, InfoFiles
      <4>3. f = File(p, FALSE, t, 1)
        <5>1. f = File(f.pkg, f.qual, f.type, f.ver)
            BY <1>2, FileIs
        <5>. QED
            BY <4>2, <5>1
      <4>4. File(p, FALSE, t, 1) \in info' /\ FALSE \in BOOLEAN
          BY <1>5, <4>3
      <4>. QED
          BY <4>4, Zenon
    <3>. QED
        BY <3>2, <3>3
  <2>2. \A p \in InfoPkgs : ~same[p] => Whole(p, FALSE, TypesOf(p), 1)'
    <3>1. SUFFICES ASSUME NEW p \in InfoPkgs, ~same[p] PROVE Whole(p, FALSE, TypesOf(p), 1)'
        OBVIOUS
    <3>2. Whole(p, FALSE, TypesOf(p), 1)
        BY <1>Old, <3>1 DEF InfoInv, EachHasAName
    <3>3. \A t, v : File(p, FALSE, t, v).pkg = p
        BY DEF File
    <3>4. \A t \in TypesOf(p) : File(p, FALSE, t, 1) \in info'
      <4>1. SUFFICES ASSUME NEW t \in TypesOf(p) PROVE File(p, FALSE, t, 1) \in info'
          OBVIOUS
      <4>2. File(p, FALSE, t, 1) \in info
          BY <3>2 DEF Whole
      <4>3. \A g \in rename_head : n(g).pkg # p
          BY <1>2, <1>3, <3>1
      <4>4. File(p, FALSE, t, 1) \notin {n(f) : f \in rename_head}
          BY <3>3, <4>3
      <4>. QED
          BY <1>1, <4>2, <4>4
    <3>. QED
        BY <1>Same, <1>4, <3>4 DEF Whole, TypesOf
  <2>. QED
      BY <1>Same, <1>4, <2>1, <2>2 DEF EachHasAName, TypesOf, InfoFiles
<1>. QED
    BY <1>6, <1>7, <1>8, <1>9 DEF InfoInv

LEMMA NewFormatNow ==
  ASSUME InfoInv, ipc \notin Upgrades, ipc # "idle"
  PROVE  format = 1 /\ ~formatnew /\ rename_head = {} /\ \A p \in InfoPkgs : Qualified(same[p], format) = same[p]
<1>1. format = 1
    BY DEF InfoInv, InfoTypes, OldFormat
<1>. QED
    BY <1>1 DEF InfoInv, InfoTypes, OldFormat, Qualified

\* What is kept by every step of an update or a removal: the layout stays new.
LEMMA StaysNew ==
  ASSUME InfoInv, ipc \notin Upgrades, ipc # "idle", ipc' \notin Upgrades,
         UNCHANGED <<format, formatnew>>, rename_head' = {}
  PROVE  OldFormat' /\ EachHasAName' /\ Linked'
<1>1. format = 1 /\ ~formatnew
    BY NewFormatNow
<1>2. OldFormat'
    BY <1>1 DEF OldFormat
<1>3. EachHasAName'
    BY <1>1 DEF EachHasAName
<1>4. Linked'
    BY DEF Linked, Upgrades
<1>. QED
    BY <1>2, <1>3, <1>4

LEMMA UpdateStartStep == ASSUME InfoInv, UpdateStart PROVE InfoInv'
<1>0. ipc = "open" /\ ipc' = "list" /\ UNCHANGED <<info, format, formatnew, same, ships, rename_head>>
    BY DEF UpdateStart
<1>1. PICK p \in InfoPkgs, s \in BOOLEAN, ts \in SUBSET FileTypes :
        /\ job' = [do |-> "update", pkg |-> p, same |-> s, ships |-> ts]
        /\ stands' = [stands EXCEPT ![p] = "half"]
    BY DEF UpdateStart
<1>2. job'.pkg = p /\ job'.same = s /\ job'.ships = ts
    BY <1>1
<1>3. ipc \notin Upgrades /\ ipc # "idle" /\ ipc' \notin Upgrades /\ rename_head' = {}
    BY <1>0, NewFormatNow DEF Upgrades
<1>4. OldFormat' /\ EachHasAName' /\ Linked'
    BY <1>0, <1>3, StaysNew
<1>5. stands' \in [InfoPkgs -> {"whole", "half", "config", "none"}] /\ stands'[p] = "half"
      /\ \A q \in InfoPkgs : q # p => stands'[q] = stands[q]
    BY <1>1 DEF InfoInv, InfoTypes
<1>6. InfoTypes'
    BY <1>0, <1>2, <1>5 DEF InfoInv, InfoTypes, Upgrades, Updates
<1>7. NamesAreUnique' /\ NewFormat'
    BY <1>0, <1>5 DEF InfoInv, NamesAreUnique, NewFormat, Whole, TypesOf, pkg_infodb_foreach
<1>8. Progress'
    BY <1>0, <1>2, <1>5 DEF Progress, Updates
<1>. QED
    BY <1>4, <1>6, <1>7, <1>8 DEF InfoInv

\* A step that writes or removes files of one package that is neither whole nor removed.
LEMMA OthersStay ==
  ASSUME InfoInv, NEW p \in InfoPkgs, stands[p] \in {"half", "none"},
         UNCHANGED <<format, same, ships, stands>>,
         \A f \in info \cup info' : f.pkg # p => (f \in info' <=> f \in info)
  PROVE  NewFormat'
<1>1. SUFFICES ASSUME format = 1, NEW r \in InfoPkgs, r # p
               PROVE  /\ stands[r] = "whole" => Whole(r, same[r], TypesOf(r), 1)'
                      /\ stands[r] = "config" =>
                           \A f \in info' : f.pkg = r /\ f.qual = same[r] => f.type \in {List, Postrm}
    BY DEF NewFormat, pkg_infodb_foreach
<1>2. \A q, t, v : File(r, q, t, v).pkg = r
    BY DEF File
<1>3. stands[r] = "whole" => Whole(r, same[r], TypesOf(r), 1)
    BY <1>1 DEF InfoInv, NewFormat
<1>4. stands[r] = "whole" => Whole(r, same[r], TypesOf(r), 1)'
    BY <1>1, <1>2, <1>3 DEF Whole, TypesOf
<1>5. stands[r] = "config" => \A f \in info : f.pkg = r /\ f.qual = same[r] => f.type \in {List, Postrm}
    BY <1>1 DEF InfoInv, NewFormat, pkg_infodb_foreach
<1>. QED
    BY <1>1, <1>4, <1>5

LEMMA UpdateNow ==
  ASSUME InfoInv, ipc \in Updates
  PROVE  /\ job.pkg \in InfoPkgs /\ job.same \in BOOLEAN /\ job.ships \subseteq FileTypes
         /\ stands[job.pkg] = "half" /\ NewQual = job.same /\ OldQual = same[job.pkg]
         /\ format = 1 /\ ipc \notin Upgrades /\ ipc # "idle" /\ rename_head = {}
<1>1. ipc \notin Upgrades /\ ipc # "idle"
    BY DEF Updates, Upgrades
<1>2. format = 1 /\ rename_head = {}
    BY <1>1, NewFormatNow
<1>3. job.pkg \in InfoPkgs /\ job.same \in BOOLEAN /\ job.ships \subseteq FileTypes /\ stands[job.pkg] = "half"
    BY DEF InfoInv, InfoTypes, Progress
<1>4. NewQual = job.same /\ OldQual = same[job.pkg]
    BY <1>1, <1>2, <1>3, NewFormatNow DEF NewQual, OldQual, Qualified
<1>. QED
    BY <1>1, <1>2, <1>3, <1>4

LEMMA WriteListStep == ASSUME InfoInv, WriteList PROVE InfoInv'
<1>0. /\ ipc = "list" /\ ipc' = "match" /\ UNCHANGED <<format, formatnew, same, ships, stands, rename_head, job>>
      /\ ipc \in Updates /\ ipc' \in Updates /\ ipc' \notin Upgrades
    BY DEF WriteList, DiskSame, Updates, Upgrades
<1>1. /\ job.pkg \in InfoPkgs /\ job.same \in BOOLEAN /\ job.ships \subseteq FileTypes
      /\ stands[job.pkg] = "half" /\ NewQual = job.same
      /\ format = 1 /\ ipc \notin Upgrades /\ ipc # "idle" /\ rename_head = {}
    BY <1>0, UpdateNow
<1>. DEFINE n == File(job.pkg, job.same, List, 2)
<1>2. n \in InfoFiles /\ n.pkg = job.pkg /\ n.qual = job.same /\ n.type = List /\ n.ver = 2
    BY <1>1, FileIs
<1>3. Rename(n)
    BY <1>1 DEF WriteList
<1>. HIDE DEF n
<1>4. \A g : g \in info' <=> g = n \/ (g \in info /\ ~(g.pkg = n.pkg /\ g.qual = n.qual /\ g.type = n.type))
    BY <1>2, <1>3, NameTaken
<1>5. match_head' = {f \in info : f.pkg = job.pkg /\ f.qual = job.same /\ f.type # List}
    BY <1>1 DEF WriteList, pkg_infodb_foreach
<1>6. OldFormat' /\ EachHasAName' /\ Linked'
    BY <1>0, <1>1, StaysNew
<1>7. InfoTypes'
    BY <1>0, <1>1, <1>2, <1>4 DEF InfoInv, InfoTypes, Updates
<1>8. NamesAreUnique'
    BY <1>4 DEF InfoInv, NamesAreUnique
<1>9. NewFormat'
    BY <1>0, <1>1, <1>2, <1>4, OthersStay
<1>10. Progress'
    BY <1>0, <1>1, <1>2, <1>4, <1>5 DEF Progress, pkg_infodb_foreach, n
<1>. QED
    BY <1>6, <1>7, <1>8, <1>9, <1>10 DEF InfoInv

\* A file of the package is written: what all those steps have in common.
LEMMA Written ==
  ASSUME InfoInv, ipc \in Updates, ipc' \in Updates, NEW n \in InfoFiles, Rename(n), n.pkg = job.pkg,
         UNCHANGED <<format, formatnew, same, ships, stands, rename_head, job>>
  PROVE  InfoTypes' /\ OldFormat' /\ EachHasAName' /\ Linked' /\ NamesAreUnique' /\ NewFormat'
<1>1. /\ job.pkg \in InfoPkgs /\ job.same \in BOOLEAN /\ job.ships \subseteq FileTypes
      /\ stands[job.pkg] = "half" /\ ipc \notin Upgrades /\ ipc # "idle" /\ rename_head = {}
      /\ ipc' \notin Upgrades
    BY UpdateNow DEF Updates, Upgrades
<1>2. \A g : g \in info' <=> g = n \/ (g \in info /\ ~(g.pkg = n.pkg /\ g.qual = n.qual /\ g.type = n.type))
    BY NameTaken
<1>3. OldFormat' /\ EachHasAName' /\ Linked'
    BY <1>1, StaysNew
<1>4. InfoTypes'
    BY <1>1, <1>2 DEF InfoInv, InfoTypes, Updates
<1>5. NamesAreUnique'
    BY <1>2 DEF InfoInv, NamesAreUnique
<1>6. NewFormat'
    BY <1>1, <1>2, OthersStay
<1>. QED
    BY <1>3, <1>4, <1>5, <1>6

\* A file of the package is removed, or none.
LEMMA Unlinked ==
  ASSUME InfoInv, ipc \in Updates \cup {"clean"}, ipc' \in Updates \cup {"clean"},
         info' \subseteq info, \A f \in info \ info' : f.pkg = job.pkg,
         ipc' \in Updates => ipc \in Updates,
         UNCHANGED <<format, formatnew, same, ships, stands, rename_head, job>>
  PROVE  InfoTypes' /\ OldFormat' /\ EachHasAName' /\ Linked' /\ NamesAreUnique' /\ NewFormat'
<1>1. /\ ipc \notin Upgrades /\ ipc # "idle" /\ ipc' \notin Upgrades
      /\ job.pkg \in InfoPkgs /\ stands[job.pkg] = "half"
    BY DEF Updates, Upgrades, InfoInv, InfoTypes, Progress
<1>2. rename_head = {}
    BY <1>1, NewFormatNow
<1>3. OldFormat' /\ EachHasAName' /\ Linked'
    BY <1>1, <1>2, StaysNew
<1>4. InfoTypes'
    BY <1>1 DEF InfoInv, InfoTypes, Updates
<1>5. NamesAreUnique'
    BY DEF InfoInv, NamesAreUnique
<1>6. NewFormat'
    BY <1>1, OthersStay
<1>. QED
    BY <1>3, <1>4, <1>5, <1>6

LEMMA MatchStep == ASSUME InfoInv, Match PROVE InfoInv'
<1>0. /\ ipc = "match" /\ ipc' \in {"match", "install"} /\ ipc \in Updates /\ ipc' \in Updates
      /\ UNCHANGED <<format, formatnew, same, ships, stands, rename_head, job>>
    BY DEF Match, DiskSame, Updates
<1>1. /\ job.pkg \in InfoPkgs /\ job.same \in BOOLEAN /\ job.ships \subseteq FileTypes
      /\ stands[job.pkg] = "half"
    BY <1>0, UpdateNow
<1>2. /\ match_head \subseteq {f \in info : f.pkg = job.pkg /\ f.qual = job.same /\ f.type # List}
      /\ File(job.pkg, job.same, List, 2) \in info
      /\ \A f \in info \ match_head :
           f.pkg = job.pkg /\ f.qual = job.same => f.ver = 2 /\ f.type \in {List} \cup job.ships
    BY <1>0 DEF InfoInv, Progress, pkg_infodb_foreach
<1>. DEFINE l == File(job.pkg, job.same, List, 2)
<1>3. l.pkg = job.pkg /\ l.qual = job.same /\ l.type = List
    BY DEF File
<1>. HIDE DEF l
<1>. SUFFICES /\ InfoTypes' /\ OldFormat' /\ EachHasAName' /\ Linked' /\ NamesAreUnique' /\ NewFormat'
              /\ match_head' \subseteq {f \in info' : f.pkg = job.pkg /\ f.qual = job.same /\ f.type # List}
              /\ l \in info'
              /\ \A f \in info' \ match_head' :
                   f.pkg = job.pkg /\ f.qual = job.same => f.ver = 2 /\ f.type \in {List} \cup job.ships
              /\ ipc' = "install" => match_head' = {}
    BY <1>0, <1>1 DEF InfoInv, Progress, pkg_infodb_foreach, l
<1>4. CASE match_head = {}
  <2>1. UNCHANGED <<info, match_head>>
      BY <1>4 DEF Match
  <2>2. InfoTypes' /\ OldFormat' /\ EachHasAName' /\ Linked' /\ NamesAreUnique' /\ NewFormat'
      BY <1>0, <2>1, Unlinked
  <2>. QED
      BY <1>2, <1>4, <2>1, <2>2 DEF l
<1>5. CASE match_head # {}
  <2>1. PICK f \in match_head :
          /\ match_head' = match_head \ {f} /\ UNCHANGED ipc
          /\ IF f.type \in job.ships THEN Rename([f EXCEPT !.ver = 2]) ELSE info' = info \ {f}
      BY <1>5 DEF Match
  <2>2. f \in info /\ f \in InfoFiles /\ f.pkg = job.pkg /\ f.qual = job.same /\ f.type # List
      BY <1>2 DEF InfoInv, InfoTypes
  <2>3. \A g \in info : g.pkg = f.pkg /\ g.qual = f.qual /\ g.type = f.type => g = f
      BY <2>2 DEF InfoInv, NamesAreUnique
  <2>4. CASE f.type \in job.ships
    <3>. DEFINE n == [f EXCEPT !.ver = 2]
    <3>1. n \in InfoFiles /\ n.pkg = f.pkg /\ n.qual = f.qual /\ n.type = f.type /\ n.ver = 2
        BY <2>2 DEF InfoFiles
    <3>2. Rename(n)
        BY <2>1, <2>4
    <3>. HIDE DEF n
    <3>3. InfoTypes' /\ OldFormat' /\ EachHasAName' /\ Linked' /\ NamesAreUnique' /\ NewFormat'
        BY <1>0, <2>2, <3>1, <3>2, Written
    <3>4. \A g : g \in info' <=> g = n \/ (g \in info /\ g # f)
      <4>1. \A g : g \in info' <=> g = n \/ (g \in info /\ ~(g.pkg = n.pkg /\ g.qual = n.qual /\ g.type = n.type))
          BY <3>1, <3>2, NameTaken
      <4>. QED
          BY <2>2, <2>3, <3>1, <4>1
    <3>. QED
        BY <1>0, <1>2, <1>3, <2>1, <2>2, <2>4, <3>1, <3>3, <3>4 DEF l
  <2>5. CASE f.type \notin job.ships
    <3>1. info' = info \ {f}
        BY <2>1, <2>5
    <3>2. InfoTypes' /\ OldFormat' /\ EachHasAName' /\ Linked' /\ NamesAreUnique' /\ NewFormat'
        BY <1>0, <2>2, <3>1, Unlinked
    <3>. QED
        BY <1>0, <1>2, <1>3, <2>1, <2>2, <3>1, <3>2 DEF l
  <2>. QED
      BY <2>4, <2>5
<1>. QED
    BY <1>4, <1>5

LEMMA InstallStepInfo == ASSUME InfoInv, Install PROVE InfoInv'
<1>0. /\ ipc = "install" /\ ipc' \in {"install", "layout"} /\ ipc \in Updates /\ ipc' \in Updates
      /\ UNCHANGED <<format, formatnew, same, ships, stands, rename_head, match_head, job>>
    BY DEF Install, DiskSame, Updates
<1>1. /\ job.pkg \in InfoPkgs /\ job.same \in BOOLEAN /\ job.ships \subseteq FileTypes
      /\ stands[job.pkg] = "half" /\ NewQual = job.same
    BY <1>0, UpdateNow
<1>2. /\ match_head = {} /\ File(job.pkg, job.same, List, 2) \in info
      /\ \A f \in info :
           f.pkg = job.pkg /\ f.qual = job.same => f.ver = 2 /\ f.type \in {List} \cup job.ships
    BY <1>0 DEF InfoInv, Progress, pkg_infodb_foreach
<1>3. CASE Missing = {}
  <2>1. UNCHANGED info /\ ipc' = "layout"
      BY <1>3 DEF Install
  <2>2. InfoTypes' /\ OldFormat' /\ EachHasAName' /\ Linked' /\ NamesAreUnique' /\ NewFormat'
      BY <1>0, <2>1, Unlinked
  <2>3. \A t \in job.ships : File(job.pkg, job.same, t, 2) \in info
    <3>1. SUFFICES ASSUME NEW t \in job.ships PROVE File(job.pkg, job.same, t, 2) \in info
        OBVIOUS
    <3>2. PICK f \in info : f.pkg = job.pkg /\ f.qual = job.same /\ f.type = t /\ f.ver = 2
        BY <1>1, <1>3 DEF Missing, Named
    <3>3. f = File(f.pkg, f.qual, f.type, f.ver)
        BY FileIs DEF InfoInv, InfoTypes
    <3>. QED
        BY <3>2, <3>3
  <2>4. Whole(job.pkg, job.same, {List} \cup job.ships, 2)
      BY <1>2, <2>3 DEF Whole
  <2>5. Progress'
      BY <1>0, <1>1, <2>1, <2>4 DEF Progress, Whole
  <2>. QED
      BY <2>2, <2>5 DEF InfoInv
<1>4. CASE Missing # {}
  <2>1. PICK t \in Missing : Rename(File(job.pkg, job.same, t, 2)) /\ UNCHANGED ipc
      BY <1>1, <1>4 DEF Install
  <2>. DEFINE n == File(job.pkg, job.same, t, 2)
  <2>2. t \in job.ships /\ t # List
      BY <1>1, FileTypesAssumption DEF Missing
  <2>3. n \in InfoFiles /\ n.pkg = job.pkg /\ n.qual = job.same /\ n.type = t /\ n.ver = 2
      BY <1>1, <2>2, FileIs
  <2>. HIDE DEF n
  <2>4. Rename(n)
      BY <2>1 DEF n
  <2>5. InfoTypes' /\ OldFormat' /\ EachHasAName' /\ Linked' /\ NamesAreUnique' /\ NewFormat'
      BY <1>0, <2>3, <2>4, Written
  <2>6. \A g : g \in info' <=> g = n \/ (g \in info /\ ~(g.pkg = n.pkg /\ g.qual = n.qual /\ g.type = n.type))
      BY <2>3, <2>4, NameTaken
  <2>7. File(job.pkg, job.same, List, 2).type = List
      BY DEF File
  <2>8. File(job.pkg, job.same, List, 2) \in info'
      BY <1>2, <2>2, <2>3, <2>6, <2>7
  <2>9. Progress'
      BY <1>0, <1>1, <1>2, <2>1, <2>2, <2>3, <2>6, <2>8 DEF Progress, pkg_infodb_foreach
  <2>. QED
      BY <2>5, <2>9 DEF InfoInv
<1>. QED
    BY <1>3, <1>4

LEMMA LayoutStep == ASSUME InfoInv, Layout PROVE InfoInv'
<1>0. /\ ipc = "layout" /\ ipc' \in {"layout", "note"} /\ ipc \in Updates /\ ipc' \in Updates
      /\ UNCHANGED <<format, formatnew, same, ships, stands, rename_head, job>>
    BY DEF Layout, DiskSame, Updates
<1>1. /\ job.pkg \in InfoPkgs /\ stands[job.pkg] = "half" /\ OldQual = same[job.pkg]
    BY <1>0, UpdateNow
<1>2. info' \subseteq info /\ \A f \in info \ info' : f.pkg = job.pkg /\ f.qual # job.same
    BY <1>1 DEF Layout, OldLayout, pkg_infodb_foreach
<1>3. InfoTypes' /\ OldFormat' /\ EachHasAName' /\ Linked' /\ NamesAreUnique' /\ NewFormat'
    BY <1>0, <1>2, Unlinked
<1>4. Whole(job.pkg, job.same, {List} \cup job.ships, 2)
    BY <1>0 DEF InfoInv, Progress
<1>5. Whole(job.pkg, job.same, {List} \cup job.ships, 2)'
  <2>1. \A t : File(job.pkg, job.same, t, 2).qual = job.same
      BY DEF File
  <2>. QED
      BY <1>0, <1>2, <1>4, <2>1 DEF Whole
<1>6. Progress'
    BY <1>0, <1>1, <1>5 DEF Progress
<1>. QED
    BY <1>3, <1>6 DEF InfoInv

LEMMA NoteStep == ASSUME InfoInv, NoteUnpacked PROVE InfoInv'
<1>0. /\ ipc = "note" /\ ipc' = "idle" /\ ipc \in Updates /\ ipc' \notin Updates /\ ipc' \notin Upgrades
      /\ rename_head' = {} /\ UNCHANGED <<format, formatnew>>
    BY DEF NoteUnpacked, Quiet, Updates, Upgrades
<1>1. /\ job.pkg \in InfoPkgs /\ job.same \in BOOLEAN /\ job.ships \subseteq FileTypes
      /\ stands[job.pkg] = "half" /\ format = 1 /\ ipc \notin Upgrades /\ ipc # "idle"
    BY <1>0, UpdateNow
<1>. DEFINE n(f) == [f EXCEPT !.ver = IF f.pkg = job.pkg THEN 1 ELSE @]
<1>2. \A f \in info :
        /\ n(f) \in InfoFiles /\ n(f).pkg = f.pkg /\ n(f).qual = f.qual /\ n(f).type = f.type
        /\ n(f).ver = IF f.pkg = job.pkg THEN 1 ELSE f.ver
    BY DEF InfoInv, InfoTypes, InfoFiles
<1>3. info' = {n(f) : f \in info}
    BY DEF NoteUnpacked
<1>. HIDE DEF n
<1>4. OldFormat' /\ EachHasAName' /\ Linked'
    BY <1>0, <1>1, StaysNew
<1>5. /\ same' \in [InfoPkgs -> BOOLEAN] /\ ships' \in [InfoPkgs -> SUBSET FileTypes]
      /\ stands' \in [InfoPkgs -> {"whole", "half", "config", "none"}]
      /\ same'[job.pkg] = job.same /\ ships'[job.pkg] = job.ships
      /\ \A r \in InfoPkgs : r # job.pkg =>
           same'[r] = same[r] /\ ships'[r] = ships[r] /\ stands'[r] = stands[r]
    BY <1>1 DEF NoteUnpacked, InfoInv, InfoTypes
<1>6. info' \subseteq InfoFiles
    BY <1>2, <1>3
<1>7. InfoTypes'
    BY <1>0, <1>5, <1>6 DEF InfoInv, InfoTypes, Updates
<1>8. NamesAreUnique'
  <2>1. SUFFICES ASSUME NEW f \in info, NEW g \in info,
                        f.pkg = g.pkg, f.qual = g.qual, f.type = g.type
                 PROVE  n(f) = n(g)
      BY <1>2, <1>3 DEF NamesAreUnique
  <2>2. f = g
      BY <2>1 DEF InfoInv, NamesAreUnique
  <2>. QED
      BY <2>2
<1>9. \A f : f.pkg # job.pkg => (f \in info' <=> f \in info)
  <2>1. \A f \in info : f.pkg # job.pkg => n(f) = f
      BY <1>2, SameName DEF InfoInv, InfoTypes
  <2>. QED
      BY <1>2, <1>3, <2>1
<1>10. NewFormat'
  <2>1. ASSUME NEW r \in InfoPkgs, r # job.pkg
        PROVE  /\ stands[r] = "whole" => Whole(r, same[r], TypesOf(r), 1)'
               /\ stands[r] = "config" =>
                    \A f \in info' : f.pkg = r /\ f.qual = same[r] => f.type \in {List, Postrm}
    <3>1. \A q, t, v : File(r, q, t, v).pkg = r
        BY DEF File
    <3>2. stands[r] = "whole" => Whole(r, same[r], TypesOf(r), 1)
        BY <1>1 DEF InfoInv, NewFormat
    <3>3. stands[r] = "whole" => Whole(r, same[r], TypesOf(r), 1)'
        BY <1>5, <1>9, <2>1, <3>1, <3>2 DEF Whole, TypesOf
    <3>4. stands[r] = "config" => \A f \in info : f.pkg = r /\ f.qual = same[r] => f.type \in {List, Postrm}
        BY <1>1 DEF InfoInv, NewFormat, pkg_infodb_foreach
    <3>. QED
        BY <1>9, <2>1, <3>3, <3>4
  <2>2. Whole(job.pkg, job.same, {List} \cup job.ships, 2)
      BY <1>0 DEF InfoInv, Progress
  <2>3. \A f \in info' : f.pkg = job.pkg /\ f.qual = job.same => f.type \in {List} \cup job.ships /\ f.ver = 1
      BY <1>2, <1>3, <2>2 DEF Whole
  <2>4. \A t \in {List} \cup job.ships : File(job.pkg, job.same, t, 1) \in info'
    <3>1. SUFFICES ASSUME NEW t \in {List} \cup job.ships PROVE File(job.pkg, job.same, t, 1) \in info'
        OBVIOUS
    <3>. DEFINE o == File(job.pkg, job.same, t, 2)
                w == File(job.pkg, job.same, t, 1)
    <3>2. o \in info
        BY <2>2 DEF Whole
    <3>3. o.pkg = job.pkg /\ o.qual = job.same /\ o.type = t
        BY <1>1, FileIs
    <3>4. w \in InfoFiles /\ w.pkg = job.pkg /\ w.qual = job.same /\ w.type = t /\ w.ver = 1
        BY <1>1, FileIs
    <3>. HIDE DEF o, w
    <3>5. n(o) = w
        BY <1>2, <3>2, <3>3, <3>4, SameName
    <3>. QED
        BY <1>3, <3>2, <3>5 DEF w
  <2>5. stands'[job.pkg] = "whole"
      BY <1>1 DEF NoteUnpacked, InfoInv, InfoTypes
  <2>7. ASSUME NEW r \in InfoPkgs, r = job.pkg
        PROVE  stands'[r] = "whole" /\ Whole(r, same[r], TypesOf(r), 1)'
      BY <1>5, <2>3, <2>4, <2>5, <2>7 DEF Whole, TypesOf
  <2>. QED
      BY <1>5, <2>1, <2>7 DEF NewFormat, pkg_infodb_foreach
<1>11. Progress'
    BY <1>0 DEF Progress
<1>. QED
    BY <1>4, <1>7, <1>8, <1>10, <1>11 DEF InfoInv

LEMMA RemoveStartStep == ASSUME InfoInv, RemoveStart PROVE InfoInv'
<1>0. ipc = "open" /\ UNCHANGED <<info, format, formatnew, same, ships, rename_head>>
    BY DEF RemoveStart
<1>1. PICK p \in InfoPkgs :
        /\ job' = [NoJob EXCEPT !.do = "remove", !.pkg = p]
        /\ stands' = [stands EXCEPT ![p] = IF @ = "config" THEN @ ELSE "half"]
        /\ ipc' = IF stands[p] = "config" THEN "purge" ELSE "clean"
    BY DEF RemoveStart
<1>2. job'.pkg = p /\ ipc' \in {"purge", "clean"} /\ ipc' \notin Updates /\ ipc' \notin Upgrades
      /\ ipc \notin Upgrades /\ ipc # "idle"
    BY <1>0, <1>1 DEF NoJob, Updates, Upgrades
<1>3. rename_head' = {}
    BY <1>0, <1>2, NewFormatNow
<1>4. OldFormat' /\ EachHasAName' /\ Linked'
    BY <1>0, <1>2, <1>3, StaysNew
<1>5. /\ stands' \in [InfoPkgs -> {"whole", "half", "config", "none"}]
      /\ stands'[p] = IF stands[p] = "config" THEN "config" ELSE "half"
      /\ \A r \in InfoPkgs : r # p => stands'[r] = stands[r]
    BY <1>1 DEF InfoInv, InfoTypes
<1>6. InfoTypes'
    BY <1>0, <1>2, <1>5 DEF InfoInv, InfoTypes
<1>7. NamesAreUnique' /\ NewFormat'
    BY <1>0, <1>5 DEF InfoInv, NamesAreUnique, NewFormat, Whole, TypesOf, pkg_infodb_foreach
<1>8. Progress'
    BY <1>1, <1>2, <1>5 DEF Progress, Updates
<1>. QED
    BY <1>4, <1>6, <1>7, <1>8 DEF InfoInv

LEMMA CleanStep == ASSUME InfoInv, Clean PROVE InfoInv'
<1>0. ipc = "clean" /\ UNCHANGED <<format, formatnew, same, ships, rename_head, job>>
      /\ ipc \notin Updates /\ ipc \notin Upgrades /\ ipc # "idle"
    BY DEF Clean, Updates, Upgrades
<1>1. job.pkg \in InfoPkgs /\ stands[job.pkg] = "half"
    BY <1>0 DEF InfoInv, InfoTypes, Progress
<1>2. format = 1 /\ rename_head = {} /\ OldQual = same[job.pkg]
    BY <1>0, <1>1, NewFormatNow DEF OldQual
<1>3. CASE ToClean # {}
  <2>1. PICK f \in ToClean : info' = info \ {f} /\ UNCHANGED <<ipc, stands>>
      BY <1>3 DEF Clean
  <2>2. f.pkg = job.pkg
      BY DEF ToClean, pkg_infodb_foreach
  <2>3. InfoTypes' /\ OldFormat' /\ EachHasAName' /\ Linked' /\ NamesAreUnique' /\ NewFormat'
      BY <1>0, <2>1, <2>2, Unlinked
  <2>4. Progress'
      BY <1>0, <1>1, <2>1 DEF Progress
  <2>. QED
      BY <2>3, <2>4 DEF InfoInv
<1>4. CASE ToClean = {}
  <2>1. ipc' = "purge" /\ stands' = [stands EXCEPT ![job.pkg] = "config"] /\ UNCHANGED info
      /\ ipc' \notin Updates /\ ipc' \notin Upgrades
      BY <1>4 DEF Clean, Updates, Upgrades
  <2>2. \A f \in pkg_infodb_foreach(job.pkg, same[job.pkg]) : f.type \in {List, Postrm}
      BY <1>2, <1>4 DEF ToClean, removal_bulk_remove_file
  <2>3. /\ stands' \in [InfoPkgs -> {"whole", "half", "config", "none"}]
        /\ stands'[job.pkg] = "config" /\ \A r \in InfoPkgs : r # job.pkg => stands'[r] = stands[r]
      BY <1>1, <2>1 DEF InfoInv, InfoTypes
  <2>4. OldFormat' /\ EachHasAName' /\ Linked'
      BY <1>0, <1>2, <2>1, StaysNew
  <2>5. InfoTypes'
      BY <1>0, <1>1, <2>1, <2>3 DEF InfoInv, InfoTypes
  <2>6. NamesAreUnique' /\ NewFormat'
      BY <1>0, <2>1, <2>2, <2>3 DEF InfoInv, NamesAreUnique, NewFormat, Whole, TypesOf, pkg_infodb_foreach
  <2>7. Progress'
      BY <1>0, <2>1, <2>3 DEF Progress
  <2>. QED
      BY <2>4, <2>5, <2>6, <2>7 DEF InfoInv
<1>. QED
    BY <1>3, <1>4

LEMMA PurgeStepInfo == ASSUME InfoInv, Purge PROVE InfoInv'
<1>0. ipc = "purge" /\ UNCHANGED <<format, formatnew, ships>>
      /\ ipc \notin Updates /\ ipc \notin Upgrades /\ ipc # "idle"
    BY DEF Purge, Updates, Upgrades
<1>1. job.pkg \in InfoPkgs /\ stands[job.pkg] = "config"
    BY <1>0 DEF InfoInv, InfoTypes, Progress
<1>2. format = 1 /\ rename_head = {}
    BY <1>0, NewFormatNow
<1>3. CASE pkg_infodb_foreach(job.pkg, OldQual) = {}
  <2>1. /\ ipc' = "idle" /\ rename_head' = {} /\ UNCHANGED info
        /\ stands' = [stands EXCEPT ![job.pkg] = "none"] /\ same' = [same EXCEPT ![job.pkg] = FALSE]
        /\ ipc' \notin Updates /\ ipc' \notin Upgrades
      BY <1>3 DEF Purge, Quiet, Updates, Upgrades
  <2>2. /\ stands' \in [InfoPkgs -> {"whole", "half", "config", "none"}] /\ same' \in [InfoPkgs -> BOOLEAN]
        /\ stands'[job.pkg] = "none"
        /\ \A r \in InfoPkgs : r # job.pkg => stands'[r] = stands[r] /\ same'[r] = same[r]
      BY <1>1, <2>1 DEF InfoInv, InfoTypes
  <2>3. OldFormat' /\ EachHasAName' /\ Linked'
      BY <1>0, <2>1, StaysNew
  <2>4. InfoTypes'
      BY <1>0, <2>1, <2>2 DEF InfoInv, InfoTypes
  <2>5. NamesAreUnique' /\ NewFormat'
      BY <1>0, <2>1, <2>2 DEF InfoInv, NamesAreUnique, NewFormat, Whole, TypesOf, pkg_infodb_foreach
  <2>6. Progress'
      BY <2>1 DEF Progress
  <2>. QED
      BY <2>3, <2>4, <2>5, <2>6 DEF InfoInv
<1>4. CASE pkg_infodb_foreach(job.pkg, OldQual) # {}
  <2>1. info' \subseteq info /\ UNCHANGED <<ipc, stands, same, job, rename_head>>
        /\ \A f \in info \ info' : f.pkg = job.pkg
      BY <1>4 DEF Purge, pkg_infodb_foreach
  <2>2. OldFormat' /\ EachHasAName' /\ Linked'
      BY <1>0, <1>2, <2>1, StaysNew
  <2>3. InfoTypes'
      BY <1>0, <2>1 DEF InfoInv, InfoTypes
  <2>4. NamesAreUnique'
      BY <2>1 DEF InfoInv, NamesAreUnique
  <2>5. NewFormat'
    <3>1. \A r, q, t, v : File(r, q, t, v).pkg = r
        BY DEF File
    <3>2. \A r \in InfoPkgs : stands[r] = "whole" => Whole(r, same[r], TypesOf(r), 1)'
        BY <1>0, <1>1, <1>2, <2>1, <3>1 DEF InfoInv, NewFormat, Whole, TypesOf
    <3>. QED
        BY <1>0, <1>2, <2>1, <3>2 DEF InfoInv, NewFormat, pkg_infodb_foreach
  <2>6. Progress'
      BY <1>0, <1>1, <2>1 DEF Progress
  <2>. QED
      BY <2>2, <2>3, <2>4, <2>5, <2>6 DEF InfoInv
<1>. QED
    BY <1>3, <1>4

\* pkg_infodb_upgrade(), pkg_infodb_update() and removal_bulk_remove_files(): whatever was
\* interrupted, killed or rolled back in earlier runs of dpkg, and however often a package changed
\* between Multi-Arch: same and not, once the layout is up to date an installed package has its
\* list and the control files of its version and no other, and a removed one at most its list and
\* its postrm.
THEOREM InfoIsAlwaysWhole == InfoSpec => []InfoIsWhole
<1>1. InfoInv /\ [InfoNext]_infovars => InfoInv'
  <2>. SUFFICES ASSUME InfoInv, [InfoNext]_infovars PROVE InfoInv'
      OBVIOUS
  <2>1. CASE UNCHANGED infovars
    <3>1. EachHasAName' /\ NamesAreUnique' /\ NewFormat'
        BY <2>1, SameFiles DEF infovars
    <3>2. InfoTypes' /\ OldFormat' /\ Linked'
        BY <2>1 DEF infovars, InfoInv, InfoTypes, OldFormat, Linked, TypesOf
    <3>3. Progress'
        BY <2>1 DEF infovars, InfoInv, Progress, pkg_infodb_foreach, Whole
    <3>. QED
        BY <3>1, <3>2, <3>3 DEF InfoInv
  <2>. QED
      BY <2>1, UpgradeStep, LinkStep, UnlinkStep, CommitStep, AbortStep, UpdateStartStep, WriteListStep,
         MatchStep, InstallStepInfo, LayoutStep, NoteStep, RemoveStartStep, CleanStep, PurgeStepInfo
      DEF InfoNext
<1>2. InfoInv => InfoIsWhole
  <2>1. SUFFICES ASSUME InfoInv, ipc = "open", NEW p \in InfoPkgs
                 PROVE  /\ stands[p] = "whole" => pkg_infodb_foreach(p, Qualified(same[p], format))
                             = {File(p, Qualified(same[p], format), t, 1) : t \in TypesOf(p)}
                        /\ stands[p] = "config" =>
                             \A f \in pkg_infodb_foreach(p, Qualified(same[p], format)) : f.type \in {List, Postrm}
      BY DEF InfoIsWhole, TypesOf
  <2>2. ipc \notin Upgrades /\ ipc # "idle"
      BY <2>1 DEF Upgrades
  <2>3. format = 1 /\ Qualified(same[p], format) = same[p]
      BY <2>1, <2>2, NewFormatNow
  <2>4. stands[p] = "whole" => Whole(p, same[p], TypesOf(p), 1)
      BY <2>1, <2>3 DEF InfoInv, NewFormat
  <2>5. \A f \in info : f = File(f.pkg, f.qual, f.type, f.ver)
      BY <2>1, FileIs DEF InfoInv, InfoTypes
  <2>6. \A t : File(p, same[p], t, 1).pkg = p /\ File(p, same[p], t, 1).qual = same[p]
      BY DEF File
  <2>7. stands[p] = "whole" =>
          pkg_infodb_foreach(p, same[p]) = {File(p, same[p], t, 1) : t \in TypesOf(p)}
      BY <2>4, <2>5, <2>6 DEF Whole, pkg_infodb_foreach
  <2>. QED
      BY <2>1, <2>3, <2>7 DEF InfoInv, NewFormat
<1>. QED
    BY InfoInitInv, <1>1, <1>2, PTL DEF InfoSpec

-----------------------------------------------------------------------------
(* The deferred trigger file.                                              *)

(***************************************************************************)
(* Activations.  Who writes Unincorp.new has the lock, so that between the *)
(* reading of Unincorp and the rename over it nobody else changes it.      *)
(***************************************************************************)
CallerState == [pc : {"idle", "lock", "write", "rename"}, line : Line \cup {<<>>}]

LockInv ==
  /\ caller \in [Callers -> CallerState]
  /\ \A c \in Callers : caller[c].pc \in {"write", "rename"} => locked = c
  /\ \A c \in Callers : caller[c].pc = "rename" => newfile = unincorp \cup {caller[c].line}
  /\ dpkg = "incorporate" => locked = "dpkg" /\ newfile = {}

ActivationInv == LockInv /\ ActivationsArrive

LEMMA ActivationInit == TrigDefInit => ActivationInv
BY DEF TrigDefInit, ActivationInv, LockInv, ActivationsArrive, CallerState, Idle

LEMMA ActivationStep ==
  ActivationInv /\ [TrigDefNext]_trigdefvars => ActivationInv'
<1>. SUFFICES ASSUME ActivationInv, [TrigDefNext]_trigdefvars
              PROVE  ActivationInv'
    OBVIOUS
<1>. USE CallersAssumption DEF ActivationInv, LockInv, ActivationsArrive
<1>1. ASSUME NEW c \in Callers, do_trigger(c) PROVE ActivationInv'
    BY <1>1 DEF do_trigger, CallerState
<1>2. ASSUME NEW c \in Callers, trigdef_update_start(c) PROVE ActivationInv'
    BY <1>2 DEF trigdef_update_start, LockFree, CallerState, Idle
<1>3. ASSUME NEW c \in Callers, tdm_add(c) PROVE ActivationInv'
    BY <1>3 DEF tdm_add, CallerState
<1>4. ASSUME NEW c \in Callers, trigdef_process_done(c) PROVE ActivationInv'
    BY <1>4 DEF trigdef_process_done, CallerState, Idle
<1>5. ASSUME NEW c \in Callers, CallerKilled(c) PROVE ActivationInv'
    BY <1>5 DEF CallerKilled, CallerState, Idle
<1>6. CASE trig_incorporate
    BY <1>6 DEF trig_incorporate, LockFree
<1>7. CASE tdm_incorp
    BY <1>7 DEF tdm_incorp, Files
<1>8. CASE IncorporateDone
    BY <1>8 DEF IncorporateDone
<1>9. CASE InterestStart
    BY <1>9 DEF InterestStart, Files
<1>10. CASE trig_cicb_interest_delete
    BY <1>10 DEF trig_cicb_interest_delete, Files
<1>11. CASE trig_cicb_interest_add
    BY <1>11 DEF trig_cicb_interest_add, Files
<1>12. CASE trig_file_interests_save
    BY <1>12 DEF trig_file_interests_save, Files
<1>13. CASE InfoDone
    BY <1>13 DEF InfoDone, Files
<1>14. CASE DpkgEnds
    BY <1>14 DEF DpkgEnds
<1>15. CASE UNCHANGED trigdefvars
    BY <1>15 DEF trigdefvars
<1>. QED
    BY <1>1, <1>2, <1>3, <1>4, <1>5, <1>6, <1>7, <1>8, <1>9, <1>10, <1>11, <1>12, <1>13,
       <1>14, <1>15 DEF TrigDefNext

(***************************************************************************)
(* An activation for which dpkg-trigger has ended well is in Unincorp or   *)
(* in dpkg's database, although trigdef_process_done() replaces the file   *)
(* from a copy and dpkg empties it (do_trigger(), trig_incorporate()).     *)
(***************************************************************************)
THEOREM ActivationsAlwaysArrive == TrigDefSpec => []ActivationsArrive
<1>1. ActivationInv => ActivationsArrive
    BY DEF ActivationInv
<1>2. ActivationInv /\ [TrigDefNext]_trigdefvars => ActivationInv'
    BY ActivationStep
<1>. QED
    BY <1>1, <1>2, ActivationInit, PTL DEF TrigDefSpec

-----------------------------------------------------------------------------
(***************************************************************************)
(* Interests.  While dpkg runs it has the interests in paths of every      *)
(* unpacked package in memory too, for it writes them all together; those  *)
(* of the package that it changes arrive one after the other.              *)
(***************************************************************************)
InterestTypes ==
  /\ ci \in [TrigPkgs -> SUBSET TrigNames] /\ unpacked \subseteq TrigPkgs
  /\ recorded \subseteq TrigPkgs \X TrigNames
  /\ inmemory \subseteq TrigPkgs \X (FileTrigs \cap TrigNames)
  /\ dpkg \in {"idle", "incorporate", "open", "change", "info"}
  /\ edited \in BOOLEAN

PathsInMemory ==
  dpkg # "idle" => \A p \in unpacked, t \in FileTrigs : t \in ci[p] => <<p, t>> \in inmemory

MemoryIsSaved == ~edited => inmemory \subseteq recorded

\* Where the interest of the package that is changed goes before the file is written.
Noted(p, t) == <<p, t>> \in (IF t \in FileTrigs THEN inmemory ELSE recorded)

ChangeIsOrdered ==
  /\ dpkg \in {"change", "info"} =>
       /\ upgrade.pkg \in TrigPkgs \ unpacked
       /\ upgrade.ci \in SUBSET TrigNames /\ upgrade.del \in SUBSET TrigNames
       /\ upgrade.add \in SUBSET upgrade.ci
  /\ dpkg = "change" =>
       /\ upgrade.add = upgrade.ci \/ upgrade.del = {}
       /\ \A t \in upgrade.ci \ upgrade.add : Noted(upgrade.pkg, t)
  /\ dpkg = "info" =>
       \A t \in upgrade.ci : <<upgrade.pkg, t>> \in recorded /\ Noted(upgrade.pkg, t)

InterestInv ==
  InterestTypes /\ PathsInMemory /\ MemoryIsSaved /\ ChangeIsOrdered /\ InterestsKept

LEMMA InterestInit == TrigDefInit => InterestInv
BY DEF TrigDefInit, InterestInv, InterestTypes, PathsInMemory, MemoryIsSaved,
   ChangeIsOrdered, InterestsKept, Declared

\* One interest goes or comes, in memory or on the disk.
LEMMA ChangeOne ==
  ASSUME NEW t \in TrigNames, NEW p \in TrigPkgs, NEW delete \in BOOLEAN,
         Change(t, p, delete), InterestTypes, MemoryIsSaved
  PROVE  /\ recorded' \subseteq TrigPkgs \X TrigNames
         /\ inmemory' \subseteq TrigPkgs \X (FileTrigs \cap TrigNames)
         /\ edited' \in BOOLEAN /\ MemoryIsSaved'
         /\ \A q, u : <<q, u>> # <<p, t>> => /\ <<q, u>> \in recorded' <=> <<q, u>> \in recorded
                                             /\ <<q, u>> \in inmemory' <=> <<q, u>> \in inmemory
         /\ ~delete => <<p, t>> \in (IF t \in FileTrigs THEN inmemory' ELSE recorded')
<1>1. CASE t \in FileTrigs
  <2>1. /\ inmemory' = inmemory \ {<<p, t>>} \/ inmemory' = inmemory \cup {<<p, t>>}
        /\ ~delete => inmemory' = inmemory \cup {<<p, t>>}
        /\ edited' = (edited \/ inmemory' # inmemory) /\ recorded' = recorded
      BY <1>1 DEF Change
  <2>2. edited' \in BOOLEAN /\ MemoryIsSaved'
      BY <2>1 DEF MemoryIsSaved
  <2>3. inmemory' \subseteq TrigPkgs \X (FileTrigs \cap TrigNames)
      BY <1>1, <2>1 DEF InterestTypes
  <2>. QED
      BY <1>1, <2>1, <2>2, <2>3 DEF InterestTypes
<1>2. CASE t \notin FileTrigs
  <2>1. /\ recorded' = recorded \ {<<p, t>>} \/ recorded' = recorded \cup {<<p, t>>}
        /\ ~delete => recorded' = recorded \cup {<<p, t>>}
        /\ edited' = edited /\ inmemory' = inmemory
      BY <1>2 DEF Change
  <2>2. <<p, t>> \notin inmemory
      BY <1>2 DEF InterestTypes
  <2>3. MemoryIsSaved'
      BY <2>1, <2>2 DEF MemoryIsSaved
  <2>. QED
      BY <1>2, <2>1, <2>3 DEF InterestTypes
<1>. QED
    BY <1>1, <1>2

LEMMA InterestStep == InterestInv /\ [TrigDefNext]_trigdefvars => InterestInv'
<1>. SUFFICES ASSUME InterestInv, [TrigDefNext]_trigdefvars PROVE InterestInv'
    OBVIOUS
<1>. USE DEF InterestInv, InterestTypes, PathsInMemory, MemoryIsSaved, ChangeIsOrdered,
             InterestsKept, Noted
<1>1. CASE dpkg' = dpkg /\ UNCHANGED Interests
    BY <1>1 DEF Interests
<1>2. CASE trig_incorporate
    BY <1>2 DEF trig_incorporate, Declared
<1>3. CASE IncorporateDone
    BY <1>3 DEF IncorporateDone, Interests
<1>4. CASE InterestStart
    BY <1>4 DEF InterestStart
<1>5. CASE trig_cicb_interest_delete
  <2>1. PICK t \in upgrade.del : /\ Change(t, upgrade.pkg, TRUE)
                                 /\ upgrade' = [upgrade EXCEPT !.del = @ \ {t}]
      BY <1>5 DEF trig_cicb_interest_delete
  <2>2. /\ dpkg = "change" /\ UNCHANGED <<dpkg, ci, unpacked>>
        /\ upgrade.pkg \in TrigPkgs \ unpacked /\ t \in TrigNames
      BY <1>5, <2>1 DEF trig_cicb_interest_delete
  <2>3. /\ upgrade'.pkg = upgrade.pkg /\ upgrade'.ci = upgrade.ci
        /\ upgrade'.del = upgrade.del \ {t} /\ upgrade'.add = upgrade.add
      BY <2>1
  <2>. QED
      BY <2>1, <2>2, <2>3, ChangeOne
<1>6. CASE trig_cicb_interest_add
  <2>1. PICK t \in upgrade.add : /\ Change(t, upgrade.pkg, FALSE)
                                 /\ upgrade' = [upgrade EXCEPT !.add = @ \ {t}]
      BY <1>6 DEF trig_cicb_interest_add
  <2>2. /\ dpkg = "change" /\ upgrade.del = {} /\ UNCHANGED <<dpkg, ci, unpacked>>
        /\ upgrade.pkg \in TrigPkgs \ unpacked /\ t \in TrigNames
      BY <1>6, <2>1 DEF trig_cicb_interest_add
  <2>3. /\ upgrade'.pkg = upgrade.pkg /\ upgrade'.ci = upgrade.ci
        /\ upgrade'.del = upgrade.del /\ upgrade'.add = upgrade.add \ {t}
      BY <2>1
  <2>. HIDE DEF InterestTypes, MemoryIsSaved
  <2>4. /\ recorded' \subseteq TrigPkgs \X TrigNames
        /\ inmemory' \subseteq TrigPkgs \X (FileTrigs \cap TrigNames)
        /\ edited' \in BOOLEAN /\ MemoryIsSaved'
        /\ \A q, u : <<q, u>> # <<upgrade.pkg, t>> =>
             /\ <<q, u>> \in recorded' <=> <<q, u>> \in recorded
             /\ <<q, u>> \in inmemory' <=> <<q, u>> \in inmemory
        /\ <<upgrade.pkg, t>> \in (IF t \in FileTrigs THEN inmemory' ELSE recorded')
      BY <2>1, <2>2, ChangeOne
  <2>5. InterestTypes' /\ Noted(upgrade.pkg, t)'
      BY <2>4, <2>2, <2>3 DEF InterestTypes
  <2>6. PathsInMemory' /\ InterestsKept'
      BY <2>4, <2>2
  <2>7. \A u \in upgrade'.ci \ upgrade'.add : Noted(upgrade.pkg, u)'
      BY <2>4, <2>2, <2>3, <2>5
  <2>8. ChangeIsOrdered'
      BY <2>2, <2>3, <2>7
  <2>. QED
      BY <2>4, <2>5, <2>6, <2>8
<1>7. CASE trig_file_interests_save
    BY <1>7 DEF trig_file_interests_save, Saved
<1>8. CASE InfoDone
    BY <1>8 DEF InfoDone
<1>9. CASE DpkgEnds
    BY <1>9 DEF DpkgEnds
<1>10. ASSUME NEW c \in Callers,
              do_trigger(c) \/ trigdef_update_start(c) \/ tdm_add(c) \/ trigdef_process_done(c)
              \/ CallerKilled(c)
       PROVE  dpkg' = dpkg /\ UNCHANGED Interests
    BY <1>10, Zenon DEF do_trigger, trigdef_update_start, tdm_add, trigdef_process_done,
       CallerKilled
<1>11. tdm_incorp => dpkg' = dpkg /\ UNCHANGED Interests
    BY Zenon DEF tdm_incorp
<1>12. UNCHANGED trigdefvars => dpkg' = dpkg /\ UNCHANGED Interests
    BY DEF trigdefvars, Interests
<1>. QED
    BY <1>1, <1>2, <1>3, <1>4, <1>5, <1>6, <1>7, <1>8, <1>9, <1>10, <1>11, <1>12
    DEF TrigDefNext

(***************************************************************************)
(* A package that is unpacked has all the interests that its triggers file *)
(* declares, although the interests in paths of all packages are in one    *)
(* file that trig_file_interests_save() writes anew, and dpkg may be       *)
(* killed between two of its changes (trig_parse_ci()).                    *)
(***************************************************************************)
THEOREM InterestsAlwaysKept == TrigDefSpec => []InterestsKept
<1>1. InterestInv => InterestsKept
    BY DEF InterestInv
<1>. QED
    BY <1>1, InterestInit, InterestStep, PTL DEF TrigDefSpec
=============================================================================
