---------------------------- MODULE FileInstall ----------------------------
(***************************************************************************)
(* One path of an archive on its way to the disk: tarobject() extracts it  *)
(* next to its place and backs up what is there, tar_deferred_extract()    *)
(* puts it in place, pkg_remove_backup_files() ends it, and cu_installnew()*)
(* undoes it after an error (archives.c, cleanup.c, unpack.c).             *)
(*                                                                         *)
(* Every system call is a step; dpkg may be killed or the power may fail   *)
(* between two of them, and the archive may be unpacked again.  The power  *)
(* failure loses the data of a file that was not synced: names are taken   *)
(* to survive in the order in which they were made.  What is extracted is  *)
(* raw until it has its owner, mode, times and label.                      *)
(***************************************************************************)
EXTENDS Naturals

CONSTANT MaxTries    \* bound: how often the archive is unpacked

VARIABLES disk,      \* the path and its diverted name, each with .dpkg-tmp and .dpkg-new
          item,      \* the entry of the archive
          ground,    \* who else has the path, diversions, forces
          flags,     \* the flags of the name (FNNF_...)
          listed,    \* is the path in the new list of files?
          pushed,    \* has the clean-up been pushed?
          before,    \* history: what was in the place when the unpacking began
          tarpc, tries

filevars == <<disk, item, ground, flags, listed, pushed, before, tarpc, tries>>

Obj(k, d, s, i) == [kind |-> k, data |-> d, safe |-> s, inode |-> i]
Absent == Obj("absent", "none", TRUE, 0)
FileNames == {"f", "f.distrib"}
Parts == {"main", "tmp", "new"}

\* The package uses the diverted name unless it is the one that diverts it.
namenodetouse == IF ground.divert = "other" THEN "f.distrib" ELSE "f"
At(part) == disk[namenodetouse][part]
Place(part, obj) == disk' = [disk EXCEPT ![namenodetouse][part] = obj]
Exists(part) == At(part).kind # "absent"
InForce(f) == f \in ground.force

\* rename(2) of two links to one file does nothing.
Renamed(n, from, to) ==
  IF disk[n][from] = disk[n][to] /\ disk[n][from].kind \in {"file", "node"}
  THEN disk
  ELSE [disk EXCEPT ![n][to] = disk[n][from], ![n][from] = Absent]

Go(pc) == tarpc' = pc
Fail == Go(IF pushed THEN "cu_installnew" ELSE "failed")

(***************************************************************************)
(* tarobject().  The diverted version of another file is not overwritten;  *)
(* a backup whose original is missing is put back first.                   *)
(***************************************************************************)
tarobject ==
  /\ tarpc = "start"
  /\ flags' = {"NEW_INARCHIVE"} \cup (IF item.conff THEN {"NEW_CONFF"} ELSE {}) /\ listed' = TRUE
  /\ IF ground.divert = "target" /\ ~InForce("overwrite-diverted") THEN Fail /\ UNCHANGED <<disk, before>>
     ELSE /\ Go("check")
          /\ disk' = IF Exists("main") THEN disk ELSE Renamed(namenodetouse, "tmp", "main")
          /\ before' = disk'[namenodetouse].main
  /\ UNCHANGED <<item, ground, pushed, tries>>

IsDir(o) == o.kind = "dir"
LeadsToDir(o) == o.kind \in {"dir", "dirlink"}
linktosameexistingdir == At("main").kind = "dirlink" /\ ground.samedir
existingdir ==
  \/ item.type = "symlink" /\ (IsDir(At("main")) \/ linktosameexistingdir)
  \/ item.type = "dir" /\ LeadsToDir(At("main"))

\* Does the new package replace files of the other one, or the other one those of the new?
does_replace(who) == ground.other = (IF who = "pkg" THEN "isreplaced" ELSE "replaces")

\* May the path be taken although another package has it?
obsolete_conffile == ground.other = "obsolete" /\ item.conff /\ At("main").kind = "file"
Taken ==
  \/ ground.other \in {"nobody", "configfiles", "removing", "shared"}
  \/ ground.divert \in {"other", "self"}
  \/ ~Exists("main") /\ item.type = "dir"
  \/ obsolete_conffile
  \/ does_replace("pkg")
refcounting == ground.other = "shared" /\ Exists("main") /\ ~existingdir /\ ground.sync
keepexisting == ~existingdir /\ ~Taken /\ does_replace("other")
Overwrites == Taken \/ InForce(IF IsDir(At("main")) THEN "overwrite-dir" ELSE "overwrite")

\* Nothing is extracted: the path stays with the other package, is filtered, or is a directory.
tarobject_skip_entry ==
  /\ tarpc = "check"
  /\ \/ keepexisting
        /\ flags' = (flags \ {"NEW_INARCHIVE"}) \cup (IF item.conff THEN {"OBS_CONFF"} ELSE {})
        /\ listed' = FALSE
     \/ ~keepexisting /\ (existingdir \/ Overwrites) /\ ground.filtered
        /\ flags' = (flags \ {"NEW_INARCHIVE"}) \cup {"FILTERED"} /\ listed' = listed
     \/ existingdir /\ ~ground.filtered /\ UNCHANGED <<flags, listed>>
  /\ Go("archived")
  /\ UNCHANGED <<disk, item, ground, pushed, before, tries>>

\* An overwriting that is not allowed, or a shared file that differs.
tarobject_hash ==
  /\ tarpc = "check" /\ ~existingdir /\ ~keepexisting
  /\ \/ ~Overwrites /\ Fail
     \/ /\ Overwrites /\ ~ground.filtered /\ refcounting /\ ~InForce("overwrite")
        /\ IF ground.same THEN Go("archived") ELSE Fail
  /\ UNCHANGED <<disk, item, ground, flags, listed, pushed, before, tries>>

\* Remains of earlier tries are removed, first .dpkg-new, then .dpkg-tmp.
RemoveRemains(from, to, part) ==
  /\ tarpc = from
  /\ from = "check" => /\ ~existingdir /\ ~keepexisting /\ Overwrites /\ ~ground.filtered
                       /\ ~refcounting \/ InForce("overwrite")
  /\ Place(part, Absent) /\ Go(to)
  /\ pushed' = (pushed \/ to = "extract")
  /\ UNCHANGED <<item, ground, flags, listed, before, tries>>

\* What is extracted; only a file's data need syncing, a hard link's are its target's.
New ==
  Obj(CASE item.type \in {"file", "hardlink"} -> "file" [] item.type = "symlink" -> "link"
        [] item.type = "dir" -> "dir" [] OTHER -> "node", "raw", item.type # "file", tries)

tarobject_extract ==
  /\ tarpc = "extract"
  /\ Place("new", New)
  /\ flags' = flags \cup (IF item.type = "file" /\ ~InForce("unsafe-io") THEN {"DEFERRED_FSYNC"} ELSE {})
  /\ Go("perms")
  /\ UNCHANGED <<item, ground, listed, pushed, before, tries>>

\* A conffile stays in .dpkg-new for the configuration.
tarobject_set_perms ==
  /\ tarpc = "perms"
  /\ Place("new", [At("new") EXCEPT !.data = "new"])
  /\ flags' = flags \cup (IF item.conff THEN {"ELIDE_OTHER_LISTS"} ELSE {})
  /\ Go(IF item.conff THEN "archived" ELSE "backup")
  /\ UNCHANGED <<item, ground, listed, pushed, before, tries>>

\* A directory is moved aside, anything else is linked or copied to .dpkg-tmp.
Nonatomic == item.type = "dir" \/ IsDir(At("main"))

MakeBackup ==
  /\ tarpc = "backup"
  /\ IF ~Exists("main") THEN UNCHANGED <<disk, flags>>
     ELSE IF Nonatomic THEN flags' = flags \cup {"NO_ATOMIC_OVERWRITE"} /\ disk' = Renamed(namenodetouse, "main", "tmp")
     ELSE flags' = flags /\ Place("tmp", At("main"))
  /\ Go("install")
  /\ UNCHANGED <<item, ground, listed, pushed, before, tries>>

Placed == {"PLACED_ON_DISK", "ELIDE_OTHER_LISTS"}

InstallOrDefer ==
  /\ tarpc = "install"
  /\ IF item.type \in {"file", "hardlink", "symlink"}
     THEN flags' = flags \cup {"DEFERRED_RENAME"} /\ disk' = disk
     ELSE flags' = flags \cup Placed /\ disk' = Renamed(namenodetouse, "new", "main")
  /\ Go("archived")
  /\ UNCHANGED <<item, ground, listed, pushed, before, tries>>

(***************************************************************************)
(* tar_deferred_extract(), when the whole archive has been read.           *)
(***************************************************************************)
tar_deferred_fsync_fault ==
  /\ tarpc = "archived" /\ {"DEFERRED_RENAME", "DEFERRED_FSYNC"} \subseteq flags
  /\ flags' = flags \ {"DEFERRED_FSYNC"} /\ disk' = disk
  /\ UNCHANGED <<item, ground, listed, pushed, before, tarpc, tries>>
tar_deferred_fsync ==
  /\ tarpc = "archived" /\ {"DEFERRED_RENAME", "DEFERRED_FSYNC"} \subseteq flags
  /\ flags' = flags \ {"DEFERRED_FSYNC"}
  /\ Place("new", [At("new") EXCEPT !.safe = TRUE])
  /\ UNCHANGED <<item, ground, listed, pushed, before, tarpc, tries>>

tar_deferred_extract ==
  /\ tarpc = "archived" /\ ~({"DEFERRED_RENAME", "DEFERRED_FSYNC"} \subseteq flags)
  /\ IF "DEFERRED_RENAME" \in flags
     THEN disk' = Renamed(namenodetouse, "new", "main") /\ flags' = (flags \ {"DEFERRED_RENAME"}) \cup Placed
     ELSE UNCHANGED <<disk, flags>>
  /\ Go("placed")
  /\ UNCHANGED <<item, ground, listed, pushed, before, tries>>

\* Past the checkpoint nothing is undone; the backups go.
pkg_remove_backup_files ==
  /\ tarpc = "placed"
  /\ IF listed /\ ~item.conff THEN Place("tmp", Absent) ELSE disk' = disk
  /\ Go("done")
  /\ UNCHANGED <<item, ground, flags, listed, pushed, before, tries>>

\* Any step may fail, of this file or of the rest of the archive, until the checkpoint.
Error ==
  /\ tarpc \in {"check", "remains", "extract", "perms", "backup", "install", "archived", "placed"}
  /\ Fail
  /\ UNCHANGED <<disk, item, ground, flags, listed, pushed, before, tries>>

(***************************************************************************)
(* cu_installnew(), which is given the name in the archive, not the        *)
(* diverted one.  It may fail too, and leaves the package half-installed.  *)
(***************************************************************************)
Restores == ~item.conff /\ disk["f"].tmp.kind # "absent"

cu_installnew_remove ==
  /\ tarpc = "cu_installnew"
  /\ disk' = IF Restores THEN (IF "NO_ATOMIC_OVERWRITE" \in flags
                               THEN [disk EXCEPT !["f"].main = Absent] ELSE disk)
             ELSE IF "PLACED_ON_DISK" \in flags THEN [disk EXCEPT !["f"].main = Absent]
             ELSE disk
  /\ Go(IF Restores THEN "cu_restore" ELSE "cu_new")
  /\ UNCHANGED <<item, ground, flags, listed, pushed, before, tries>>

cu_installnew_restore_fault ==
  /\ tarpc = "cu_restore"
  /\ disk' = Renamed("f", "tmp", "main") /\ Go("cu_new")
  /\ UNCHANGED <<item, ground, flags, listed, pushed, before, tries>>
cu_installnew_restore ==
  /\ tarpc = "cu_restore"
  /\ disk' = [Renamed("f", "tmp", "main") EXCEPT !["f"].tmp = Absent]
  /\ Go("cu_new")
  /\ UNCHANGED <<item, ground, flags, listed, pushed, before, tries>>

cu_installnew ==
  /\ tarpc = "cu_new"
  /\ disk' = [disk EXCEPT !["f"].new = Absent]
  /\ Go("failed")
  /\ UNCHANGED <<item, ground, flags, listed, pushed, before, tries>>

CleanupFails ==
  /\ tarpc \in {"cu_installnew", "cu_restore", "cu_new"} /\ Go("broken")
  /\ UNCHANGED <<disk, item, ground, flags, listed, pushed, before, tries>>

(***************************************************************************)
(* Accidents, and the next try.                                            *)
(***************************************************************************)
Running == tarpc \notin {"done", "failed", "broken", "dead"}

Killed ==
  /\ Running /\ Go("dead")
  /\ UNCHANGED <<disk, item, ground, flags, listed, pushed, before, tries>>

PowerFails ==
  /\ Running /\ Go("dead")
  /\ disk' = [n \in FileNames |-> [p \in Parts |->
                IF disk[n][p].safe THEN disk[n][p] ELSE [disk[n][p] EXCEPT !.data = "lost", !.safe = TRUE]]]
  /\ UNCHANGED <<item, ground, flags, listed, pushed, before, tries>>

Retry ==
  /\ tarpc \in {"failed", "broken", "dead"} /\ tries < MaxTries
  /\ Go("start") /\ tries' = tries + 1 /\ pushed' = FALSE /\ flags' = {} /\ listed' = FALSE
  /\ UNCHANGED <<disk, item, ground, before>>

-----------------------------------------------------------------------------
Grounds ==
  [other : {"nobody", "configfiles", "removing", "shared", "obsolete", "replaces", "isreplaced", "foreign"},
   divert : {"none", "other", "self", "target"}, filtered : BOOLEAN, samedir : BOOLEAN,
   sync : BOOLEAN, same : BOOLEAN,
   force : {{}, {"overwrite", "overwrite-dir", "overwrite-diverted"}, {"unsafe-io"}}]

\* One departure from the ordinary case at a time.
Ordinary(g) ==
  /\ g.divert = "other" => g.other = "foreign" /\ ~g.filtered /\ g.force = {}
  /\ g.divert # "none" => ~g.filtered
  /\ g.other # "shared" => g.sync /\ g.same
  /\ g.filtered => g.force = {} /\ g.other \in {"nobody", "foreign"}

Empty == [main |-> Absent, tmp |-> Absent, new |-> Absent]
FileInit ==
  /\ item \in [type : {"file", "hardlink", "symlink", "dir", "node"}, conff : BOOLEAN]
  /\ item.conff => item.type = "file"
  /\ ground \in Grounds /\ Ordinary(ground)
  /\ \E k \in {"absent", "file", "link", "dir", "dirlink", "node"} :
       LET there == [Empty EXCEPT !.main = IF k = "absent" THEN Absent ELSE Obj(k, "old", TRUE, 0)]
       IN disk = IF ground.divert = "other"
                 THEN [n \in FileNames |-> IF n = "f" THEN [Empty EXCEPT !.main = Obj("file", "theirs", TRUE, 0)] ELSE there]
                 ELSE [n \in FileNames |-> IF n = "f" THEN there ELSE Empty]
  /\ flags = {} /\ listed = FALSE /\ pushed = FALSE /\ before = At("main")
  /\ tarpc = "start" /\ tries = 1

FileNext ==
  \/ tarobject
  \/ tarobject_skip_entry
  \/ tarobject_hash
  \/ RemoveRemains("check", "remains", "new")
  \/ RemoveRemains("remains", "extract", "tmp")
  \/ tarobject_extract
  \/ tarobject_set_perms
  \/ MakeBackup
  \/ InstallOrDefer
  \/ tar_deferred_fsync
  \/ tar_deferred_extract
  \/ pkg_remove_backup_files
  \/ Error
  \/ cu_installnew_remove
  \/ cu_installnew_restore
  \/ cu_installnew
  \/ CleanupFails
  \/ Killed
  \/ PowerFails
  \/ Retry

FileSpec == FileInit /\ [][FileNext]_filevars

-----------------------------------------------------------------------------
(***************************************************************************)
(* What is replaced atomically is there at every moment, with its old or   *)
(* its new contents, owner and mode, whatever kills dpkg or the machine:   *)
(* neither is a directory, and the user did not ask for unsafe input and   *)
(* output (tarobject(), tar_deferred_extract(), cu_installnew()).          *)
(***************************************************************************)
Atomic == /\ item.type # "dir" /\ before.kind \notin {"absent", "dir"}
          /\ ground.force # {"unsafe-io"}
OldOrNew == Atomic => At("main").kind # "absent" /\ At("main").data \in {"old", "new"}

(***************************************************************************)
(* An unpacking that fails and is undone leaves the path as it found it,   *)
(* with nothing next to it, unless the path is diverted; one that succeeds *)
(* leaves no backup, and the new object if one was to be put there         *)
(* (cu_installnew(), pkg_remove_backup_files()).                           *)
(***************************************************************************)
Untouched == \A n \in FileNames : disk[n].tmp = Absent /\ disk[n].new = Absent
EndsWhole ==
  /\ tarpc = "failed" /\ pushed /\ ground.divert # "other" => At("main") = before /\ Untouched
  /\ tarpc = "done" /\ "PLACED_ON_DISK" \in flags => At("main").data = "new" /\ Untouched
  /\ tarpc = "done" /\ item.conff /\ pushed => At("main") = before

(***************************************************************************)
(* cleanup.c:51 says that what is undone is the backup of the path, and    *)
(* the removal of a new file which did not fail: a file that the archive   *)
(* did not install stays.                                                  *)
(***************************************************************************)
DivertedKept == ground.divert = "other" => disk["f"].main.data = "theirs"
=============================================================================
