---------------------------- MODULE RemoveFiles -----------------------------
(***************************************************************************)
(* Removal and purging of the files of a package (removal_bulk() in        *)
(* main/remove.c, with the directory checks of main/help.c and the file    *)
(* lists of lib/dpkg/db-fsys-files.c): files go one by one, deepest first, *)
(* what stays behind is kept in the list of the package, which is written  *)
(* at the end of each pass.  Instances of one package for two architec-    *)
(* tures share files.  dpkg may be killed, or a postrm fail, at any step,  *)
(* and the administrator changes directories and runs it again.            *)
(***************************************************************************)
EXTENDS Naturals, FiniteSets

CONSTANTS PkgInfos,      \* instances of packages
          SetOf,         \* the package set of each
          Paths,         \* the paths that packages ship
          Parent,        \* the directory of each path
          Dirs,          \* those that are directories
          Conffiles,     \* those that are conffiles
          Ships,         \* the lists of files of the packages that are considered
          MaxRemovals    \* bound: runs of dpkg

VARIABLES ondisk,     \* the paths on the disk; "own" is a file of the administrator
          lists,      \* the .list of each package
          conffiles,  \* the Conffiles of each in the status file
          stat,       \* "unpacked", "halfinst", "config" or "notinst"
          postrm,     \* which packages have a postrm
          shipped,    \* what each package put on the disk
          pkg, want, todo, leftover, rpc, removals

removevars == <<ondisk, lists, conffiles, stat, postrm, shipped, pkg, want, todo, leftover, rpc, removals>>

Own == "own"           \* lies in the directory OwnDir
OwnDir == "d"

ASSUME PkgInfosAssumption == IsFiniteSet(PkgInfos)
ASSUME PathsAssumption == Own \notin Paths /\ Conffiles \cap Dirs = {}
\* An archive has the directories of its files, and tarobject() lets only the instances of a
\* package share what is not a directory.
ASSUME ShipsAssumption ==
  \A s \in Ships :
    /\ s \in [PkgInfos -> SUBSET Paths]
    /\ \A p \in PkgInfos : \A n \in s[p] : Parent[n] \in Paths => Parent[n] \in s[p] \cap Dirs
    /\ \A p, q \in PkgInfos : SetOf[p] # SetOf[q] => s[p] \cap s[q] \subseteq Dirs

OwnedBy(n) == {p \in PkgInfos : stat[p] # "notinst" /\ n \in lists[p]}
Below(d, n) == Parent[n] = d
Children(d) == {n \in Paths \cap ondisk : Parent[n] = d} \cup (IF d = OwnDir THEN {Own} \cap ondisk ELSE {})

\* removal_bulk_file_is_shared() and the three checks of a directory.
removal_bulk_file_is_shared_fault(n) ==
  Cardinality({p \in PkgInfos : SetOf[p] = SetOf[pkg] /\ stat[p] # "notinst"}) > 1
removal_bulk_file_is_shared(n) ==
  /\ Cardinality({p \in PkgInfos : SetOf[p] = SetOf[pkg] /\ stat[p] # "notinst"}) > 1
  /\ \E p \in OwnedBy(n) \ {pkg} : SetOf[p] = SetOf[pkg]
dir_has_conffiles(d) == \E c \in conffiles[pkg] : Below(d, c)
dir_is_used_by_pkg(d) == \E n \in leftover : Below(d, n)
dir_is_used_by_others_fault(d) == FALSE
dir_is_used_by_others(d) == OwnedBy(d) \ {pkg} # {}

Quit == rpc' = "idle" /\ pkg' = "none" /\ want' = "none" /\ todo' = {} /\ leftover' = {}
Walk(pc, names) == rpc' = pc /\ todo' = names /\ leftover' = {}
\* The list is in the order in which directories come first, and is walked backwards.
Deepest == {n \in todo : \A m \in todo : ~Below(n, m)}

\* rmdir() and secure_unlink(): what is left when a directory is not empty.
Unlink(n) == ondisk' = ondisk \ {n}
Keep(n) == leftover' = leftover \cup {n} /\ UNCHANGED ondisk
Forget == UNCHANGED <<leftover, ondisk>>
Try(n) == IF n \in Dirs /\ Children(n) # {} THEN Keep(n) ELSE Unlink(n) /\ UNCHANGED leftover

\* A directory that may not be removed.
Blocked(n) == n \in Dirs \cap ondisk
             /\ (dir_is_used_by_pkg(n) \/ dir_is_used_by_others(n))
Block(n) == IF dir_is_used_by_pkg(n) THEN Keep(n) ELSE Forget

RemovalStart ==
  /\ rpc = "idle" /\ removals < MaxRemovals /\ removals' = removals + 1
  /\ \E p \in PkgInfos, w \in {"remove", "purge"} :
       /\ stat[p] # "notinst" /\ (stat[p] = "config" => w = "purge")
       /\ pkg' = p /\ want' = w
       /\ IF stat[p] = "config" THEN Walk("purge", {}) /\ UNCHANGED stat
          ELSE Walk("files", lists[p]) /\ stat' = [stat EXCEPT ![p] = "halfinst"]
  /\ UNCHANGED <<ondisk, lists, conffiles, postrm, shipped>>

\* removal_bulk_remove_files(), a file at a time.
removal_bulk_remove_files ==
  /\ rpc = "files" /\ \E n \in Deepest :
       /\ todo' = todo \ {n}
       /\ IF n \notin Dirs /\ removal_bulk_file_is_shared(n) THEN Forget
          ELSE IF n \in conffiles[pkg] \/ (n \in Dirs \cap ondisk /\ dir_has_conffiles(n)) THEN Keep(n)
          ELSE IF Blocked(n) THEN Block(n) ELSE Try(n)
  /\ UNCHANGED <<lists, conffiles, stat, postrm, shipped, pkg, want, rpc, removals>>

\* The list, then the postrm, then the status.
write_filelist_except(keep) == lists' = [lists EXCEPT ![pkg] = keep]
FilesList ==
  /\ rpc = "files" /\ todo = {} /\ write_filelist_except(leftover)
  /\ rpc' = "postrm"
  /\ UNCHANGED <<ondisk, conffiles, stat, postrm, shipped, pkg, want, todo, leftover, removals>>
PostrmRemove ==
  /\ rpc = "postrm" /\ stat' = [stat EXCEPT ![pkg] = "config"] /\ rpc' = "purge"
  /\ UNCHANGED <<ondisk, lists, conffiles, postrm, shipped, pkg, want, todo, leftover, removals>>

\* removal_bulk(): without a postrm and conffiles a removal is a purge.
removal_bulk ==
  /\ rpc = "purge"
  /\ IF ~postrm[pkg] /\ conffiles[pkg] = {} THEN Walk("dirs", lists[pkg]) /\ UNCHANGED <<pkg, want>>
     ELSE IF want = "purge" THEN Walk("conffiles", conffiles[pkg]) /\ UNCHANGED <<pkg, want>>
     ELSE Quit
  /\ UNCHANGED <<ondisk, lists, conffiles, stat, postrm, shipped, removals>>

\* removal_bulk_remove_configfiles(): only conffiles that are still in the list.
removal_bulk_remove_configfiles ==
  /\ rpc = "conffiles" /\ \E c \in todo :
       /\ todo' = todo \ {c} /\ ondisk' = IF c \in lists[pkg] THEN ondisk \ {c} ELSE ondisk
  /\ UNCHANGED <<lists, conffiles, stat, postrm, shipped, pkg, want, leftover, rpc, removals>>
ConffilesList ==
  /\ rpc = "conffiles" /\ todo = {} /\ rpc' = "purged"
  /\ write_filelist_except(lists[pkg] \ conffiles[pkg])
  /\ UNCHANGED <<ondisk, conffiles, stat, postrm, shipped, pkg, want, todo, leftover, removals>>
PostrmPurge ==
  /\ rpc = "purged" /\ conffiles' = [conffiles EXCEPT ![pkg] = {}]
  /\ \/ Walk("dirs", lists[pkg]) /\ UNCHANGED <<pkg, want>>
     \/ postrm[pkg] /\ Quit     \* it fails
  /\ UNCHANGED <<ondisk, lists, stat, postrm, shipped, removals>>

\* removal_bulk_remove_leftover_dirs(): what is no directory any more, and no link to one,
\* is left alone.
removal_bulk_remove_leftover_dirs ==
  /\ rpc = "dirs" /\ \E n \in Deepest :
       /\ todo' = todo \ {n}
       /\ IF n \in conffiles[pkg] THEN Forget
          ELSE IF Blocked(n) THEN Block(n)
          ELSE IF n \in Dirs THEN Try(n)
          ELSE IF n \in ondisk THEN Keep(n) ELSE Forget
  /\ UNCHANGED <<lists, conffiles, stat, postrm, shipped, pkg, want, rpc, removals>>
RemovalDone ==
  /\ rpc = "dirs" /\ todo = {} /\ Quit
  /\ stat' = [stat EXCEPT ![pkg] = "notinst"] /\ lists' = [lists EXCEPT ![pkg] = {}]
  /\ postrm' = [postrm EXCEPT ![pkg] = FALSE]
  /\ UNCHANGED <<ondisk, conffiles, shipped, removals>>

\* A script or a system call fails, or dpkg is killed.
RemovalStops ==
  /\ rpc # "idle" /\ Quit
  /\ UNCHANGED <<ondisk, lists, conffiles, stat, postrm, shipped, removals>>

\* The administrator puts a file of his own in a directory.
Admin == /\ rpc = "idle" /\ OwnDir \in ondisk /\ Own \notin ondisk
         /\ ondisk' = ondisk \cup {Own}
         /\ UNCHANGED <<lists, conffiles, stat, postrm, shipped, pkg, want, todo, leftover, rpc, removals>>

RemoveInit ==
  /\ lists \in Ships
  /\ conffiles = [p \in PkgInfos |-> lists[p] \cap Conffiles]
  /\ stat = [p \in PkgInfos |-> "unpacked"] /\ postrm \in [PkgInfos -> BOOLEAN]
  /\ shipped = lists /\ ondisk = UNION {lists[p] : p \in PkgInfos}
  /\ pkg = "none" /\ want = "none" /\ todo = {} /\ leftover = {} /\ rpc = "idle" /\ removals = 0

RemoveNext ==
  \/ RemovalStart \/ removal_bulk_remove_files \/ FilesList \/ PostrmRemove \/ removal_bulk
  \/ removal_bulk_remove_configfiles \/ ConffilesList \/ PostrmPurge
  \/ removal_bulk_remove_leftover_dirs \/ RemovalDone \/ RemovalStops \/ Admin
RemoveSpec == RemoveInit /\ [][RemoveNext]_removevars

\* What an installed package, or another instance of it, has shipped stays on the disk until
\* that package is removed itself, however the removals of the others are cut short.
OthersKeepTheirFiles ==
  \A p \in PkgInfos : stat[p] = "unpacked" => shipped[p] \subseteq ondisk

\* What was shipped is gone when all packages that shipped it are purged: only a directory
\* with somebody else's files in it is left.
PurgedIsGone ==
  \A n \in Paths \cap ondisk :
    (\E p \in PkgInfos : n \in shipped[p]) /\ (\A p \in PkgInfos : n \in shipped[p] => stat[p] = "notinst")
      => n \in Dirs /\ Children(n) # {}
=============================================================================
