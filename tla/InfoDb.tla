------------------------------- MODULE InfoDb -------------------------------
(***************************************************************************)
(* The package information files of info/ (lib/dpkg/db-ctrl-*.c): where    *)
(* they are found, the upgrade of the directory to the multiarch layout,   *)
(* their replacement by an upgrade of the package (pkg_infodb_update() in  *)
(* main/unpack.c) and their removal (main/remove.c).  A program that       *)
(* writes may fail, with its clean-ups run, or be killed, at every step.   *)
(***************************************************************************)
EXTENDS Naturals, FiniteSets

CONSTANTS InfoPkgs,     \* packages
          FileTypes,    \* the types of information files beside the list
          MaxInfoRuns   \* bound: how often dpkg is run

VARIABLES info,        \* the files: of which package, qualified with the architecture or not, their type and version
          format,      \* the number in the format file
          formatnew,   \* is there a format-new
          same,        \* which packages are Multi-Arch: same
          ships,       \* the types of files of the version that is installed
          stands,      \* "whole", "half" (half-installed), "config" or "none"
          rename_head, \* the files that were linked to their new name
          match_head,  \* the files of the old version to replace or to remove
          ipc, job, infos

infovars == <<info, format, formatnew, same, ships, stands, rename_head, match_head, ipc, job, infos>>

List == "list"
Postrm == "postrm"
\* A list that an archive brings is skipped with a warning (pkg_infodb_update()): it is not one of them.
ASSUME FileTypesAssumption == List \notin FileTypes
File(p, q, t, v) == [pkg |-> p, qual |-> q, type |-> t, ver |-> v]
NoJob == [do |-> "none", pkg |-> "none", same |-> FALSE, ships |-> {}]

\* pkg_infodb_read_format(): format-new means that an upgrade was interrupted.
db_upgrading == formatnew
pkg_infodb_read_format == IF formatnew THEN format + 1 ELSE format

\* pkg_infodb_get_file() and pkg_infodb_foreach(): the files of a package in its layout.
Qualified(is_same, fmt) == is_same /\ fmt = 1
pkg_infodb_foreach(p, q) == {f \in info : f.pkg = p /\ f.qual = q}
Named(p, q, t) == {f \in info : f.pkg = p /\ f.qual = q /\ f.type = t}
Rename(f) == info' = {g \in info : <<g.pkg, g.qual, g.type>> # <<f.pkg, f.qual, f.type>>} \cup {f}

DiskSame == UNCHANGED <<same, ships, stands>>
Quiet == ipc' = "idle" /\ job' = NoJob /\ rename_head' = {} /\ match_head' = {}

-----------------------------------------------------------------------------
(* pkg_infodb_upgrade(), run whenever the database is opened for writing.  *)

Open ==
  /\ ipc = "idle" /\ infos < MaxInfoRuns /\ infos' = infos + 1
  /\ job' = NoJob
  /\ IF pkg_infodb_read_format < 1 \/ db_upgrading
     THEN ipc' = "link" /\ formatnew' = TRUE
     ELSE ipc' = "open" /\ UNCHANGED formatnew
  /\ DiskSame /\ UNCHANGED <<info, format, rename_head, match_head>>

\* Files without an architecture of packages that need one; a file of a package that is not
\* installed is left alone.
ToLink == {f \in info : ~f.qual /\ same[f.pkg] /\ stands[f.pkg] # "none" /\ f \notin rename_head}
pkg_infodb_link_multiarch_files ==
  /\ ipc = "link"
  /\ IF ToLink = {} THEN ipc' = "format" /\ UNCHANGED <<info, rename_head>>
     ELSE \E f \in ToLink :
            /\ rename_head' = rename_head \cup {f} /\ UNCHANGED ipc
            /\ IF Named(f.pkg, TRUE, f.type) # {} THEN UNCHANGED info
               ELSE info' = info \cup {[f EXCEPT !.qual = TRUE]}
  /\ DiskSame /\ UNCHANGED <<format, formatnew, match_head, job, infos>>

\* format-new is written and synced.
pkg_infodb_write_format ==
  /\ ipc = "format" /\ ipc' = "unlink"
  /\ DiskSame /\ UNCHANGED <<info, format, formatnew, rename_head, match_head, job, infos>>

pkg_infodb_unlink_monoarch_files ==
  /\ ipc = "unlink"
  /\ IF rename_head = {} THEN ipc' = "commit" /\ UNCHANGED <<info, rename_head>>
     ELSE \E f \in rename_head : /\ info' = info \ {f} /\ rename_head' = rename_head \ {f}
                                 /\ UNCHANGED ipc
  /\ DiskSame /\ UNCHANGED <<format, formatnew, match_head, job, infos>>

Commit ==
  /\ ipc = "commit" /\ ipc' = "open"
  /\ format' = 1 /\ formatnew' = FALSE
  /\ DiskSame /\ UNCHANGED <<info, rename_head, match_head, job, infos>>

\* cu_abort_db_upgrade(): what is still in the list gets its old name back.
cu_abort_db_upgrade ==
  /\ ipc \in {"link", "format", "unlink", "commit"}
  /\ info' = (info \cup rename_head) \ {[f EXCEPT !.qual = TRUE] : f \in rename_head}
  /\ formatnew' = FALSE /\ Quiet
  /\ DiskSame /\ UNCHANGED <<format, infos>>

-----------------------------------------------------------------------------
(* A new version of a package: its list, then its other files.             *)

NewQual == Qualified(job.same, format)
OldQual == Qualified(same[job.pkg], format)

UpdateStart ==
  /\ ipc = "open"
  /\ \E p \in InfoPkgs, s \in BOOLEAN, ts \in SUBSET FileTypes :
       /\ job' = [do |-> "update", pkg |-> p, same |-> s, ships |-> ts]
       /\ stands' = [stands EXCEPT ![p] = "half"]
  /\ ipc' = "list"
  /\ UNCHANGED <<info, format, formatnew, same, ships, rename_head, match_head, infos>>

WriteList ==
  /\ ipc = "list" /\ ipc' = "match"
  /\ Rename(File(job.pkg, NewQual, List, 2))
  /\ match_head' = {f \in pkg_infodb_foreach(job.pkg, NewQual) : f.type # List}
  /\ DiskSame /\ UNCHANGED <<format, formatnew, rename_head, job, infos>>

\* pkg_infodb_update(): each old file is replaced, or removed when there is no new one.
Match ==
  /\ ipc = "match"
  /\ IF match_head = {} THEN ipc' = "install" /\ UNCHANGED <<info, match_head>>
     ELSE \E f \in match_head :
            /\ match_head' = match_head \ {f} /\ UNCHANGED ipc
            /\ IF f.type \in job.ships THEN Rename([f EXCEPT !.ver = 2]) ELSE info' = info \ {f}
  /\ DiskSame /\ UNCHANGED <<format, formatnew, rename_head, job, infos>>

\* Then the files that the old version did not have.
Missing == {t \in job.ships : \A f \in Named(job.pkg, NewQual, t) : f.ver # 2}
Install ==
  /\ ipc = "install"
  /\ IF Missing = {} THEN ipc' = "layout" /\ UNCHANGED info
     ELSE \E t \in Missing : Rename(File(job.pkg, NewQual, t, 2)) /\ UNCHANGED ipc
  /\ DiskSame /\ UNCHANGED <<format, formatnew, rename_head, match_head, job, infos>>

\* A switch of the layout removes the files that are named the other way.
OldLayout_fault == {f \in pkg_infodb_foreach(job.pkg, NewQual) : job.same # same[job.pkg]}
OldLayout == {f \in pkg_infodb_foreach(job.pkg, OldQual) : job.same # same[job.pkg]}
Layout ==
  /\ ipc = "layout"
  /\ IF OldLayout = {} THEN ipc' = "note" /\ UNCHANGED info
     ELSE \E f \in OldLayout : info' = info \ {f} /\ UNCHANGED ipc
  /\ DiskSame /\ UNCHANGED <<format, formatnew, rename_head, match_head, job, infos>>

\* The new version is in the database.  The next one has versions of its own.
NoteUnpacked ==
  /\ ipc = "note"
  /\ same' = [same EXCEPT ![job.pkg] = job.same]
  /\ ships' = [ships EXCEPT ![job.pkg] = job.ships]
  /\ stands' = [stands EXCEPT ![job.pkg] = "whole"]
  /\ info' = {[f EXCEPT !.ver = IF f.pkg = job.pkg THEN 1 ELSE @] : f \in info}
  /\ Quiet /\ UNCHANGED <<format, formatnew, infos>>

-----------------------------------------------------------------------------
(* Removal keeps the list and the postrm, purging removes them.            *)

RemoveStart ==
  /\ ipc = "open" /\ \E p \in InfoPkgs :
       /\ stands[p] # "none" /\ job' = [NoJob EXCEPT !.do = "remove", !.pkg = p]
       /\ stands' = [stands EXCEPT ![p] = IF @ = "config" THEN @ ELSE "half"]
       /\ ipc' = IF stands[p] = "config" THEN "purge" ELSE "clean"
  /\ UNCHANGED <<info, format, formatnew, same, ships, rename_head, match_head, infos>>

removal_bulk_remove_file(f) == f.type \notin {List, Postrm}
ToClean == {f \in pkg_infodb_foreach(job.pkg, OldQual) : removal_bulk_remove_file(f)}
Clean ==
  /\ ipc = "clean"
  /\ IF ToClean = {} THEN ipc' = "purge" /\ stands' = [stands EXCEPT ![job.pkg] = "config"] /\ UNCHANGED info
     ELSE \E f \in ToClean : info' = info \ {f} /\ UNCHANGED <<ipc, stands>>
  /\ UNCHANGED <<format, formatnew, same, ships, rename_head, match_head, job, infos>>

Purge ==
  /\ ipc = "purge"
  /\ IF pkg_infodb_foreach(job.pkg, OldQual) = {}
     THEN /\ stands' = [stands EXCEPT ![job.pkg] = "none"] /\ same' = [same EXCEPT ![job.pkg] = FALSE]
          /\ Quiet /\ UNCHANGED info
     ELSE \E f \in pkg_infodb_foreach(job.pkg, OldQual) :
            (f.type = List \/ Named(job.pkg, OldQual, List) = {})
            /\ info' = info \ {f} /\ UNCHANGED <<ipc, stands, same, job, rename_head, match_head>>
  /\ UNCHANGED <<format, formatnew, ships, infos>>

\* An error, or the end of a removal that is not a purge.
InfoFails == ipc \notin {"idle", "link", "format", "unlink", "commit"} /\ Quiet
             /\ DiskSame /\ UNCHANGED <<info, format, formatnew, infos>>
\* It is killed: no clean-up is run.
InfoKilled == ipc \in {"link", "format", "unlink", "commit"} /\ Quiet
              /\ DiskSame /\ UNCHANGED <<info, format, formatnew, infos>>

InfoInit ==
  /\ format \in 0..1 /\ formatnew = FALSE /\ infos = 0
  /\ same \in [InfoPkgs -> BOOLEAN] /\ ships \in [InfoPkgs -> SUBSET FileTypes]
  /\ stands = [p \in InfoPkgs |-> "whole"]
  /\ info = UNION {{File(p, Qualified(same[p], format), t, 1) : t \in {List} \cup ships[p]} : p \in InfoPkgs}
  /\ rename_head = {} /\ match_head = {} /\ ipc = "idle" /\ job = NoJob

InfoNext ==
  \/ Open \/ pkg_infodb_link_multiarch_files \/ pkg_infodb_write_format
  \/ pkg_infodb_unlink_monoarch_files \/ Commit \/ cu_abort_db_upgrade
  \/ UpdateStart \/ WriteList \/ Match \/ Install \/ Layout \/ NoteUnpacked
  \/ RemoveStart \/ Clean \/ Purge \/ InfoFails \/ InfoKilled
InfoSpec == InfoInit /\ [][InfoNext]_infovars

\* Once the layout is up to date, an installed package is found to have its list and the files
\* of its version, no other and no older one, and a removed one nothing but list and postrm: whatever was interrupted
\* before, and however the layout of the package changed.
InfoIsWhole ==
  ipc = "open" =>
    \A p \in InfoPkgs :
      LET found == pkg_infodb_foreach(p, Qualified(same[p], format))
      IN  /\ stands[p] = "whole" =>
               found = {File(p, Qualified(same[p], format), t, 1) : t \in {List} \cup ships[p]}
          /\ stands[p] = "config" => \A f \in found : f.type \in {List, Postrm}

=============================================================================
