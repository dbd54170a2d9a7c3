------------------------------ MODULE Conffile ------------------------------
(***************************************************************************)
(* The life of one conffile of one package: unpacked next to the installed *)
(* version by process_archive() (unpack.c, archives.c), put in its place   *)
(* by deferred_configure_conffile() (configure.c), made obsolete or        *)
(* removed by a later version, kept by a removal and deleted by a purge    *)
(* (remove.c), while the user edits it at any time.                        *)
(*                                                                         *)
(* What dpkg knows of the file is in three places that it cannot change at *)
(* once: the hash of the version it last dealt with, in the status         *)
(* database; the list of the package's files; and the existence of         *)
(* .dpkg-new.  It may die between any two steps; an error that ends the    *)
(* handling of the package without a clean-up looks the same.  A hash is   *)
(* its contents: MD5 is taken to tell all versions apart.                  *)
(***************************************************************************)
EXTENDS PkgStatus, FiniteSets

CONSTANTS
    Dist,             \* contents that versions of the package ship
    Mine,             \* contents that only the user writes
    NoFile,           \* there is no such file
    NewConffile,      \* NEWCONFFILEFLAG: no version has been dealt with
    NoEntry,          \* the database has no such conffile
    NotShipped,       \* a version of the package without the file
    RemoveOnUpgrade,  \* a version that asks for its removal
    MaxMishaps        \* bound: how many different mishaps are followed

ASSUME ContentsAssumption == /\ Dist \cap Mine = {}
                             /\ NoFile \notin Dist \cup Mine
                             /\ NewConffile \notin Dist \cup Mine \cup {NoFile}
ASSUME OfferAssumption == /\ NotShipped \notin Dist
                          /\ RemoveOnUpgrade \notin Dist \cup {NotShipped}

Contents == Dist \cup Mine
Files    == Contents \cup {NoFile}
Offers   == Dist \cup {NotShipped, RemoveOnUpgrade}
Entries  == [hash : Dist \cup {NewConffile}, flag : {"current", "obsolete", "remove"}]

ASSUME NoEntryAssumption == NoEntry \notin Entries
ASSUME MishapsAssumption == MaxMishaps \in Nat

VARIABLES
    file,      \* the conffile
    new,       \* .dpkg-new
    old,       \* .dpkg-old
    status,    \* the status of the package; INSTALLED stands for the trigger states too
    entry,     \* the conffile in the status database
    listed,    \* is it in the list of the package's files?
    ships,     \* what the installed version ships
    pc,        \* what dpkg is doing
    avail,     \* what the version that is being unpacked ships
    before,    \* the status before the unpacking
    newentry,  \* the entry for the new version
    newhash,   \* newdisthash
    userdel,   \* CFOF_USER_DEL: there was no file
    own,       \* history: is the file, or its absence, the user's doing?
    precious,  \* history: what the user wrote last and has not given up
    mishaps    \* history: what has gone wrong

vars == <<file, new, old, status, entry, listed, ships, pc, avail, before, newentry,
          newhash, userdel, own, precious, mishaps>>

database == <<status, entry, listed, ships>>
unpack   == <<avail, before, newentry>>
choice   == <<newhash, userdel>>
history  == <<own, precious, mishaps>>

Init ==
    /\ file = NoFile /\ new = NoFile /\ old = NoFile
    /\ status = NOTINSTALLED /\ entry = NoEntry /\ listed = FALSE /\ ships = NotShipped
    /\ pc = "idle"
    /\ avail = NotShipped /\ before = NOTINSTALLED /\ newentry = NoEntry
    /\ newhash = NoFile /\ userdel = FALSE
    /\ own = FALSE /\ precious = NoFile /\ mishaps = {}

Happens(m) ==
    /\ mishaps' = mishaps \cup m
    /\ Cardinality(mishaps') <= MaxMishaps

(* The local variables have no value when dpkg is not in the function.     *)
NoUnpack == avail' = NotShipped /\ before' = NOTINSTALLED /\ newentry' = NoEntry
NoChoice == newhash' = NoFile /\ userdel' = FALSE

-----------------------------------------------------------------------------
(***************************************************************************)
(* process_archive(), from the old version's prerm on.  The new version of *)
(* a conffile is extracted as .dpkg-new and stays there.                   *)
(***************************************************************************)
UnpackStart(v) ==
    /\ pc = "idle"
    /\ avail' = v
    /\ before' = status
    /\ status' = HALFINSTALLED
    /\ pc' = "extract"
    /\ UNCHANGED <<file, new, old, entry, listed, ships, newentry, choice, history>>

(* tarobject()                                                             *)
Extract ==
    /\ pc = "extract"
    /\ new' = IF avail \in Dist THEN avail ELSE new
    /\ pc' = "postrm"
    /\ UNCHANGED <<file, old, database, unpack, choice, history>>

(* An error up to here is undone: cu_installnew() removes .dpkg-new, and   *)
(* cu_preinst*() and cu_prermupgrade() restore the status unless they fail *)
(* themselves.                                                             *)
Restored ==
    {HALFINSTALLED} \cup
    CASE before = INSTALLED      -> {INSTALLED, HALFCONFIGURED, UNPACKED}
      [] before = HALFCONFIGURED -> {HALFCONFIGURED, UNPACKED}
      [] OTHER                   -> {before}

UnpackFails(s) ==
    /\ pc \in {"extract", "postrm"}
    /\ s \in Restored
    /\ status' = s
    /\ new' = IF pc = "postrm" /\ avail \in Dist THEN NoFile ELSE new
    /\ Happens(IF new' # new /\ before = UNPACKED /\ s = UNPACKED THEN {"dropped"} ELSE {})
    /\ pc' = "idle"
    /\ NoUnpack
    /\ UNCHANGED <<file, old, entry, listed, ships, choice, own, precious>>

(* deb_parse_conffiles() and pkg_conffiles_mark_old(): the hash of the old *)
(* version, if the package has the file.                                   *)
OldHash == IF listed /\ entry # NoEntry THEN entry.hash ELSE NewConffile

Entry(flag) == [hash |-> OldHash, flag |-> flag]

(***************************************************************************)
(* pkg_remove_old_files().  A file that is listed and that the database    *)
(* does not know as a conffile is deleted like any other.                  *)
(***************************************************************************)
RemoveOldShipped ==
    /\ avail \in Dist
    /\ newentry' = Entry("current")
    /\ UNCHANGED <<file, old, own>>

RemoveOldObsolete ==
    /\ avail = NotShipped
    /\ newentry' = IF listed /\ entry # NoEntry /\ file # NoFile THEN Entry("obsolete") ELSE NoEntry
    /\ IF listed /\ entry = NoEntry
       THEN file' = NoFile /\ own' = FALSE
       ELSE UNCHANGED <<file, own>>
    /\ old' = old

(* pkg_remove_conffile_on_upgrade()                                        *)
RemoveOldOnUpgrade ==
    /\ avail = RemoveOnUpgrade
    /\ newentry' = Entry("remove")
    /\ file' = NoFile
    /\ old' = IF file \in {NoFile, OldHash} THEN old ELSE file
    /\ own' = (own /\ file = NoFile)

RemoveOld ==
    /\ pc = "postrm"
    /\ RemoveOldShipped \/ RemoveOldObsolete \/ RemoveOldOnUpgrade
    /\ pc' = "list"
    /\ UNCHANGED <<new, database, avail, before, choice, precious, mishaps>>

(* write_filelist_except(): the conffiles to be removed are not in it.     *)
WriteList ==
    /\ pc = "list"
    /\ listed' = (newentry # NoEntry /\ newentry.flag # "remove")
    /\ pc' = "update"
    /\ UNCHANGED <<file, new, old, status, entry, ships, unpack, choice, history>>

(* pkg_update_fields() and the note of the unpacked package.               *)
UpdateFieldsWith(e) ==
    /\ pc = "update"
    /\ entry' = e
    /\ ships' = avail
    /\ status' = UNPACKED
    /\ pc' = "idle"
    /\ NoUnpack
    /\ UNCHANGED <<file, new, old, listed, choice, history>>

UpdateFieldsNewHash ==    \* fault: the hash of the new version, too early
    UpdateFieldsWith(IF avail \in Dist THEN [newentry EXCEPT !.hash = avail] ELSE newentry)
UpdateFields == UpdateFieldsWith(newentry)

-----------------------------------------------------------------------------
(***************************************************************************)
(* deferred_configure() and deferred_configure_conffile().  Without a      *)
(* .dpkg-new the conffile is taken to have been dealt with.                *)
(***************************************************************************)
Current == entry # NoEntry /\ entry.flag = "current"

ConfigureNothing ==
    /\ pc = "idle"
    /\ status = UNPACKED
    /\ ~Current \/ new = NoFile
    /\ pc' = "half"
    /\ UNCHANGED <<file, new, old, database, unpack, choice, history>>

(* What is done with which contents: conffoptcells and the special cases.  *)
UserEdited == entry.hash # file
DistEdited == entry.hash # new

Installs(miss) ==    \* no question: CFO_NEW_CONFF or CFO_INSTALL
    \/ file = NoFile /\ (miss \/ entry.hash = NewConffile)
    \/ entry.hash # NewConffile /\ ~UserEdited /\ DistEdited

Asks(miss, ask) ==   \* CFO_PROMPT_KEEP
    /\ ~Installs(miss)
    /\ \/ entry.hash = NewConffile
       \/ UserEdited /\ (DistEdited \/ ask)

(* miss is --force-confmiss, ask is --force-confask.                       *)
Look(miss, ask) ==
    /\ pc = "idle"
    /\ status = UNPACKED
    /\ Current
    /\ new # NoFile
    /\ newhash' = new
    /\ userdel' = (file = NoFile)
    /\ pc' = CASE file = new -> "unlinkNew"
               [] file # new /\ Installs(miss) -> "rename"
               [] file # new /\ Asks(miss, ask) -> "prompt"
               [] OTHER -> "unlinkNew"
    /\ UNCHANGED <<file, new, old, database, unpack, history>>

(* promptconfaction(): the answer is the user's, or that of --force-conf*. *)
Answer(install) ==
    /\ pc = "prompt"
    /\ own' = (own \/ ~install)
    /\ pc' = IF install THEN "unlinkOldInstall" ELSE "unlinkOld"
    /\ UNCHANGED <<file, new, old, database, unpack, newhash, userdel, precious, mishaps>>

(* Install: .dpkg-old goes and the user's version takes its place.  Of     *)
(* these calls only the rename() may not fail.                             *)
UnlinkOldInstall ==
    /\ pc = "unlinkOldInstall"
    /\ old' \in {NoFile, old}
    /\ pc' = IF userdel THEN "rename" ELSE "link"
    /\ UNCHANGED <<file, new, database, unpack, choice, history>>

LinkSkipped(ok) ==    \* fault: no backup is made
    /\ pc = "link"
    /\ pc' = "rename"
    /\ UNCHANGED <<file, new, old, database, unpack, choice, history>>

Link(ok) ==
    /\ pc = "link"
    /\ ok => old = NoFile
    /\ old' = IF ok THEN file ELSE old
    /\ Happens(IF ok THEN {} ELSE {"nolink"})
    /\ pc' = "rename"
    /\ UNCHANGED <<file, new, database, unpack, choice, own, precious>>

Rename ==
    /\ pc = "rename"
    /\ file' = new
    /\ new' = NoFile
    /\ own' = FALSE
    /\ pc' = "note"
    /\ UNCHANGED <<old, database, unpack, choice, precious, mishaps>>

(* Keep: .dpkg-new becomes .dpkg-dist, which nothing reads again, or goes  *)
(* if nobody was asked.                                                    *)
UnlinkOld ==
    /\ pc = "unlinkOld"
    /\ old' \in {NoFile, old}
    /\ pc' = "unlinkNew"
    /\ UNCHANGED <<file, new, database, unpack, choice, history>>

UnlinkNew ==
    /\ pc = "unlinkNew"
    /\ new' \in {NoFile, new}
    /\ pc' = "note"
    /\ UNCHANGED <<file, old, database, unpack, choice, history>>

NoteHashOf(h) ==
    /\ pc = "note"
    /\ entry' = [entry EXCEPT !.hash = h]
    /\ pc' = "half"
    /\ NoChoice
    /\ UNCHANGED <<file, new, old, status, listed, ships, unpack, history>>

NoteNoHash   == NoteHashOf(entry.hash)    \* fault: the hash stays that of the old version
NoteHash     == NoteHashOf(newhash)

(* The conffiles are done.                                                 *)
NoteHalfConfigured ==
    /\ pc = "half"
    /\ status' = HALFCONFIGURED
    /\ pc' = "idle"
    /\ UNCHANGED <<file, new, old, entry, listed, ships, unpack, choice, history>>

(* The postinst succeeds.                                                  *)
Postinst ==
    /\ pc = "idle"
    /\ status = HALFCONFIGURED
    /\ status' = INSTALLED
    /\ UNCHANGED <<file, new, old, entry, listed, ships, pc, unpack, choice, history>>

-----------------------------------------------------------------------------
(***************************************************************************)
(* removal_bulk(): a removal keeps conffiles and the list of them; a       *)
(* package without any may be purged at once.                              *)
(***************************************************************************)
RemoveStart ==
    /\ pc = "idle"
    /\ status > CONFIGFILES
    /\ status' = HALFINSTALLED
    /\ pc' = "remove"
    /\ UNCHANGED <<file, new, old, entry, listed, ships, unpack, choice, history>>

(* The prerm fails and nothing undoes it.                                  *)
PrermFails ==
    /\ pc = "idle"
    /\ status = INSTALLED
    /\ status' = HALFCONFIGURED
    /\ UNCHANGED <<file, new, old, entry, listed, ships, pc, unpack, choice, history>>

RemoveFiles(s) ==
    /\ pc = "remove"
    /\ s = CONFIGFILES \/ (s = NOTINSTALLED /\ entry = NoEntry)
    /\ IF listed /\ entry = NoEntry
       THEN file' = NoFile /\ new' = NoFile /\ own' = FALSE
       ELSE UNCHANGED <<file, new, own>>
    /\ listed' = (listed /\ entry # NoEntry)
    /\ status' = s
    /\ ships' = NotShipped
    /\ pc' = "idle"
    /\ UNCHANGED <<old, entry, unpack, choice, precious, mishaps>>

(* removal_bulk_remove_configfiles(): the hashes are forgotten before the  *)
(* files are deleted.                                                      *)
PurgeStart ==
    /\ pc = "idle"
    /\ status = CONFIGFILES
    /\ entry' = IF listed /\ entry # NoEntry THEN [entry EXCEPT !.hash = NewConffile] ELSE NoEntry
    /\ pc' = IF entry' = NoEntry THEN "purgeNote" ELSE "purgeFile"
    /\ precious' = NoFile
    /\ UNCHANGED <<file, new, old, status, listed, ships, unpack, choice, own, mishaps>>

PurgeFile ==
    /\ pc = "purgeFile"
    /\ file' = NoFile
    /\ own' = FALSE
    /\ precious' = NoFile
    /\ pc' = "purgeBackups"
    /\ UNCHANGED <<new, old, database, unpack, choice, mishaps>>

PurgeBackups ==
    /\ pc = "purgeBackups"
    /\ new' = NoFile /\ old' = NoFile
    /\ pc' = "purgeList"
    /\ UNCHANGED <<file, database, unpack, choice, history>>

PurgeList ==
    /\ pc = "purgeList"
    /\ listed' = FALSE
    /\ pc' = "purgeNote"
    /\ UNCHANGED <<file, new, old, status, entry, ships, unpack, choice, history>>

PurgeNote ==
    /\ pc = "purgeNote"
    /\ entry' = NoEntry
    /\ pc' = "purgeDone"
    /\ UNCHANGED <<file, new, old, status, listed, ships, unpack, choice, history>>

PurgeDone ==
    /\ pc = "purgeDone"
    /\ status' = NOTINSTALLED
    /\ listed' = FALSE
    /\ pc' = "idle"
    /\ UNCHANGED <<file, new, old, entry, ships, unpack, choice, history>>

-----------------------------------------------------------------------------
(***************************************************************************)
(* The user writes or deletes the file, at any time.  It is a race if dpkg *)
(* has looked at the file already and will replace it without a backup.    *)
(***************************************************************************)
WillSave == pc \in {"prompt", "unlinkOldInstall", "link"} /\ ~userdel

Race == pc \in {"prompt", "unlinkOldInstall", "link", "rename"} /\ ~WillSave

UserWrites(c) ==
    /\ file # c
    /\ file' = c
    /\ own' = TRUE
    /\ precious' = IF c \in Mine THEN c ELSE NoFile
    /\ Happens(IF Race THEN {"race"} ELSE {})
    /\ UNCHANGED <<new, old, database, pc, unpack, choice>>

(* dpkg dies, or an error ends what it does.                               *)
Mishap ==
    CASE pc \in {"list", "update"} -> {"torn"}
      [] pc = "note"               -> {"unnoted"}
      [] pc \in {"purgeFile", "purgeBackups", "purgeList", "purgeNote", "purgeDone"} -> {"purge"}
      [] OTHER                     -> {}

Die ==
    /\ pc # "idle"
    /\ Happens(Mishap)
    /\ pc' = "idle"
    /\ NoChoice
    /\ NoUnpack
    /\ UNCHANGED <<file, new, old, database, own, precious>>

-----------------------------------------------------------------------------
Dpkg ==
    \/ \E v \in Offers : UnpackStart(v)
    \/ Extract \/ RemoveOld \/ WriteList \/ UpdateFields
    \/ \E s \in Status : UnpackFails(s)
    \/ ConfigureNothing
    \/ \E miss, ask \in BOOLEAN : Look(miss, ask)
    \/ \E install \in BOOLEAN : Answer(install)
    \/ UnlinkOldInstall \/ Rename \/ UnlinkOld \/ UnlinkNew
    \/ \E ok \in BOOLEAN : Link(ok)
    \/ NoteHash \/ NoteHalfConfigured \/ Postinst
    \/ RemoveStart \/ PrermFails
    \/ \E s \in Status : RemoveFiles(s)
    \/ PurgeStart \/ PurgeFile \/ PurgeBackups \/ PurgeList \/ PurgeNote \/ PurgeDone

Next == Dpkg \/ (\E c \in Files : UserWrites(c)) \/ Die

Spec == Init /\ [][Next]_vars
-----------------------------------------------------------------------------
Labels == {"idle", "extract", "postrm", "list", "update", "prompt",
           "unlinkOldInstall", "link", "rename", "unlinkOld", "unlinkNew", "note", "half",
           "remove", "purgeFile", "purgeBackups", "purgeList", "purgeNote", "purgeDone"}

(* The types of the variables; a hash is always that of a shipped version. *)
TypeOK ==
    /\ file \in Files /\ old \in Files
    /\ new \in Dist \cup {NoFile}
    /\ status \in Status
    /\ entry \in Entries \cup {NoEntry}
    /\ listed \in BOOLEAN
    /\ ships \in Offers
    /\ pc \in Labels
    /\ avail \in Offers /\ before \in Status
    /\ newentry \in Entries \cup {NoEntry}
    /\ newhash \in Dist \cup {NoFile}
    /\ userdel \in BOOLEAN
    /\ own \in BOOLEAN
    /\ precious \in Mine \cup {NoFile}
    /\ mishaps \subseteq {"dropped", "torn", "unnoted", "purge", "nolink", "race"}

(***************************************************************************)
(* What the user wrote is in the file or in .dpkg-old, however often the   *)
(* package was upgraded, removed and installed again since, and wherever   *)
(* dpkg died, with these exceptions: a race, a link() that failed, a death *)
(* between the conffile and the note of its hash, and one between the      *)
(* removal of old files and the note of the new version.                   *)
(***************************************************************************)
UserVersionKept ==
    mishaps \cap {"race", "nolink", "unnoted", "torn"} = {} => precious \in {NoFile, file, old}

(***************************************************************************)
(* When the package is configured, a conffile that is not the user's doing *)
(* is the one that the installed version ships, but for the accidents that *)
(* lose .dpkg-new or the hash.                                             *)
(***************************************************************************)
ShippedVersionArrives ==
    /\ mishaps \cap {"dropped", "unnoted", "torn"} = {}
    /\ pc = "idle"
    /\ status \in {HALFCONFIGURED, INSTALLED}
    /\ ships \in Dist
    /\ ~own
    => file = ships

(***************************************************************************)
(* dpkg asks only about a file that is the user's doing.                   *)
(***************************************************************************)
AsksOnlyAboutChanges ==
    [][pc' = "prompt" /\ pc # "prompt" /\ mishaps \cap {"unnoted", "torn", "purge"} = {} => own]_vars

=============================================================================
