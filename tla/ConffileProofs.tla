--------------------------- MODULE ConffileProofs ---------------------------
(***************************************************************************)
(* Proofs about Conffile: whatever versions ship, and whatever the user    *)
(* writes and answers, what the user wrote is in place or in .dpkg-old,    *)
(* what a version ships arrives, and nobody is asked about nothing.        *)
(***************************************************************************)
EXTENDS Conffile, TLAPS

Asking   == {"prompt", "unlinkOldInstall", "link", "unlinkOld"}
Choosing == Asking \cup {"rename", "unlinkNew", "note"}
Purging  == {"purgeFile", "purgeBackups", "purgeList", "purgeNote", "purgeDone"}

(* While a conffile is being configured it is in the database, and what    *)
(* newdisthash was computed of is still there.                             *)
ChoiceOfCurrent ==
    /\ pc \in Choosing => Current /\ status = UNPACKED /\ newhash \in Dist
    /\ pc \in Choosing \ {"note"} => new = newhash
    /\ pc = "half" => status = UNPACKED

(* A package is only purged when its configuration is all that is left.    *)
PurgedOrRemoved ==
    /\ pc \in Purging => status = CONFIGFILES
    /\ pc \in {"extract", "postrm", "list", "update", "remove"} => status = HALFINSTALLED

(* The list of files and the conffiles of the database belong together.    *)
ListAgrees ==
    /\ listed /\ pc # "update" => entry # NoEntry
    /\ pc \in {"purgeNote", "purgeDone"} => ~listed
    /\ pc = "update" => listed = (newentry # NoEntry /\ newentry.flag # "remove")
    /\ Current /\ status >= UNPACKED => listed
    /\ Current /\ pc \in {"extract", "postrm"} /\ before >= UNPACKED => listed

Saved == precious \in {NoFile, old}

(* The hash of the version that dpkg has dealt with last.                  *)
HashOf(e, l) == IF l /\ e # NoEntry THEN e.hash ELSE NewConffile
DealtWith ==
    CASE pc = "note" -> newhash
      [] pc = "list" -> HashOf(newentry, newentry # NoEntry /\ newentry.flag # "remove")
      [] pc = "update" -> HashOf(newentry, listed)
      [] OTHER -> OldHash

Unchanged == file = DealtWith \/ (file = NoFile /\ DealtWith = NewConffile)

(* What the user wrote is in place, or it is saved and dpkg sees nothing   *)
(* to ask about, so nobody will touch .dpkg-old.                           *)
InPlaceOrSaved ==
    /\ precious \in {NoFile, file} \/ (Saved /\ Unchanged)
    /\ pc \in Asking \cup Purging => precious \in {NoFile, file}
    /\ pc \in Asking /\ userdel => precious = NoFile \/ pc \in {"link", "unlinkOld"}
    /\ pc = "link" => ~userdel
    /\ pc = "rename" => Saved
    /\ pc = "unlinkNew" => precious \in {NoFile, file} \/ file = newhash

Harmful == {"race", "nolink", "unnoted", "torn"}

(* A file that is not the user's doing is the version dpkg dealt with      *)
(* last, or dpkg remembers none; what is kept without a question is new.   *)
Forgetful == {"unnoted", "torn"}
KnownOrOwn ==
    /\ own \/ DealtWith \in {file, NewConffile}
    /\ pc = "unlinkNew" => own \/ file = newhash
    /\ pc = "unlinkOld" => own
    /\ pc \in {"purgeFile", "purgeBackups", "purgeList"} => OldHash = NewConffile

(* And where dpkg remembers none there is none, but for the moment between *)
(* the forgetting and the deletion of a purge.                             *)
NewIsAbsent == own \/ pc = "purgeFile" \/ DealtWith # NewConffile \/ file = NoFile

(* The status that the package had, and returns to after an error.         *)
Had == IF pc \in {"extract", "postrm"} THEN before ELSE status

(* What the installed version ships is known to the database, waits in     *)
(* .dpkg-new, and is in place once .dpkg-new is gone or was dealt with.    *)
Arriving ==
    /\ ships \in Dist => Current /\ Had > CONFIGFILES
    /\ pc \in {"list", "update"} /\ avail \in Dist =>
         newentry # NoEntry /\ newentry.flag = "current"
    /\ pc \in {"postrm", "list", "update"} /\ avail \in Dist => new = avail
    /\ ships \in Dist /\ Had >= UNPACKED /\ (pc = "postrm" => avail \notin Dist) =>
         new \in {NoFile, ships}
    /\ ships \in Dist /\ Had >= UNPACKED
       /\ (Had = UNPACKED => new = NoFile \/ pc \in {"note", "half"}) => own \/ file = ships

Inv ==
    /\ TypeOK
    /\ ChoiceOfCurrent
    /\ PurgedOrRemoved
    /\ "torn" \notin mishaps => ListAgrees
    /\ mishaps \cap Harmful = {} => InPlaceOrSaved
    /\ mishaps \cap Forgetful = {} => KnownOrOwn
    /\ mishaps \cap (Forgetful \cup {"purge"}) = {} => NewIsAbsent
    /\ mishaps \cap (Forgetful \cup {"dropped"}) = {} => Arriving

-----------------------------------------------------------------------------
(* What has gone wrong stays on record, in every step.                     *)
LEMMA MishapsGrow ==
    ASSUME [Next]_vars
    PROVE  mishaps \subseteq mishaps'
BY DEF Next, Dpkg, UnpackStart, Extract, UnpackFails, RemoveOld, WriteList, UpdateFields,
       UpdateFieldsWith, ConfigureNothing, Look, Answer, UnlinkOldInstall, Link, Rename,
       UnlinkOld,
       UnlinkNew, NoteHash, NoteHashOf, NoteHalfConfigured, Postinst, RemoveStart, PrermFails,
       RemoveFiles, PurgeStart, PurgeFile, PurgeBackups, PurgeList, PurgeNote, PurgeDone,
       UserWrites, Die, Happens, vars, history

(* Every step of dpkg and of the user keeps the types.                     *)
LEMMA TypeStep ==
    ASSUME TypeOK, ChoiceOfCurrent, [Next]_vars
    PROVE  TypeOK'
<1>. USE
     DEF TypeOK, Labels, Files, Contents, Offers, Entries, Status, CONFIGFILES, NOTINSTALLED,
         HALFINSTALLED, UNPACKED, HALFCONFIGURED, INSTALLED, ChoiceOfCurrent, Choosing, Asking,
         Current, database, unpack, choice, history
<1>1. ASSUME NEW v \in Offers, UnpackStart(v) PROVE TypeOK'
    BY <1>1 DEF UnpackStart
<1>2. CASE Extract
    BY <1>2 DEF Extract
<1>3. ASSUME NEW s \in Status, UnpackFails(s) PROVE TypeOK'
    BY <1>3 DEF UnpackFails, Restored, Happens, NoUnpack
<1>4. CASE RemoveOld
    <2>1. listed' \in BOOLEAN /\ userdel' \in BOOLEAN /\ own' \in BOOLEAN
        BY <1>4, Zenon DEF RemoveOld, RemoveOldShipped, RemoveOldObsolete,
           RemoveOldOnUpgrade, OldHash, Entry
    <2>. QED
        BY <2>1, <1>4 DEF RemoveOld, RemoveOldShipped, RemoveOldObsolete,
           RemoveOldOnUpgrade, OldHash, Entry
<1>5. CASE WriteList
    BY <1>5 DEF WriteList
<1>6. CASE UpdateFields
    BY <1>6 DEF UpdateFields, UpdateFieldsWith, NoUnpack
<1>7. CASE ConfigureNothing
    BY <1>7 DEF ConfigureNothing
<1>8. ASSUME NEW miss \in BOOLEAN, NEW ask \in BOOLEAN, Look(miss, ask) PROVE TypeOK'
    BY <1>8 DEF Look, Installs, Asks, UserEdited, DistEdited
<1>9. ASSUME NEW install \in BOOLEAN, Answer(install) PROVE TypeOK'
    BY <1>9 DEF Answer
<1>10. CASE UnlinkOldInstall
    BY <1>10 DEF UnlinkOldInstall
<1>11. ASSUME NEW ok \in BOOLEAN, Link(ok) PROVE TypeOK'
    BY <1>11 DEF Link, Happens
<1>12. CASE Rename
    <2>1. listed' \in BOOLEAN /\ userdel' \in BOOLEAN /\ own' \in BOOLEAN
        BY <1>12, Zenon DEF Rename
    <2>. QED
        BY <2>1, <1>12 DEF Rename
<1>13. CASE UnlinkOld
    BY <1>13 DEF UnlinkOld
<1>14. CASE UnlinkNew
    BY <1>14 DEF UnlinkNew
<1>15. CASE NoteHash
    <2>1. listed' \in BOOLEAN /\ userdel' \in BOOLEAN /\ own' \in BOOLEAN
        BY <1>15, Zenon DEF NoteHash, NoteHashOf, NoChoice
    <2>. QED
        BY <2>1, <1>15 DEF NoteHash, NoteHashOf, NoChoice
<1>16. CASE NoteHalfConfigured
    BY <1>16 DEF NoteHalfConfigured
<1>17. CASE Postinst
    BY <1>17 DEF Postinst
<1>18. CASE RemoveStart
    BY <1>18 DEF RemoveStart
<1>19. CASE PrermFails
    BY <1>19 DEF PrermFails
<1>20. ASSUME NEW s \in Status, RemoveFiles(s) PROVE TypeOK'
    <2>1. listed' \in BOOLEAN /\ userdel' \in BOOLEAN /\ own' \in BOOLEAN
        BY <1>20, Zenon DEF RemoveFiles
    <2>. QED
        BY <2>1, <1>20 DEF RemoveFiles
<1>21. CASE PurgeStart
    BY <1>21 DEF PurgeStart
<1>22. CASE PurgeFile
    <2>1. listed' \in BOOLEAN /\ userdel' \in BOOLEAN /\ own' \in BOOLEAN
        BY <1>22, Zenon DEF PurgeFile
    <2>. QED
        BY <2>1, <1>22 DEF PurgeFile
<1>23. CASE PurgeBackups
    BY <1>23 DEF PurgeBackups
<1>24. CASE PurgeList
    <2>1. listed' \in BOOLEAN /\ userdel' \in BOOLEAN /\ own' \in BOOLEAN
        BY <1>24, Zenon DEF PurgeList
    <2>. QED
        BY <2>1, <1>24 DEF PurgeList
<1>25. CASE PurgeNote
    BY <1>25 DEF PurgeNote
<1>26. CASE PurgeDone
    <2>1. listed' \in BOOLEAN /\ userdel' \in BOOLEAN /\ own' \in BOOLEAN
        BY <1>26, Zenon DEF PurgeDone
    <2>. QED
        BY <2>1, <1>26 DEF PurgeDone
<1>27. ASSUME NEW c \in Files, UserWrites(c) PROVE TypeOK'
    BY <1>27 DEF UserWrites, Happens, Race, WillSave
<1>28. CASE Die
    <2>1. listed' \in BOOLEAN /\ userdel' \in BOOLEAN /\ own' \in BOOLEAN
        BY <1>28, Zenon DEF Die, Happens, Mishap, NoUnpack, NoChoice
    <2>. QED
        BY <2>1, <1>28 DEF Die, Happens, Mishap, NoUnpack, NoChoice
<1>29. CASE UNCHANGED vars
    BY <1>29 DEF vars
<1>. QED
    BY <1>1, <1>2, <1>3, <1>4, <1>5, <1>6, <1>7, <1>8, <1>9, <1>10, <1>11, <1>12, <1>13, <1>14,
       <1>15, <1>16, <1>17, <1>18, <1>19, <1>20, <1>21, <1>22, <1>23, <1>24, <1>25, <1>26,
       <1>27, <1>28, <1>29 DEF Next, Dpkg

(* A step of deferred_configure_conffile() keeps what it has found, and    *)
(* nothing else starts meanwhile.                                          *)
LEMMA ChoiceStep ==
    ASSUME TypeOK, ChoiceOfCurrent, PurgedOrRemoved, [Next]_vars
    PROVE  ChoiceOfCurrent' /\ PurgedOrRemoved'
<1>. USE
     DEF ChoiceOfCurrent, PurgedOrRemoved, Choosing, Asking, Purging, Current, CONFIGFILES,
         NOTINSTALLED, HALFINSTALLED, UNPACKED, HALFCONFIGURED, INSTALLED, TypeOK, Labels,
         Files, Contents, Offers, Entries, database, unpack, choice, history
<1>1. ASSUME NEW v \in Offers, UnpackStart(v) PROVE ChoiceOfCurrent' /\ PurgedOrRemoved'
    BY <1>1 DEF UnpackStart
<1>2. CASE Extract
    BY <1>2 DEF Extract
<1>3. ASSUME NEW s \in Status, UnpackFails(s) PROVE ChoiceOfCurrent' /\ PurgedOrRemoved'
    BY <1>3 DEF UnpackFails, Restored, Happens, NoUnpack
<1>4. CASE RemoveOld
    BY <1>4 DEF RemoveOld, RemoveOldShipped, RemoveOldObsolete, RemoveOldOnUpgrade, OldHash,
       Entry
<1>5. CASE WriteList
    BY <1>5 DEF WriteList
<1>6. CASE UpdateFields
    BY <1>6 DEF UpdateFields, UpdateFieldsWith, NoUnpack
<1>7. CASE ConfigureNothing
    BY <1>7 DEF ConfigureNothing
<1>8. ASSUME NEW miss \in BOOLEAN, NEW ask \in BOOLEAN, Look(miss, ask) PROVE ChoiceOfCurrent' /\ PurgedOrRemoved'
    BY <1>8 DEF Look, Installs, Asks, UserEdited, DistEdited
<1>9. ASSUME NEW install \in BOOLEAN, Answer(install) PROVE ChoiceOfCurrent' /\ PurgedOrRemoved'
    BY <1>9 DEF Answer
<1>10. CASE UnlinkOldInstall
    BY <1>10 DEF UnlinkOldInstall
<1>11. ASSUME NEW ok \in BOOLEAN, Link(ok) PROVE ChoiceOfCurrent' /\ PurgedOrRemoved'
    BY <1>11 DEF Link, Happens
<1>12. CASE Rename
    BY <1>12 DEF Rename
<1>13. CASE UnlinkOld
    BY <1>13 DEF UnlinkOld
<1>14. CASE UnlinkNew
    BY <1>14 DEF UnlinkNew
<1>15. CASE NoteHash
    BY <1>15 DEF NoteHash, NoteHashOf, NoChoice
<1>16. CASE NoteHalfConfigured
    BY <1>16 DEF NoteHalfConfigured
<1>17. CASE Postinst
    BY <1>17 DEF Postinst
<1>18. CASE RemoveStart
    BY <1>18 DEF RemoveStart
<1>19. CASE PrermFails
    BY <1>19 DEF PrermFails
<1>20. ASSUME NEW s \in Status, RemoveFiles(s) PROVE ChoiceOfCurrent' /\ PurgedOrRemoved'
    BY <1>20 DEF RemoveFiles
<1>21. CASE PurgeStart
    BY <1>21 DEF PurgeStart
<1>22. CASE PurgeFile
    BY <1>22 DEF PurgeFile
<1>23. CASE PurgeBackups
    BY <1>23 DEF PurgeBackups
<1>24. CASE PurgeList
    BY <1>24 DEF PurgeList
<1>25. CASE PurgeNote
    BY <1>25 DEF PurgeNote
<1>26. CASE PurgeDone
    BY <1>26 DEF PurgeDone
<1>27. ASSUME NEW c \in Files, UserWrites(c) PROVE ChoiceOfCurrent' /\ PurgedOrRemoved'
    BY <1>27 DEF UserWrites, Happens, Race, WillSave
<1>28. CASE Die
    BY <1>28 DEF Die, Happens, Mishap, NoUnpack, NoChoice
<1>29. CASE UNCHANGED vars
    BY <1>29 DEF vars
<1>. QED
    BY <1>1, <1>2, <1>3, <1>4, <1>5, <1>6, <1>7, <1>8, <1>9, <1>10, <1>11, <1>12, <1>13, <1>14,
       <1>15, <1>16, <1>17, <1>18, <1>19, <1>20, <1>21, <1>22, <1>23, <1>24, <1>25, <1>26,
       <1>27, <1>28, <1>29 DEF Next, Dpkg

(* Without an accident the list of files and the database stay together.   *)
LEMMA ListStep ==
    ASSUME TypeOK, ChoiceOfCurrent, PurgedOrRemoved, ListAgrees,
           "torn" \notin mishaps', [Next]_vars
    PROVE  ListAgrees'
<1>. USE
     DEF ListAgrees, Current, CONFIGFILES, NOTINSTALLED, HALFINSTALLED, UNPACKED,
         HALFCONFIGURED, INSTALLED, TypeOK, Labels, Entries, Status, ChoiceOfCurrent,
         PurgedOrRemoved, Choosing, Asking, Purging, database, unpack, choice, history
<1>1. ASSUME NEW v \in Offers, UnpackStart(v) PROVE ListAgrees'
    BY <1>1 DEF UnpackStart
<1>2. CASE Extract
    BY <1>2 DEF Extract
<1>3. ASSUME NEW s \in Status, UnpackFails(s) PROVE ListAgrees'
    BY <1>3 DEF UnpackFails, Restored, Happens, NoUnpack
<1>4. CASE RemoveOld
    BY <1>4 DEF RemoveOld, RemoveOldShipped, RemoveOldObsolete, RemoveOldOnUpgrade, OldHash,
       Entry
<1>5. CASE WriteList
    BY <1>5 DEF WriteList
<1>6. CASE UpdateFields
    BY <1>6 DEF UpdateFields, UpdateFieldsWith, NoUnpack
<1>7. CASE ConfigureNothing
    BY <1>7 DEF ConfigureNothing
<1>8. ASSUME NEW miss \in BOOLEAN, NEW ask \in BOOLEAN, Look(miss, ask) PROVE ListAgrees'
    BY <1>8 DEF Look, Installs, Asks, UserEdited, DistEdited
<1>9. ASSUME NEW install \in BOOLEAN, Answer(install) PROVE ListAgrees'
    BY <1>9 DEF Answer
<1>10. CASE UnlinkOldInstall
    BY <1>10 DEF UnlinkOldInstall
<1>11. ASSUME NEW ok \in BOOLEAN, Link(ok) PROVE ListAgrees'
    BY <1>11 DEF Link, Happens
<1>12. CASE Rename
    BY <1>12 DEF Rename
<1>13. CASE UnlinkOld
    BY <1>13 DEF UnlinkOld
<1>14. CASE UnlinkNew
    BY <1>14 DEF UnlinkNew
<1>15. CASE NoteHash
    <2>1. entry \in Entries /\ newhash \in Dist
        BY <1>15 DEF NoteHash, NoteHashOf, TypeOK, ChoiceOfCurrent, Choosing
    <2>2. entry' \in Entries /\ entry'.flag = entry.flag
        BY <1>15, <2>1 DEF NoteHash, NoteHashOf, Entries
    <2>. QED
        BY <1>15, <2>1, <2>2, NoEntryAssumption DEF NoteHash, NoteHashOf, unpack, choice,
           history
<1>16. CASE NoteHalfConfigured
    BY <1>16 DEF NoteHalfConfigured
<1>17. CASE Postinst
    BY <1>17 DEF Postinst
<1>18. CASE RemoveStart
    BY <1>18 DEF RemoveStart
<1>19. CASE PrermFails
    BY <1>19 DEF PrermFails
<1>20. ASSUME NEW s \in Status, RemoveFiles(s) PROVE ListAgrees'
    BY <1>20 DEF RemoveFiles
<1>21. CASE PurgeStart
    <2>1. CASE listed /\ entry # NoEntry
        <3>1. entry' \in Entries /\ entry'.flag = entry.flag
            BY <1>21, <2>1 DEF PurgeStart, TypeOK, Entries
        <3>2. entry' # NoEntry /\ pc' = "purgeFile"
            BY <1>21, <3>1, NoEntryAssumption DEF PurgeStart
        <3>. QED
            BY <1>21, <2>1, <3>1, <3>2 DEF PurgeStart
    <2>2. CASE ~(listed /\ entry # NoEntry)
        BY <1>21, <2>2 DEF PurgeStart
    <2>. QED
        BY <2>1, <2>2
<1>22. CASE PurgeFile
    BY <1>22 DEF PurgeFile
<1>23. CASE PurgeBackups
    BY <1>23 DEF PurgeBackups
<1>24. CASE PurgeList
    BY <1>24 DEF PurgeList
<1>25. CASE PurgeNote
    BY <1>25 DEF PurgeNote
<1>26. CASE PurgeDone
    BY <1>26 DEF PurgeDone
<1>27. ASSUME NEW c \in Files, UserWrites(c) PROVE ListAgrees'
    BY <1>27 DEF UserWrites, Happens, Race, WillSave
<1>28. CASE Die
    BY <1>28 DEF Die, Happens, Mishap, NoUnpack, NoChoice
<1>29. CASE UNCHANGED vars
    BY <1>29 DEF vars
<1>. QED
    BY <1>1, <1>2, <1>3, <1>4, <1>5, <1>6, <1>7, <1>8, <1>9, <1>10, <1>11, <1>12, <1>13, <1>14,
       <1>15, <1>16, <1>17, <1>18, <1>19, <1>20, <1>21, <1>22, <1>23, <1>24, <1>25, <1>26,
       <1>27, <1>28, <1>29 DEF Next, Dpkg

(* Without an accident nothing deletes the only copy of what the user      *)
(* wrote.                                                                  *)
LEMMA SavedStep ==
    ASSUME TypeOK, ChoiceOfCurrent, PurgedOrRemoved, ListAgrees, InPlaceOrSaved,
           mishaps' \cap Harmful = {}, [Next]_vars
    PROVE  InPlaceOrSaved'
<1>. USE ContentsAssumption, NoEntryAssumption
     DEF InPlaceOrSaved, Saved, Unchanged, DealtWith, HashOf, OldHash, Asking, Purging, Harmful,
         CONFIGFILES, NOTINSTALLED, HALFINSTALLED, UNPACKED, HALFCONFIGURED, INSTALLED, TypeOK,
         Labels, Files, Contents, Entries, ListAgrees, ChoiceOfCurrent, PurgedOrRemoved,
         Choosing, Current, database, unpack, choice, history
<1>1. ASSUME NEW v \in Offers, UnpackStart(v) PROVE InPlaceOrSaved'
    BY <1>1 DEF UnpackStart
<1>2. CASE Extract
    BY <1>2 DEF Extract
<1>3. ASSUME NEW s \in Status, UnpackFails(s) PROVE InPlaceOrSaved'
    BY <1>3 DEF UnpackFails, Restored, Happens, NoUnpack
<1>4. CASE RemoveOld
    BY <1>4 DEF RemoveOld, RemoveOldShipped, RemoveOldObsolete, RemoveOldOnUpgrade, OldHash,
       Entry
<1>5. CASE WriteList
    BY <1>5 DEF WriteList
<1>6. CASE UpdateFields
    BY <1>6 DEF UpdateFields, UpdateFieldsWith, NoUnpack
<1>7. CASE ConfigureNothing
    BY <1>7 DEF ConfigureNothing
<1>8. ASSUME NEW miss \in BOOLEAN, NEW ask \in BOOLEAN, Look(miss, ask) PROVE InPlaceOrSaved'
    <2>1. Current /\ listed /\ OldHash = entry.hash /\ entry.hash \in Dist \cup {NewConffile}
        BY <1>8 DEF Look, ListAgrees, Current, TypeOK, Entries
    <2>2. /\ pc = "idle" /\ new \in Dist /\ newhash' = new /\ userdel' = (file = NoFile)
          /\ UNCHANGED <<file, old, entry, listed, precious>>
          /\ pc' \in {"unlinkNew", "rename", "prompt"}
        BY <1>8 DEF Look, TypeOK, database, history
    <2>3. CASE precious \in {NoFile, file}
        <3>1. pc' = "rename" => precious = NoFile
            <4>. SUFFICES ASSUME pc' = "rename" PROVE precious = NoFile
                OBVIOUS
            <4>1. Installs(miss)
                BY <1>8 DEF Look
            <4>2. file = NoFile \/ file = entry.hash
                BY <4>1 DEF Installs, UserEdited
            <4>. QED
                BY <4>2, <2>1, <2>3 DEF TypeOK
        <3>. QED
            BY <2>1, <2>2, <2>3, <3>1
    <2>4. CASE precious \notin {NoFile, file}
        <3>1. Saved /\ (file = entry.hash \/ (file = NoFile /\ entry.hash = NewConffile))
            BY <2>1, <2>2, <2>4
        <3>2. pc' # "prompt" /\ (pc' = "unlinkNew" => file = new)
            <4>1. file # new => Installs(miss)
                BY <2>1, <3>1 DEF Installs, UserEdited, DistEdited, TypeOK, Files, Contents
            <4>2. CASE file = new
                BY <1>8, <4>2 DEF Look
            <4>3. CASE file # new
                <5>1. pc' = "rename"
                    BY <1>8, <4>1, <4>3 DEF Look, Asks
                <5>. QED
                    BY <5>1
            <4>. QED
                BY <4>2, <4>3
        <3>. QED
            BY <2>1, <2>2, <2>4, <3>1, <3>2
    <2>. QED
        BY <2>3, <2>4
<1>9. ASSUME NEW install \in BOOLEAN, Answer(install) PROVE InPlaceOrSaved'
    BY <1>9 DEF Answer
<1>10. CASE UnlinkOldInstall
    BY <1>10 DEF UnlinkOldInstall
<1>11. ASSUME NEW ok \in BOOLEAN, Link(ok) PROVE InPlaceOrSaved'
    BY <1>11 DEF Link, Happens
<1>12. CASE Rename
    BY <1>12 DEF Rename
<1>13. CASE UnlinkOld
    BY <1>13 DEF UnlinkOld
<1>14. CASE UnlinkNew
    BY <1>14 DEF UnlinkNew
<1>15. CASE NoteHash
    BY <1>15 DEF NoteHash, NoteHashOf, NoChoice
<1>16. CASE NoteHalfConfigured
    BY <1>16 DEF NoteHalfConfigured
<1>17. CASE Postinst
    BY <1>17 DEF Postinst
<1>18. CASE RemoveStart
    BY <1>18 DEF RemoveStart
<1>19. CASE PrermFails
    BY <1>19 DEF PrermFails
<1>20. ASSUME NEW s \in Status, RemoveFiles(s) PROVE InPlaceOrSaved'
    BY <1>20 DEF RemoveFiles
<1>21. CASE PurgeStart
    BY <1>21 DEF PurgeStart
<1>22. CASE PurgeFile
    BY <1>22 DEF PurgeFile
<1>23. CASE PurgeBackups
    BY <1>23 DEF PurgeBackups
<1>24. CASE PurgeList
    BY <1>24 DEF PurgeList
<1>25. CASE PurgeNote
    BY <1>25 DEF PurgeNote
<1>26. CASE PurgeDone
    BY <1>26 DEF PurgeDone
<1>27. ASSUME NEW c \in Files, UserWrites(c) PROVE InPlaceOrSaved'
    BY <1>27 DEF UserWrites, Happens, Race, WillSave
<1>28. CASE Die
    BY <1>28 DEF Die, Happens, Mishap, NoUnpack, NoChoice
<1>29. CASE UNCHANGED vars
    BY <1>29 DEF vars
<1>. QED
    BY <1>1, <1>2, <1>3, <1>4, <1>5, <1>6, <1>7, <1>8, <1>9, <1>10, <1>11, <1>12, <1>13, <1>14,
       <1>15, <1>16, <1>17, <1>18, <1>19, <1>20, <1>21, <1>22, <1>23, <1>24, <1>25, <1>26,
       <1>27, <1>28, <1>29 DEF Next, Dpkg

(* Without an accident dpkg knows every file that is not the user's doing. *)
LEMMA KnownStep ==
    ASSUME TypeOK, ChoiceOfCurrent, PurgedOrRemoved, ListAgrees, KnownOrOwn,
           mishaps' \cap Forgetful = {}, [Next]_vars
    PROVE  KnownOrOwn'
<1>. USE ContentsAssumption, NoEntryAssumption
     DEF KnownOrOwn, DealtWith, HashOf, OldHash, Forgetful, CONFIGFILES, NOTINSTALLED,
        HALFINSTALLED, UNPACKED, HALFCONFIGURED, INSTALLED,
         TypeOK, Labels, Files, Contents, Entries, ListAgrees, ChoiceOfCurrent,
         Choosing, Asking, Current, database, unpack, choice, history
<1>1. ASSUME NEW v \in Offers, UnpackStart(v) PROVE KnownOrOwn'
    BY <1>1 DEF UnpackStart
<1>2. CASE Extract
    BY <1>2 DEF Extract
<1>3. ASSUME NEW s \in Status, UnpackFails(s) PROVE KnownOrOwn'
    BY <1>3 DEF UnpackFails, Restored, Happens, NoUnpack
<1>4. CASE RemoveOld
    BY <1>4 DEF RemoveOld, RemoveOldShipped, RemoveOldObsolete, RemoveOldOnUpgrade, Entry
<1>5. CASE WriteList
    BY <1>5 DEF WriteList
<1>6. CASE UpdateFields
    BY <1>6 DEF UpdateFields, UpdateFieldsWith, NoUnpack
<1>7. CASE ConfigureNothing
    BY <1>7 DEF ConfigureNothing
<1>8. ASSUME NEW miss \in BOOLEAN, NEW ask \in BOOLEAN, Look(miss, ask) PROVE KnownOrOwn'
    BY <1>8 DEF Look, Installs, Asks, UserEdited, DistEdited
<1>9. ASSUME NEW install \in BOOLEAN, Answer(install) PROVE KnownOrOwn'
    BY <1>9 DEF Answer
<1>10. CASE UnlinkOldInstall
    BY <1>10 DEF UnlinkOldInstall
<1>11. ASSUME NEW ok \in BOOLEAN, Link(ok) PROVE KnownOrOwn'
    BY <1>11 DEF Link, Happens
<1>12. CASE Rename
    BY <1>12 DEF Rename
<1>13. CASE UnlinkOld
    BY <1>13 DEF UnlinkOld
<1>14. CASE UnlinkNew
    BY <1>14 DEF UnlinkNew
<1>15. CASE NoteHash
    BY <1>15 DEF NoteHash, NoteHashOf, NoChoice
<1>16. CASE NoteHalfConfigured
    BY <1>16 DEF NoteHalfConfigured
<1>17. CASE Postinst
    BY <1>17 DEF Postinst
<1>18. CASE RemoveStart
    BY <1>18 DEF RemoveStart
<1>19. CASE PrermFails
    BY <1>19 DEF PrermFails
<1>20. ASSUME NEW s \in Status, RemoveFiles(s) PROVE KnownOrOwn'
    BY <1>20 DEF RemoveFiles
<1>21. CASE PurgeStart
    BY <1>21 DEF PurgeStart
<1>22. CASE PurgeFile
    BY <1>22 DEF PurgeFile
<1>23. CASE PurgeBackups
    BY <1>23 DEF PurgeBackups
<1>24. CASE PurgeList
    BY <1>24 DEF PurgeList
<1>25. CASE PurgeNote
    BY <1>25 DEF PurgeNote
<1>26. CASE PurgeDone
    BY <1>26 DEF PurgeDone
<1>27. ASSUME NEW c \in Files, UserWrites(c) PROVE KnownOrOwn'
    BY <1>27 DEF UserWrites, Happens
<1>28. CASE Die
    BY <1>28 DEF Die, Happens, Mishap, NoUnpack, NoChoice
<1>29. CASE UNCHANGED vars
    BY <1>29 DEF vars
<1>. QED
    BY <1>1, <1>2, <1>3, <1>4, <1>5, <1>6, <1>7, <1>8, <1>9, <1>10, <1>11, <1>12, <1>13, <1>14,
       <1>15, <1>16, <1>17, <1>18, <1>19, <1>20, <1>21, <1>22, <1>23, <1>24, <1>25, <1>26,
       <1>27, <1>28, <1>29 DEF Next, Dpkg

(* Without an interrupted purge a file that dpkg does not know is not      *)
(* there, or is the user's doing.                                          *)
LEMMA AbsentStep ==
    ASSUME TypeOK, ChoiceOfCurrent, PurgedOrRemoved, ListAgrees, KnownOrOwn,
           NewIsAbsent, mishaps' \cap (Forgetful \cup {"purge"}) = {}, [Next]_vars
    PROVE  NewIsAbsent'
<1>. USE ContentsAssumption, NoEntryAssumption
     DEF NewIsAbsent, KnownOrOwn, DealtWith, HashOf, OldHash, Forgetful, CONFIGFILES,
        NOTINSTALLED,
        HALFINSTALLED, UNPACKED, HALFCONFIGURED, INSTALLED,
         TypeOK, Labels, Files, Contents, Entries, ListAgrees, ChoiceOfCurrent, PurgedOrRemoved,
         Choosing, Asking, Purging, Current, database, unpack, choice, history
<1>1. ASSUME NEW v \in Offers, UnpackStart(v) PROVE NewIsAbsent'
    BY <1>1 DEF UnpackStart
<1>2. CASE Extract
    BY <1>2 DEF Extract
<1>3. ASSUME NEW s \in Status, UnpackFails(s) PROVE NewIsAbsent'
    BY <1>3 DEF UnpackFails, Restored, Happens, NoUnpack
<1>4. CASE RemoveOld
    BY <1>4 DEF RemoveOld, RemoveOldShipped, RemoveOldObsolete, RemoveOldOnUpgrade, Entry
<1>5. CASE WriteList
    BY <1>5 DEF WriteList
<1>6. CASE UpdateFields
    BY <1>6 DEF UpdateFields, UpdateFieldsWith, NoUnpack
<1>7. CASE ConfigureNothing
    BY <1>7 DEF ConfigureNothing
<1>8. ASSUME NEW miss \in BOOLEAN, NEW ask \in BOOLEAN, Look(miss, ask) PROVE NewIsAbsent'
    BY <1>8 DEF Look, Installs, Asks, UserEdited, DistEdited
<1>9. ASSUME NEW install \in BOOLEAN, Answer(install) PROVE NewIsAbsent'
    BY <1>9 DEF Answer
<1>10. CASE UnlinkOldInstall
    BY <1>10 DEF UnlinkOldInstall
<1>11. ASSUME NEW ok \in BOOLEAN, Link(ok) PROVE NewIsAbsent'
    BY <1>11 DEF Link, Happens
<1>12. CASE Rename
    BY <1>12 DEF Rename
<1>13. CASE UnlinkOld
    BY <1>13 DEF UnlinkOld
<1>14. CASE UnlinkNew
    BY <1>14 DEF UnlinkNew
<1>15. CASE NoteHash
    BY <1>15 DEF NoteHash, NoteHashOf, NoChoice
<1>16. CASE NoteHalfConfigured
    BY <1>16 DEF NoteHalfConfigured
<1>17. CASE Postinst
    BY <1>17 DEF Postinst
<1>18. CASE RemoveStart
    BY <1>18 DEF RemoveStart
<1>19. CASE PrermFails
    BY <1>19 DEF PrermFails
<1>20. ASSUME NEW s \in Status, RemoveFiles(s) PROVE NewIsAbsent'
    BY <1>20 DEF RemoveFiles
<1>21. CASE PurgeStart
    BY <1>21 DEF PurgeStart
<1>22. CASE PurgeFile
    BY <1>22 DEF PurgeFile
<1>23. CASE PurgeBackups
    BY <1>23 DEF PurgeBackups
<1>24. CASE PurgeList
    BY <1>24 DEF PurgeList
<1>25. CASE PurgeNote
    BY <1>25 DEF PurgeNote
<1>26. CASE PurgeDone
    BY <1>26 DEF PurgeDone
<1>27. ASSUME NEW c \in Files, UserWrites(c) PROVE NewIsAbsent'
    BY <1>27 DEF UserWrites, Happens
<1>28. CASE Die
    BY <1>28 DEF Die, Happens, Mishap, NoUnpack, NoChoice
<1>29. CASE UNCHANGED vars
    BY <1>29 DEF vars
<1>. QED
    BY <1>1, <1>2, <1>3, <1>4, <1>5, <1>6, <1>7, <1>8, <1>9, <1>10, <1>11, <1>12, <1>13, <1>14,
       <1>15, <1>16, <1>17, <1>18, <1>19, <1>20, <1>21, <1>22, <1>23, <1>24, <1>25, <1>26,
       <1>27, <1>28, <1>29 DEF Next, Dpkg

(* Without a loss of .dpkg-new or of the hash the shipped version arrives. *)
LEMMA ArriveStep ==
    ASSUME TypeOK, ChoiceOfCurrent, PurgedOrRemoved, KnownOrOwn, Arriving,
           mishaps' \cap (Forgetful \cup {"dropped"}) = {}, [Next]_vars
    PROVE  Arriving'
<1>. USE ContentsAssumption, OfferAssumption, NoEntryAssumption
     DEF Arriving, Had, KnownOrOwn, Forgetful, CONFIGFILES, NOTINSTALLED, HALFINSTALLED,
        UNPACKED, HALFCONFIGURED, INSTALLED,
         TypeOK, Labels, Files, Contents, Offers, Entries, Status, ChoiceOfCurrent,
         PurgedOrRemoved,
         Choosing, Asking, Purging, Current, database, unpack, choice, history
<1>1. ASSUME NEW v \in Offers, UnpackStart(v) PROVE Arriving'
    BY <1>1 DEF UnpackStart
<1>2. CASE Extract
    BY <1>2 DEF Extract
<1>3. ASSUME NEW s \in Status, UnpackFails(s) PROVE Arriving'
    BY <1>3 DEF UnpackFails, Restored, Happens, NoUnpack
<1>4. CASE RemoveOld
    <2>1. Entry("current") \in Entries /\ Entry("current").flag = "current"
        BY DEF Entry, OldHash
    <2>2. avail \in Dist => newentry' = Entry("current")
        BY <1>4 DEF RemoveOld, RemoveOldShipped, RemoveOldObsolete, RemoveOldOnUpgrade
    <2>3. avail \in Dist => newentry' # NoEntry /\ newentry'.flag = "current"
        BY <2>1, <2>2
    <2>4. /\ pc = "postrm" /\ pc' = "list" /\ status = HALFINSTALLED
          /\ UNCHANGED <<new, status, entry, ships, avail>>
        BY <1>4 DEF RemoveOld
    <2>. QED
        BY <2>3, <2>4
<1>5. CASE WriteList
    BY <1>5 DEF WriteList
<1>6. CASE UpdateFields
    BY <1>6 DEF UpdateFields, UpdateFieldsWith, NoUnpack
<1>7. CASE ConfigureNothing
    BY <1>7 DEF ConfigureNothing
<1>8. ASSUME NEW miss \in BOOLEAN, NEW ask \in BOOLEAN, Look(miss, ask) PROVE Arriving'
    BY <1>8 DEF Look, Installs, Asks, UserEdited, DistEdited
<1>9. ASSUME NEW install \in BOOLEAN, Answer(install) PROVE Arriving'
    BY <1>9 DEF Answer
<1>10. CASE UnlinkOldInstall
    BY <1>10 DEF UnlinkOldInstall
<1>11. ASSUME NEW ok \in BOOLEAN, Link(ok) PROVE Arriving'
    BY <1>11 DEF Link, Happens
<1>12. CASE Rename
    BY <1>12 DEF Rename
<1>13. CASE UnlinkOld
    BY <1>13 DEF UnlinkOld
<1>14. CASE UnlinkNew
    BY <1>14 DEF UnlinkNew
<1>15. CASE NoteHash
    BY <1>15 DEF NoteHash, NoteHashOf, NoChoice
<1>16. CASE NoteHalfConfigured
    BY <1>16 DEF NoteHalfConfigured
<1>17. CASE Postinst
    BY <1>17 DEF Postinst
<1>18. CASE RemoveStart
    BY <1>18 DEF RemoveStart
<1>19. CASE PrermFails
    BY <1>19 DEF PrermFails
<1>20. ASSUME NEW s \in Status, RemoveFiles(s) PROVE Arriving'
    BY <1>20 DEF RemoveFiles
<1>21. CASE PurgeStart
    BY <1>21 DEF PurgeStart
<1>22. CASE PurgeFile
    BY <1>22 DEF PurgeFile
<1>23. CASE PurgeBackups
    BY <1>23 DEF PurgeBackups
<1>24. CASE PurgeList
    BY <1>24 DEF PurgeList
<1>25. CASE PurgeNote
    BY <1>25 DEF PurgeNote
<1>26. CASE PurgeDone
    BY <1>26 DEF PurgeDone
<1>27. ASSUME NEW c \in Files, UserWrites(c) PROVE Arriving'
    BY <1>27 DEF UserWrites, Happens
<1>28. CASE Die
    BY <1>28 DEF Die, Happens, Mishap, NoUnpack, NoChoice
<1>29. CASE UNCHANGED vars
    BY <1>29 DEF vars
<1>. QED
    BY <1>1, <1>2, <1>3, <1>4, <1>5, <1>6, <1>7, <1>8, <1>9, <1>10, <1>11, <1>12, <1>13, <1>14,
       <1>15, <1>16, <1>17, <1>18, <1>19, <1>20, <1>21, <1>22, <1>23, <1>24, <1>25, <1>26,
       <1>27, <1>28, <1>29 DEF Next, Dpkg

-----------------------------------------------------------------------------
(* Inv holds initially, and every step of dpkg and of the user keeps it.   *)
THEOREM Invariance == Spec => []Inv
<1>1. Init => Inv
    <2>. SUFFICES ASSUME Init PROVE Inv
        OBVIOUS
    <2>1. TypeOK
        <3>1. listed \in BOOLEAN /\ userdel \in BOOLEAN /\ own \in BOOLEAN
            BY Zenon DEF Init
        <3>. QED
            BY <3>1 DEF Init, TypeOK, Labels, Files, Contents, Offers, Entries, Status,
               NOTINSTALLED, INSTALLED
    <2>2. ChoiceOfCurrent /\ PurgedOrRemoved
        BY DEF Init, ChoiceOfCurrent, PurgedOrRemoved, Choosing, Asking, Purging
    <2>3. ListAgrees
        BY DEF Init, ListAgrees, Current
    <2>4. InPlaceOrSaved
        BY DEF Init, InPlaceOrSaved, Asking, Purging
    <2>5. KnownOrOwn /\ NewIsAbsent
        BY DEF Init, KnownOrOwn, NewIsAbsent, DealtWith, OldHash
    <2>6. Arriving
        BY OfferAssumption DEF Init, Arriving
    <2>. QED
        BY <2>1, <2>2, <2>3, <2>4, <2>5, <2>6 DEF Inv
<1>2. Inv /\ [Next]_vars => Inv'
    <2>. SUFFICES ASSUME Inv, [Next]_vars PROVE Inv'
        OBVIOUS
    <2>1. TypeOK' /\ ChoiceOfCurrent' /\ PurgedOrRemoved'
        BY TypeStep, ChoiceStep DEF Inv
    <2>2. mishaps \subseteq mishaps'
        BY MishapsGrow
    <2>3. ASSUME "torn" \notin mishaps' PROVE ListAgrees /\ ListAgrees'
        BY <2>2, <2>3, ListStep DEF Inv
    <2>4. ASSUME mishaps' \cap Harmful = {} PROVE InPlaceOrSaved'
        BY <2>2, <2>3, <2>4, SavedStep DEF Inv, Harmful
    <2>5. ASSUME mishaps' \cap Forgetful = {} PROVE KnownOrOwn'
        BY <2>2, <2>3, <2>5, KnownStep DEF Inv, Forgetful
    <2>6. ASSUME mishaps' \cap (Forgetful \cup {"purge"}) = {} PROVE NewIsAbsent'
        BY <2>2, <2>3, <2>6, AbsentStep DEF Inv, Forgetful
    <2>7. ASSUME mishaps' \cap (Forgetful \cup {"dropped"}) = {} PROVE Arriving'
        BY <2>2, <2>7, ArriveStep DEF Inv, Forgetful
    <2>. QED
        BY <2>1, <2>3, <2>4, <2>5, <2>6, <2>7 DEF Inv
<1>. QED
    BY <1>1, <1>2, PTL DEF Spec

(* The variables keep their types; in particular the hash that the         *)
(* database has of a conffile is that of a shipped version, whatever the   *)
(* user writes and wherever dpkg dies.                                     *)
THEOREM TypeCorrect == Spec => []TypeOK
BY Invariance, PTL DEF Inv

(* What the user wrote is in place or in .dpkg-old, over any sequence of   *)
(* upgrades, removals, answers and deaths, for any versions and contents:  *)
(* deferred_configure_conffile() deletes .dpkg-old only when the file in   *)
(* place is the user's.                                                    *)
THEOREM UserVersionsAreKept == Spec => []UserVersionKept
<1>1. Inv => UserVersionKept
    BY DEF Inv, InPlaceOrSaved, Saved, Harmful, UserVersionKept
<1>. QED
    BY <1>1, Invariance, PTL

(* A configured package has the conffile that its version ships, unless    *)
(* the user wrote, deleted or kept another: whatever happens between the   *)
(* unpacking and deferred_configure_conffile(), .dpkg-new is put in place. *)
THEOREM ShippedVersionsArrive == Spec => []ShippedVersionArrives
<1>1. Inv => ShippedVersionArrives
    BY DEF Inv, Arriving, Had, Forgetful, ShippedVersionArrives, HALFCONFIGURED, INSTALLED,
       UNPACKED
<1>. QED
    BY <1>1, Invariance, PTL

(* deferred_configure_conffile() asks only about a file that the user      *)
(* wrote, deleted or kept, for any sequence of versions: conffoptcells     *)
(* gives an untouched file no question.                                    *)
THEOREM QuestionsAreAboutChanges == Spec => AsksOnlyAboutChanges
<1>1. ASSUME Inv, [Next]_vars,
             pc' = "prompt", pc # "prompt", mishaps \cap {"unnoted", "torn", "purge"} = {}
      PROVE  own
    <2>1. PICK miss \in BOOLEAN, ask \in BOOLEAN : Look(miss, ask)
        BY <1>1 DEF Next, Dpkg, UnpackStart, Extract, UnpackFails, RemoveOld, WriteList,
           UpdateFields, UpdateFieldsWith, ConfigureNothing, Answer, UnlinkOldInstall, Link,
           Rename, UnlinkOld, UnlinkNew, NoteHash, NoteHashOf, NoteHalfConfigured, Postinst,
           RemoveStart, PrermFails, RemoveFiles, PurgeStart, PurgeFile, PurgeBackups,
           PurgeList, PurgeNote, PurgeDone, UserWrites, Die, vars
    <2>2. KnownOrOwn /\ NewIsAbsent /\ ListAgrees
        BY <1>1 DEF Inv, Forgetful
    <2>3. pc = "idle" /\ OldHash = entry.hash /\ DealtWith = entry.hash
        BY <2>1, <2>2 DEF Look, Current, ListAgrees, DealtWith, OldHash, UNPACKED
    <2>4. ~Installs(miss) /\ file # new /\ Asks(miss, ask)
        BY <1>1, <2>1 DEF Look, Asks
    <2>. QED
        BY <2>2, <2>3, <2>4 DEF KnownOrOwn, NewIsAbsent, Asks, Installs, UserEdited
<1>. QED
    BY <1>1, Invariance, PTL DEF Spec, AsksOnlyAboutChanges

=============================================================================
