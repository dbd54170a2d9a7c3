---------------------------- MODULE UnpackProofs ----------------------------
(***************************************************************************)
(* Proofs about Unpack, for any packages, relations between them, archives *)
(* and options: what process_archive() leaves when scripts and clean-ups   *)
(* fail.                                                                   *)
(***************************************************************************)
EXTENDS Unpack, FiniteSetTheorems, SequenceTheorems, TLAPS

(***************************************************************************)
(* The inductive invariant.  What the stack of clean-ups holds is a set of *)
(* entries, with what may lie above what.                                  *)
(***************************************************************************)
Whole == {"old", "new"}
Preinsts == {"cu_preinstverynew", "cu_preinstnew", "cu_preinstupgrade"}
Restorers == {"cu_prermupgrade", "cu_prerminfavour", "cu_prermdeconfigure"}
Whats == Preinsts \cup Restorers \cup {"cu_installnew", "cu_postrmupgrade", "checkpoint"}
Planning == {"open", "depcon", "asking"}
Before == Planning \cup {"prerm", "deconfigure", "extract", "postrm"}
After == {"tidy", "disappear", "backups", "conflictors"}

Elems(s) == {s[i] : i \in 1 .. Len(s)}
Stack(s) == s \in Seq(Elems(s))
Above(e, x) ==
  /\ x.what = "checkpoint" => e.what = "checkpoint"
  /\ x.what = "cu_installnew" => e.what \in {"cu_postrmupgrade", "checkpoint"}
  /\ x.what \in Preinsts => e.what \in {"cu_postrmupgrade", "checkpoint", "cu_installnew"}
Ordered(s) == \A i, j \in 1 .. Len(s) : i < j => Above(s[i], s[j])
Pushed == Elems(cleanups)
Has(whats) == \E e \in Pushed : e.what \in whats

\* The archive can still be undone without a trace.
Undoable == upc \in Before \/ (upc = "unwind" /\ flagset = "bombout" /\ ~Has({"checkpoint"}))

UnpackTypes ==
  /\ world \in Worlds /\ cur \in 0 .. Len(world.archives) /\ (upc # "idle" => newpkg \in Packages)
  /\ status \in [Packages -> Status] /\ files \in [Packages -> {"none", "old", "new", "mixed"}]
  /\ oldversionstatus \in Status /\ cleanup_pkg_failed \in Nat /\ cleanup_conflictor_failed \in Nat
  /\ flagset \in {"none", "bombout", "normaltidy"} /\ seen \subseteq Packages
  /\ upc \in {"idle", "unwind", "internerr"} \cup Before \cup After
  /\ DOMAIN was = {"status", "files", "changed", "undone", "end", "removed", "fresh"}
  /\ was.status \in [Packages -> Status]
  /\ was.files \in [Packages -> {"none", "old", "new", "mixed"}] /\ was.undone \in BOOLEAN
  /\ Stack(cleanups) /\ Ordered(cleanups)

\* What is on the stack when.
StackFits ==
  /\ upc \in {"idle"} \cup Planning => Pushed = {}
  /\ upc \in {"prerm", "deconfigure"} => \A e \in Pushed : e.what \in Restorers
  /\ upc = "extract" => \A e \in Pushed : e.what \in Restorers \cup Preinsts
  /\ upc = "postrm" => \A e \in Pushed : e.what \in Restorers \cup Preinsts \cup {"cu_installnew"}
  /\ upc \in After => Has({"checkpoint"})
  /\ upc \in Before \cup After => cleanup_pkg_failed = 0 /\ cleanup_conflictor_failed = 0
  /\ upc \in Before \cup After => was.end = "none"
  /\ upc = "unwind" /\ flagset # "bombout" => was.end = "late" \/ Has({"checkpoint"})
  /\ upc = "disappear" => newpkg \in seen

\* What an entry restores was whole.
Fits(s, f) == (s > HALFINSTALLED => f \in Whole) /\ (s < HALFINSTALLED => f = "none")
EntriesFit ==
  \A e \in Pushed :
    /\ e.what \in Whats
    /\ e.what \in Preinsts \cup {"cu_prermupgrade"} => e.pkg = newpkg
    /\ e.what \in Preinsts => Fits(oldversionstatus, was.files[newpkg])
    /\ e.what \in Restorers /\ e.pkg \in Packages =>
         was.files[e.pkg] \in Whole /\ was.status[e.pkg] >= HALFCONFIGURED
    /\ e.what \in {"cu_prermdeconfigure", "cu_prerminfavour"} => e.pkg # newpkg

\* Every package has the files its status speaks of, be it marked for reinstallation or not.
StatusFits == \A p \in Packages : Fits(status[p], files[p])

\* How far the new package is, and what was done to the files.
PackageIsAt ==
  /\ upc = "prerm" => status[newpkg] = HALFCONFIGURED
  /\ upc = "deconfigure" => status[newpkg] = oldversionstatus /\ oldversionstatus < HALFCONFIGURED
  /\ upc \in {"extract", "postrm", "tidy", "disappear"} => status[newpkg] = HALFINSTALLED
  /\ upc \in {"disappear", "backups"} => files[newpkg] \in Whole
  /\ Undoable /\ Has({"cu_installnew"}) => status[newpkg] = HALFINSTALLED
FilesAreBack ==
  Undoable =>
    /\ \A p \in Packages \ {newpkg} : files[p] = was.files[p]
    /\ ~Has({"cu_installnew"}) /\ cleanup_pkg_failed = 0 => files[newpkg] = was.files[newpkg]

SaneInv ==
  UnpackTypes /\ StackFits /\ EntriesFit /\ StatusFits /\ PackageIsAt /\ FilesAreBack

\* What the undoing of an archive brings back.
Known ==
  upc \in Before => \A p \in Packages : status[p] > HALFCONFIGURED => was.status[p] \in Configured
FailuresCount == cleanup_pkg_failed # 0 \/ cleanup_conflictor_failed # 0 => ~was.undone
PlanningKeeps ==
  upc \in Planning => \A p \in Packages :
    /\ (was.status[p] \in Configured <=> status[p] \in Configured)
    /\ was.status[p] \notin Configured => status[p] = was.status[p]
WillBeBack ==
  Undoable /\ was.undone => \A p \in Packages :
    /\ was.status[p] \in Configured =>
         status[p] \in Configured \/ \E e \in Pushed : e.what \in Restorers /\ e.pkg = p
    /\ was.status[p] < HALFCONFIGURED =>
         status[p] = was.status[p] \/ (p = newpkg /\ Has(Preinsts))
NewWillBeBack ==
  /\ upc \in {"prerm", "deconfigure"} \/ (Undoable /\ was.undone /\ Has(Preinsts)) =>
       (was.status[newpkg] \in Configured => Has({"cu_prermupgrade"}))
  /\ upc = "deconfigure" \/ (Undoable /\ Has(Preinsts)) =>
       (was.status[newpkg] < HALFCONFIGURED => oldversionstatus = was.status[newpkg])
  /\ upc = "prerm" => was.status[newpkg] >= HALFCONFIGURED

BackInv == Known /\ FailuresCount /\ PlanningKeeps /\ WillBeBack /\ NewWillBeBack /\ AbortRestores

-----------------------------------------------------------------------------
(* The stack. *)

\* The statuses of a package are numbers in this order.
LEMMA Numbers ==
  /\ NOTINSTALLED = 0 /\ CONFIGFILES = 1 /\ HALFINSTALLED = 2 /\ UNPACKED = 3 /\ HALFCONFIGURED = 4
  /\ TRIGGERSAWAITED = 5 /\ TRIGGERSPENDING = 6 /\ INSTALLED = 7 /\ Status = 0 .. 7 /\ Configured = 5 .. 7
BY DEF NOTINSTALLED, CONFIGFILES, HALFINSTALLED, UNPACKED, HALFCONFIGURED, TRIGGERSAWAITED,
   TRIGGERSPENDING, INSTALLED, Status, Configured

\* Nothing is on the empty stack.
LEMMA EmptyStack == Stack(<<>>) /\ Ordered(<<>>) /\ Elems(<<>>) = {}
BY DEF Stack, Ordered, Elems

\* push_cleanup(): the entry is on top of what was there.
LEMMA PushLemma ==
  ASSUME NEW s, Stack(s), NEW e
  PROVE  LET t == <<e>> \o s
         IN  /\ Stack(t) /\ Elems(t) = Elems(s) \cup {e}
             /\ Ordered(s) /\ (\A x \in Elems(s) : Above(e, x)) => Ordered(t)
<1>. DEFINE t == <<e>> \o s
            S == Elems(s) \cup {e}
<1>1. s \in Seq(S) /\ <<e>> \in Seq(S)
    BY DEF Stack
<1>2. /\ t \in Seq(S) /\ Len(s) \in Nat /\ Len(t) = Len(s) + 1
      /\ \A i \in 1 .. Len(t) : t[i] = IF i = 1 THEN e ELSE s[i - 1]
    BY <1>1
<1>. HIDE DEF t
<1>3. Elems(t) = S
  <2>1. \A x \in Elems(t) : x \in S
      BY <1>2 DEF Elems
  <2>2. e \in Elems(t)
    <3>1. 1 \in 1 .. Len(t) /\ t[1] = e
        BY <1>2
    <3>. QED
        BY <3>1 DEF Elems
  <2>3. \A x \in Elems(s) : x \in Elems(t)
    <3>1. SUFFICES ASSUME NEW i \in 1 .. Len(s) PROVE s[i] \in Elems(t)
        BY DEF Elems
    <3>2. i + 1 \in 1 .. Len(t) /\ t[i + 1] = s[i]
        BY <1>2
    <3>. QED
        BY <3>2 DEF Elems
  <2>. QED
      BY <2>1, <2>2, <2>3
<1>4. Stack(t)
    BY <1>2, <1>3 DEF Stack
<1>5. ASSUME Ordered(s), \A x \in Elems(s) : Above(e, x) PROVE Ordered(t)
  <2>1. SUFFICES ASSUME NEW i \in 1 .. Len(t), NEW j \in 1 .. Len(t), i < j PROVE Above(t[i], t[j])
      BY DEF Ordered
  <2>2. t[j] = s[j - 1] /\ j - 1 \in 1 .. Len(s) /\ s[j - 1] \in Elems(s)
      BY <1>2, <2>1 DEF Elems
  <2>3. CASE i = 1
      BY <1>2, <1>5, <2>2, <2>3
  <2>4. CASE i # 1
    <3>1. t[i] = s[i - 1] /\ i - 1 \in 1 .. Len(s) /\ i - 1 < j - 1
        BY <1>2, <2>1, <2>4
    <3>. QED
        BY <1>5, <2>2, <3>1 DEF Ordered
  <2>. QED
      BY <2>3, <2>4
<1>. QED
    BY <1>3, <1>4, <1>5 DEF t

\* run_cleanups() takes the top off, and it lay above all that is left.
LEMMA PopLemma ==
  ASSUME NEW s, Stack(s), s # <<>>
  PROVE  /\ Stack(Tail(s)) /\ Elems(s) = Elems(Tail(s)) \cup {Head(s)}
         /\ Ordered(s) => Ordered(Tail(s)) /\ \A x \in Elems(Tail(s)) : Above(Head(s), x)
<1>. DEFINE t == Tail(s)
            S == Elems(s)
<1>1. /\ s \in Seq(S) /\ t \in Seq(S) /\ Len(s) \in Nat /\ Len(s) # 0 /\ Len(t) = Len(s) - 1
      /\ \A i \in 1 .. Len(t) : t[i] = s[i + 1]
      /\ Head(s) = s[1]
    BY DEF Stack
<1>. HIDE DEF t
<1>2. Elems(t) \subseteq S /\ s[1] \in S
  <2>1. \A i \in 1 .. Len(t) : t[i] \in S
      BY <1>1
  <2>2. 1 \in 1 .. Len(s)
      BY <1>1
  <2>. QED
      BY <2>1, <2>2 DEF Elems
<1>3. S \subseteq Elems(t) \cup {s[1]}
  <2>1. SUFFICES ASSUME NEW i \in 1 .. Len(s), i # 1 PROVE s[i] \in Elems(t)
      BY DEF Elems
  <2>2. i - 1 \in 1 .. Len(t) /\ t[i - 1] = s[i]
      BY <1>1, <2>1
  <2>. QED
      BY <2>2 DEF Elems
<1>4. Stack(t)
  <2>1. \A i \in 1 .. Len(t) : t[i] \in Elems(t)
      BY DEF Elems
  <2>. QED
      BY <1>1, <2>1 DEF Stack
<1>5. ASSUME Ordered(s) PROVE Ordered(t) /\ \A x \in Elems(t) : Above(Head(s), x)
  <2>1. Ordered(t)
    <3>1. SUFFICES ASSUME NEW i \in 1 .. Len(t), NEW j \in 1 .. Len(t), i < j PROVE Above(t[i], t[j])
        BY DEF Ordered
    <3>2. i + 1 \in 1 .. Len(s) /\ j + 1 \in 1 .. Len(s) /\ i + 1 < j + 1 /\ t[i] = s[i + 1] /\ t[j] = s[j + 1]
        BY <1>1, <3>1
    <3>. QED
        BY <1>5, <3>2 DEF Ordered
  <2>2. ASSUME NEW i \in 1 .. Len(t) PROVE Above(Head(s), t[i])
    <3>1. 1 \in 1 .. Len(s) /\ i + 1 \in 1 .. Len(s) /\ 1 < i + 1 /\ t[i] = s[i + 1]
        BY <1>1
    <3>. QED
        BY <1>1, <1>5, <3>1 DEF Ordered
  <2>. QED
      BY <2>1, <2>2 DEF Elems
<1>. QED
    BY <1>1, <1>2, <1>3, <1>4, <1>5 DEF t

-----------------------------------------------------------------------------
(* The initial state and the steps that change no package. *)

\* Before the first archive nothing is on the stack.
LEMMA UnpackInitInv == UnpackInit => SaneInv /\ BackInv
<1>. SUFFICES ASSUME UnpackInit PROVE SaneInv /\ BackInv
    OBVIOUS
<1>1. Pushed = {} /\ Stack(cleanups) /\ Ordered(cleanups)
    BY EmptyStack DEF UnpackInit, Pushed
<1>2. upc = "idle" /\ ~Undoable /\ upc \notin Before /\ upc \notin After /\ upc \notin Planning
    BY DEF UnpackInit, Undoable, Before, After, Planning
<1>3. /\ world \in Worlds /\ status \in [Packages -> Status] /\ Len(world.archives) \in Nat
    BY WorldsAssumption DEF UnpackInit
<1>4. files \in [Packages -> {"none", "old", "new", "mixed"}] /\ StatusFits
    BY <1>3, Numbers DEF UnpackInit, StatusFits, Fits, Whole
<1>5. /\ was.status = status /\ was.files = files /\ was.undone = TRUE /\ was.end = "none"
      /\ DOMAIN was = {"status", "files", "changed", "undone", "end", "removed", "fresh"}
    BY DEF UnpackInit
<1>6. UnpackTypes
    BY <1>1, <1>2, <1>3, <1>4, <1>5, Numbers DEF UnpackInit, UnpackTypes
<1>7. StackFits /\ EntriesFit /\ PackageIsAt /\ FilesAreBack
    BY <1>1, <1>2 DEF StackFits, EntriesFit, PackageIsAt, FilesAreBack, Planning
<1>8. BackInv
    BY <1>1, <1>2, <1>5 DEF UnpackInit, BackInv, Known, FailuresCount, PlanningKeeps, WillBeBack,
       NewWillBeBack, AbortRestores
<1>. QED
    BY <1>4, <1>6, <1>7, <1>8 DEF SaneInv

\* What the history variable says of the start of the archive.
Recalled ==
  /\ DOMAIN was' = DOMAIN was /\ was'.status = was.status /\ was'.files = was.files

Settled ==
  UNCHANGED <<world, cur, status, files, cleanups, oldversionstatus, cleanup_pkg_failed,
              cleanup_conflictor_failed>>

\* As long as the archive is the same, so is its package.
LEMMA Here ==
  ASSUME UNCHANGED <<world, cur>>
  PROVE  newpkg' = newpkg /\ Len(world'.archives) = Len(world.archives)
BY DEF newpkg, archive

\* A step that changes neither packages nor stack: a check, a refusal, an error.
LEMMA NothingDone ==
  ASSUME SaneInv, BackInv, Settled, Recalled, was'.undone = was.undone, was'.end = was.end,
         UNCHANGED seen,
         \/ upc \in Planning /\ upc' \in Planning /\ UNCHANGED flagset
         \/ upc \in Before \cup After /\ upc' = "unwind" /\ flagset' = "bombout"
         \/ upc = "conflictors" /\ upc' = "unwind" /\ flagset' = "normaltidy"
         \/ upc = "open" /\ upc' = "idle" /\ UNCHANGED flagset
  PROVE  SaneInv' /\ BackInv'
<1>1. newpkg' = newpkg /\ Pushed' = Pushed /\ Len(world'.archives) = Len(world.archives)
    BY Here DEF Settled, Pushed
<1>2. Has({"checkpoint"})' = Has({"checkpoint"}) /\ Has({"cu_installnew"})' = Has({"cu_installnew"})
      /\ Has(Preinsts)' = Has(Preinsts) /\ Has({"cu_prermupgrade"})' = Has({"cu_prermupgrade"})
    BY <1>1 DEF Has
<1>3. Undoable' => Undoable
  <2>1. upc \in After => Has({"checkpoint"})
      BY DEF SaneInv, StackFits
  <2>. QED
      BY <1>2, <2>1 DEF Undoable, Before, After, Planning
<1>4. upc \in Before \cup After /\ upc # "idle"
    BY DEF Before, After, Planning
<1>. HIDE DEF Has, Undoable
<1>5. UnpackTypes'
    BY <1>1, <1>4 DEF SaneInv, UnpackTypes, Settled, Recalled, Before, After, Planning
<1>6. StackFits'
    BY <1>1, <1>2, <1>4 DEF SaneInv, StackFits, Settled, Before, After, Planning
<1>7. EntriesFit' /\ StatusFits'
    BY <1>1 DEF SaneInv, EntriesFit, StatusFits, Settled, Recalled
<1>8. PackageIsAt' /\ FilesAreBack'
    BY <1>1, <1>2, <1>3 DEF SaneInv, PackageIsAt, FilesAreBack, Settled, Recalled, Planning
<1>9. Known' /\ FailuresCount' /\ PlanningKeeps'
    BY DEF BackInv, Known, FailuresCount, PlanningKeeps, Settled, Recalled, Planning, Before
<1>10. WillBeBack'
    BY <1>1, <1>2, <1>3 DEF BackInv, WillBeBack, Settled, Recalled
<1>11. NewWillBeBack'
    BY <1>1, <1>2, <1>3 DEF BackInv, NewWillBeBack, Settled, Recalled, Planning
<1>12. AbortRestores'
  <2>1. was.end = "none"
      BY <1>4 DEF SaneInv, StackFits
  <2>. QED
      BY <2>1 DEF AbortRestores
<1>. QED
    BY <1>5, <1>6, <1>7, <1>8, <1>9, <1>10, <1>11, <1>12 DEF SaneInv, BackInv

\* The next archive starts with an empty stack, and the state before it is remembered.
LEMMA NextArchiveStep == ASSUME SaneInv, BackInv, NextArchive PROVE SaneInv' /\ BackInv'
<1>1. /\ Pushed' = {} /\ Stack(cleanups') /\ Ordered(cleanups')
      /\ \A whats : ~Has(whats)'
    BY EmptyStack DEF NextArchive, Pushed, Has
<1>2. /\ upc = "idle" /\ upc' = "open" /\ cur' \in 1 .. Len(world.archives) /\ world' = world /\ world \in Worlds
      /\ UNCHANGED <<seen, status, files, flagset, oldversionstatus>>
      /\ cleanup_pkg_failed' = 0 /\ cleanup_conflictor_failed' = 0
    BY WorldsAssumption DEF NextArchive, Goto, Fate, SaneInv, UnpackTypes
<1>3. newpkg' \in Packages
    BY <1>2, WorldsAssumption DEF newpkg, archive
<1>4. /\ was'.status = status /\ was'.files = files /\ was'.undone = TRUE /\ was'.end = "none"
      /\ DOMAIN was' = {"status", "files", "changed", "undone", "end", "removed", "fresh"}
    BY DEF NextArchive
<1>5. UnpackTypes'
  <2>1. cur' \in 0 .. Len(world'.archives)
      BY <1>2, WorldsAssumption
  <2>2. was'.undone \in BOOLEAN
      BY <1>4, Zenon
  <2>3. upc' \in {"idle", "unwind", "internerr"} \cup Before \cup After
      BY <1>2 DEF Before, Planning
  <2>. QED
      BY <1>1, <1>2, <1>3, <1>4, <2>1, <2>2, <2>3 DEF SaneInv, UnpackTypes
<1>6. StackFits' /\ EntriesFit' /\ StatusFits'
    BY <1>1, <1>2, <1>4 DEF SaneInv, StackFits, EntriesFit, StatusFits, Before, After, Planning
<1>7. PackageIsAt' /\ FilesAreBack'
    BY <1>1, <1>2, <1>3, <1>4 DEF PackageIsAt, FilesAreBack
<1>8. Known'
    BY <1>2, <1>4, Numbers DEF SaneInv, UnpackTypes, Known
<1>9. FailuresCount' /\ PlanningKeeps' /\ WillBeBack' /\ NewWillBeBack' /\ AbortRestores'
    BY <1>1, <1>2, <1>4, Numbers DEF SaneInv, UnpackTypes, FailuresCount, PlanningKeeps, WillBeBack, NewWillBeBack,
       AbortRestores
<1>. QED
    BY <1>5, <1>6, <1>7, <1>8, <1>9 DEF SaneInv, BackInv

-----------------------------------------------------------------------------
(* Planning. *)

\* The checks of an archive change no package; neither does the end.
LEMMA PlanningStep ==
  ASSUME SaneInv, BackInv,
         \/ OpenFails \/ Skipped \/ Opened \/ DepIsFine \/ check_breaks \/ check_conflict
         \/ ask_dependent \/ enqueue_conflictor \/ finish
  PROVE  SaneInv' /\ BackInv'
<1>1. /\ UNCHANGED <<world, cur, seen, status, files, cleanups, oldversionstatus, cleanup_pkg_failed,
                     cleanup_conflictor_failed>>
      /\ (UNCHANGED was \/ \E x : was' = [was EXCEPT !.removed = x])
    BY DEF OpenFails, Skipped, Opened, DepIsFine, check_breaks, check_conflict, ask_dependent,
       enqueue_conflictor, finish, Unaffected, Same, Fixed, Fate, Undoing
<1>2. Recalled /\ was'.undone = was.undone /\ was'.end = was.end
    BY <1>1 DEF Recalled, SaneInv, UnpackTypes
<1>3. \/ upc \in Planning /\ upc' \in Planning /\ UNCHANGED flagset
      \/ upc \in Before \cup After /\ upc' = "unwind" /\ flagset' = "bombout"
      \/ upc = "conflictors" /\ upc' = "unwind" /\ flagset' = "normaltidy"
      \/ upc = "open" /\ upc' = "idle" /\ UNCHANGED flagset
  <2>1. CASE OpenFails
      BY <2>1 DEF OpenFails, ohshit, Before, Planning
  <2>2. CASE Skipped
      BY <2>2 DEF Skipped, Goto, Undoing
  <2>3. CASE Opened
      BY <2>3 DEF Opened, Goto, Undoing, Planning
  <2>4. CASE DepIsFine
      BY <2>4 DEF DepIsFine, Check, Planning
  <2>5. CASE check_breaks
      BY <2>5 DEF check_breaks, Check, Forced, Refused, ohshit, Planning, Before
  <2>6. CASE check_conflict
      BY <2>6 DEF check_conflict, Forced, Refused, ohshit, Planning, Before, Goto
  <2>7. CASE finish
      BY <2>7 DEF finish, Goto
  <2>8. CASE ask_dependent
      BY <2>8 DEF ask_dependent, put_back, Refused, ohshit, Planning, Before, Goto
  <2>9. CASE enqueue_conflictor
      BY <2>9 DEF enqueue_conflictor, put_back, Refused, ohshit, Planning, Before, Goto
  <2>. QED
      BY <2>1, <2>2, <2>3, <2>4, <2>5, <2>6, <2>7, <2>8, <2>9
<1>. QED
    BY <1>1, <1>2, <1>3, NothingDone DEF Settled

\* check_predepends() may process the triggers of a package, which was configured.
LEMMA PredependsStep == ASSUME SaneInv, BackInv, check_predepends PROVE SaneInv' /\ BackInv'
<1>1. /\ UNCHANGED <<world, cur, seen, files, cleanups, oldversionstatus, cleanup_pkg_failed,
                     cleanup_conflictor_failed, was>>
      /\ upc = "depcon"
    BY DEF check_predepends, Check, Same, Fixed
<1>2. CASE UNCHANGED status
  <2>1. \/ upc' = "depcon" /\ UNCHANGED flagset
        \/ upc' = "unwind" /\ flagset' = "bombout"
      BY <1>1 DEF check_predepends, Forced, Refused, ohshit
  <2>. QED
      BY <1>1, <1>2, <2>1, NothingDone DEF Settled, Recalled, Planning, Before
<1>3. CASE ~UNCHANGED status
  <2>1. upc' = "depcon" /\ UNCHANGED flagset
      BY <1>1, <1>3 DEF check_predepends
  <2>2. PICK p \in Packages : status[p] = TRIGGERSAWAITED /\ status' = [status EXCEPT ![p] = INSTALLED]
      BY <1>3 DEF check_predepends, canfixbytrigaw, SetStatus
  <2>3. /\ status' \in [Packages -> Status] /\ status[p] = 5 /\ status'[p] = 7
        /\ \A q \in Packages : q # p => status'[q] = status[q]
      BY <2>2, Numbers DEF SaneInv, UnpackTypes
  <2>4. newpkg' = newpkg /\ Pushed' = Pushed /\ Len(world'.archives) = Len(world.archives) /\ Pushed = {}
      BY <1>1, Here DEF Pushed, SaneInv, StackFits, Planning
  <2>5. /\ upc \in Before /\ upc \in Planning /\ upc' \in Before /\ upc' \in Planning /\ upc' # "idle"
        /\ Undoable /\ Undoable'
      BY <1>1, <2>1 DEF Before, Planning, Undoable
  <2>6. \A whats : ~Has(whats) /\ ~Has(whats)'
      BY <2>4 DEF Has
  <2>7. UnpackTypes'
      BY <1>1, <2>1, <2>3, <2>4, <2>5 DEF SaneInv, UnpackTypes
  <2>8. StackFits'
      BY <1>1, <2>1, <2>4, <2>5 DEF SaneInv, StackFits, Planning, After
  <2>9. EntriesFit'
      BY <2>4 DEF EntriesFit
  <2>10. StatusFits'
      BY <1>1, <2>3, Numbers DEF SaneInv, StatusFits, Fits
  <2>11. PackageIsAt' /\ FilesAreBack'
      BY <1>1, <2>1, <2>4, <2>5, <2>6 DEF SaneInv, PackageIsAt, FilesAreBack
  <2>12. PlanningKeeps' /\ Known'
      BY <1>1, <2>3, <2>5, Numbers DEF SaneInv, UnpackTypes, BackInv, PlanningKeeps, Known
  <2>13. FailuresCount' /\ NewWillBeBack' /\ AbortRestores'
      BY <1>1, <2>1, <2>6 DEF BackInv, FailuresCount, NewWillBeBack, AbortRestores
  <2>14. WillBeBack'
      BY <1>1, <2>5, <2>12, Numbers DEF SaneInv, UnpackTypes, WillBeBack, PlanningKeeps
  <2>. QED
      BY <2>7, <2>8, <2>9, <2>10, <2>11, <2>12, <2>13, <2>14 DEF SaneInv, BackInv
<1>. QED
    BY <1>2, <1>3

-----------------------------------------------------------------------------
(* The scripts before the files are replaced. *)

\* The old prerm is about to run: its package is half-configured, its clean-up on the stack.
LEMMA PrermUpgradeStep == ASSUME SaneInv, BackInv, prerm_upgrade PROVE SaneInv' /\ BackInv'
<1>1. /\ UNCHANGED <<world, cur, seen, files, flagset, cleanup_pkg_failed, cleanup_conflictor_failed>>
      /\ upc = "depcon" /\ was' = [was EXCEPT !.changed = TRUE] /\ oldversionstatus' = status[newpkg]
    BY DEF prerm_upgrade, Scripts, Fixed, Goto
<1>2. Recalled /\ was'.undone = was.undone /\ was'.end = was.end
    BY <1>1 DEF Recalled, SaneInv, UnpackTypes
<1>3. newpkg' = newpkg /\ newpkg \in Packages /\ Len(world'.archives) = Len(world.archives) /\ Pushed = {}
    BY <1>1, Here DEF SaneInv, UnpackTypes, StackFits, Planning
<1>4. /\ upc \in Before /\ upc \in Planning /\ upc # "idle" /\ Undoable /\ \A whats : ~Has(whats)
      /\ cleanup_pkg_failed = 0 /\ cleanup_conflictor_failed = 0 /\ was.end = "none"
    BY <1>1, <1>3 DEF Before, Planning, Undoable, Has, SaneInv, StackFits
<1>. DEFINE e == Entry("cu_prermupgrade", newpkg)
<1>5. \/ /\ status[newpkg] < HALFCONFIGURED /\ upc' = "deconfigure" /\ UNCHANGED status /\ cleanups' = cleanups
      \/ /\ status[newpkg] >= HALFCONFIGURED /\ upc' = "prerm" /\ status' = [status EXCEPT ![newpkg] = HALFCONFIGURED]
         /\ cleanups' = IF status[newpkg] > HALFCONFIGURED THEN <<e>> \o cleanups ELSE cleanups
    BY <1>1, <1>3, Numbers DEF prerm_upgrade, Goto, SetStatus, push_cleanup, SaneInv, UnpackTypes
<1>6. e.what = "cu_prermupgrade" /\ e.pkg = newpkg
    BY DEF Entry
<1>. HIDE DEF e
<1>7. /\ Stack(cleanups') /\ Ordered(cleanups')
      /\ Pushed' = IF status[newpkg] > HALFCONFIGURED THEN {e} ELSE {}
  <2>1. Stack(cleanups) /\ Ordered(cleanups) /\ Elems(cleanups) = {}
      BY <1>3 DEF SaneInv, UnpackTypes, Pushed
  <2>2. Stack(<<e>> \o cleanups) /\ Ordered(<<e>> \o cleanups) /\ Elems(<<e>> \o cleanups) = {e}
      BY <2>1, PushLemma
  <2>3. CASE status[newpkg] > HALFCONFIGURED
    <3>1. cleanups' = <<e>> \o cleanups
        BY <1>3, <1>5, <2>3, Numbers DEF SaneInv, UnpackTypes
    <3>. QED
        BY <2>2, <2>3, <3>1 DEF Pushed
  <2>4. CASE ~(status[newpkg] > HALFCONFIGURED)
    <3>1. cleanups' = cleanups
        BY <1>5, <2>4
    <3>. QED
        BY <2>1, <2>4, <3>1 DEF Pushed
  <2>. QED
      BY <2>3, <2>4
<1>8. /\ status' \in [Packages -> Status] /\ status[newpkg] \in 0 .. 7
      /\ \A q \in Packages : q # newpkg => status'[q] = status[q]
      /\ upc' = "deconfigure" => status[newpkg] < 4 /\ status'[newpkg] = status[newpkg]
      /\ upc' = "prerm" => status[newpkg] >= 4 /\ status'[newpkg] = 4
      /\ upc' \in {"prerm", "deconfigure"}
    BY <1>3, <1>5, Numbers DEF SaneInv, UnpackTypes
<1>9. upc' \in Before /\ upc' \notin Planning /\ upc' # "idle" /\ Undoable'
    BY <1>8 DEF Before, Planning, Undoable
<1>10. ~Has({"cu_installnew"})' /\ ~Has(Preinsts)' /\ (Has({"cu_prermupgrade"})' <=> status[newpkg] > 4)
    BY <1>6, <1>7, Numbers DEF Has, Preinsts
<1>11. UnpackTypes'
    BY <1>1, <1>2, <1>3, <1>7, <1>8, <1>9, Numbers DEF SaneInv, UnpackTypes, Recalled
<1>12. StackFits'
    BY <1>1, <1>2, <1>4, <1>6, <1>7, <1>8, <1>9 DEF StackFits, Restorers, After
<1>13. EntriesFit'
  <2>1. was.files[newpkg] = files[newpkg] /\ (was.status[newpkg] \in Configured <=> status[newpkg] \in Configured)
      BY <1>3, <1>4 DEF SaneInv, FilesAreBack, BackInv, PlanningKeeps
  <2>2. Fits(status[newpkg], files[newpkg])
      BY <1>3 DEF SaneInv, StatusFits
  <2>. QED
      BY <1>2, <1>3, <1>6, <1>7, <1>8, <2>1, <2>2, Numbers DEF EntriesFit, Whats, Restorers, Preinsts, Recalled, Fits,
         SaneInv, UnpackTypes
<1>14. StatusFits'
    BY <1>1, <1>3, <1>8, Numbers DEF SaneInv, StatusFits, Fits
<1>15. PackageIsAt'
    BY <1>1, <1>3, <1>8, <1>10, Numbers DEF PackageIsAt
<1>16. FilesAreBack'
    BY <1>1, <1>2, <1>3, <1>4, <1>10 DEF SaneInv, FilesAreBack, Recalled
<1>17. Known'
    BY <1>2, <1>3, <1>4, <1>8, Numbers DEF BackInv, Known, Recalled
<1>18. FailuresCount' /\ PlanningKeeps' /\ AbortRestores'
    BY <1>1, <1>4, <1>9 DEF FailuresCount, PlanningKeeps, AbortRestores
<1>19. WillBeBack'
  <2>1. \A p \in Packages : /\ (was.status[p] \in Configured <=> status[p] \in Configured)
                            /\ was.status[p] \notin Configured => status[p] = was.status[p]
      BY <1>4 DEF BackInv, PlanningKeeps
  <2>2. status[newpkg] > 4 => e \in Pushed'
      BY <1>7, Numbers
  <2>3. \A p \in Packages : p # newpkg =>
           /\ was.status[p] \in Configured => status'[p] \in Configured
           /\ was.status[p] \notin Configured => status'[p] = was.status[p]
      BY <1>8, <2>1
  <2>. QED
      BY <1>2, <1>3, <1>6, <1>8, <2>1, <2>2, <2>3, Numbers DEF WillBeBack, Recalled, Restorers, SaneInv, UnpackTypes
<1>20. NewWillBeBack'
    BY <1>1, <1>2, <1>3, <1>4, <1>8, <1>10, Numbers DEF NewWillBeBack, Recalled, BackInv, PlanningKeeps, SaneInv, UnpackTypes
<1>. QED
    BY <1>11, <1>12, <1>13, <1>14, <1>15, <1>16, <1>17, <1>18, <1>19, <1>20 DEF SaneInv, BackInv

\* The old prerm has run or failed.
LEMMA PrermRanStep == ASSUME SaneInv, BackInv, prerm_ran PROVE SaneInv' /\ BackInv'
<1>1. /\ UNCHANGED <<world, cur, seen, files, cleanups, cleanup_pkg_failed, cleanup_conflictor_failed, was>>
      /\ upc = "prerm"
    BY DEF prerm_ran, Scripts, Fixed
<1>2. CASE ohshit /\ UNCHANGED <<status, oldversionstatus>>
    BY <1>1, <1>2, NothingDone DEF ohshit, Settled, Recalled, Before
<1>3. CASE SetStatus(newpkg, UNPACKED) /\ oldversionstatus' = UNPACKED /\ Goto("deconfigure") /\ UNCHANGED flagset
  <2>1. newpkg' = newpkg /\ newpkg \in Packages /\ Len(world'.archives) = Len(world.archives) /\ Pushed' = Pushed
        /\ \A whats : Has(whats)' = Has(whats)
      BY <1>1, Here DEF SaneInv, UnpackTypes, Pushed, Has
  <2>2. /\ status' \in [Packages -> Status] /\ status[newpkg] = 4 /\ status'[newpkg] = 3 /\ oldversionstatus' = 3
        /\ \A q \in Packages : q # newpkg => status'[q] = status[q]
      BY <1>1, <1>3, <2>1, Numbers DEF SetStatus, SaneInv, UnpackTypes, PackageIsAt
  <2>3. /\ upc' = "deconfigure" /\ upc \in Before /\ upc' \in Before /\ upc' \notin Planning /\ upc' # "idle"
        /\ Undoable /\ Undoable' /\ flagset' = flagset
      BY <1>1, <1>3 DEF Before, Planning, Undoable, Goto
  <2>4. \A e \in Pushed : e.what \in Restorers
      BY <1>1 DEF SaneInv, StackFits
  <2>5. ~Has({"cu_installnew"}) /\ ~Has(Preinsts)
      BY <2>4 DEF Has, Restorers, Preinsts
  <2>6. UnpackTypes'
      BY <1>1, <2>1, <2>2, <2>3, Numbers DEF SaneInv, UnpackTypes
  <2>7. StackFits'
      BY <1>1, <2>1, <2>3, <2>4 DEF SaneInv, StackFits, After
  <2>8. EntriesFit'
      BY <1>1, <2>1, <2>4 DEF SaneInv, EntriesFit, Restorers, Preinsts
  <2>9. StatusFits'
      BY <1>1, <2>1, <2>2, Numbers DEF SaneInv, StatusFits, Fits
  <2>10. PackageIsAt' /\ FilesAreBack'
      BY <1>1, <2>1, <2>2, <2>3, <2>5, Numbers DEF SaneInv, PackageIsAt, FilesAreBack
  <2>11. Known'
      BY <1>1, <2>1, <2>2, <2>3, Numbers DEF BackInv, Known
  <2>12. FailuresCount' /\ PlanningKeeps' /\ AbortRestores'
      BY <1>1, <2>3 DEF BackInv, FailuresCount, PlanningKeeps, AbortRestores
  <2>13. WillBeBack'
      BY <1>1, <2>1, <2>2, <2>3, <2>5, Numbers DEF BackInv, WillBeBack, SaneInv, UnpackTypes
  <2>14. NewWillBeBack'
      BY <1>1, <2>1, <2>3, <2>5, Numbers DEF BackInv, NewWillBeBack, SaneInv, UnpackTypes
  <2>. QED
      BY <2>6, <2>7, <2>8, <2>9, <2>10, <2>11, <2>12, <2>13, <2>14 DEF SaneInv, BackInv
<1>. QED
    BY <1>2, <1>3 DEF prerm_ran

\* The prerm of another package: it was configured, and its clean-up is on the stack.
LEMMA Stopped ==
  ASSUME SaneInv, BackInv, upc = "deconfigure", NEW p,
         NEW what \in {"cu_prermdeconfigure", "cu_prerminfavour"}, NEW s \in {2, 4},
         status' = [status EXCEPT ![p] = s], p \in Packages => status[p] >= 4,
         \/ cleanups' = <<Entry(what, p)>> \o cleanups /\ (p \in Packages => status[p] > 4)
         \/ cleanups' = cleanups /\ (p \in Packages => status[p] = 4),
         UNCHANGED <<world, cur, seen, files, oldversionstatus, cleanup_pkg_failed,
                     cleanup_conflictor_failed, was>>,
         \/ UNCHANGED <<upc, flagset>>
         \/ upc' = "unwind" /\ flagset' = "bombout"
  PROVE  SaneInv' /\ BackInv'
<1>. DEFINE e == Entry(what, p)
<1>1. e.what = what /\ e.pkg = p /\ what \in Restorers /\ what # "cu_prermupgrade"
    BY DEF Entry, Restorers
<1>2. /\ newpkg' = newpkg /\ newpkg \in Packages /\ Len(world'.archives) = Len(world.archives)
      /\ status[newpkg] < 4 /\ p # newpkg
    BY Here, Numbers DEF SaneInv, UnpackTypes, PackageIsAt
<1>3. \A x \in Pushed : x.what \in Restorers
    BY DEF SaneInv, StackFits
<1>4. /\ Stack(cleanups') /\ Ordered(cleanups') /\ Pushed \subseteq Pushed' /\ Pushed' \subseteq Pushed \cup {e}
      /\ p \in Packages => status[p] = 4 \/ e \in Pushed'
      /\ e \in Pushed' /\ p \in Packages => e \in Pushed \/ status[p] > 4
  <2>1. Stack(cleanups) /\ Ordered(cleanups)
      BY DEF SaneInv, UnpackTypes
  <2>2. \A x \in Elems(cleanups) : Above(e, x)
      BY <1>3 DEF Pushed, Above, Restorers, Preinsts
  <2>3. Stack(<<e>> \o cleanups) /\ Ordered(<<e>> \o cleanups) /\ Elems(<<e>> \o cleanups) = Pushed \cup {e}
      BY <2>1, <2>2, PushLemma DEF Pushed
  <2>. HIDE DEF e
  <2>4. CASE cleanups' = <<e>> \o cleanups /\ (p \in Packages => status[p] > 4)
      BY <2>3, <2>4 DEF Pushed
  <2>5. CASE cleanups' = cleanups /\ (p \in Packages => status[p] = 4)
      BY <2>1, <2>5 DEF Pushed
  <2>. QED
      BY <2>4, <2>5 DEF e
<1>. HIDE DEF e
<1>5. \A x \in Pushed' : x.what \in Restorers
    BY <1>1, <1>3, <1>4
<1>6. /\ ~Has({"cu_installnew"})' /\ ~Has(Preinsts)' /\ ~Has({"checkpoint"})'
      /\ ~Has({"cu_installnew"}) /\ ~Has(Preinsts)
      /\ (Has({"cu_prermupgrade"}) => Has({"cu_prermupgrade"})')
    BY <1>3, <1>4, <1>5 DEF Has, Restorers, Preinsts
<1>7. /\ upc \in Before /\ upc' \notin Planning /\ upc' # "idle" /\ Undoable /\ Undoable'
      /\ upc' \in {"deconfigure", "unwind"} /\ upc' \notin After
    BY <1>6 DEF Before, Planning, After, Undoable
<1>8. /\ status' \in [Packages -> Status] /\ (p \in Packages => status'[p] = s)
      /\ \A q \in Packages : q # p => status'[q] = status[q]
  <2>1. s \in Status /\ status \in [Packages -> Status]
      BY Numbers DEF SaneInv, UnpackTypes
  <2>. QED
      BY <2>1
<1>9. UnpackTypes'
    BY <1>2, <1>4, <1>7, <1>8 DEF SaneInv, UnpackTypes, Before
<1>10. StackFits'
    BY <1>5, <1>7 DEF SaneInv, StackFits
<1>11. EntriesFit'
  <2>1. \A x \in Pushed : /\ x.what \in Whats /\ x.what \notin Preinsts
                          /\ x.what = "cu_prermupgrade" => x.pkg = newpkg
                          /\ x.pkg \in Packages => was.files[x.pkg] \in Whole /\ was.status[x.pkg] >= HALFCONFIGURED
                          /\ x.what \in {"cu_prermdeconfigure", "cu_prerminfavour"} => x.pkg # newpkg
      BY <1>3 DEF SaneInv, EntriesFit, Restorers, Preinsts
  <2>2. e.what \in Whats /\ e.what \notin Preinsts
      BY <1>1 DEF Whats, Restorers, Preinsts
  <2>3. p \in Packages /\ status[p] > 4 => was.files[p] \in Whole /\ was.status[p] >= HALFCONFIGURED
    <3>1. p \in Packages => was.files[p] = files[p] /\ Fits(status[p], files[p])
        BY <1>2, <1>7 DEF SaneInv, FilesAreBack, StatusFits
    <3>2. p \in Packages /\ status[p] > 4 => was.status[p] \in Configured
        BY <1>7, Numbers DEF BackInv, Known
    <3>. QED
        BY <3>1, <3>2, Numbers DEF Fits, SaneInv, UnpackTypes
  <2>4. \A x \in Pushed' : x \in Pushed \/ (x = e /\ (p \in Packages => status[p] > 4))
      BY <1>4
  <2>. QED
      BY <1>1, <1>2, <2>1, <2>2, <2>3, <2>4 DEF EntriesFit
<1>12. StatusFits'
  <2>1. SUFFICES ASSUME NEW q \in Packages PROVE Fits(status'[q], files[q])
      BY DEF StatusFits
  <2>2. Fits(status[q], files[q]) /\ status[q] \in 0 .. 7
      BY Numbers DEF SaneInv, StatusFits, UnpackTypes
  <2>3. CASE q = p
      BY <1>8, <2>2, <2>3, Numbers DEF Fits
  <2>4. CASE q # p
      BY <1>8, <2>2, <2>4
  <2>. QED
      BY <2>3, <2>4
<1>13. PackageIsAt' /\ FilesAreBack'
    BY <1>2, <1>6, <1>7, <1>8 DEF SaneInv, PackageIsAt, FilesAreBack
<1>14. Known'
    BY <1>2, <1>7, <1>8, Numbers DEF BackInv, Known
<1>15. FailuresCount' /\ PlanningKeeps' /\ AbortRestores'
    BY <1>7 DEF BackInv, FailuresCount, PlanningKeeps, AbortRestores
<1>16. WillBeBack'
  <2>1. SUFFICES ASSUME was.undone, NEW q \in Packages
                 PROVE  /\ was.status[q] \in Configured =>
                             status'[q] \in Configured \/ \E x \in Pushed' : x.what \in Restorers /\ x.pkg = q
                        /\ was.status[q] < HALFCONFIGURED => status'[q] = was.status[q]
      BY DEF WillBeBack
  <2>2. /\ was.status[q] \in Configured =>
             status[q] \in Configured \/ \E x \in Pushed : x.what \in Restorers /\ x.pkg = q
        /\ was.status[q] < HALFCONFIGURED => status[q] = was.status[q]
      BY <1>6, <1>7, <2>1 DEF BackInv, WillBeBack
  <2>3. CASE q # p
      BY <1>4, <1>8, <2>2, <2>3
  <2>4. CASE q = p
    <3>1. was.status[q] < HALFCONFIGURED => FALSE
        BY <2>2, <2>4, Numbers DEF SaneInv, UnpackTypes
    <3>2. status[q] \in Configured => e \in Pushed'
        BY <1>4, <2>4, Numbers
    <3>. QED
        BY <1>1, <1>4, <2>2, <2>4, <3>1, <3>2
  <2>. QED
      BY <2>3, <2>4
<1>17. NewWillBeBack'
    BY <1>2, <1>6, <1>7 DEF BackInv, NewWillBeBack
<1>. QED
    BY <1>9, <1>10, <1>11, <1>12, <1>13, <1>14, <1>15, <1>16, <1>17 DEF SaneInv, BackInv

\* pkg_deconfigure_others().
LEMMA DeconfigureStep == ASSUME SaneInv, BackInv, pkg_deconfigure_others PROVE SaneInv' /\ BackInv'
<1>. DEFINE p == Head(deconf).pkg
<1>1. /\ UNCHANGED <<world, cur, seen, files, oldversionstatus, cleanup_pkg_failed,
                     cleanup_conflictor_failed, was>>
      /\ upc = "deconfigure"
    BY DEF pkg_deconfigure_others, Scripts, Fixed
<1>2. CASE status[p] <= HALFCONFIGURED
  <2>1. upc' = "internerr" /\ UNCHANGED <<status, cleanups, flagset>>
      BY <1>2 DEF pkg_deconfigure_others, Goto
  <2>2. newpkg' = newpkg /\ newpkg \in Packages /\ Len(world'.archives) = Len(world.archives) /\ Pushed' = Pushed
      BY <1>1, <2>1, Here DEF SaneInv, UnpackTypes, Pushed
  <2>3. upc' \notin Before /\ upc' \notin After /\ upc' \notin Planning /\ ~Undoable' /\ upc' # "idle"
      BY <2>1 DEF Before, Planning, After, Undoable
  <2>4. UnpackTypes' /\ StackFits'
      BY <1>1, <2>1, <2>2, <2>3 DEF SaneInv, UnpackTypes, StackFits
  <2>5. EntriesFit' /\ StatusFits' /\ PackageIsAt' /\ FilesAreBack'
      BY <1>1, <2>1, <2>2, <2>3 DEF SaneInv, EntriesFit, StatusFits, PackageIsAt, FilesAreBack
  <2>6. BackInv'
      BY <1>1, <2>1, <2>3 DEF BackInv, Known, FailuresCount, PlanningKeeps, WillBeBack, NewWillBeBack, AbortRestores
  <2>. QED
      BY <2>4, <2>5, <2>6 DEF SaneInv
<1>3. CASE ~(status[p] <= HALFCONFIGURED)
  <2>1. /\ status' = [status EXCEPT ![p] = 4] /\ cleanups' = <<Entry("cu_prermdeconfigure", p)>> \o cleanups
        /\ (UNCHANGED <<upc, flagset>>) \/ (upc' = "unwind" /\ flagset' = "bombout")
      BY <1>3, Numbers DEF pkg_deconfigure_others, SetStatus, push_cleanup, ohshit
  <2>2. p \in Packages => status[p] > 4
      BY <1>3, Numbers DEF SaneInv, UnpackTypes
  <2>3. p \in Packages => status[p] >= 4
      BY <1>3, Numbers DEF SaneInv, UnpackTypes
  <2>4. \/ cleanups' = <<Entry("cu_prermdeconfigure", p)>> \o cleanups /\ (p \in Packages => status[p] > 4)
        \/ cleanups' = cleanups /\ (p \in Packages => status[p] = 4)
      BY <2>1, <2>2
  <2>5. \/ UNCHANGED <<upc, flagset>>
        \/ upc' = "unwind" /\ flagset' = "bombout"
      BY <2>1
  <2>. HIDE DEF p
  <2>. QED
      BY <1>1, <2>1, <2>3, <2>4, <2>5, Stopped
<1>. QED
    BY <1>2, <1>3

\* The prerm of a conflictor.
LEMMA ConflictorStep == ASSUME SaneInv, BackInv, conflictor_prerm PROVE SaneInv' /\ BackInv'
<1>1. /\ UNCHANGED <<world, cur, seen, files, oldversionstatus, cleanup_pkg_failed,
                     cleanup_conflictor_failed, was>>
      /\ upc = "deconfigure"
    BY DEF conflictor_prerm, Scripts, Fixed
<1>2. PICK i \in DOMAIN conflictors :
        /\ First(i)
        /\ IF status[conflictors[i]] > HALFCONFIGURED
           THEN push_cleanup(Entry("cu_prerminfavour", conflictors[i])) ELSE UNCHANGED cleanups
        /\ \/ SetStatus(conflictors[i], HALFINSTALLED) /\ UNCHANGED <<upc, flagset>>
           \/ SetStatus(conflictors[i], HALFCONFIGURED) /\ ohshit
    BY DEF conflictor_prerm
<1>. DEFINE p == conflictors[i]
<1>3. status[p] >= HALFCONFIGURED
    BY <1>2 DEF First, ToStop
<1>. HIDE DEF p
<1>4. p \in Packages => status[p] \in 0 .. 7 /\ status[p] >= 4
    BY <1>3, Numbers DEF SaneInv, UnpackTypes
<1>5. \/ cleanups' = <<Entry("cu_prerminfavour", p)>> \o cleanups /\ (p \in Packages => status[p] > 4)
      \/ cleanups' = cleanups /\ (p \in Packages => status[p] = 4)
    BY <1>2, <1>4, Numbers DEF push_cleanup, p
<1>6. \/ status' = [status EXCEPT ![p] = 2] /\ UNCHANGED <<upc, flagset>>
      \/ status' = [status EXCEPT ![p] = 4] /\ upc' = "unwind" /\ flagset' = "bombout"
    BY <1>2, Numbers DEF SetStatus, ohshit, p
<1>. QED
    BY <1>1, <1>4, <1>5, <1>6, Stopped

\* The preinst: its clean-up restores the status, which fits the old files.
LEMMA PreinstStep == ASSUME SaneInv, BackInv, preinst PROVE SaneInv' /\ BackInv'
<1>1. /\ UNCHANGED <<world, cur, seen, files, oldversionstatus, cleanup_pkg_failed,
                     cleanup_conflictor_failed, was>>
      /\ upc = "deconfigure" /\ status' = [status EXCEPT ![newpkg] = 2]
      /\ (upc' = "extract" /\ flagset' = flagset) \/ (upc' = "unwind" /\ flagset' = "bombout")
    BY Numbers DEF preinst, Scripts, Fixed, SetStatus, Goto, ohshit
<1>. DEFINE what == CASE oldversionstatus = NOTINSTALLED -> "cu_preinstverynew"
                      [] oldversionstatus = CONFIGFILES -> "cu_preinstnew"
                      [] OTHER -> "cu_preinstupgrade"
            e == Entry(what, newpkg)
<1>2. what \in Preinsts /\ cleanups' = <<e>> \o cleanups
    BY Numbers DEF preinst, push_cleanup, Preinsts
<1>3. e.what \in Preinsts /\ e.pkg = newpkg /\ e.what # "cu_installnew" /\ e.what # "checkpoint" /\ e.what \notin Restorers
    BY <1>2 DEF Entry, Preinsts, Restorers
<1>. HIDE DEF what, e
<1>4. /\ newpkg' = newpkg /\ newpkg \in Packages /\ Len(world'.archives) = Len(world.archives)
      /\ status[newpkg] = oldversionstatus
    BY <1>1, Here DEF SaneInv, UnpackTypes, PackageIsAt
<1>5. \A x \in Pushed : x.what \in Restorers
    BY <1>1 DEF SaneInv, StackFits
<1>6. Stack(cleanups') /\ Ordered(cleanups') /\ Pushed' = Pushed \cup {e}
  <2>1. \A x \in Elems(cleanups) : Above(e, x)
      BY <1>5 DEF Pushed, Above, Restorers, Preinsts
  <2>. QED
      BY <1>2, <2>1, PushLemma DEF SaneInv, UnpackTypes, Pushed
<1>7. /\ ~Has({"cu_installnew"})' /\ ~Has({"checkpoint"})' /\ Has(Preinsts)'
      /\ ~Has({"cu_installnew"}) /\ ~Has(Preinsts)
      /\ (Has({"cu_prermupgrade"}) => Has({"cu_prermupgrade"})')
    BY <1>3, <1>5, <1>6 DEF Has, Restorers, Preinsts
<1>8. /\ upc \in Before /\ upc' \notin Planning /\ upc' # "idle" /\ Undoable /\ Undoable'
      /\ upc' \in {"extract", "unwind"} /\ upc' \notin After
    BY <1>1, <1>7 DEF Before, Planning, After, Undoable
<1>9. /\ status' \in [Packages -> Status] /\ status'[newpkg] = 2
      /\ \A q \in Packages : q # newpkg => status'[q] = status[q]
    BY <1>1, <1>4, Numbers DEF SaneInv, UnpackTypes
<1>10. UnpackTypes'
    BY <1>1, <1>4, <1>6, <1>8, <1>9 DEF SaneInv, UnpackTypes, Before
<1>11. StackFits'
    BY <1>1, <1>3, <1>5, <1>6, <1>8 DEF SaneInv, StackFits
<1>12. EntriesFit'
  <2>1. Fits(oldversionstatus, was.files[newpkg])
      BY <1>4, <1>7, <1>8, <1>1 DEF SaneInv, StatusFits, FilesAreBack, StackFits
  <2>2. e.what \in Whats
      BY <1>3 DEF Whats
  <2>. QED
      BY <1>1, <1>3, <1>4, <1>5, <1>6, <2>1, <2>2 DEF SaneInv, EntriesFit, Restorers, Preinsts
<1>13. StatusFits'
    BY <1>1, <1>4, <1>9, Numbers DEF SaneInv, StatusFits, Fits
<1>14. PackageIsAt' /\ FilesAreBack'
    BY <1>1, <1>4, <1>7, <1>8, <1>9, Numbers DEF SaneInv, PackageIsAt, FilesAreBack
<1>15. Known'
    BY <1>1, <1>4, <1>8, <1>9, Numbers DEF BackInv, Known
<1>16. FailuresCount' /\ PlanningKeeps' /\ AbortRestores'
    BY <1>1, <1>8 DEF BackInv, FailuresCount, PlanningKeeps, AbortRestores
<1>17. WillBeBack'
  <2>1. SUFFICES ASSUME was.undone, NEW q \in Packages
                 PROVE  /\ was.status[q] \in Configured =>
                             status'[q] \in Configured \/ \E x \in Pushed' : x.what \in Restorers /\ x.pkg = q
                        /\ was.status[q] < HALFCONFIGURED => status'[q] = was.status[q] \/ q = newpkg
      BY <1>1, <1>4, <1>7 DEF WillBeBack
  <2>2. /\ was.status[q] \in Configured =>
             status[q] \in Configured \/ \E x \in Pushed : x.what \in Restorers /\ x.pkg = q
        /\ was.status[q] < HALFCONFIGURED => status[q] = was.status[q]
      BY <1>7, <1>8, <2>1 DEF BackInv, WillBeBack
  <2>3. q = newpkg => status[q] \notin Configured
      BY <1>1, <1>4, Numbers DEF SaneInv, PackageIsAt
  <2>. QED
      BY <1>6, <1>9, <2>2, <2>3
<1>18. NewWillBeBack'
    BY <1>1, <1>4, <1>7, <1>8 DEF BackInv, NewWillBeBack
<1>. QED
    BY <1>10, <1>11, <1>12, <1>13, <1>14, <1>15, <1>16, <1>17, <1>18 DEF SaneInv, BackInv

-----------------------------------------------------------------------------
(* The files are replaced. *)

\* The files are replaced while the package is half-installed; above the entries that set
\* a status lie only cu_installnew(), cu_postrmupgrade() and the checkpoint.
LEMMA Replaced ==
  ASSUME SaneInv, BackInv, upc \in {"extract", "postrm"}, NEW E,
         \A e \in E : e.what \in {"cu_installnew", "cu_postrmupgrade", "checkpoint"},
         Stack(cleanups'), Ordered(cleanups'), Pushed' = Pushed \cup E,
         UNCHANGED <<world, cur, seen, status, oldversionstatus, cleanup_pkg_failed,
                     cleanup_conflictor_failed, was>>,
         \/ files' = files
         \/ files' = [files EXCEPT ![newpkg] = "mixed"] /\ \E e \in E : e.what = "cu_installnew",
         \/ upc' = "postrm" /\ \A e \in E : e.what = "cu_installnew"
         \/ upc' = "unwind" /\ flagset' = "bombout" /\ \A e \in E : e.what # "checkpoint"
         \/ upc' = "tidy" /\ \E e \in E : e.what = "checkpoint",
         flagset' \in {"none", "bombout", "normaltidy"}
  PROVE  SaneInv' /\ BackInv'
<1>1. newpkg' = newpkg /\ newpkg \in Packages /\ Len(world'.archives) = Len(world.archives) /\ status[newpkg] = 2
    BY Here, Numbers DEF SaneInv, UnpackTypes, PackageIsAt
<1>2. \A x \in Pushed : x.what \in Restorers \cup Preinsts \cup {"cu_installnew"}
    BY DEF SaneInv, StackFits
<1>3. /\ (Has({"checkpoint"})' <=> \E e \in E : e.what = "checkpoint")
      /\ (Has({"cu_installnew"})' <=> (Has({"cu_installnew"}) \/ \E e \in E : e.what = "cu_installnew"))
      /\ (Has(Preinsts)' <=> Has(Preinsts)) /\ (Has({"cu_prermupgrade"})' <=> Has({"cu_prermupgrade"}))
    BY <1>2 DEF Has, Restorers, Preinsts
<1>4. /\ upc \in Before /\ upc' \notin Planning /\ upc' \notin {"prerm", "deconfigure", "extract", "idle"} /\ Undoable
      /\ upc' \in {"postrm", "unwind", "tidy"} /\ (Undoable' <=> upc' # "tidy")
      /\ (upc' \in After <=> upc' = "tidy")
    BY <1>3 DEF Before, Planning, After, Undoable
<1>5. /\ files' \in [Packages -> {"none", "old", "new", "mixed"}]
      /\ \A q \in Packages : q # newpkg => files'[q] = files[q]
      /\ ~Has({"cu_installnew"})' => files' = files
    BY <1>1, <1>3 DEF SaneInv, UnpackTypes
<1>6. UnpackTypes'
    BY <1>1, <1>4, <1>5 DEF SaneInv, UnpackTypes, Before, After
<1>7. StackFits'
    BY <1>2, <1>3, <1>4 DEF SaneInv, StackFits
<1>8. EntriesFit'
  <2>1. \A e \in E : e.what \in Whats /\ e.what \notin Preinsts /\ e.what \notin Restorers
      BY DEF Whats, Preinsts, Restorers
  <2>2. \A e \in E : e.what \notin {"cu_prermupgrade", "cu_prermdeconfigure", "cu_prerminfavour"}
      OBVIOUS
  <2>. QED
      BY <1>1, <2>1, <2>2 DEF SaneInv, EntriesFit
<1>9. StatusFits'
    BY <1>1, <1>5, Numbers DEF SaneInv, StatusFits, Fits
<1>10. PackageIsAt'
    BY <1>1, <1>4, Numbers DEF PackageIsAt
<1>11. FilesAreBack'
    BY <1>1, <1>3, <1>4, <1>5 DEF SaneInv, FilesAreBack
<1>12. Known' /\ FailuresCount' /\ PlanningKeeps' /\ AbortRestores'
    BY <1>4 DEF BackInv, Known, FailuresCount, PlanningKeeps, AbortRestores
<1>13. WillBeBack'
    BY <1>1, <1>3, <1>4 DEF BackInv, WillBeBack
<1>14. NewWillBeBack'
    BY <1>1, <1>3, <1>4 DEF BackInv, NewWillBeBack
<1>. QED
    BY <1>6, <1>7, <1>8, <1>9, <1>10, <1>11, <1>12, <1>13, <1>14 DEF SaneInv, BackInv

\* tar_extractor() and tar_deferred_extract().
LEMMA ExtractStep == ASSUME SaneInv, BackInv, extract PROVE SaneInv' /\ BackInv'
<1>. DEFINE e == Entry("cu_installnew", newpkg)
<1>1. /\ UNCHANGED <<world, cur, seen, status, oldversionstatus, cleanup_pkg_failed,
                     cleanup_conflictor_failed, was>>
      /\ upc = "extract" /\ files' = [files EXCEPT ![newpkg] = "mixed"] /\ cleanups' = <<e>> \o cleanups
      /\ (upc' = "postrm" /\ flagset' = flagset) \/ (upc' = "unwind" /\ flagset' = "bombout")
    BY DEF extract, Scripts, Fixed, Goto, ohshit, push_cleanup
<1>2. e.what = "cu_installnew"
    BY DEF Entry
<1>. HIDE DEF e
<1>3. Stack(cleanups') /\ Ordered(cleanups') /\ Pushed' = Pushed \cup {e}
  <2>1. \A x \in Elems(cleanups) : Above(e, x)
      BY <1>1, <1>2 DEF SaneInv, StackFits, Pushed, Above, Restorers, Preinsts
  <2>. QED
      BY <1>1, <2>1, PushLemma DEF SaneInv, UnpackTypes, Pushed
<1>4. flagset' \in {"none", "bombout", "normaltidy"}
    BY <1>1 DEF SaneInv, UnpackTypes
<1>5. \/ upc' = "postrm" /\ \A x \in {e} : x.what = "cu_installnew"
      \/ upc' = "unwind" /\ flagset' = "bombout" /\ \A x \in {e} : x.what # "checkpoint"
      \/ upc' = "tidy" /\ \E x \in {e} : x.what = "checkpoint"
    BY <1>1, <1>2
<1>6. /\ \E x \in {e} : x.what = "cu_installnew"
      /\ \A x \in {e} : x.what \in {"cu_installnew", "cu_postrmupgrade", "checkpoint"}
    BY <1>2
<1>. QED
    BY <1>1, <1>3, <1>4, <1>5, <1>6, Replaced

\* The old postrm, and the checkpoint.
LEMMA PostrmUpgradeStep == ASSUME SaneInv, BackInv, postrm_upgrade PROVE SaneInv' /\ BackInv'
<1>. DEFINE c == checkpoint
            u == Entry("cu_postrmupgrade", newpkg)
<1>1. /\ UNCHANGED <<world, cur, seen, status, oldversionstatus, cleanup_pkg_failed,
                     cleanup_conflictor_failed, was>>
      /\ upc = "postrm" /\ files' = files
      /\ \/ upc' = "tidy" /\ flagset' = flagset /\ cleanups' = <<c, u>> \o cleanups
         \/ upc' = "tidy" /\ flagset' = flagset /\ cleanups' = <<c>> \o cleanups
         \/ upc' = "unwind" /\ flagset' = "bombout" /\ cleanups' = <<u>> \o cleanups
    BY DEF postrm_upgrade, Scripts, Fixed, Fate, Goto, ohshit, push_cleanup
<1>2. c.what = "checkpoint" /\ u.what = "cu_postrmupgrade"
    BY DEF Entry, checkpoint
<1>. HIDE DEF c, u
<1>3. Stack(cleanups) /\ Ordered(cleanups) /\ flagset \in {"none", "bombout", "normaltidy"}
    BY DEF SaneInv, UnpackTypes
<1>4. \A x \in Elems(cleanups) : Above(u, x) /\ Above(c, x)
    BY <1>1, <1>2 DEF SaneInv, StackFits, Pushed, Above, Restorers, Preinsts
<1>5. /\ Stack(<<u>> \o cleanups) /\ Ordered(<<u>> \o cleanups) /\ Elems(<<u>> \o cleanups) = Elems(cleanups) \cup {u}
      /\ Stack(<<c>> \o cleanups) /\ Ordered(<<c>> \o cleanups) /\ Elems(<<c>> \o cleanups) = Elems(cleanups) \cup {c}
    BY <1>3, <1>4, PushLemma
<1>6. CASE cleanups' = <<c, u>> \o cleanups
  <2>. DEFINE t == <<u>> \o cleanups
  <2>1. <<c, u>> \o cleanups = <<c>> \o t
    <3>. DEFINE S == Elems(cleanups) \cup {c, u}
    <3>1. cleanups \in Seq(S) /\ <<c>> \in Seq(S) /\ <<u>> \in Seq(S) /\ <<c, u>> \in Seq(S)
        BY <1>3 DEF Stack
    <3>2. <<c, u>> = <<c>> \o <<u>>
      <4>1. <<c>> \o <<u>> \in Seq(S) /\ Len(<<c>> \o <<u>>) = 2 /\ Len(<<c, u>>) = 2
          BY <3>1
      <4>2. \A i \in 1 .. 2 : <<c, u>>[i] = (<<c>> \o <<u>>)[i]
          BY <3>1
      <4>. QED
          BY <3>1, <4>1, <4>2, SeqEqual
    <3>. HIDE DEF S
    <3>. QED
        BY <3>1, <3>2, ConcatAssociative
  <2>2. Above(c, u)
      BY <1>2 DEF Above, Preinsts
  <2>. HIDE DEF t
  <2>3. \A x \in Elems(t) : Above(c, x)
      BY <1>4, <1>5, <2>2 DEF t
  <2>4. Stack(t) /\ Ordered(t)
      BY <1>5 DEF t
  <2>5. Stack(<<c>> \o t) /\ Ordered(<<c>> \o t) /\ Elems(<<c>> \o t) = Elems(t) \cup {c}
      BY <2>3, <2>4, PushLemma
  <2>6. Pushed' = Pushed \cup {c, u}
      BY <1>5, <1>6, <2>1, <2>5 DEF Pushed, t
  <2>7. upc' = "tidy" /\ flagset' \in {"none", "bombout", "normaltidy"}
    <3>1. Len(<<c, u>> \o cleanups) = Len(cleanups) + 2 /\ Len(<<u>> \o cleanups) = Len(cleanups) + 1
          /\ Len(cleanups) \in Nat
      <4>1. cleanups \in Seq(Elems(cleanups) \cup {c, u})
          BY <1>3 DEF Stack
      <4>. QED
          BY <4>1
    <3>. QED
        BY <1>1, <1>3, <1>6, <3>1
  <2>8. /\ \A x \in {c, u} : x.what \in {"cu_installnew", "cu_postrmupgrade", "checkpoint"}
        /\ \E x \in {c, u} : x.what = "checkpoint"
      BY <1>2
  <2>9. Stack(cleanups') /\ Ordered(cleanups')
      BY <1>6, <2>1, <2>5
  <2>. QED
      BY <1>1, <2>6, <2>7, <2>8, <2>9, Replaced
<1>7. CASE upc' = "tidy" /\ flagset' = flagset /\ cleanups' = <<c>> \o cleanups
  <2>1. /\ Pushed' = Pushed \cup {c} /\ Stack(cleanups') /\ Ordered(cleanups')
        /\ \A x \in {c} : x.what \in {"cu_installnew", "cu_postrmupgrade", "checkpoint"}
        /\ \E x \in {c} : x.what = "checkpoint"
      BY <1>2, <1>5, <1>7 DEF Pushed
  <2>. QED
      BY <1>1, <1>3, <1>7, <2>1, Replaced
<1>8. CASE upc' = "unwind" /\ flagset' = "bombout" /\ cleanups' = <<u>> \o cleanups
  <2>. DEFINE E == {u}
  <2>1. /\ Pushed' = Pushed \cup E /\ Stack(cleanups') /\ Ordered(cleanups')
        /\ \A e \in E : e.what \in {"cu_installnew", "cu_postrmupgrade", "checkpoint"}
        /\ \A e \in E : e.what # "checkpoint"
      BY <1>2, <1>5, <1>8 DEF Pushed
  <2>2. /\ upc \in {"extract", "postrm"} /\ files' = files /\ flagset' \in {"none", "bombout", "normaltidy"}
        /\ UNCHANGED <<world, cur, seen, status, oldversionstatus, cleanup_pkg_failed,
                       cleanup_conflictor_failed, was>>
      BY <1>1, <1>8
  <2>. HIDE DEF E
  <2>. QED
      BY <1>8, <2>1, <2>2, Replaced
<1>. QED
    BY <1>1, <1>6, <1>7, <1>8

-----------------------------------------------------------------------------
(* After the checkpoint nothing is undone any more. *)

\* With a checkpoint on the stack the archive cannot be undone.
LEMMA Committed ==
  ASSUME SaneInv, BackInv, upc \in After, upc' \in After \/ (upc' = "unwind" /\ flagset' = "bombout"),
         UNCHANGED <<world, cur, oldversionstatus, cleanup_pkg_failed, cleanup_conflictor_failed, was>>,
         flagset' \in {"none", "bombout", "normaltidy"}, seen' \subseteq Packages,
         status' \in [Packages -> Status], files' \in [Packages -> {"none", "old", "new", "mixed"}], StatusFits',
         \/ cleanups' = cleanups
         \/ cleanups' = <<checkpoint>> \o cleanups,
         upc' \in {"tidy", "disappear"} => status'[newpkg] = HALFINSTALLED,
         upc' \in {"disappear", "backups"} => files'[newpkg] \in Whole,
         upc' = "disappear" => newpkg \in seen'
  PROVE  SaneInv' /\ BackInv'
<1>. DEFINE c == checkpoint
<1>1. newpkg' = newpkg /\ newpkg \in Packages /\ Len(world'.archives) = Len(world.archives)
    BY Here DEF SaneInv, UnpackTypes, After
<1>2. c.what = "checkpoint"
    BY DEF checkpoint, Entry
<1>3. Stack(cleanups') /\ Ordered(cleanups') /\ Pushed \subseteq Pushed' /\ Pushed' \subseteq Pushed \cup {c}
  <2>1. Stack(cleanups) /\ Ordered(cleanups)
      BY DEF SaneInv, UnpackTypes
  <2>2. \A x \in Elems(cleanups) : Above(c, x)
      BY <1>2 DEF Above
  <2>. HIDE DEF c
  <2>3. Stack(<<c>> \o cleanups) /\ Ordered(<<c>> \o cleanups) /\ Elems(<<c>> \o cleanups) = Pushed \cup {c}
      BY <2>1, <2>2, PushLemma DEF Pushed
  <2>4. cleanups' = cleanups \/ cleanups' = <<c>> \o cleanups
      BY DEF c
  <2>. QED
      BY <2>1, <2>3, <2>4 DEF Pushed
<1>. HIDE DEF c
<1>4. Has({"checkpoint"})'
    BY <1>3 DEF SaneInv, StackFits, Has
<1>5. /\ ~Undoable' /\ upc' \notin Before /\ upc' \notin Planning /\ upc' \notin {"idle", "prerm", "deconfigure", "extract", "postrm"}
      /\ upc' \in After \cup {"unwind"}
    BY <1>4 DEF Undoable, After, Before, Planning
<1>6. UnpackTypes'
    BY <1>1, <1>3, <1>5 DEF SaneInv, UnpackTypes
<1>7. StackFits'
  <2>1. cleanup_pkg_failed = 0 /\ cleanup_conflictor_failed = 0 /\ was.end = "none"
      BY DEF SaneInv, StackFits
  <2>. QED
      BY <1>1, <1>4, <1>5, <2>1 DEF StackFits
<1>8. EntriesFit'
    BY <1>1, <1>2, <1>3 DEF SaneInv, EntriesFit, Whats, Preinsts, Restorers
<1>9. PackageIsAt' /\ FilesAreBack'
    BY <1>1, <1>5 DEF PackageIsAt, FilesAreBack
<1>10. BackInv'
    BY <1>5 DEF BackInv, Known, FailuresCount, PlanningKeeps, WillBeBack, NewWillBeBack, AbortRestores
<1>. QED
    BY <1>6, <1>7, <1>8, <1>9, <1>10 DEF SaneInv

\* The new files are in place, the package is unpacked, the backups are gone.
LEMMA CommittedStep ==
  ASSUME SaneInv, BackInv, tidy \/ become_unpacked \/ backups PROVE SaneInv' /\ BackInv'
<1>. DEFINE Kept == UNCHANGED <<world, cur, oldversionstatus, cleanup_pkg_failed, cleanup_conflictor_failed, was>>
<1>1. /\ newpkg \in Packages \/ upc = "idle"
      /\ status \in [Packages -> Status] /\ files \in [Packages -> {"none", "old", "new", "mixed"}] /\ seen \subseteq Packages
      /\ flagset \in {"none", "bombout", "normaltidy"} /\ StatusFits
    BY DEF SaneInv, UnpackTypes
<1>2. CASE tidy
  <2>1. /\ Kept /\ upc = "tidy" /\ status' = status /\ cleanups' = cleanups
        /\ \/ files' = [files EXCEPT ![newpkg] = "new"] /\ upc' = "disappear" /\ seen' = {newpkg} /\ flagset' = flagset
           \/ upc' = "unwind" /\ flagset' = "bombout" /\ files' = files /\ seen' = seen
      BY <1>2 DEF tidy, Scripts, Fixed, Goto, ohshit
  <2>2. newpkg \in Packages /\ status[newpkg] = HALFINSTALLED
      BY <1>1, <2>1 DEF SaneInv, PackageIsAt
  <2>3. files' \in [Packages -> {"none", "old", "new", "mixed"}] /\ StatusFits' /\ seen' \subseteq Packages
      BY <1>1, <2>1, <2>2, Numbers DEF StatusFits, Fits
  <2>4. /\ upc \in After /\ (upc' \in After \/ (upc' = "unwind" /\ flagset' = "bombout"))
        /\ upc' \in {"tidy", "disappear"} => status'[newpkg] = HALFINSTALLED
        /\ upc' \in {"disappear", "backups"} => files'[newpkg] \in Whole
        /\ upc' = "disappear" => newpkg \in seen'
        /\ flagset' \in {"none", "bombout", "normaltidy"}
      BY <1>1, <2>1, <2>2 DEF After, Whole
  <2>. QED
      BY <1>1, <2>1, <2>3, <2>4, Committed
<1>3. CASE become_unpacked
  <2>1. /\ Kept /\ upc = "disappear" /\ files' = files /\ cleanups' = cleanups /\ seen' = seen
        /\ \/ status' = [status EXCEPT ![newpkg] = 3] /\ upc' = "backups" /\ flagset' = flagset
           \/ upc' = "unwind" /\ flagset' = "bombout" /\ status' = status
      BY <1>3, Numbers DEF become_unpacked, Scripts, Fixed, Goto, ohshit, SetStatus
  <2>2. newpkg \in Packages /\ files[newpkg] \in Whole
      BY <1>1, <2>1 DEF SaneInv, PackageIsAt
  <2>3. status' \in [Packages -> Status] /\ StatusFits'
    <3>1. 3 \in Status
        BY Numbers
    <3>. QED
        BY <1>1, <2>1, <2>2, <3>1, Numbers DEF StatusFits, Fits
  <2>4. /\ upc \in After /\ (upc' \in After \/ (upc' = "unwind" /\ flagset' = "bombout"))
        /\ upc' \notin {"tidy", "disappear"} /\ flagset' \in {"none", "bombout", "normaltidy"}
      BY <1>1, <2>1 DEF After
  <2>. QED
      BY <1>1, <2>1, <2>2, <2>3, <2>4, Committed
<1>4. CASE backups
  <2>1. /\ Kept /\ upc = "backups" /\ files' = files /\ status' = status /\ seen' = seen
        /\ \/ cleanups' = <<checkpoint>> \o cleanups /\ upc' = "conflictors" /\ flagset' = flagset
           \/ upc' = "unwind" /\ flagset' = "bombout" /\ cleanups' = cleanups
      BY <1>4 DEF backups, Scripts, Fixed, Goto, ohshit, push_cleanup
  <2>2. /\ upc \in After /\ (upc' \in After \/ (upc' = "unwind" /\ flagset' = "bombout"))
        /\ upc' \notin {"tidy", "disappear", "backups"} /\ flagset' \in {"none", "bombout", "normaltidy"}
      BY <1>1, <2>1 DEF After
  <2>3. StatusFits'
      BY <1>1, <2>1 DEF StatusFits
  <2>. QED
      BY <1>1, <2>1, <2>2, <2>3, Committed
<1>. QED
    BY <1>2, <1>3, <1>4

\* pkg_disappear_others(): a package without files is not installed.
LEMMA DisappearStep == ASSUME SaneInv, BackInv, pkg_disappear_others PROVE SaneInv' /\ BackInv'
<1>1. /\ newpkg \in Packages \/ upc = "idle"
      /\ status \in [Packages -> Status] /\ files \in [Packages -> {"none", "old", "new", "mixed"}] /\ seen \subseteq Packages
      /\ flagset \in {"none", "bombout", "normaltidy"} /\ StatusFits
    BY DEF SaneInv, UnpackTypes
<1>2. PICK p \in Packages \ seen :
      /\ UNCHANGED <<world, cur, oldversionstatus, cleanup_pkg_failed, cleanup_conflictor_failed, was, cleanups>>
      /\ upc = "disappear" /\ seen' = seen \cup {p}
      /\ \/ status' = status /\ files' = files /\ upc' = upc /\ flagset' = flagset
         \/ /\ status' = [status EXCEPT ![p] = 0] /\ files' = [files EXCEPT ![p] = "none"]
            /\ upc' = upc /\ flagset' = flagset
         \/ upc' = "unwind" /\ flagset' = "bombout" /\ status' = status /\ files' = files
    BY Numbers DEF pkg_disappear_others, Fixed, Fate, ohshit, SetStatus
<1>3. p \in Packages \ seen
    BY <1>2
<1>4. newpkg \in Packages /\ newpkg \in seen /\ status[newpkg] = HALFINSTALLED /\ files[newpkg] \in Whole
    BY <1>1, <1>2 DEF SaneInv, PackageIsAt, StackFits
<1>5. /\ status' \in [Packages -> Status] /\ files' \in [Packages -> {"none", "old", "new", "mixed"}] /\ StatusFits'
      /\ status'[newpkg] = HALFINSTALLED /\ files'[newpkg] \in Whole
  <2>1. 0 \in Status
      BY Numbers
  <2>. QED
      BY <1>1, <1>2, <1>3, <1>4, <2>1, Numbers DEF StatusFits, Fits
<1>6. /\ upc \in After /\ (upc' \in After \/ (upc' = "unwind" /\ flagset' = "bombout"))
      /\ newpkg \in seen' /\ flagset' \in {"none", "bombout", "normaltidy"} /\ seen' \subseteq Packages
    BY <1>1, <1>2, <1>3, <1>4 DEF After
<1>. QED
    BY <1>2, <1>5, <1>6, Committed

\* The removal of a conflictor, or its failure half-way.
LEMMA RemoveConflictorStep == ASSUME SaneInv, BackInv, remove_conflictor PROVE SaneInv' /\ BackInv'
<1>. DEFINE p == Head(conflictors)
<1>1. /\ status \in [Packages -> Status] /\ files \in [Packages -> {"none", "old", "new", "mixed"}] /\ seen \subseteq Packages
      /\ flagset \in {"none", "bombout", "normaltidy"} /\ StatusFits
    BY DEF SaneInv, UnpackTypes
<1>2. /\ UNCHANGED <<world, cur, seen, oldversionstatus, cleanup_pkg_failed, cleanup_conflictor_failed, was, cleanups>>
      /\ upc = "conflictors"
      /\ (upc' = upc /\ flagset' = flagset) \/ (upc' = "unwind" /\ flagset' = "bombout")
    BY DEF remove_conflictor, Same, Fixed, ohshit
<1>3. \E s \in {0, 1, 2}, f \in {"none", "mixed"} :
        /\ status' = [status EXCEPT ![p] = s] /\ files' = [files EXCEPT ![p] = f] /\ (s # 2 => f = "none")
    BY Numbers DEF remove_conflictor, SetStatus
<1>4. PICK s \in {0, 1, 2}, f \in {"none", "mixed"} :
        /\ status' = [status EXCEPT ![p] = s] /\ files' = [files EXCEPT ![p] = f] /\ (s # 2 => f = "none")
    BY <1>3
<1>. HIDE DEF p
<1>5. status' \in [Packages -> Status] /\ files' \in [Packages -> {"none", "old", "new", "mixed"}] /\ StatusFits'
  <2>1. s \in Status
      BY Numbers
  <2>2. \A q \in Packages : IF q = p THEN status'[q] = s /\ files'[q] = f
                            ELSE status'[q] = status[q] /\ files'[q] = files[q]
      BY <1>1, <1>4
  <2>3. status' \in [Packages -> Status] /\ files' \in [Packages -> {"none", "old", "new", "mixed"}]
      BY <1>1, <1>4, <2>1
  <2>4. ASSUME NEW q \in Packages PROVE Fits(status'[q], files'[q])
    <3>1. CASE q = p
        BY <1>4, <2>2, <3>1, Numbers DEF Fits
    <3>2. CASE q # p
        BY <1>1, <2>2, <3>2 DEF StatusFits
    <3>. QED
        BY <3>1, <3>2
  <2>. QED
      BY <2>3, <2>4 DEF StatusFits
<1>6. /\ upc \in After /\ (upc' \in After \/ (upc' = "unwind" /\ flagset' = "bombout"))
      /\ flagset' \in {"none", "bombout", "normaltidy"} /\ seen' \subseteq Packages
      /\ upc' \notin {"tidy", "disappear", "backups"}
    BY <1>1, <1>2 DEF After
<1>. QED
    BY <1>2, <1>5, <1>6, Committed

-----------------------------------------------------------------------------
(* The clean-ups. *)

\* What is left after the entry on top was taken off.
LEMMA Popped ==
  ASSUME SaneInv, Pop, UNCHANGED <<world, cur>>
  PROVE  /\ upc = "unwind" /\ newpkg' = newpkg /\ newpkg \in Packages /\ Len(world'.archives) = Len(world.archives)
         /\ Stack(cleanups') /\ Ordered(cleanups') /\ Pushed = Pushed' \cup {TopEntry}
         /\ \A x \in Pushed' : Above(TopEntry, x)
<1>1. upc = "unwind" /\ cleanups # <<>> /\ cleanups' = Tail(cleanups) /\ Stack(cleanups) /\ Ordered(cleanups)
    BY DEF Pop, SaneInv, UnpackTypes
<1>2. newpkg' = newpkg /\ newpkg \in Packages /\ Len(world'.archives) = Len(world.archives)
    BY <1>1, Here DEF SaneInv, UnpackTypes
<1>. QED
    BY <1>1, <1>2, PopLemma DEF Pushed, TopEntry

\* A checkpoint, and what is below it, undo nothing.
LEMMA NormalEndStep == ASSUME SaneInv, BackInv, cross_checkpoint \/ normal_tidy PROVE SaneInv' /\ BackInv'
<1>1. /\ Pop /\ UNCHANGED <<world, cur, seen, status, files, oldversionstatus, upc, cleanup_pkg_failed, cleanup_conflictor_failed>>
      /\ was' = was \/ was' = [was EXCEPT !.end = "late"]
      /\ flagset' # "bombout" /\ flagset' \in {"none", "normaltidy"}
      /\ \/ TopEntry.what # "checkpoint" /\ flagset = "normaltidy" /\ was' = was
         \/ was' = [was EXCEPT !.end = "late"]
    BY DEF cross_checkpoint, normal_tidy, UndoRest, Same, Fixed, Fate, SaneInv, UnpackTypes
<1>2. /\ upc = "unwind" /\ newpkg' = newpkg /\ newpkg \in Packages /\ Len(world'.archives) = Len(world.archives)
      /\ Stack(cleanups') /\ Ordered(cleanups') /\ Pushed = Pushed' \cup {TopEntry}
    BY <1>1, Popped
<1>3. Recalled /\ was'.undone = was.undone
    BY <1>1 DEF Recalled, SaneInv, UnpackTypes
<1>4. was'.end = "late" \/ Has({"checkpoint"})'
  <2>1. CASE TopEntry.what # "checkpoint" /\ flagset = "normaltidy" /\ was' = was
      BY <1>2, <2>1 DEF SaneInv, StackFits, Has
  <2>2. CASE was' = [was EXCEPT !.end = "late"]
      BY <2>2 DEF SaneInv, UnpackTypes
  <2>. QED
      BY <1>1, <2>1, <2>2
<1>5. /\ ~Undoable' /\ upc' \notin Before \cup After /\ upc' \notin Planning /\ upc' = "unwind"
    BY <1>1, <1>2 DEF Undoable, Before, After, Planning
<1>6. UnpackTypes'
    BY <1>1, <1>2, <1>3, <1>5 DEF SaneInv, UnpackTypes, Recalled
<1>7. StackFits'
    BY <1>4, <1>5 DEF StackFits, Before, After
<1>8. EntriesFit'
    BY <1>1, <1>2, <1>3 DEF SaneInv, EntriesFit, Recalled
<1>9. StatusFits' /\ PackageIsAt' /\ FilesAreBack'
    BY <1>1, <1>5 DEF SaneInv, StatusFits, PackageIsAt, FilesAreBack
<1>10. BackInv'
    BY <1>1, <1>3, <1>5 DEF BackInv, Known, FailuresCount, PlanningKeeps, WillBeBack, NewWillBeBack, AbortRestores
<1>. QED
    BY <1>6, <1>7, <1>8, <1>9, <1>10 DEF SaneInv

\* What every clean-up after an error keeps.
LEMMA Undone ==
  ASSUME SaneInv, BackInv, Pop, flagset = "bombout", TopEntry.what # "checkpoint",
         UNCHANGED <<world, cur, seen, oldversionstatus, upc, flagset>>,
         status' \in [Packages -> Status], files' \in [Packages -> {"none", "old", "new", "mixed"}], StatusFits',
         cleanup_pkg_failed' \in Nat, cleanup_conflictor_failed' \in Nat,
         Recalled, was'.undone \in BOOLEAN, FailuresCount',
         PackageIsAt', FilesAreBack', WillBeBack', NewWillBeBack'
  PROVE  SaneInv' /\ BackInv'
<1>1. /\ upc = "unwind" /\ newpkg' = newpkg /\ newpkg \in Packages /\ Len(world'.archives) = Len(world.archives)
      /\ Stack(cleanups') /\ Ordered(cleanups') /\ Pushed' \subseteq Pushed
    BY Popped
<1>2. upc' \notin Before \cup After /\ upc' \notin Planning /\ upc' = "unwind" /\ flagset' = "bombout"
    BY <1>1 DEF Before, After, Planning
<1>3. UnpackTypes'
    BY <1>1, <1>2 DEF SaneInv, UnpackTypes, Recalled
<1>4. StackFits'
    BY <1>2 DEF StackFits, Before, After
<1>5. EntriesFit'
    BY <1>1 DEF SaneInv, EntriesFit, Recalled
<1>6. Known' /\ PlanningKeeps' /\ AbortRestores'
    BY <1>2 DEF Known, PlanningKeeps, AbortRestores
<1>. QED
    BY <1>3, <1>4, <1>5, <1>6 DEF SaneInv, BackInv

\* Which entries are left, by the one on top.
LEMMA Left ==
  ASSUME SaneInv, BackInv, Pop, flagset = "bombout", TopEntry.what # "checkpoint",
         UNCHANGED <<world, cur, upc, flagset>>
  PROVE  /\ Undoable /\ Undoable' /\ TopEntry \in Pushed /\ Pushed' \subseteq Pushed
         /\ Pushed = Pushed' \cup {TopEntry} /\ newpkg' = newpkg /\ newpkg \in Packages
         /\ \A whats : Has(whats)' => Has(whats)
         /\ \A whats : TopEntry.what \notin whats => (Has(whats)' <=> Has(whats))
         /\ TopEntry.what \in Preinsts \cup Restorers \cup {"cu_installnew"} => ~Has({"cu_installnew"})'
         /\ TopEntry.what \in Preinsts \cup Restorers => ~Has({"cu_installnew"}) /\ ~Has(Preinsts)'
         /\ upc' \notin {"prerm", "deconfigure", "extract", "postrm", "tidy", "disappear", "backups"}
<1>1. /\ upc = "unwind" /\ newpkg' = newpkg /\ newpkg \in Packages
      /\ Pushed = Pushed' \cup {TopEntry} /\ \A x \in Pushed' : Above(TopEntry, x)
    BY Popped
<1>2. ~Has({"checkpoint"}) /\ ~Has({"checkpoint"})'
    BY <1>1 DEF Has, Above
<1>3. Undoable /\ Undoable'
    BY <1>1, <1>2 DEF Undoable
<1>4. TopEntry.what \in Preinsts \cup Restorers \cup {"cu_installnew"} => ~Has({"cu_installnew"})'
    BY <1>1 DEF Has, Above, Preinsts, Restorers
<1>5. TopEntry.what \in Preinsts \cup Restorers => ~Has({"cu_installnew"}) /\ ~Has(Preinsts)'
    BY <1>1 DEF Has, Above, Preinsts, Restorers
<1>. QED
    BY <1>1, <1>3, <1>4, <1>5 DEF Has

\* A clean-up that fails leaves things as they are, and keeps the later ones of its kind
\* from running.
LEMMA Failed ==
  ASSUME SaneInv, BackInv, Pop, flagset = "bombout", TopEntry.what # "checkpoint",
         UNCHANGED <<world, cur, seen, oldversionstatus, upc, flagset, status, files>>,
         cleanup_pkg_failed' \in Nat, cleanup_pkg_failed' >= cleanup_pkg_failed,
         cleanup_conflictor_failed' \in Nat, cleanup_conflictor_failed' >= cleanup_conflictor_failed,
         TopEntry.what = "cu_installnew" => cleanup_pkg_failed' > 0,
         Recalled, was'.undone = FALSE
  PROVE  SaneInv' /\ BackInv'
<1>1. /\ Undoable /\ Undoable' /\ newpkg' = newpkg
      /\ \A whats : Has(whats)' => Has(whats)
      /\ \A whats : TopEntry.what \notin whats => (Has(whats)' <=> Has(whats))
      /\ upc' \notin {"prerm", "deconfigure", "extract", "postrm", "tidy", "disappear", "backups"}
    BY Left
<1>2. /\ status \in [Packages -> Status] /\ files \in [Packages -> {"none", "old", "new", "mixed"}]
      /\ cleanup_pkg_failed \in Nat /\ cleanup_conflictor_failed \in Nat /\ StatusFits'
    BY DEF SaneInv, UnpackTypes, StatusFits
<1>3. was'.undone \in BOOLEAN /\ FailuresCount' /\ WillBeBack'
  <2>1. ~was'.undone
      OBVIOUS
  <2>2. was'.undone \in BOOLEAN
      BY Zenon
  <2>. QED
      BY <2>1, <2>2 DEF FailuresCount, WillBeBack
<1>4. PackageIsAt'
    BY <1>1 DEF SaneInv, PackageIsAt
<1>5. FilesAreBack'
  <2>1. /\ ~Has({"cu_installnew"})' => ~Has({"cu_installnew"}) \/ TopEntry.what = "cu_installnew"
        /\ cleanup_pkg_failed' = 0 => cleanup_pkg_failed = 0
      BY <1>1, <1>2
  <2>. QED
      BY <1>1, <2>1 DEF SaneInv, FilesAreBack, Recalled
<1>6. NewWillBeBack'
    BY <1>1 DEF BackInv, NewWillBeBack, Recalled
<1>. QED
    BY <1>2, <1>3, <1>4, <1>5, <1>6, Undone

\* The clean-up of a prerm that was told that its package goes: it is installed again.
LEMMA Reinstated ==
  ASSUME SaneInv, BackInv, Pop, flagset = "bombout", TopEntry.what \in Restorers,
         UNCHANGED <<world, cur, seen, oldversionstatus, upc, flagset, files, was, cleanup_pkg_failed,
                     cleanup_conflictor_failed>>,
         status' = [status EXCEPT ![TopEntry.pkg] = INSTALLED],
         TopEntry.pkg = newpkg => cleanup_pkg_failed = 0
  PROVE  SaneInv' /\ BackInv'
<1>. DEFINE t == TopEntry
<1>1. t.what # "checkpoint" /\ t.what \notin Preinsts /\ t.what # "cu_installnew"
    BY DEF Restorers, Preinsts
<1>2. /\ Undoable /\ Undoable' /\ t \in Pushed /\ Pushed = Pushed' \cup {t} /\ newpkg' = newpkg /\ newpkg \in Packages
      /\ ~Has({"cu_installnew"})' /\ ~Has({"cu_installnew"}) /\ ~Has(Preinsts)' /\ (Has(Preinsts)' <=> Has(Preinsts))
      /\ upc' \notin {"prerm", "deconfigure", "extract", "postrm", "tidy", "disappear", "backups"}
    BY <1>1, Left
<1>. HIDE DEF t
<1>3. t.pkg \in Packages => was.files[t.pkg] \in Whole /\ was.status[t.pkg] >= HALFCONFIGURED
    BY <1>2 DEF SaneInv, EntriesFit, t
<1>4. t.pkg \in Packages => files[t.pkg] \in Whole
    BY <1>2, <1>3 DEF SaneInv, FilesAreBack, t
<1>5. /\ status' \in [Packages -> Status] /\ (t.pkg \in Packages => status'[t.pkg] = 7)
      /\ \A q \in Packages : q # t.pkg => status'[q] = status[q]
  <2>1. 7 \in Status /\ status \in [Packages -> Status] /\ status' = [status EXCEPT ![t.pkg] = 7]
      BY Numbers DEF SaneInv, UnpackTypes, t
  <2>. QED
      BY <2>1
<1>6. StatusFits'
  <2>1. SUFFICES ASSUME NEW q \in Packages PROVE Fits(status'[q], files[q])
      BY DEF StatusFits
  <2>2. CASE q = t.pkg
      BY <1>4, <1>5, <2>2, Numbers DEF Fits
  <2>3. CASE q # t.pkg
      BY <1>5, <2>3 DEF SaneInv, StatusFits
  <2>. QED
      BY <2>2, <2>3
<1>7. PackageIsAt' /\ FilesAreBack'
    BY <1>2 DEF SaneInv, PackageIsAt, FilesAreBack
<1>8. WillBeBack'
  <2>1. SUFFICES ASSUME was.undone, NEW q \in Packages
                 PROVE  /\ was.status[q] \in Configured =>
                             status'[q] \in Configured \/ \E x \in Pushed' : x.what \in Restorers /\ x.pkg = q
                        /\ was.status[q] < HALFCONFIGURED => status'[q] = was.status[q]
      BY DEF WillBeBack
  <2>2. /\ was.status[q] \in Configured =>
             status[q] \in Configured \/ \E x \in Pushed : x.what \in Restorers /\ x.pkg = q
        /\ was.status[q] < HALFCONFIGURED => status[q] = was.status[q]
      BY <1>2, <2>1 DEF BackInv, WillBeBack
  <2>3. CASE q = t.pkg
    <3>1. status'[q] \in Configured
        BY <1>5, <2>3, Numbers
    <3>2. ~(was.status[q] < HALFCONFIGURED)
        BY <1>3, <2>3, Numbers DEF SaneInv, UnpackTypes
    <3>. QED
        BY <3>1, <3>2
  <2>4. CASE q # t.pkg
      BY <1>2, <1>5, <2>2, <2>4
  <2>. QED
      BY <2>3, <2>4
<1>9. NewWillBeBack'
    BY <1>2 DEF NewWillBeBack
<1>10. FailuresCount' /\ Recalled /\ was'.undone \in BOOLEAN
    BY DEF BackInv, SaneInv, UnpackTypes, FailuresCount, Recalled
<1>11. /\ files' \in [Packages -> {"none", "old", "new", "mixed"}]
       /\ cleanup_pkg_failed' \in Nat /\ cleanup_conflictor_failed' \in Nat
    BY DEF SaneInv, UnpackTypes
<1>. QED
    BY <1>1, <1>5, <1>6, <1>7, <1>8, <1>9, <1>10, <1>11, Undone DEF t

\* cu_prermupgrade(), cu_prermdeconfigure() and cu_prerminfavour().
LEMMA RestorerStep ==
  ASSUME SaneInv, BackInv, cu_prermupgrade \/ cu_prermdeconfigure \/ cu_prerminfavour PROVE SaneInv' /\ BackInv'
<1>. DEFINE again == /\ status' = [status EXCEPT ![TopEntry.pkg] = INSTALLED]
                     /\ UNCHANGED <<was, cleanup_pkg_failed, cleanup_conflictor_failed>>
                     /\ TopEntry.pkg = newpkg => cleanup_pkg_failed = 0
            failed == /\ UNCHANGED status
                      /\ cleanup_pkg_failed' \in Nat /\ cleanup_pkg_failed' >= cleanup_pkg_failed
                      /\ cleanup_conflictor_failed' \in Nat /\ cleanup_conflictor_failed' >= cleanup_conflictor_failed
                      /\ Recalled /\ was'.undone = FALSE
<1>1. /\ Pop /\ flagset = "bombout" /\ TopEntry.what \in Restorers
      /\ UNCHANGED <<world, cur, seen, oldversionstatus, upc, flagset, files>>
    BY DEF cu_prermupgrade, cu_prermdeconfigure, cu_prerminfavour, Undo, UndoRest, Same, Fixed, Restorers,
       NotAgain, PkgFailed, Fate
<1>2. TopEntry \in Pushed /\ TopEntry.what # "checkpoint" /\ TopEntry.what # "cu_installnew"
    BY <1>1, Popped DEF Restorers
<1>3. /\ cleanup_pkg_failed \in Nat /\ cleanup_conflictor_failed \in Nat
      /\ (cleanup_pkg_failed # 0 \/ cleanup_conflictor_failed # 0 => was.undone = FALSE)
      /\ (was' = [was EXCEPT !.undone = FALSE] => Recalled /\ was'.undone = FALSE)
      /\ (was' = was => Recalled)
    BY DEF SaneInv, UnpackTypes, BackInv, FailuresCount, Recalled
<1>4. again \/ failed
  <2>1. CASE cu_prermupgrade
    <3>1. CASE cleanup_pkg_failed # 0
        BY <1>3, <2>1, <3>1 DEF cu_prermupgrade, NotAgain, Fate
    <3>2. CASE cleanup_pkg_failed = 0 /\ PkgFailed
        BY <1>3, <3>2 DEF PkgFailed, Fate
    <3>3. CASE cleanup_pkg_failed = 0 /\ ~PkgFailed
        BY <2>1, <3>3 DEF cu_prermupgrade, SetStatus, PkgDone
    <3>. QED
        BY <3>1, <3>2, <3>3
  <2>2. CASE cu_prermdeconfigure
    <3>1. TopEntry.pkg # newpkg
        BY <1>2, <2>2 DEF SaneInv, EntriesFit, cu_prermdeconfigure, Undo
    <3>. QED
        BY <1>3, <2>2, <3>1 DEF cu_prermdeconfigure, SetStatus
  <2>3. CASE cu_prerminfavour
    <3>1. TopEntry.pkg # newpkg
        BY <1>2, <2>3 DEF SaneInv, EntriesFit, cu_prerminfavour, Undo
    <3>2. CASE cleanup_conflictor_failed # 0
        BY <1>3, <2>3, <3>2 DEF cu_prerminfavour
    <3>3. CASE cleanup_conflictor_failed = 0
        BY <1>3, <2>3, <3>1, <3>3 DEF cu_prerminfavour, SetStatus
    <3>. QED
        BY <3>2, <3>3
  <2>. QED
      BY <2>1, <2>2, <2>3
<1>5. CASE again
    BY <1>1, <1>5, Reinstated
<1>6. CASE failed
    BY <1>1, <1>2, <1>6, Failed
<1>. QED
    BY <1>4, <1>5, <1>6

\* cu_preinstverynew(), cu_preinstnew() and cu_preinstupgrade().
LEMMA PreinstUndoneStep == ASSUME SaneInv, BackInv, cu_preinst PROVE SaneInv' /\ BackInv'
<1>. DEFINE t == TopEntry
<1>1. /\ Pop /\ flagset = "bombout" /\ t.what \in Preinsts
      /\ UNCHANGED <<world, cur, seen, oldversionstatus, upc, flagset, files>>
    BY DEF cu_preinst, Undo, UndoRest, Same, Fixed, Preinsts, NotAgain, PkgFailed, Fate
<1>2. t.what # "checkpoint" /\ t.what # "cu_installnew" /\ t.what \notin Restorers
    BY <1>1 DEF Preinsts, Restorers
<1>3. /\ Undoable /\ Undoable' /\ t \in Pushed /\ Pushed = Pushed' \cup {t} /\ newpkg' = newpkg /\ newpkg \in Packages
      /\ ~Has({"cu_installnew"})' /\ ~Has({"cu_installnew"}) /\ ~Has(Preinsts)'
      /\ upc' \notin {"prerm", "deconfigure", "extract", "postrm", "tidy", "disappear", "backups"}
    BY <1>1, <1>2, Left
<1>4. Has(Preinsts) /\ t.pkg = newpkg /\ Fits(oldversionstatus, was.files[newpkg])
    BY <1>1, <1>3 DEF SaneInv, EntriesFit, Has
<1>5. /\ cleanup_pkg_failed \in Nat /\ cleanup_conflictor_failed \in Nat
      /\ (cleanup_pkg_failed # 0 \/ cleanup_conflictor_failed # 0 => was.undone = FALSE)
      /\ (was' = [was EXCEPT !.undone = FALSE] => Recalled /\ was'.undone = FALSE)
      /\ (was' = was => Recalled) /\ oldversionstatus \in Status
      /\ status \in [Packages -> Status] /\ files \in [Packages -> {"none", "old", "new", "mixed"}]
    BY DEF SaneInv, UnpackTypes, BackInv, FailuresCount, Recalled
<1>6. CASE NotAgain \/ PkgFailed
  <2>1. /\ status' = status /\ cleanup_conflictor_failed' = cleanup_conflictor_failed
        /\ cleanup_pkg_failed' = cleanup_pkg_failed + 1
        /\ was' = was \/ was' = [was EXCEPT !.undone = FALSE]
      BY <1>6 DEF NotAgain, PkgFailed, Fate
  <2>2. Recalled /\ was'.undone = FALSE
    <3>1. CASE cleanup_pkg_failed # 0
        BY <1>5, <2>1, <3>1
    <3>2. CASE cleanup_pkg_failed = 0
      <4>1. \/ SetStatus(t.pkg, oldversionstatus) /\ PkgDone
            \/ PkgFailed
          BY <3>2 DEF cu_preinst
      <4>2. PkgFailed
          BY <1>5, <2>1, <4>1 DEF PkgDone
      <4>. QED
          BY <1>5, <4>2 DEF PkgFailed
    <3>. QED
        BY <3>1, <3>2, <1>5
  <2>3. /\ cleanup_pkg_failed' \in Nat /\ cleanup_pkg_failed' >= cleanup_pkg_failed
        /\ cleanup_conflictor_failed' \in Nat /\ cleanup_conflictor_failed' >= cleanup_conflictor_failed
      BY <1>5, <2>1
  <2>. QED
      BY <1>1, <1>2, <2>1, <2>2, <2>3, Failed
<1>7. CASE ~(NotAgain \/ PkgFailed)
  <2>1. /\ cleanup_pkg_failed = 0 /\ status' = [status EXCEPT ![newpkg] = oldversionstatus]
        /\ UNCHANGED <<was, cleanup_pkg_failed, cleanup_conflictor_failed>>
      BY <1>4, <1>7 DEF cu_preinst, SetStatus, PkgDone
  <2>. HIDE DEF t
  <2>2. /\ status' \in [Packages -> Status] /\ status'[newpkg] = oldversionstatus
        /\ \A q \in Packages : q # newpkg => status'[q] = status[q]
      BY <1>3, <1>5, <2>1
  <2>3. StatusFits'
    <3>1. files[newpkg] = was.files[newpkg]
        BY <1>3, <2>1 DEF SaneInv, FilesAreBack
    <3>. QED
        BY <1>1, <1>3, <1>4, <2>2, <3>1 DEF SaneInv, StatusFits
  <2>4. PackageIsAt' /\ FilesAreBack'
      BY <1>1, <1>3, <2>1 DEF SaneInv, PackageIsAt, FilesAreBack
  <2>5. WillBeBack'
    <3>1. SUFFICES ASSUME was.undone, NEW q \in Packages
                   PROVE  /\ was.status[q] \in Configured =>
                               status'[q] \in Configured \/ \E x \in Pushed' : x.what \in Restorers /\ x.pkg = q
                          /\ was.status[q] < HALFCONFIGURED => status'[q] = was.status[q]
        BY <2>1 DEF WillBeBack
    <3>2. CASE q # newpkg
      <4>1. /\ was.status[q] \in Configured =>
                 status[q] \in Configured \/ \E x \in Pushed : x.what \in Restorers /\ x.pkg = q
            /\ was.status[q] < HALFCONFIGURED => status[q] = was.status[q]
          BY <1>3, <3>1, <3>2 DEF BackInv, WillBeBack
      <4>. QED
          BY <1>2, <1>3, <2>2, <3>2, <4>1
    <3>3. CASE q = newpkg
      <4>1. was.status[newpkg] < HALFCONFIGURED => oldversionstatus = was.status[newpkg]
          BY <1>3, <1>4 DEF BackInv, NewWillBeBack
      <4>2. was.status[newpkg] \in Configured => Has({"cu_prermupgrade"})
          BY <1>3, <1>4, <3>1 DEF BackInv, NewWillBeBack
      <4>3. was.status[newpkg] \in Configured => \E x \in Pushed' : x.what = "cu_prermupgrade" /\ x.pkg = newpkg
          BY <1>2, <1>3, <4>2 DEF Has, SaneInv, EntriesFit, Restorers
      <4>. QED
          BY <2>2, <3>3, <4>1, <4>3 DEF Restorers
    <3>. QED
        BY <3>2, <3>3
  <2>6. NewWillBeBack'
      BY <1>3 DEF NewWillBeBack
  <2>7. FailuresCount' /\ Recalled /\ was'.undone \in BOOLEAN
      BY <2>1 DEF BackInv, SaneInv, UnpackTypes, FailuresCount, Recalled
  <2>8. /\ files' \in [Packages -> {"none", "old", "new", "mixed"}]
        /\ cleanup_pkg_failed' \in Nat /\ cleanup_conflictor_failed' \in Nat
      BY <1>1, <1>5, <2>1
  <2>. QED
      BY <1>1, <1>2, <2>2, <2>3, <2>4, <2>5, <2>6, <2>7, <2>8, Undone DEF t
<1>. QED
    BY <1>6, <1>7

\* The cu_installnew() of the archive.
LEMMA FilesUndoneStep == ASSUME SaneInv, BackInv, cu_installnew_all PROVE SaneInv' /\ BackInv'
<1>. DEFINE t == TopEntry
<1>1. /\ Pop /\ flagset = "bombout" /\ t.what = "cu_installnew"
      /\ UNCHANGED <<world, cur, seen, oldversionstatus, upc, flagset, status>>
    BY DEF cu_installnew_all, Undo, UndoRest, Same, Fixed, Fate
<1>2. /\ Undoable /\ Undoable' /\ t \in Pushed /\ Pushed = Pushed' \cup {t} /\ newpkg' = newpkg /\ newpkg \in Packages
      /\ ~Has({"cu_installnew"})' /\ (Has(Preinsts)' <=> Has(Preinsts))
      /\ (Has({"cu_prermupgrade"})' <=> Has({"cu_prermupgrade"}))
      /\ upc' \notin {"prerm", "deconfigure", "extract", "postrm", "tidy", "disappear", "backups"}
  <2>1. t.what # "checkpoint" /\ t.what \notin Preinsts /\ t.what # "cu_prermupgrade"
      BY <1>1 DEF Preinsts
  <2>. QED
      BY <1>1, <2>1, Left
<1>3. status[newpkg] = HALFINSTALLED
    BY <1>1, <1>2 DEF SaneInv, PackageIsAt, Has
<1>4. /\ cleanup_pkg_failed \in Nat /\ cleanup_conflictor_failed \in Nat
      /\ (was' = [was EXCEPT !.undone = FALSE] => Recalled /\ was'.undone = FALSE)
      /\ status \in [Packages -> Status] /\ files \in [Packages -> {"none", "old", "new", "mixed"}]
      /\ was.files \in [Packages -> {"none", "old", "new", "mixed"}]
    BY DEF SaneInv, UnpackTypes, Recalled
<1>5. CASE /\ cleanup_pkg_failed' = cleanup_pkg_failed + 1
           /\ cleanup_conflictor_failed' = cleanup_conflictor_failed + 1
           /\ was' = [was EXCEPT !.undone = FALSE] /\ UNCHANGED Fate
  <2>1. /\ cleanup_pkg_failed' \in Nat /\ cleanup_pkg_failed' >= cleanup_pkg_failed /\ cleanup_pkg_failed' > 0
        /\ cleanup_conflictor_failed' \in Nat /\ cleanup_conflictor_failed' >= cleanup_conflictor_failed
        /\ cleanup_conflictor_failed' > 0 /\ Recalled /\ was'.undone = FALSE /\ files' = files
        /\ t.what # "checkpoint"
      BY <1>1, <1>4, <1>5 DEF Fate
  <2>. QED
      BY <1>1, <2>1, Failed
<1>6. CASE files' = [files EXCEPT ![newpkg] = was.files[newpkg]] /\ PkgDone
  <2>. HIDE DEF t
  <2>1. /\ files' \in [Packages -> {"none", "old", "new", "mixed"}] /\ files'[newpkg] = was.files[newpkg]
        /\ \A q \in Packages : q # newpkg => files'[q] = files[q]
        /\ UNCHANGED <<was, cleanup_pkg_failed, cleanup_conflictor_failed>>
      BY <1>2, <1>4, <1>6 DEF PkgDone
  <2>2. StatusFits'
      BY <1>1, <1>2, <1>3, <2>1, Numbers DEF SaneInv, StatusFits, Fits
  <2>3. PackageIsAt' /\ FilesAreBack'
      BY <1>1, <1>2, <2>1 DEF SaneInv, PackageIsAt, FilesAreBack
  <2>4. WillBeBack'
      BY <1>1, <1>2, <2>1 DEF BackInv, WillBeBack, Restorers
  <2>5. NewWillBeBack'
      BY <1>1, <1>2, <2>1 DEF BackInv, NewWillBeBack
  <2>6. FailuresCount' /\ Recalled /\ was'.undone \in BOOLEAN
      BY <2>1 DEF BackInv, SaneInv, UnpackTypes, FailuresCount, Recalled
  <2>7. cleanup_pkg_failed' \in Nat /\ cleanup_conflictor_failed' \in Nat /\ status' \in [Packages -> Status]
        /\ t.what # "checkpoint"
      BY <1>1, <1>4, <2>1
  <2>. QED
      BY <1>1, <2>1, <2>2, <2>3, <2>4, <2>5, <2>6, <2>7, Undone DEF t
<1>. QED
    BY <1>5, <1>6 DEF cu_installnew_all

\* cu_postrmupgrade().
LEMMA PostrmUndoneStep == ASSUME SaneInv, BackInv, cu_postrmupgrade PROVE SaneInv' /\ BackInv'
<1>. DEFINE t == TopEntry
<1>1. /\ Pop /\ flagset = "bombout" /\ t.what = "cu_postrmupgrade"
      /\ UNCHANGED <<world, cur, seen, oldversionstatus, upc, flagset, status, files>>
    BY DEF cu_postrmupgrade, Undo, UndoRest, Same, Fixed, Fate, NotAgain, PkgFailed
<1>2. t.what # "checkpoint" /\ t.what \notin Preinsts /\ t.what \notin Restorers /\ t.what # "cu_prermupgrade"
      /\ t.what # "cu_installnew"
    BY <1>1 DEF Preinsts, Restorers
<1>3. /\ Undoable /\ Undoable' /\ Pushed = Pushed' \cup {t} /\ newpkg' = newpkg
      /\ (Has({"cu_installnew"})' <=> Has({"cu_installnew"})) /\ (Has(Preinsts)' <=> Has(Preinsts))
      /\ (Has({"cu_prermupgrade"})' <=> Has({"cu_prermupgrade"}))
      /\ upc' \notin {"prerm", "deconfigure", "extract", "postrm", "tidy", "disappear", "backups"}
    BY <1>1, <1>2, Left
<1>4. /\ cleanup_pkg_failed \in Nat /\ cleanup_conflictor_failed \in Nat
      /\ (cleanup_pkg_failed # 0 \/ cleanup_conflictor_failed # 0 => was.undone = FALSE)
      /\ (was' = [was EXCEPT !.undone = FALSE] => Recalled /\ was'.undone = FALSE)
      /\ (was' = was => Recalled)
      /\ status \in [Packages -> Status] /\ files \in [Packages -> {"none", "old", "new", "mixed"}]
    BY DEF SaneInv, UnpackTypes, BackInv, FailuresCount, Recalled
<1>5. CASE cleanup_pkg_failed # 0 \/ PkgFailed
  <2>1. /\ cleanup_conflictor_failed' = cleanup_conflictor_failed /\ cleanup_pkg_failed' = cleanup_pkg_failed + 1
        /\ Recalled /\ was'.undone = FALSE
      BY <1>4, <1>5 DEF cu_postrmupgrade, NotAgain, PkgFailed
  <2>2. /\ cleanup_pkg_failed' \in Nat /\ cleanup_pkg_failed' >= cleanup_pkg_failed
        /\ cleanup_conflictor_failed' \in Nat /\ cleanup_conflictor_failed' >= cleanup_conflictor_failed
      BY <1>4, <2>1
  <2>. QED
      BY <1>1, <1>2, <2>1, <2>2, Failed
<1>6. CASE cleanup_pkg_failed = 0 /\ ~PkgFailed
  <2>1. UNCHANGED <<was, cleanup_pkg_failed, cleanup_conflictor_failed>>
      BY <1>6 DEF cu_postrmupgrade, PkgDone
  <2>. HIDE DEF t
  <2>2. StatusFits' /\ PackageIsAt' /\ FilesAreBack'
      BY <1>1, <1>3, <2>1 DEF SaneInv, StatusFits, PackageIsAt, FilesAreBack
  <2>3. WillBeBack'
      BY <1>1, <1>2, <1>3, <2>1 DEF BackInv, WillBeBack
  <2>4. NewWillBeBack'
      BY <1>1, <1>3, <2>1 DEF BackInv, NewWillBeBack
  <2>5. FailuresCount' /\ Recalled /\ was'.undone \in BOOLEAN
      BY <2>1 DEF BackInv, SaneInv, UnpackTypes, FailuresCount, Recalled
  <2>6. /\ cleanup_pkg_failed' \in Nat /\ cleanup_conflictor_failed' \in Nat /\ status' \in [Packages -> Status]
        /\ files' \in [Packages -> {"none", "old", "new", "mixed"}]
      BY <1>1, <1>4, <2>1
  <2>. QED
      BY <1>1, <1>2, <2>2, <2>3, <2>4, <2>5, <2>6, Undone DEF t
<1>. QED
    BY <1>5, <1>6

\* The stack is empty: everything that was on it has been done.
LEMMA EndStep == ASSUME SaneInv, BackInv, pop_error_context PROVE SaneInv' /\ BackInv'
<1>1. /\ upc = "unwind" /\ cleanups = <<>> /\ upc' = "idle"
      /\ UNCHANGED <<world, cur, seen, status, files, cleanups, cleanup_pkg_failed, cleanup_conflictor_failed,
                     flagset, oldversionstatus>>
      /\ was' = was \/ \E x : was' = [was EXCEPT !.end = x]
      /\ (was.end = "late" => was'.end = "late")
    BY DEF pop_error_context, Goto, Same, Fixed, Fate, Undoing, SaneInv, UnpackTypes
<1>2. Recalled /\ was'.undone = was.undone
    BY <1>1 DEF Recalled, SaneInv, UnpackTypes
<1>3. Pushed = {} /\ Pushed' = {} /\ \A whats : ~Has(whats) /\ ~Has(whats)'
    BY <1>1, EmptyStack DEF Pushed, Has
<1>4. newpkg' = newpkg /\ newpkg \in Packages /\ Len(world'.archives) = Len(world.archives)
    BY <1>1, Here DEF SaneInv, UnpackTypes
<1>5. ~Undoable' /\ upc' \notin Before \cup After /\ upc' \notin Planning
    BY <1>1 DEF Undoable, Before, After, Planning
<1>6. UnpackTypes'
    BY <1>1, <1>2, <1>4, <1>5 DEF SaneInv, UnpackTypes, Recalled
<1>7. StackFits' /\ EntriesFit'
    BY <1>1, <1>3, <1>5 DEF StackFits, EntriesFit, Before, After
<1>8. StatusFits' /\ PackageIsAt' /\ FilesAreBack'
    BY <1>1, <1>5 DEF SaneInv, StatusFits, PackageIsAt, FilesAreBack
<1>9. AbortRestores'
  <2>1. SUFFICES ASSUME was'.end = "undone", was.undone
                 PROVE  \A p \in Packages :
                          /\ files[p] = was.files[p]
                          /\ was.status[p] \in Configured => status[p] \in Configured
                          /\ was.status[p] < HALFCONFIGURED => status[p] = was.status[p]
      BY <1>1, <1>2 DEF AbortRestores, Recalled
  <2>2. was.end # "late"
      BY <1>1, <2>1
  <2>3. Undoable
      BY <1>1, <1>3, <2>2 DEF SaneInv, StackFits, Undoable
  <2>4. cleanup_pkg_failed = 0 /\ cleanup_conflictor_failed = 0
      BY <2>1 DEF BackInv, FailuresCount
  <2>5. \A p \in Packages : files[p] = was.files[p]
      BY <1>3, <1>4, <2>3, <2>4 DEF SaneInv, FilesAreBack
  <2>. QED
      BY <1>3, <2>1, <2>3, <2>5 DEF BackInv, WillBeBack
<1>10. BackInv'
    BY <1>1, <1>2, <1>5, <1>9 DEF BackInv, Known, FailuresCount, PlanningKeeps, WillBeBack, NewWillBeBack
<1>. QED
    BY <1>6, <1>7, <1>8, <1>10 DEF SaneInv

-----------------------------------------------------------------------------
\* Every step of process_archive() and run_cleanups() keeps the invariant.
LEMMA UnpackStep == SaneInv /\ BackInv /\ [UnpackNext]_unpackvars => SaneInv' /\ BackInv'
<1>1. SUFFICES ASSUME SaneInv, BackInv, [UnpackNext]_unpackvars PROVE SaneInv' /\ BackInv'
    OBVIOUS
<1>2. CASE process_archive
    BY <1>1, <1>2, NextArchiveStep, PlanningStep, PredependsStep, PrermUpgradeStep, PrermRanStep, DeconfigureStep,
       ConflictorStep, PreinstStep, ExtractStep, PostrmUpgradeStep, CommittedStep, DisappearStep,
       RemoveConflictorStep DEF process_archive
<1>3. CASE run_cleanups
    BY <1>1, <1>3, NormalEndStep, RestorerStep, PreinstUndoneStep, FilesUndoneStep, PostrmUndoneStep, EndStep
       DEF run_cleanups
<1>4. CASE UNCHANGED unpackvars
  <2>1. UNCHANGED <<world, cur, seen, status, files, cleanups, oldversionstatus, cleanup_pkg_failed,
                    cleanup_conflictor_failed, flagset, upc, was>>
      BY <1>4 DEF unpackvars
  <2>2. newpkg' = newpkg /\ Pushed' = Pushed /\ (\A whats : Has(whats)' = Has(whats)) /\ Undoable' = Undoable
      BY <2>1, Here DEF Pushed, Has, Undoable
  <2>3. SaneInv'
      BY <1>1, <2>1, <2>2 DEF SaneInv, UnpackTypes, StackFits, EntriesFit, StatusFits, PackageIsAt, FilesAreBack
  <2>4. BackInv'
      BY <1>1, <2>1, <2>2 DEF BackInv, Known, FailuresCount, PlanningKeeps, WillBeBack, NewWillBeBack, AbortRestores
  <2>. QED
      BY <2>3, <2>4
<1>. QED
    BY <1>1, <1>2, <1>3, <1>4 DEF UnpackNext

\* The stack of clean-ups of process_archive(): what lies on it when and above what, that
\* every entry restores what was whole, and that until the checkpoint whatever the archive
\* changed is back or has its entry on the stack.
THEOREM UnpackInvariant == UnpackSpec => [](SaneInv /\ BackInv)
BY UnpackInitInv, UnpackStep, PTL DEF UnpackSpec

\* Whichever scripts of process_archive() and clean-ups of cleanup.c fail, a package above
\* half-installed has all the files of one version, and one that is not installed has none.
THEOREM SaneIsAlwaysWhole == UnpackSpec => []SaneIsWhole
<1>1. SaneInv => SaneIsWhole
    BY DEF SaneInv, StatusFits, Fits, SaneIsWhole, Whole
<1>. QED
    BY <1>1, UnpackInvariant, PTL

\* An archive that fails before the checkpoint of process_archive() leaves the files, the
\* configured packages and the other statuses as they were, if every clean-up works.
THEOREM AbortsAlwaysRestore == UnpackSpec => []AbortRestores
<1>1. BackInv => AbortRestores
    BY DEF BackInv
<1>. QED
    BY <1>1, UnpackInvariant, PTL

-----------------------------------------------------------------------------
(***************************************************************************)
(* No dependency is broken by a removal.  The plans: who is to be stopped, *)
(* who has been agreed to go, and what is known of the dependents that     *)
(* check_conflict() has asked.                                             *)
(***************************************************************************)
Tobe == {"normal", "installnew", "deconfigure", "remove"}
Deciding == {"depcon", "asking"}
Acting == {"prerm", "deconfigure", "extract", "postrm", "tidy", "disappear", "backups", "conflictors"}
Needed == {"depends", "predepends"}

ToDeconfigure == {e.pkg : e \in Elems(deconf)}
Agreed == Elems(conflictors)
Gone == {q \in Packages : istobe[q] = "remove"}
NamesOf(q) == {q} \cup ToSet(world.provides[q])
Counts == was.fresh /\ ~in_force("depends")

\* A dependency that nothing removed breaks: its package will not be configured, or a package
\* that answers it stays, be it only unpacked.
Answers(r, name) == name \in NamesOf(r) \/ (r = newpkg /\ name \in archive.provides)
Stays(r, gone, least) == r = newpkg \/ (r \notin gone /\ status[r] > least)
Kept(dep, gone, least) ==
  \/ dep.up = newpkg \/ status[dep.up] \notin Configured \/ dep.up \in ToDeconfigure \cup gone
  \/ \E j \in DOMAIN dep.list, r \in Packages : Answers(r, dep.list[j].on) /\ Stays(r, gone, least)
DependsOn(dep, q) == \E name \in NamesOf(q) : IsOn(dep, name, Needed)

PlanTypes ==
  /\ istobe \in [Packages -> Tobe] /\ Stack(deconf) /\ Stack(conflictors)
  /\ upc = "open" /\ was.fresh => conflictors = <<>>

\* What istobe says is in the lists too; the new package is installed, or its deconfiguration
\* will be an internal error.
PlansFit ==
  /\ upc \in Deciding \cup Acting =>
       /\ \A q \in Packages : istobe[q] = "installnew" => q = newpkg
       /\ \A q \in Packages : istobe[q] = "deconfigure" => q \in ToDeconfigure \/ status[q] \notin Configured
       /\ istobe[newpkg] = "installnew" \/ newpkg \in ToDeconfigure
       /\ was.fresh => \A q \in Agreed \cap Packages : istobe[q] = "remove"
  /\ upc \in Deciding /\ was.fresh =>
       \A q \in Gone : q \in Agreed \/ (upc = "asking" /\ q = checks[1].of)
  /\ upc \in Acting /\ was.fresh => \A q \in Gone : q \in Agreed \/ status[q] < HALFINSTALLED
  /\ upc \in Acting \ {"prerm", "deconfigure"} => deconf = <<>> /\ istobe[newpkg] = "installnew"
  /\ upc \in {"backups", "conflictors"} /\ was.fresh => status[newpkg] = UNPACKED

\* check_conflict() has asked the dependents by the names and as far as the list says.
Pending(i, name) == \E k \in 1 .. Len(checks[1].names) :
                      checks[1].names[k] = name /\ (k = 1 => i >= checks[1].at)
AskedFit ==
  upc = "asking" =>
    /\ checks = <<checks[1], checks[2]>>
    /\ checks[1] = [of |-> checks[1].of, names |-> checks[1].names, at |-> checks[1].at]
    /\ checks[1].at \in 1 .. Len(world.depends) + 1
    /\ checks[1].of \in Packages =>
         /\ Stack(checks[1].names) /\ istobe[checks[1].of] = "remove"
         /\ was.fresh => checks[1].of \notin Agreed
    /\ Counts /\ checks[1].of \in Packages /\ status[checks[1].of] \in Configured =>
         \A i \in DOMAIN world.depends, name \in NamesOf(checks[1].of) :
           IsOn(world.depends[i], name, Needed) =>
             Pending(i, name) \/ Kept(world.depends[i], Agreed \cup {checks[1].of}, HALFCONFIGURED)

\* What was agreed to go is missed by nobody.
AgreedFit ==
  upc \in Deciding /\ Counts =>
    \A q \in Agreed \cap Packages, i \in DOMAIN world.depends :
      status[q] \in Configured /\ DependsOn(world.depends[i], q) =>
        Kept(world.depends[i], Agreed, HALFCONFIGURED)
GoneFit ==
  upc \in Acting /\ Counts =>
    \A q \in Packages, i \in DOMAIN world.depends :
      /\ was.status[q] \in Configured /\ (q \in Gone \/ status[q] < HALFINSTALLED)
      /\ DependsOn(world.depends[i], q)
      => Kept(world.depends[i], Gone, HALFINSTALLED)

KeepInv == PlanTypes /\ PlansFit /\ AskedFit /\ AgreedFit /\ GoneFit

\* What is known of the installed packages.
LEMMA TheWorld ==
  ASSUME SaneInv
  PROVE  /\ Len(world.depends) \in Nat /\ DOMAIN world.depends = 1 .. Len(world.depends)
         /\ \A i \in DOMAIN world.depends : world.depends[i].up \in Packages
         /\ \A p \in Packages : Stack(world.provides[p]) /\ ToSet(world.provides[p]) = Elems(world.provides[p])
<1>1. world \in Worlds
    BY DEF SaneInv, UnpackTypes
<1>2. world.depends \in Seq(ToSet(world.depends)) /\ \A i \in DOMAIN world.depends : world.depends[i].up \in Packages
    BY <1>1, WorldsAssumption
<1>3. ASSUME NEW p \in Packages
      PROVE  Stack(world.provides[p]) /\ ToSet(world.provides[p]) = Elems(world.provides[p])
  <2>1. world.provides[p] \in Seq(ToSet(world.provides[p]))
      BY <1>1, WorldsAssumption
  <2>2. ToSet(world.provides[p]) = Elems(world.provides[p])
      BY <2>1 DEF ToSet, Elems
  <2>. QED
      BY <2>1, <2>2 DEF Stack
<1>. QED
    BY <1>2, <1>3

\* The relations between packages stay as they are while an archive is unpacked.
LEMMA SameArchive ==
  ASSUME UNCHANGED <<world, cur>>
  PROVE  /\ newpkg' = newpkg /\ archive' = archive /\ in_force("depends")' = in_force("depends")
         /\ \A q : NamesOf(q)' = NamesOf(q)
         /\ \A r, n : Answers(r, n)' = Answers(r, n)
         /\ \A d, q : DependsOn(d, q)' = DependsOn(d, q)
BY DEF newpkg, archive, in_force, NamesOf, Answers, DependsOn

\* Append() adds a last element.
LEMMA AppendLemma ==
  ASSUME NEW s, Stack(s), NEW e
  PROVE  Stack(Append(s, e)) /\ Elems(Append(s, e)) = Elems(s) \cup {e}
<1>. DEFINE t == Append(s, e)
            S == Elems(s) \cup {e}
<1>1. s \in Seq(S)
    BY DEF Stack
<1>2. /\ t \in Seq(S) /\ Len(s) \in Nat /\ Len(t) = Len(s) + 1
      /\ \A i \in 1 .. Len(s) : t[i] = s[i]
      /\ t[Len(s) + 1] = e
    BY <1>1
<1>. HIDE DEF t
<1>3. \A x \in Elems(t) : x \in S
    BY <1>2 DEF Elems
<1>4. \A x \in S : x \in Elems(t)
  <2>1. ASSUME NEW i \in 1 .. Len(s) PROVE s[i] \in Elems(t)
    <3>1. i \in 1 .. Len(t) /\ t[i] = s[i]
        BY <1>2
    <3>. QED
        BY <3>1 DEF Elems
  <2>2. e \in Elems(t)
    <3>1. Len(t) \in 1 .. Len(t) /\ t[Len(t)] = e
        BY <1>2
    <3>. QED
        BY <3>1 DEF Elems
  <2>. QED
      BY <2>1, <2>2 DEF Elems
<1>5. Elems(t) = S
    BY <1>3, <1>4
<1>. QED
    BY <1>2, <1>5 DEF Stack, t

\* Where no archive is worked on there is little to keep.
LEMMA KeepIdle ==
  ASSUME PlanTypes', upc' \notin Deciding \cup Acting
  PROVE  KeepInv'
BY DEF KeepInv, PlansFit, AskedFit, AgreedFit, GoneFit, Deciding, Acting

LEMMA KeepInit == UnpackInit => KeepInv
<1>. SUFFICES ASSUME UnpackInit PROVE KeepInv
    OBVIOUS
<1>1. PlanTypes
    BY EmptyStack DEF UnpackInit, PlanTypes, Tobe
<1>2. upc \notin Deciding \cup Acting
    BY DEF UnpackInit, Deciding, Acting
<1>. QED
    BY <1>1, <1>2 DEF KeepInv, PlansFit, AskedFit, AgreedFit, GoneFit, Deciding, Acting

\* A step that leaves the plans alone and ends the work on the archive, or begins it.
LEMMA PlansRest ==
  ASSUME KeepInv,
         \/ NextArchive \/ OpenFails \/ Skipped \/ finish \/ run_cleanups
  PROVE  KeepInv'
<1>1. UNCHANGED Plans
    BY DEF NextArchive, OpenFails, Skipped, finish, run_cleanups, cross_checkpoint, normal_tidy, cu_prermupgrade,
       cu_prermdeconfigure, cu_prerminfavour, cu_preinst, cu_installnew_all, cu_postrmupgrade, pop_error_context, UndoRest
<1>2. \/ upc' \in {"unwind", "idle"}
      \/ upc' = "open" /\ (was'.fresh => conflictors = <<>>)
  <2>1. CASE NextArchive
      BY <2>1, Zenon DEF NextArchive, Goto
  <2>2. CASE OpenFails \/ Skipped \/ finish
      BY <2>2 DEF OpenFails, Skipped, finish, Goto, ohshit
  <2>3. CASE run_cleanups
      BY <2>3 DEF run_cleanups, cross_checkpoint, normal_tidy, cu_prermupgrade, cu_prermdeconfigure, cu_prerminfavour,
         cu_preinst, cu_installnew_all, cu_postrmupgrade, pop_error_context, UndoRest, Goto, Pop, Undo
  <2>. QED
      BY <2>1, <2>2, <2>3
<1>3. PlanTypes'
    BY <1>1, <1>2 DEF KeepInv, PlanTypes, Plans
<1>4. upc' \notin Deciding \cup Acting
    BY <1>2 DEF Deciding, Acting
<1>. QED
    BY <1>3, <1>4, KeepIdle

\* The plans for a new archive: siblings that are out of step are deconfigured.
LEMMA OpenedKeeps == ASSUME SaneInv, KeepInv, Opened PROVE KeepInv'
<1>. DEFINE S == {p \in Packages : <<newpkg, p>> \in world.siblings /\ status[p] \in Configured}
            ps == OutOfSync
            es == Entries(ps, "unknown")
<1>1. /\ upc = "open" /\ upc' = "depcon" /\ UNCHANGED <<world, cur, status, conflictors, was>>
      /\ deconf' = Reverse(es)
      /\ istobe' = [p \in Packages |-> IF p = newpkg THEN "installnew"
                                       ELSE IF p \in ToSet(ps) THEN "deconfigure" ELSE "normal"]
    BY DEF Opened, Goto, Same, Fixed, Fate
<1>2. newpkg' = newpkg /\ newpkg \in Packages
    BY <1>1, SameArchive DEF SaneInv, UnpackTypes
<1>3. PICK n \in Nat : ps \in [1 .. n -> S]
  <2>1. IsFiniteSet(S)
      BY PackagesAssumption, FS_Subset
  <2>2. PICK n \in Nat : ExistsBijection(1 .. n, S)
      BY <2>1, FS_NatBijection, Zenon
  <2>3. Cardinality(S) = n
      BY <2>2, FS_CountingElements
  <2>4. \E f \in [1 .. Cardinality(S) -> S] : IsInjective(f)
    <3>1. PICK f \in Bijection(1 .. n, S) : TRUE
        BY <2>2 DEF ExistsBijection
    <3>2. f \in [1 .. n -> S] /\ IsInjective(f)
        BY DEF Bijection, Injection, IsInjective
    <3>. QED
        BY <2>3, <3>2
  <2>5. ps \in [1 .. Cardinality(S) -> S]
      BY <2>4 DEF OutOfSync, SetToSeq
  <2>. QED
      BY <2>3, <2>5
<1>4. /\ Len(es) = n /\ DOMAIN ps = 1 .. n /\ \A i \in 1 .. n : es[i].pkg = ps[i]
      /\ es \in Seq(Elems(es))
    BY <1>3 DEF Entries, Elems
<1>5. Stack(deconf') /\ \A q \in ToSet(ps) : q \in ToDeconfigure'
  <2>. DEFINE r == Reverse(es)
  <2>1. r = [i \in 1 .. n |-> es[(n - i) + 1]]
      BY <1>4 DEF Reverse
  <2>2. Len(r) = n /\ r \in Seq(Elems(r))
      BY <2>1 DEF Elems
  <2>3. ASSUME NEW q \in ToSet(ps) PROVE \E e \in Elems(r) : e.pkg = q
    <3>1. PICK i \in 1 .. n : ps[i] = q
        BY <1>4 DEF ToSet
    <3>2. (n - i) + 1 \in 1 .. n /\ r[(n - i) + 1] = es[i]
        BY <2>1
    <3>3. r[(n - i) + 1] \in Elems(r)
        BY <2>2, <3>2 DEF Elems
    <3>. QED
        BY <1>4, <3>1, <3>2, <3>3
  <2>. QED
      BY <1>1, <2>2, <2>3 DEF Stack, ToDeconfigure
<1>6. istobe' \in [Packages -> Tobe] /\ istobe'[newpkg] = "installnew" /\ Gone' = {}
    BY <1>1, <1>2 DEF Tobe, Gone
<1>7. was.fresh => Agreed' = {}
    BY <1>1, EmptyStack DEF KeepInv, PlanTypes, Agreed
<1>8. PlanTypes'
    BY <1>1, <1>5, <1>6 DEF KeepInv, PlanTypes
<1>9. PlansFit'
    BY <1>1, <1>2, <1>5, <1>6, <1>7 DEF PlansFit, Deciding, Acting
<1>10. AskedFit' /\ AgreedFit' /\ GoneFit'
    BY <1>1, <1>7 DEF AskedFit, AgreedFit, GoneFit, Acting, Counts
<1>. QED
    BY <1>8, <1>9, <1>10 DEF KeepInv

\* What is kept depends on the packages and on the lists alone.
LEMMA SameKept ==
  ASSUME UNCHANGED <<world, cur, status, deconf>>
  PROVE  ToDeconfigure' = ToDeconfigure /\ \A d, gone, least : Kept(d, gone, least)' = Kept(d, gone, least)
BY SameArchive DEF ToDeconfigure, Kept, Stays

\* A check that plans at most another deconfiguration, and makes nothing of what is configured
\* something else.
LEMMA CheckKeeps ==
  ASSUME SaneInv, KeepInv, PlanTypes', upc \in {"depcon", "asking"}, upc' = upc,
         upc = "asking" => checks'[1].of = checks[1].of /\ AskedFit',
         UNCHANGED <<world, cur, conflictors, was>>, status' \in [Packages -> Status],
         \A q \in Packages : status'[q] \in Configured <=> status[q] \in Configured,
         Gone' = Gone, ToDeconfigure \subseteq ToDeconfigure',
         \A q \in Packages : istobe'[q] = istobe[q] \/ (istobe'[q] = "deconfigure" /\ q \in ToDeconfigure')
  PROVE  KeepInv'
<1>1. /\ newpkg' = newpkg /\ newpkg \in Packages /\ Agreed' = Agreed /\ Counts' = Counts
      /\ (\A r, n : Answers(r, n)' = Answers(r, n)) /\ (\A d, q : DependsOn(d, q)' = DependsOn(d, q))
    BY SameArchive DEF SaneInv, UnpackTypes, Agreed, Counts
<1>2. upc \in Deciding /\ upc' \in Deciding /\ upc' \notin Acting
    BY DEF Deciding, Acting
<1>3. PlansFit'
  <2>1. \A q \in Packages : istobe'[q] = "installnew" => q = newpkg
      BY <1>2 DEF KeepInv, PlansFit
  <2>2. \A q \in Packages : istobe'[q] = "deconfigure" => q \in ToDeconfigure' \/ status'[q] \notin Configured
      BY <1>2 DEF KeepInv, PlansFit
  <2>3. istobe'[newpkg] = "installnew" \/ newpkg \in ToDeconfigure'
      BY <1>1, <1>2 DEF KeepInv, PlansFit
  <2>4. was.fresh => \A q \in Agreed \cap Packages : istobe'[q] = "remove"
    <3>1. was.fresh => \A q \in Agreed \cap Packages : q \in Gone
        BY <1>2 DEF KeepInv, PlansFit, Gone
    <3>. QED
        BY <3>1 DEF Gone
  <2>5. was.fresh => \A q \in Gone : q \in Agreed \/ (upc = "asking" /\ q = checks'[1].of)
      BY <1>2 DEF KeepInv, PlansFit
  <2>. QED
      BY <1>1, <1>2, <2>1, <2>2, <2>3, <2>4, <2>5 DEF PlansFit, Acting, Deciding
<1>4. AskedFit' /\ GoneFit'
    BY <1>2 DEF AskedFit, GoneFit
<1>5. AgreedFit'
  <2>. SUFFICES ASSUME Counts', NEW q \in Agreed \cap Packages, NEW i \in DOMAIN world.depends,
                       status'[q] \in Configured, DependsOn(world.depends[i], q)'
                PROVE  Kept(world.depends[i], Agreed, HALFCONFIGURED)'
      BY <1>1, <1>2 DEF AgreedFit
  <2>1. Kept(world.depends[i], Agreed, HALFCONFIGURED)
      BY <1>1, <1>2 DEF KeepInv, AgreedFit
  <2>2. \A r \in Packages : status[r] > HALFCONFIGURED => status'[r] > HALFCONFIGURED
      BY Numbers DEF SaneInv, UnpackTypes
  <2>3. world.depends[i].up \in Packages
      BY TheWorld
  <2>. QED
      BY <1>1, <2>1, <2>2, <2>3 DEF Kept, Stays
<1>. QED
    BY <1>3, <1>4, <1>5 DEF KeepInv

\* Deconfiguring one more package is noted in both places.
LEMMA OneMoreStopped ==
  ASSUME KeepInv, NEW p, NEW removal, NEW reason, Planned(Deconfiguring(ThePlan, p, removal, reason))
  PROVE  /\ istobe' = [istobe EXCEPT ![p] = "deconfigure"] /\ istobe' \in [Packages -> Tobe] /\ Stack(deconf')
         /\ ToDeconfigure' = ToDeconfigure \cup {p}
<1>. DEFINE e == [pkg |-> p, removal |-> removal, reason |-> reason]
<1>1. istobe' = [istobe EXCEPT ![p] = "deconfigure"] /\ deconf' = <<e>> \o deconf
    BY DEF Planned, Deconfiguring, ThePlan
<1>2. Stack(deconf') /\ Elems(deconf') = Elems(deconf) \cup {e}
    BY <1>1, PushLemma DEF KeepInv, PlanTypes
<1>3. e.pkg = p
    OBVIOUS
<1>4. ToDeconfigure' = ToDeconfigure \cup {p}
  <2>. HIDE DEF e
  <2>. QED
      BY <1>2, <1>3 DEF ToDeconfigure
<1>. QED
    BY <1>1, <1>2, <1>4 DEF KeepInv, PlanTypes, Tobe

LEMMA DepIsFineKeeps == ASSUME SaneInv, KeepInv, DepIsFine PROVE KeepInv'
<1>1. UNCHANGED <<world, cur, status, istobe, conflictors, deconf, upc, was>> /\ upc = "depcon"
    BY DEF DepIsFine, Check, Unaffected, Same, Fixed, Fate
<1>2. PlanTypes' /\ Gone' = Gone /\ ToDeconfigure' = ToDeconfigure /\ status' \in [Packages -> Status]
    BY <1>1 DEF KeepInv, PlanTypes, Gone, ToDeconfigure, SaneInv, UnpackTypes
<1>. QED
    BY <1>1, <1>2, CheckKeeps

\* A refused archive.
LEMMA RefusedKeeps ==
  ASSUME PlanTypes', upc' = "unwind" PROVE KeepInv'
BY KeepIdle DEF Deciding, Acting

LEMMA PredependsKeep == ASSUME SaneInv, KeepInv, check_predepends PROVE KeepInv'
<1>1. UNCHANGED <<world, cur, istobe, conflictors, deconf, was>> /\ upc = "depcon" /\ upc' \in {"depcon", "unwind"}
    BY DEF check_predepends, Check, Same, Fixed, Forced, Refused, ohshit
<1>2. PlanTypes' /\ Gone' = Gone /\ ToDeconfigure' = ToDeconfigure
    BY <1>1 DEF KeepInv, PlanTypes, Gone, ToDeconfigure
<1>3. \/ status' = status
      \/ \E p \in Packages : status[p] = TRIGGERSAWAITED /\ status' = [status EXCEPT ![p] = INSTALLED]
    BY DEF check_predepends, canfixbytrigaw, SetStatus
<1>4. status' \in [Packages -> Status] /\ \A q \in Packages : status'[q] \in Configured <=> status[q] \in Configured
    BY <1>3, Numbers DEF SaneInv, UnpackTypes
<1>. QED
    BY <1>1, <1>2, <1>4, CheckKeeps, RefusedKeeps

LEMMA BreaksKeep == ASSUME SaneInv, KeepInv, check_breaks PROVE KeepInv'
<1>1. UNCHANGED <<world, cur, status, conflictors, was>> /\ upc = "depcon" /\ upc' \in {"depcon", "unwind"}
      /\ status' \in [Packages -> Status]
    BY DEF check_breaks, Check, Unaffected, Same, Fixed, Fate, Forced, Refused, ohshit, SaneInv, UnpackTypes
<1>2. CASE UNCHANGED <<istobe, deconf>>
  <2>1. PlanTypes' /\ Gone' = Gone /\ ToDeconfigure' = ToDeconfigure
      BY <1>1, <1>2 DEF KeepInv, PlanTypes, Gone, ToDeconfigure
  <2>. QED
      BY <1>1, <1>2, <2>1, CheckKeeps, RefusedKeeps
<1>3. ASSUME NEW p \in canfixbyremove(Head(checks)), Planned(Deconfiguring(ThePlan, p, "none", "install"))
      PROVE  KeepInv'
  <2>1. /\ istobe' = [istobe EXCEPT ![p] = "deconfigure"] /\ istobe' \in [Packages -> Tobe] /\ Stack(deconf')
        /\ ToDeconfigure' = ToDeconfigure \cup {p}
      BY <1>3, OneMoreStopped
  <2>2. p \in Packages /\ istobe[p] # "remove"
      BY <1>3 DEF canfixbyremove, ConflictReal, ConflictVirtual, InTheWay
  <2>3. PlanTypes' /\ Gone' = Gone
      BY <1>1, <2>1, <2>2 DEF KeepInv, PlanTypes, Gone
  <2>4. \A q \in Packages : istobe'[q] = istobe[q] \/ (istobe'[q] = "deconfigure" /\ q \in ToDeconfigure')
      BY <2>1 DEF KeepInv, PlanTypes
  <2>. QED
      BY <1>1, <2>1, <2>3, <2>4, CheckKeeps, RefusedKeeps
<1>. QED
    BY <1>2, <1>3 DEF check_breaks

\* What depisok() accepts is kept, for plans that agree with the lists.
LEMMA OkIsKept ==
  ASSUME SaneInv, NEW to \in [Packages -> Tobe], NEW gone, NEW dep, dep.type \in Needed, dep.up \in Packages,
         newpkg \in Packages,
         \A q \in Packages : to[q] = "remove" <=> q \in gone,
         \A q \in Packages : to[q] = "installnew" => q = newpkg,
         \A q \in Packages : to[q] = "deconfigure" => q \in ToDeconfigure \/ status[q] \notin Configured,
         depisok(to, dep, FALSE)
  PROVE  Kept(dep, gone, HALFCONFIGURED)
<1>1. dep.type \notin {"conflicts", "breaks"}
    BY DEF Needed
<1>2. ~Matters(to, dep) \/ DependOk(to, dep, FALSE)
    BY <1>1 DEF depisok
<1>3. CASE ~Matters(to, dep)
  <2>1. to[dep.up] # "installnew" /\ ~(to[dep.up] = "normal" /\ status[dep.up] \in Configured)
      BY <1>3 DEF Matters
  <2>. QED
      BY <2>1 DEF Kept, Tobe
<1>4. ASSUME NEW i \in DOMAIN dep.list, dep.list[i].on \in Packages,
             Satisfies(to, dep.list[i].on, dep.list[i], FALSE)
      PROVE  Kept(dep, gone, HALFCONFIGURED)
  <2>1. CASE to[dep.list[i].on] = "installnew"
      BY <1>4, <2>1 DEF Kept, Stays, Answers, NamesOf
  <2>2. CASE to[dep.list[i].on] = "normal" /\ status[dep.list[i].on] \in {INSTALLED, TRIGGERSPENDING}
    <3>1. status[dep.list[i].on] > HALFCONFIGURED
        BY <2>2, Numbers
    <3>2. dep.list[i].on \notin gone
        BY <1>4, <2>2
    <3>. QED
        BY <1>4, <3>1, <3>2 DEF Kept, Stays, Answers, NamesOf
  <2>. QED
      BY <1>4, <2>1, <2>2 DEF Satisfies
<1>5. ASSUME NEW i \in DOMAIN dep.list, NEW p \in Packages,
             \/ ProvidesNew(to, p, dep.list[i].on)
             \/ ProvidesOld(to, p, dep.list[i].on) /\ to[p] = "normal" /\ status[p] \in {INSTALLED, TRIGGERSPENDING}
      PROVE  Kept(dep, gone, HALFCONFIGURED)
  <2>1. CASE ProvidesNew(to, p, dep.list[i].on)
      BY <1>5, <2>1 DEF ProvidesNew, Kept, Stays, Answers
  <2>2. CASE ProvidesOld(to, p, dep.list[i].on) /\ to[p] = "normal" /\ status[p] \in {INSTALLED, TRIGGERSPENDING}
    <3>1. status[p] > HALFCONFIGURED /\ p \notin gone /\ dep.list[i].on \in NamesOf(p)
        BY <2>2, Numbers DEF ProvidesOld, NamesOf
    <3>. QED
        BY <1>5, <3>1 DEF Kept, Stays, Answers
  <2>. QED
      BY <1>5, <2>1, <2>2
<1>. QED
    BY <1>2, <1>3, <1>4, <1>5 DEF DependOk

\* Of two packages in conflict the one that may go is not going yet, and is not being installed.
LEMMA MayGo ==
  ASSUME SaneInv, KeepInv, upc = "depcon", NEW dep, ~depisok(istobe, dep, FALSE), NEW x \in canfixbyremove(dep),
         NEW p, p = IF istobe[x] = "installnew" THEN dep.up ELSE x
  PROVE  p \in Packages => istobe[p] \in {"normal", "deconfigure"} /\ (p = newpkg => newpkg \in ToDeconfigure)
<1>1. x \in Packages /\ x # dep.up /\ istobe[x] \in {"installnew", "normal", "deconfigure"}
    BY DEF canfixbyremove, ConflictReal, ConflictVirtual, InTheWay
<1>2. istobe[dep.up] \in {"installnew", "normal"}
    BY DEF depisok, Matters
<1>3. /\ \A q \in Packages : istobe[q] = "installnew" => q = newpkg
      /\ istobe[newpkg] = "installnew" \/ newpkg \in ToDeconfigure
    BY DEF KeepInv, PlansFit, Deciding
<1>. QED
    BY <1>1, <1>2, <1>3

LEMMA ConflictKeeps == ASSUME SaneInv, KeepInv, check_conflict PROVE KeepInv'
<1>. DEFINE dep == Head(checks)
<1>1. /\ UNCHANGED <<world, cur, status, conflictors, deconf, was>> /\ upc = "depcon"
      /\ status' \in [Packages -> Status] /\ ~depisok(istobe, dep, FALSE)
    BY DEF check_conflict, Unaffected, Same, Fixed, Fate, SaneInv, UnpackTypes
<1>2. CASE UNCHANGED istobe /\ upc' \in {"depcon", "unwind"}
  <2>1. PlanTypes' /\ Gone' = Gone /\ ToDeconfigure' = ToDeconfigure
      BY <1>1, <1>2 DEF KeepInv, PlanTypes, Gone, ToDeconfigure
  <2>. QED
      BY <1>1, <1>2, <2>1, CheckKeeps, RefusedKeeps
<1>3. ASSUME NEW x \in canfixbyremove(dep), NEW p, p = IF istobe[x] = "installnew" THEN dep.up ELSE x,
             istobe' = removing(p), checks' = <<Asking(p), Tail(checks)>>, upc' = "asking"
      PROVE  KeepInv'
  <2>1. p \in Packages => istobe[p] \in {"normal", "deconfigure"} /\ (p = newpkg => newpkg \in ToDeconfigure)
    <3>. HIDE DEF dep
    <3>. QED
        BY <1>1, <1>3, MayGo
  <2>2. /\ istobe' \in [Packages -> Tobe] /\ \A q \in Packages : istobe'[q] = IF q = p THEN "remove" ELSE istobe[q]
      BY <1>3 DEF removing, KeepInv, PlanTypes, Tobe
  <2>3. /\ newpkg' = newpkg /\ newpkg \in Packages /\ Agreed' = Agreed /\ Counts' = Counts
        /\ ToDeconfigure' = ToDeconfigure
        /\ (\A q : NamesOf(q)' = NamesOf(q))
        /\ (\A r, n : Answers(r, n)' = Answers(r, n)) /\ (\A d, q : DependsOn(d, q)' = DependsOn(d, q))
      BY <1>1, SameArchive DEF SaneInv, UnpackTypes, Agreed, Counts, ToDeconfigure
  <2>4. upc \in Deciding /\ upc' \in Deciding /\ upc' \notin Acting
      BY <1>1, <1>3 DEF Deciding, Acting
  <2>5. PlanTypes'
      BY <1>1, <1>3, <2>2 DEF KeepInv, PlanTypes
  <2>6. checks'[1] = Asking(p) /\ checks' = <<checks'[1], checks'[2]>> /\ checks'[1].of = p
      BY <1>3 DEF Asking
  <2>7. was.fresh /\ p \in Packages => p \notin Agreed
      BY <2>1, <2>4 DEF KeepInv, PlansFit
  <2>8. PlansFit'
    <3>1. \A q \in Packages : istobe'[q] = "installnew" => q = newpkg
        BY <2>2, <2>4 DEF KeepInv, PlansFit
    <3>2. \A q \in Packages : istobe'[q] = "deconfigure" => q \in ToDeconfigure \/ status[q] \notin Configured
        BY <2>2, <2>4 DEF KeepInv, PlansFit
    <3>3. istobe'[newpkg] = "installnew" \/ newpkg \in ToDeconfigure
        BY <2>1, <2>2, <2>3, <2>4 DEF KeepInv, PlansFit
    <3>4. was.fresh => \A q \in Agreed \cap Packages : istobe'[q] = "remove"
        BY <2>2, <2>4 DEF KeepInv, PlansFit
    <3>5. was.fresh => \A q \in Gone' : q \in Agreed \/ q = p
        BY <1>1, <2>2, <2>4 DEF KeepInv, PlansFit, Gone
    <3>. QED
        BY <1>1, <1>3, <2>3, <2>4, <2>6, <3>1, <3>2, <3>3, <3>4, <3>5 DEF PlansFit, Acting
  <2>9. AgreedFit'
    <3>. SUFFICES ASSUME Counts', NEW q \in Agreed \cap Packages, NEW i \in DOMAIN world.depends,
                         status[q] \in Configured, DependsOn(world.depends[i], q)'
                  PROVE  Kept(world.depends[i], Agreed, HALFCONFIGURED)'
        BY <1>1, <2>3, <2>4 DEF AgreedFit
    <3>0. Counts /\ DependsOn(world.depends[i], q)
        BY <1>1, <2>3
    <3>1. AgreedFit
        BY DEF KeepInv
    <3>2. Kept(world.depends[i], Agreed, HALFCONFIGURED)
        BY <2>4, <3>0, <3>1, Zenon DEF AgreedFit
    <3>. QED
        BY <1>1, <2>3, <3>2 DEF Kept, Stays
  <2>10. AskedFit'
    <3>. DEFINE ns == IF status[p] \in Configured THEN <<p>> \o world.provides[p] ELSE <<>>
    <3>1. Asking(p) = [of |-> p, names |-> ns, at |-> 1]
        BY DEF Asking
    <3>2. checks'[1].names = ns /\ checks'[1].at = 1 /\ checks'[1] = [of |-> p, names |-> ns, at |-> 1]
        BY <2>6, <3>1
    <3>3. /\ p \in Packages => Stack(ns)
          /\ p \in Packages /\ status[p] \in Configured => Elems(ns) = NamesOf(p)
      <4>1. CASE p \in Packages /\ status[p] \in Configured
        <5>1. Stack(world.provides[p]) /\ ToSet(world.provides[p]) = Elems(world.provides[p])
            BY <4>1, TheWorld
        <5>2. Stack(<<p>> \o world.provides[p]) /\ Elems(<<p>> \o world.provides[p]) = Elems(world.provides[p]) \cup {p}
            BY <5>1, PushLemma
        <5>. QED
            BY <4>1, <5>1, <5>2 DEF NamesOf
      <4>. QED
          BY <4>1, EmptyStack
    <3>. HIDE DEF ns
    <3>4. 1 \in 1 .. Len(world.depends) + 1
        BY TheWorld
    <3>5. ASSUME p \in Packages, status[p] \in Configured, NEW i \in DOMAIN world.depends, NEW name \in NamesOf(p)
          PROVE  Pending(i, name)'
      <4>1. PICK k \in 1 .. Len(ns) : ns[k] = name
          BY <3>3, <3>5 DEF Elems
      <4>2. i >= 1
          BY TheWorld
      <4>. QED
          BY <3>2, <4>1, <4>2 DEF Pending
    <3>. QED
        BY <1>1, <2>2, <2>3, <2>6, <2>7, <3>2, <3>3, <3>4, <3>5 DEF AskedFit
  <2>11. GoneFit'
      BY <2>4 DEF GoneFit
  <2>. QED
      BY <2>5, <2>8, <2>9, <2>10, <2>11 DEF KeepInv
<1>. QED
    BY <1>1, <1>2, <1>3 DEF check_conflict, Forced, Refused, ohshit, Goto

\* "Put it back": what was not agreed on is not in the list.
LEMMA PutBackKeeps ==
  ASSUME SaneInv, KeepInv, upc = "asking", put_back(checks[1].of),
         UNCHANGED <<world, cur, status, conflictors, deconf, was>>
  PROVE  KeepInv'
<1>. DEFINE p == checks[1].of
<1>1. /\ istobe' = [istobe EXCEPT ![p] = "normal"] /\ upc' \in {"depcon", "unwind"}
    BY DEF put_back, Goto, Refused, ohshit
<1>2. /\ istobe' \in [Packages -> Tobe] /\ \A q \in Packages : istobe'[q] = IF q = p THEN "normal" ELSE istobe[q]
    BY <1>1 DEF KeepInv, PlanTypes, Tobe
<1>3. PlanTypes'
    BY <1>1, <1>2 DEF KeepInv, PlanTypes
<1>4. /\ newpkg' = newpkg /\ newpkg \in Packages /\ Agreed' = Agreed /\ Counts' = Counts
      /\ (\A d, q : DependsOn(d, q)' = DependsOn(d, q))
    BY SameArchive DEF SaneInv, UnpackTypes, Agreed, Counts
<1>5. ToDeconfigure' = ToDeconfigure /\ \A d, gone, least : Kept(d, gone, least)' = Kept(d, gone, least)
    BY SameKept
<1>6. p \in Packages => istobe[p] = "remove" /\ (was.fresh => p \notin Agreed)
    BY DEF KeepInv, AskedFit
<1>. HIDE DEF p
<1>7. CASE upc' = "depcon"
  <2>1. upc \in Deciding /\ upc' \in Deciding /\ upc' \notin Acting
      BY <1>7 DEF Deciding, Acting
  <2>2. \A q \in Packages : istobe'[q] = "installnew" => q = newpkg
      BY <1>2, <2>1 DEF KeepInv, PlansFit
  <2>3. \A q \in Packages : istobe'[q] = "deconfigure" => q \in ToDeconfigure \/ status[q] \notin Configured
      BY <1>2, <2>1 DEF KeepInv, PlansFit
  <2>4. istobe'[newpkg] = "installnew" \/ newpkg \in ToDeconfigure
      BY <1>2, <1>4, <1>6, <2>1 DEF KeepInv, PlansFit
  <2>5. was.fresh => \A q \in Agreed \cap Packages : istobe'[q] = "remove"
      BY <1>2, <1>6, <2>1 DEF KeepInv, PlansFit
  <2>6. was.fresh => \A q \in Gone' : q \in Agreed
      BY <1>2, <2>1 DEF KeepInv, PlansFit, Gone, p
  <2>7. PlansFit'
      BY <1>4, <1>5, <1>7, <2>1, <2>2, <2>3, <2>4, <2>5, <2>6 DEF PlansFit, Acting
  <2>8. AgreedFit'
      BY <1>4, <1>5, <2>1 DEF KeepInv, AgreedFit
  <2>9. AskedFit' /\ GoneFit'
      BY <1>7, <2>1 DEF AskedFit, GoneFit
  <2>. QED
      BY <1>3, <2>7, <2>8, <2>9 DEF KeepInv
<1>. QED
    BY <1>1, <1>3, <1>7, RefusedKeeps

\* The list of names and the place in the dependencies go on; what they leave behind is kept.
LEMMA NextAsked ==
  ASSUME SaneInv, KeepInv, PlanTypes', upc = "asking", upc' = upc,
         UNCHANGED <<world, cur, conflictors, was, status>>, Gone' = Gone, ToDeconfigure \subseteq ToDeconfigure',
         \A q \in Packages : istobe'[q] = istobe[q] \/ (istobe'[q] = "deconfigure" /\ q \in ToDeconfigure'),
         NEW names, NEW at \in 1 .. Len(world.depends) + 1,
         checks' = <<[of |-> checks[1].of, names |-> names, at |-> at], checks[2]>>,
         checks[1].of \in Packages => Stack(names),
         Counts /\ checks[1].of \in Packages =>
           \A i \in DOMAIN world.depends, name \in NamesOf(checks[1].of) :
             IsOn(world.depends[i], name, Needed) /\ Pending(i, name) =>
               Pending(i, name)' \/ Kept(world.depends[i], Agreed \cup {checks[1].of}, HALFCONFIGURED)'
  PROVE  KeepInv'
<1>. DEFINE p == checks[1].of
            a == [of |-> p, names |-> names, at |-> at]
<1>1. checks'[1] = a /\ checks' = <<checks'[1], checks'[2]>> /\ a.of = p /\ a.names = names /\ a.at = at /\ p' = p
    OBVIOUS
<1>2. /\ newpkg' = newpkg /\ newpkg \in Packages /\ Agreed' = Agreed /\ Counts' = Counts
      /\ (\A q : NamesOf(q)' = NamesOf(q)) /\ (\A r, n : Answers(r, n)' = Answers(r, n))
    BY SameArchive DEF SaneInv, UnpackTypes, Agreed, Counts
<1>3. status' \in [Packages -> Status]
    BY DEF SaneInv, UnpackTypes
<1>4. p \in Packages => istobe'[p] = "remove" /\ (was.fresh => p \notin Agreed)
  <2>1. p \in Packages => istobe[p] = "remove" /\ (was.fresh => p \notin Agreed)
      BY DEF KeepInv, AskedFit
  <2>2. p \in Packages => p \in Gone
      BY <2>1 DEF Gone
  <2>. QED
      BY <2>1, <2>2 DEF Gone
<1>. HIDE DEF a
<1>5. AskedFit'
  <2>. SUFFICES ASSUME Counts, p \in Packages, status[p] \in Configured, NEW i \in DOMAIN world.depends, NEW name \in NamesOf(p),
                       IsOn(world.depends[i], name, Needed)
                PROVE  Pending(i, name)' \/ Kept(world.depends[i], Agreed \cup {p}, HALFCONFIGURED)'
    <3>1. checks'[1] = [of |-> checks'[1].of, names |-> checks'[1].names, at |-> checks'[1].at]
        BY <1>1 DEF a
    <3>2. checks'[1].at \in 1 .. Len(world'.depends) + 1
        BY <1>1
    <3>3. checks'[1].of \in Packages => Stack(checks'[1].names)
        BY <1>1
    <3>. QED
        BY <1>1, <1>2, <1>4, <3>1, <3>2, <3>3 DEF AskedFit
  <2>1. Pending(i, name) \/ Kept(world.depends[i], Agreed \cup {p}, HALFCONFIGURED)
      BY DEF KeepInv, AskedFit
  <2>2. CASE Pending(i, name)
      BY <2>2
  <2>3. CASE Kept(world.depends[i], Agreed \cup {p}, HALFCONFIGURED)
    <3>1. world'.depends = world.depends
        OBVIOUS
    <3>. HIDE DEF p
    <3>2. Kept(world.depends[i], Agreed \cup {p}, HALFCONFIGURED)'
        BY <1>1, <1>2, <2>3, <3>1 DEF Kept, Stays
    <3>. QED
        BY <3>2
  <2>. QED
      BY <2>1, <2>2, <2>3
<1>. QED
    BY <1>1, <1>3, <1>5, CheckKeeps

\* What the plans say is to be removed, while dependents are asked.
LEMMA AskedToGo ==
  ASSUME KeepInv, upc = "asking", was.fresh, checks[1].of \in Packages
  PROVE  \A q \in Packages : istobe[q] = "remove" <=> q \in Agreed \cup {checks[1].of}
<1>1. /\ \A q \in Agreed \cap Packages : istobe[q] = "remove"
      /\ \A q \in Gone : q \in Agreed \/ q = checks[1].of
    BY DEF KeepInv, PlansFit, Deciding
<1>2. istobe[checks[1].of] = "remove"
    BY DEF KeepInv, AskedFit
<1>. QED
    BY <1>1, <1>2 DEF Gone

\* The names that are left after the first one.
LEMMA NextName ==
  ASSUME NEW names, Stack(names), names # <<>>, NEW k \in 1 .. Len(names), k # 1
  PROVE  k - 1 \in 1 .. Len(Tail(names)) /\ Tail(names)[k - 1] = names[k]
BY DEF Stack

LEMMA AskKeeps == ASSUME SaneInv, KeepInv, ask_dependent PROVE KeepInv'
<1>. DEFINE ask == checks[1]
            p == ask.of
            dep == world.depends[ask.at]
<1>1. /\ UNCHANGED <<world, cur, status, conflictors, was>> /\ upc = "asking" /\ ask.names # <<>>
    BY DEF ask_dependent, Unaffected, Same, Fixed, Fate
<1>2. /\ ask = [of |-> p, names |-> ask.names, at |-> ask.at]
      /\ ask.at \in 1 .. Len(world.depends) + 1
      /\ p \in Packages => Stack(ask.names)
    BY <1>1 DEF KeepInv, AskedFit
<1>3. /\ DOMAIN world.depends = 1 .. Len(world.depends) /\ Len(world.depends) \in Nat
      /\ \A i \in DOMAIN world.depends : world.depends[i].up \in Packages
    BY TheWorld
<1>4. newpkg \in Packages /\ newpkg' = newpkg
    BY <1>1, Here DEF SaneInv, UnpackTypes
<1>5. CASE ask.at > Len(world.depends)
  <2>1. /\ UNCHANGED <<istobe, deconf, upc>>
        /\ checks' = <<[of |-> p, names |-> Tail(ask.names), at |-> 1], checks[2]>>
      BY <1>5 DEF ask_dependent
  <2>2. PlanTypes' /\ Gone' = Gone /\ ToDeconfigure' = ToDeconfigure
      BY <1>1, <2>1 DEF KeepInv, PlanTypes, Gone, ToDeconfigure
  <2>3. checks'[1].names = Tail(ask.names) /\ checks'[1].at = 1
      BY <2>1
  <2>4. p \in Packages => Stack(Tail(ask.names))
      BY <1>1, <1>2, PopLemma
  <2>5. ASSUME p \in Packages, NEW i \in DOMAIN world.depends, NEW name, Pending(i, name)
        PROVE  Pending(i, name)'
    <3>1. PICK k \in 1 .. Len(ask.names) : ask.names[k] = name /\ (k = 1 => i >= ask.at)
        BY <2>5 DEF Pending
    <3>2. k # 1
        BY <1>2, <1>3, <1>5, <3>1
    <3>. HIDE DEF ask
    <3>3. k - 1 \in 1 .. Len(Tail(ask.names)) /\ Tail(ask.names)[k - 1] = name
        BY <1>1, <1>2, <2>5, <3>1, <3>2, NextName
    <3>4. i >= 1
        BY <1>3
    <3>. QED
        BY <2>3, <3>3, <3>4 DEF Pending
  <2>6. 1 \in 1 .. Len(world.depends) + 1
      BY <1>3
  <2>. QED
      BY <1>1, <2>1, <2>2, <2>4, <2>5, <2>6, NextAsked
<1>6. CASE ~(ask.at > Len(world.depends))
  <2>1. ask.at \in DOMAIN world.depends /\ ask.at + 1 \in 1 .. Len(world.depends) + 1 /\ dep.up \in Packages
      BY <1>2, <1>3, <1>6
  <2>2. ASSUME checks' = <<[ask EXCEPT !.at = @ + 1], checks[2]>>
        PROVE  checks' = <<[of |-> p, names |-> ask.names, at |-> ask.at + 1], checks[2]>>
      BY <1>2, <2>2
  <2>3. ASSUME checks' = <<[of |-> p, names |-> ask.names, at |-> ask.at + 1], checks[2]>>, p \in Packages,
               NEW i \in DOMAIN world.depends, NEW name, Pending(i, name)
        PROVE  Pending(i, name)' \/ (i = ask.at /\ name = Head(ask.names))
    <3>1. checks'[1].names = ask.names /\ checks'[1].at = ask.at + 1
        BY <2>3
    <3>2. PICK k \in 1 .. Len(ask.names) : ask.names[k] = name /\ (k = 1 => i >= ask.at)
        BY <2>3 DEF Pending
    <3>3. CASE k = 1 => i >= ask.at + 1
        BY <3>1, <3>2, <3>3 DEF Pending
    <3>4. CASE k = 1 /\ ~(i >= ask.at + 1)
      <4>1. i = ask.at
          BY <1>2, <1>3, <3>2, <3>4
      <4>2. Head(ask.names) = ask.names[1]
        <5>. HIDE DEF ask, p
        <5>. QED
            BY <1>1, <1>2, <2>3 DEF Stack
      <4>. QED
          BY <3>2, <3>4, <4>1, <4>2
    <3>. QED
        BY <3>3, <3>4
  <2>4. CASE ~IsOn(dep, Head(ask.names), Needed) \/ depisok(istobe, dep, FALSE)
    <3>1. /\ UNCHANGED <<istobe, deconf, upc>>
          /\ checks' = <<[of |-> p, names |-> ask.names, at |-> ask.at + 1], checks[2]>>
        BY <1>6, <2>2, <2>4 DEF ask_dependent, Needed
    <3>2. PlanTypes' /\ Gone' = Gone /\ ToDeconfigure' = ToDeconfigure
        BY <1>1, <3>1 DEF KeepInv, PlanTypes, Gone, ToDeconfigure
    <3>3. ASSUME Counts, p \in Packages, IsOn(dep, Head(ask.names), Needed)
          PROVE  Kept(dep, Agreed \cup {p}, HALFCONFIGURED)
      <4>1. istobe \in [Packages -> Tobe] /\ dep.type \in Needed /\ depisok(istobe, dep, FALSE) /\ was.fresh
          BY <2>4, <3>3 DEF KeepInv, PlanTypes, IsOn, Counts
      <4>2. \A q \in Packages : istobe[q] = "remove" <=> q \in Agreed \cup {p}
          BY <1>1, <3>3, <4>1, AskedToGo
      <4>3. /\ \A q \in Packages : istobe[q] = "installnew" => q = newpkg
            /\ \A q \in Packages : istobe[q] = "deconfigure" => q \in ToDeconfigure \/ status[q] \notin Configured
          BY <1>1 DEF KeepInv, PlansFit, Deciding
      <4>. HIDE DEF dep, p
      <4>. QED
          BY <1>4, <2>1, <4>1, <4>2, <4>3, OkIsKept
    <3>4. checks'[1].of = p /\ Agreed' = Agreed /\ \A d, gone, least : Kept(d, gone, least)' = Kept(d, gone, least)
        BY <1>1, <3>1, SameKept DEF Agreed
    <3>5. ASSUME Counts, p \in Packages, NEW i \in DOMAIN world.depends, NEW name \in NamesOf(p),
                 IsOn(world.depends[i], name, Needed), Pending(i, name)
          PROVE  Pending(i, name)' \/ Kept(world.depends[i], Agreed \cup {checks[1].of}, HALFCONFIGURED)'
        BY <1>1, <2>3, <3>1, <3>3, <3>4, <3>5
    <3>. QED
        BY <1>1, <1>2, <2>1, <3>1, <3>2, <3>5, NextAsked
  <2>5. CASE IsOn(dep, Head(ask.names), Needed) /\ ~depisok(istobe, dep, FALSE)
    <3>1. CASE ~try_remove_can(dep)
      <4>1. put_back(p) /\ UNCHANGED deconf
          BY <1>6, <2>5, <3>1 DEF ask_dependent, Needed
      <4>. QED
          BY <1>1, <4>1, PutBackKeeps
    <3>2. CASE try_remove_can(dep)
      <4>1. /\ UNCHANGED upc
            /\ checks' = <<[of |-> p, names |-> ask.names, at |-> ask.at + 1], checks[2]>>
          BY <1>6, <2>2, <2>5, <3>2 DEF ask_dependent, Needed
      <4>2. CASE in_force("depends")
        <5>1. UNCHANGED <<istobe, deconf>> /\ ~Counts
            BY <1>6, <2>5, <3>2, <4>2 DEF ask_dependent, Needed, Counts
        <5>2. PlanTypes' /\ Gone' = Gone /\ ToDeconfigure' = ToDeconfigure
            BY <1>1, <4>1, <5>1 DEF KeepInv, PlanTypes, Gone, ToDeconfigure
        <5>. QED
            BY <1>1, <1>2, <2>1, <4>1, <5>1, <5>2, NextAsked
      <4>3. CASE ~in_force("depends")
        <5>1. Planned(Deconfiguring(ThePlan, dep.up, p, "deinstall"))
            BY <1>6, <2>5, <3>2, <4>3 DEF ask_dependent, Needed
        <5>2. /\ istobe' = [istobe EXCEPT ![dep.up] = "deconfigure"] /\ istobe' \in [Packages -> Tobe] /\ Stack(deconf')
              /\ ToDeconfigure' = ToDeconfigure \cup {dep.up}
          <6>. HIDE DEF dep, p
          <6>. QED
              BY <5>1, OneMoreStopped
        <5>3. istobe[dep.up] \in {"installnew", "normal"}
            BY <2>5 DEF depisok, Matters
        <5>4. PlanTypes' /\ Gone' = Gone
            BY <1>1, <4>1, <5>2, <5>3 DEF KeepInv, PlanTypes, Gone
        <5>5. \A q \in Packages : istobe'[q] = istobe[q] \/ (istobe'[q] = "deconfigure" /\ q \in ToDeconfigure')
            BY <5>2 DEF KeepInv, PlanTypes
        <5>6. world'.depends[ask.at].up \in ToDeconfigure'
            BY <1>1, <5>2
        <5>7. ASSUME p \in Packages, NEW i \in DOMAIN world.depends, NEW name, Pending(i, name)
              PROVE  Pending(i, name)' \/ Kept(world.depends[i], Agreed \cup {checks[1].of}, HALFCONFIGURED)'
          <6>1. CASE i = ask.at
            <7>1. world'.depends[i].up \in ToDeconfigure'
                BY <5>6, <6>1
            <7>. QED
                BY <7>1 DEF Kept
          <6>2. CASE i # ask.at
              BY <2>3, <4>1, <5>7, <6>2
          <6>. QED
              BY <6>1, <6>2
        <5>. QED
            BY <1>1, <1>2, <2>1, <4>1, <5>2, <5>4, <5>5, <5>7, NextAsked
      <4>. QED
          BY <4>2, <4>3
    <3>. QED
        BY <3>1, <3>2
  <2>. QED
      BY <2>4, <2>5
<1>. QED
    BY <1>5, <1>6

\* One more package is agreed to go.  Whoever was said to stay by it has been asked about it since.
LEMMA EnqueueKeeps == ASSUME SaneInv, KeepInv, enqueue_conflictor PROVE KeepInv'
<1>. DEFINE p == checks[1].of
<1>1. UNCHANGED <<world, cur, status, deconf>> /\ upc = "asking" /\ checks[1].names = <<>>
    BY DEF enqueue_conflictor, Unaffected, Same, Fixed, Fate
<1>2. CASE ~Removable(p)
  <2>1. put_back(p) /\ UNCHANGED <<conflictors, was>>
      BY <1>2 DEF enqueue_conflictor
  <2>. QED
      BY <1>1, <2>1, PutBackKeeps
<1>3. CASE Removable(p)
  <2>1. /\ conflictors' = Append(conflictors, p) /\ was' = [was EXCEPT !.removed = @ \cup {p}]
        /\ upc' = "depcon" /\ istobe' = istobe
      BY <1>3 DEF enqueue_conflictor, Goto
  <2>2. was'.fresh = was.fresh
      BY <2>1 DEF SaneInv, UnpackTypes
  <2>3. Stack(conflictors') /\ Agreed' = Agreed \cup {p}
      BY <2>1, AppendLemma DEF KeepInv, PlanTypes, Agreed
  <2>4. PlanTypes'
      BY <1>1, <2>1, <2>3 DEF KeepInv, PlanTypes
  <2>5. /\ newpkg' = newpkg /\ newpkg \in Packages /\ Counts' = Counts /\ Gone' = Gone
        /\ (\A d, q : DependsOn(d, q)' = DependsOn(d, q))
      BY <1>1, <2>1, <2>2, SameArchive DEF SaneInv, UnpackTypes, Counts, Gone
  <2>6. ToDeconfigure' = ToDeconfigure /\ \A d, gone, least : Kept(d, gone, least)' = Kept(d, gone, least)
      BY <1>1, SameKept
  <2>7. upc \in Deciding /\ upc' \in Deciding /\ upc' \notin Acting
      BY <1>1, <2>1 DEF Deciding, Acting
  <2>8. p \in Packages => istobe[p] = "remove"
      BY <1>1 DEF KeepInv, AskedFit
  <2>9. PlansFit'
    <3>1. was.fresh => \A q \in Agreed' \cap Packages : istobe[q] = "remove"
        BY <2>3, <2>7, <2>8 DEF KeepInv, PlansFit
    <3>2. was.fresh => \A q \in Gone : q \in Agreed'
        BY <2>3, <2>7 DEF KeepInv, PlansFit
    <3>. QED
        BY <1>1, <2>1, <2>2, <2>5, <2>6, <2>7, <3>1, <3>2 DEF KeepInv, PlansFit, Acting
  <2>. HIDE DEF p
  <2>10. ASSUME Counts, p \in Packages, status[p] \in Configured, NEW i \in DOMAIN world.depends,
                DependsOn(world.depends[i], p)
         PROVE  Kept(world.depends[i], Agreed \cup {p}, HALFCONFIGURED)
    <3>1. PICK name \in NamesOf(p) : IsOn(world.depends[i], name, Needed)
        BY <2>10 DEF DependsOn
    <3>2. ~Pending(i, name)
        BY <1>1 DEF Pending
    <3>. QED
        BY <1>1, <2>10, <3>1, <3>2 DEF KeepInv, AskedFit, p
  <2>11. ASSUME Counts, NEW q \in Agreed \cap Packages, NEW i \in DOMAIN world.depends,
                status[q] \in Configured, DependsOn(world.depends[i], q)
         PROVE  Kept(world.depends[i], Agreed \cup {p}, HALFCONFIGURED)
    <3>. DEFINE dep == world.depends[i]
    <3>1. Kept(dep, Agreed, HALFCONFIGURED)
        BY <2>7, <2>11 DEF KeepInv, AgreedFit
    <3>2. dep.type \in Needed
        BY <2>11 DEF DependsOn, IsOn
    <3>3. ASSUME NEW j \in DOMAIN dep.list, NEW r \in Packages, Answers(r, dep.list[j].on), Stays(r, Agreed, HALFCONFIGURED)
          PROVE  Kept(dep, Agreed \cup {p}, HALFCONFIGURED)
      <4>1. CASE r = newpkg \/ r # p
          BY <3>3, <4>1 DEF Kept, Stays
      <4>2. CASE r = p /\ r # newpkg
        <5>1. status[p] \in Configured
            BY <3>3, <4>2, Numbers DEF Stays, SaneInv, UnpackTypes
        <5>2. dep.list[j].on \in NamesOf(p)
            BY <3>3, <4>2 DEF Answers
        <5>3. DependsOn(dep, p)
            BY <3>2, <5>2 DEF DependsOn, IsOn
        <5>. QED
            BY <2>10, <2>11, <4>2, <5>1, <5>3
      <4>. QED
          BY <4>1, <4>2
    <3>. QED
        BY <3>1, <3>3 DEF Kept
  <2>12. AgreedFit'
    <3>. SUFFICES ASSUME Counts', NEW q \in Agreed' \cap Packages, NEW i \in DOMAIN world.depends,
                         status[q] \in Configured, DependsOn(world.depends[i], q)'
                  PROVE  Kept(world.depends[i], Agreed, HALFCONFIGURED)'
        BY <1>1, <2>7 DEF AgreedFit
    <3>1. Counts /\ DependsOn(world.depends[i], q)
        BY <1>1, <2>5
    <3>2. Kept(world.depends[i], Agreed \cup {p}, HALFCONFIGURED)
        BY <2>3, <2>10, <2>11, <3>1
    <3>. QED
        BY <1>1, <2>3, <2>6, <3>2
  <2>13. AskedFit' /\ GoneFit'
      BY <2>1, <2>7 DEF AskedFit, GoneFit
  <2>. QED
      BY <2>4, <2>9, <2>12, <2>13 DEF KeepInv
<1>. QED
    BY <1>2, <1>3

\* "OK, we're going ahead": what was agreed on is what is to be removed.
LEMMA GoAheadKeeps == ASSUME SaneInv, BackInv, KeepInv, prerm_upgrade PROVE KeepInv'
<1>1. /\ UNCHANGED <<world, cur, istobe, conflictors, deconf>> /\ upc = "depcon" /\ upc' \in {"prerm", "deconfigure"}
      /\ was' = [was EXCEPT !.changed = TRUE]
      /\ status' = status \/ (status[newpkg] >= HALFCONFIGURED /\ status' = [status EXCEPT ![newpkg] = HALFCONFIGURED])
  <2>1. UNCHANGED <<world, cur, istobe, conflictors, deconf>> /\ upc = "depcon" /\ was' = [was EXCEPT !.changed = TRUE]
      BY DEF prerm_upgrade, Scripts, Fixed
  <2>2. newpkg \in Packages /\ status[newpkg] \in Status
      BY <2>1 DEF SaneInv, UnpackTypes
  <2>. QED
      BY <2>1, <2>2, Numbers DEF prerm_upgrade, Goto, SetStatus
<1>2. was'.fresh = was.fresh /\ was'.status = was.status
    BY <1>1 DEF SaneInv, UnpackTypes
<1>3. /\ newpkg' = newpkg /\ newpkg \in Packages /\ Counts' = Counts /\ Gone' = Gone /\ Agreed' = Agreed
      /\ ToDeconfigure' = ToDeconfigure /\ (\A r, n : Answers(r, n)' = Answers(r, n))
      /\ (\A d, q : DependsOn(d, q)' = DependsOn(d, q))
    BY <1>1, <1>2, SameArchive DEF SaneInv, UnpackTypes, Counts, Gone, Agreed, ToDeconfigure
<1>4. upc \in Deciding /\ upc' \notin Deciding /\ upc' \in Acting /\ upc' \in {"prerm", "deconfigure"} /\ upc # "asking"
    BY <1>1 DEF Deciding, Acting
<1>5. PlanTypes'
    BY <1>1 DEF KeepInv, PlanTypes
<1>6. /\ \A q \in Packages : status[q] \notin Configured => status'[q] \notin Configured
      /\ \A q \in Packages : q # newpkg => status'[q] = status[q]
      /\ \A q \in Packages : status[q] > HALFCONFIGURED => ~(status'[q] < HALFINSTALLED)
      /\ \A q \in Packages : status[q] > HALFCONFIGURED <=> status[q] \in Configured
  <2>1. status \in [Packages -> 0 .. 7] /\ \A q \in Packages : status[q] \in 0 .. 7
      BY Numbers DEF SaneInv, UnpackTypes
  <2>2. /\ \A q \in Packages : q # newpkg => status'[q] = status[q]
        /\ status'[newpkg] = status[newpkg] \/ status'[newpkg] = HALFCONFIGURED
      BY <1>1, <1>3, <2>1
  <2>3. \A q \in Packages : status'[q] = status[q] \/ status'[q] = HALFCONFIGURED
      BY <2>2
  <2>4. \A q \in Packages : status[q] > HALFCONFIGURED <=> status[q] \in Configured
      BY <2>1, Numbers
  <2>5. \A q \in Packages : status[q] \notin Configured => status'[q] \notin Configured
      BY <2>3, Numbers
  <2>6. \A q \in Packages : status[q] > HALFCONFIGURED => ~(status'[q] < HALFINSTALLED)
      BY <2>1, <2>3, Numbers
  <2>. QED
      BY <2>2, <2>4, <2>5, <2>6
<1>7. PlansFit'
  <2>1. \A q \in Packages : istobe[q] = "deconfigure" => q \in ToDeconfigure \/ status'[q] \notin Configured
      BY <1>4, <1>6 DEF KeepInv, PlansFit
  <2>2. was.fresh => \A q \in Gone : q \in Agreed
      BY <1>4 DEF KeepInv, PlansFit
  <2>. QED
      BY <1>1, <1>2, <1>3, <1>4, <2>1, <2>2 DEF KeepInv, PlansFit
<1>8. AskedFit' /\ AgreedFit'
    BY <1>4 DEF AskedFit, AgreedFit, Deciding
<1>9. GoneFit'
  <2>. SUFFICES ASSUME Counts', NEW q \in Packages, NEW i \in DOMAIN world.depends,
                       was.status[q] \in Configured, q \in Gone \/ status'[q] < HALFINSTALLED,
                       DependsOn(world.depends[i], q)
                PROVE  Kept(world.depends[i], Gone, HALFINSTALLED)'
      BY <1>1, <1>2, <1>3 DEF GoneFit
  <2>1. status[q] \in Configured
      BY <1>1 DEF BackInv, PlanningKeeps, Planning
  <2>2. Counts /\ was.fresh
      BY <1>3 DEF Counts
  <2>3. \A r \in Packages : r \in Gone <=> r \in Agreed
      BY <1>4, <2>2 DEF KeepInv, PlansFit, Gone
  <2>4. q \in Agreed \cap Packages
      BY <1>6, <2>1, <2>3
  <2>5. Kept(world.depends[i], Agreed, HALFCONFIGURED)
    <3>1. AgreedFit
        BY DEF KeepInv
    <3>. QED
        BY <1>4, <2>1, <2>2, <2>4, <3>1, Zenon DEF AgreedFit
  <2>6. world.depends[i].up \in Packages
      BY TheWorld
  <2>7. \A r \in Packages : r # newpkg /\ status[r] > HALFCONFIGURED => status'[r] > HALFINSTALLED
      BY <1>6, Numbers DEF SaneInv, UnpackTypes
  <2>. QED
      BY <1>1, <1>3, <1>6, <2>3, <2>5, <2>6, <2>7 DEF Kept, Stays
<1>. QED
    BY <1>5, <1>7, <1>8, <1>9 DEF KeepInv

\* While the plans are carried out a package goes down only if it is to be removed, and comes off
\* a list when that is done; what was to be deconfigured may be forgotten then.
LEMMA ActingKeeps ==
  ASSUME SaneInv, KeepInv, PlanTypes', upc \in Acting, upc' \in Acting, UNCHANGED <<world, cur, was>>,
         \A q \in Packages : istobe'[q] = istobe[q] \/ (istobe[q] = "deconfigure" /\ istobe'[q] = "normal"),
         status' \in [Packages -> Status],
         \A q \in Packages : status'[q] \in Configured => status[q] \in Configured,
         was.fresh => \A q \in Packages \ {newpkg} : status[q] > HALFINSTALLED => status'[q] > HALFINSTALLED \/ q \in Gone,
         was.fresh => \A q \in Packages : status'[q] < HALFINSTALLED => status[q] < HALFINSTALLED \/ q \in Gone,
         was.fresh => \A q \in Gone : status[q] < HALFINSTALLED => status'[q] < HALFINSTALLED,
         \A q \in Packages : q \in ToDeconfigure => q \in ToDeconfigure' \/ (status'[q] \notin Configured /\ q # newpkg),
         Agreed' \subseteq Agreed,
         \A q \in Packages : q \in Agreed => q \in Agreed' \/ status'[q] < HALFINSTALLED,
         upc' \in Acting \ {"prerm", "deconfigure"} => deconf' = <<>> /\ istobe[newpkg] = "installnew",
         upc' \in {"backups", "conflictors"} /\ was.fresh => status'[newpkg] = UNPACKED
  PROVE  KeepInv'
<1>1. /\ newpkg' = newpkg /\ newpkg \in Packages /\ Counts' = Counts /\ Gone' = Gone /\ Gone \subseteq Packages
      /\ (\A r, n : Answers(r, n)' = Answers(r, n)) /\ (\A d, q : DependsOn(d, q)' = DependsOn(d, q))
    BY SameArchive DEF SaneInv, UnpackTypes, Counts, Gone, Acting
<1>2. upc' \notin Deciding /\ upc' # "asking"
    BY DEF Deciding, Acting
<1>3. PlansFit'
  <2>1. \A q \in Packages : istobe'[q] = "installnew" => q = newpkg
      BY DEF KeepInv, PlansFit
  <2>2. \A q \in Packages : istobe'[q] = "deconfigure" => q \in ToDeconfigure' \/ status'[q] \notin Configured
      BY DEF KeepInv, PlansFit
  <2>3. istobe'[newpkg] = "installnew" \/ newpkg \in ToDeconfigure'
      BY <1>1 DEF KeepInv, PlansFit
  <2>4. was.fresh => \A q \in Agreed' \cap Packages : istobe'[q] = "remove"
      BY DEF KeepInv, PlansFit
  <2>5. was.fresh => \A q \in Gone : q \in Agreed' \/ status'[q] < HALFINSTALLED
      BY <1>1 DEF KeepInv, PlansFit
  <2>. QED
      BY <1>1, <1>2, <2>1, <2>2, <2>3, <2>4, <2>5 DEF PlansFit
<1>4. AskedFit' /\ AgreedFit'
    BY <1>2 DEF AskedFit, AgreedFit
<1>5. GoneFit'
  <2>. SUFFICES ASSUME Counts', NEW q \in Packages, NEW i \in DOMAIN world.depends,
                       was.status[q] \in Configured, q \in Gone \/ status'[q] < HALFINSTALLED,
                       DependsOn(world.depends[i], q)
                PROVE  Kept(world.depends[i], Gone, HALFINSTALLED)'
      BY <1>1 DEF GoneFit
  <2>1. Counts /\ was.fresh
      BY <1>1 DEF Counts
  <2>2. q \in Gone \/ status[q] < HALFINSTALLED
      BY <2>1
  <2>3. Kept(world.depends[i], Gone, HALFINSTALLED)
    <3>1. GoneFit
        BY DEF KeepInv
    <3>. QED
        BY <2>1, <2>2, <3>1, Zenon DEF GoneFit
  <2>4. world.depends[i].up \in Packages
      BY TheWorld
  <2>5. ASSUME NEW r \in Packages, Stays(r, Gone, HALFINSTALLED) PROVE Stays(r, Gone, HALFINSTALLED)'
      BY <1>1, <2>1, <2>5 DEF Stays
  <2>. QED
      BY <1>1, <2>3, <2>4, <2>5 DEF Kept
<1>. QED
    BY <1>3, <1>4, <1>5 DEF KeepInv

\* An error in the middle of the work.
LEMMA StoppedKeeps ==
  ASSUME KeepInv, UNCHANGED istobe, Stack(deconf'), Stack(conflictors'), upc' \in {"unwind", "internerr"}
  PROVE  KeepInv'
BY KeepIdle DEF KeepInv, PlanTypes, Deciding, Acting

\* A step that changes no package and none of the lists, or the new package alone.
LEMMA NewKeeps ==
  ASSUME SaneInv, KeepInv, upc \in Acting, upc' \in Acting, UNCHANGED <<world, cur, istobe, was, deconf, conflictors>>,
         NEW s \in Status, status' = status \/ status' = [status EXCEPT ![newpkg] = s], s \notin Configured, s >= HALFINSTALLED,
         newpkg \in Gone => status' = status \/ ~(status[newpkg] < HALFINSTALLED),
         upc' \in Acting \ {"prerm", "deconfigure"} => deconf = <<>> /\ istobe[newpkg] = "installnew",
         upc' \in {"backups", "conflictors"} /\ was.fresh => status'[newpkg] = UNPACKED
  PROVE  KeepInv'
<1>1. newpkg \in Packages
    BY DEF SaneInv, UnpackTypes, Acting
<1>2. status' \in [Packages -> Status] /\ Gone \subseteq Packages
    BY DEF SaneInv, UnpackTypes, Gone
<1>3. PlanTypes'
    BY DEF KeepInv, PlanTypes, Acting
<1>4. ToDeconfigure' = ToDeconfigure /\ Agreed' = Agreed
    BY DEF ToDeconfigure, Agreed
<1>5. /\ \A q \in Packages : q # newpkg => status'[q] = status[q]
      /\ status'[newpkg] = status[newpkg] \/ status'[newpkg] = s
    BY <1>1 DEF SaneInv, UnpackTypes
<1>6. ~(s < HALFINSTALLED)
    BY Numbers
<1>7. /\ \A q \in Packages : status'[q] \in Configured => status[q] \in Configured
      /\ \A q \in Packages : status'[q] < HALFINSTALLED => status[q] < HALFINSTALLED
      /\ \A q \in Gone : status[q] < HALFINSTALLED => status'[q] < HALFINSTALLED
    BY <1>1, <1>2, <1>5, <1>6
<1>. QED
    BY <1>2, <1>3, <1>4, <1>5, <1>7, ActingKeeps

\* The steps that have the lists in hand know that the new package is to be installed.
LEMMA NothingToStop ==
  ASSUME KeepInv, upc \in Acting, deconf = <<>>
  PROVE  istobe[newpkg] = "installnew" /\ newpkg \notin Gone /\ ToDeconfigure = {}
<1>1. ToDeconfigure = {}
    BY EmptyStack DEF ToDeconfigure
<1>. QED
    BY <1>1 DEF KeepInv, PlansFit, Gone

\* prerm_ran, preinst and the steps up to the removal of the conflictors.
LEMMA PackageKeeps ==
  ASSUME SaneInv, KeepInv,
         \/ prerm_ran \/ preinst \/ extract \/ postrm_upgrade \/ tidy \/ become_unpacked \/ backups
  PROVE  KeepInv'
<1>1. UNCHANGED <<world, cur, istobe, was, deconf, conflictors>> /\ Stack(deconf') /\ Stack(conflictors')
    BY DEF prerm_ran, preinst, extract, postrm_upgrade, tidy, become_unpacked, backups, Scripts, Fixed, KeepInv, PlanTypes
<1>2. CASE upc' = "unwind"
    BY <1>1, <1>2, StoppedKeeps
<1>3. CASE prerm_ran /\ upc' # "unwind"
  <2>1. upc = "prerm" /\ upc' = "deconfigure" /\ status' = [status EXCEPT ![newpkg] = UNPACKED]
      BY <1>3 DEF prerm_ran, Goto, SetStatus, ohshit
  <2>2. upc \in Acting /\ upc' \in Acting
      BY <2>1 DEF Acting
  <2>3. ~(status[newpkg] < HALFINSTALLED)
      BY <2>1, Numbers DEF SaneInv, PackageIsAt
  <2>4. UNPACKED \in Status /\ UNPACKED \notin Configured /\ UNPACKED >= HALFINSTALLED
      BY Numbers
  <2>. QED
      BY <1>1, <2>1, <2>2, <2>3, <2>4, NewKeeps
<1>4. CASE preinst /\ upc' # "unwind"
  <2>1. upc = "deconfigure" /\ upc' = "extract" /\ deconf = <<>> /\ status' = [status EXCEPT ![newpkg] = HALFINSTALLED]
      BY <1>4 DEF preinst, Goto, SetStatus, ohshit
  <2>2. upc \in Acting /\ upc' \in Acting
      BY <2>1 DEF Acting
  <2>3. HALFINSTALLED \in Status /\ HALFINSTALLED \notin Configured /\ HALFINSTALLED >= HALFINSTALLED
      BY Numbers
  <2>. QED
      BY <1>1, <2>1, <2>2, <2>3, NothingToStop, NewKeeps
<1>5. CASE (extract \/ postrm_upgrade \/ tidy) /\ upc' # "unwind"
  <2>1. /\ upc \in {"extract", "postrm", "tidy"} /\ upc' \in {"postrm", "tidy", "disappear"} /\ status' = status
      BY <1>5 DEF extract, postrm_upgrade, tidy, Goto, ohshit, Fate
  <2>2. upc \in Acting \ {"prerm", "deconfigure"} /\ upc' \in Acting
      BY <2>1 DEF Acting
  <2>3. deconf = <<>> /\ istobe[newpkg] = "installnew"
      BY <2>2 DEF KeepInv, PlansFit
  <2>4. UNPACKED \in Status /\ UNPACKED \notin Configured /\ UNPACKED >= HALFINSTALLED
      BY Numbers
  <2>. QED
      BY <1>1, <2>1, <2>2, <2>3, <2>4, NewKeeps
<1>6. CASE (become_unpacked \/ backups) /\ upc' # "unwind"
  <2>1. \/ upc = "disappear" /\ upc' = "backups" /\ status' = [status EXCEPT ![newpkg] = UNPACKED]
        \/ upc = "backups" /\ upc' = "conflictors" /\ status' = status
      BY <1>6 DEF become_unpacked, backups, SetStatus, Goto, ohshit
  <2>2. upc \in Acting \ {"prerm", "deconfigure"} /\ upc' \in Acting
      BY <2>1 DEF Acting
  <2>3. deconf = <<>> /\ istobe[newpkg] = "installnew"
      BY <2>2 DEF KeepInv, PlansFit
  <2>4. UNPACKED \in Status /\ UNPACKED \notin Configured /\ UNPACKED >= HALFINSTALLED
      BY Numbers
  <2>5. was.fresh => status'[newpkg] = UNPACKED
    <3>1. newpkg \in DOMAIN status
        BY <2>1 DEF SaneInv, UnpackTypes
    <3>. QED
        BY <2>1, <3>1 DEF KeepInv, PlansFit
  <2>6. newpkg \notin Gone
      BY <2>3 DEF Gone
  <2>. QED
      BY <1>1, <2>1, <2>2, <2>3, <2>4, <2>5, <2>6, NewKeeps
<1>. QED
    BY <1>2, <1>3, <1>4, <1>5, <1>6

\* One package has another status.
LEMMA StatusOf ==
  ASSUME SaneInv, NEW p, NEW s \in Status, status' = [status EXCEPT ![p] = s]
  PROVE  status' \in [Packages -> Status] /\ \A q \in Packages : status'[q] = IF q = p THEN s ELSE status[q]
<1>1. status \in [Packages -> Status]
    BY DEF SaneInv, UnpackTypes
<1>. HIDE DEF Status
<1>. QED
    BY <1>1

\* A package is stopped, before the others on the list; the new one never is.
LEMMA DeconfigureKeeps == ASSUME SaneInv, KeepInv, pkg_deconfigure_others PROVE KeepInv'
<1>. DEFINE p == Head(deconf).pkg
<1>1. /\ UNCHANGED <<world, cur, istobe, was, conflictors>> /\ upc = "deconfigure" /\ deconf # <<>>
      /\ Stack(deconf) /\ Stack(conflictors)
    BY DEF pkg_deconfigure_others, Scripts, Fixed, KeepInv, PlanTypes
<1>2. CASE status[p] <= HALFCONFIGURED
  <2>1. upc' = "internerr" /\ deconf' = deconf
      BY <1>2 DEF pkg_deconfigure_others, Goto
  <2>. QED
      BY <1>1, <2>1, StoppedKeeps
<1>3. CASE ~(status[p] <= HALFCONFIGURED)
  <2>1. status' = [status EXCEPT ![p] = HALFCONFIGURED] /\ deconf' = Tail(deconf) /\ upc' \in {"deconfigure", "unwind"}
      BY <1>1, <1>3 DEF pkg_deconfigure_others, SetStatus, ohshit
  <2>2. Stack(deconf') /\ Elems(deconf) = Elems(deconf') \cup {Head(deconf)}
      BY <1>1, <2>1, PopLemma
  <2>3. CASE upc' = "unwind"
      BY <1>1, <2>2, <2>3, StoppedKeeps
  <2>4. CASE upc' = "deconfigure"
    <3>1. upc \in Acting /\ upc' \in Acting
        BY <1>1, <2>4 DEF Acting
    <3>2. PlanTypes'
        BY <1>1, <2>2, <2>4 DEF KeepInv, PlanTypes
    <3>3. p # newpkg
        BY <1>1, <1>3, Numbers DEF SaneInv, UnpackTypes, PackageIsAt
    <3>4. ToDeconfigure = ToDeconfigure' \cup {p} /\ Agreed' = Agreed
        BY <1>1, <2>2 DEF ToDeconfigure, Agreed
    <3>5. status' \in [Packages -> Status] /\ \A q \in Packages : status'[q] = IF q = p THEN HALFCONFIGURED ELSE status[q]
      <4>1. HALFCONFIGURED \in Status
          BY Numbers
      <4>. HIDE DEF p
      <4>. QED
          BY <2>1, <4>1, StatusOf
    <3>6. HALFCONFIGURED \notin Configured /\ HALFCONFIGURED > HALFINSTALLED /\ ~(HALFCONFIGURED < HALFINSTALLED)
        BY Numbers
    <3>7. p \in Packages => ~(status[p] < HALFINSTALLED)
        BY <1>3, Numbers DEF SaneInv, UnpackTypes
    <3>8. upc' \notin Acting \ {"prerm", "deconfigure"} /\ upc' \notin {"backups", "conflictors"} /\ Gone \subseteq Packages
        BY <2>4 DEF Gone
    <3>. HIDE DEF p
    <3>9. \A q \in Packages : status'[q] \in Configured => status[q] \in Configured
        BY <3>5, <3>6
    <3>10. \A q \in Packages : status[q] > HALFINSTALLED => status'[q] > HALFINSTALLED
        BY <3>5, <3>6
    <3>11. \A q \in Packages : status'[q] < HALFINSTALLED <=> status[q] < HALFINSTALLED
        BY <3>5, <3>6, <3>7
    <3>12. \A q \in Packages : q \in ToDeconfigure => q \in ToDeconfigure' \/ (status'[q] \notin Configured /\ q # newpkg)
        BY <3>3, <3>4, <3>5, <3>6
    <3>13. \A q \in Gone : status[q] < HALFINSTALLED => status'[q] < HALFINSTALLED
        BY <3>8, <3>11
    <3>. QED
        BY <1>1, <3>1, <3>2, <3>4, <3>5, <3>8, <3>9, <3>10, <3>11, <3>12, <3>13, ActingKeeps
  <2>. QED
      BY <2>1, <2>3, <2>4
<1>. QED
    BY <1>2, <1>3

\* A conflictor is stopped.
LEMMA ConflictorKeeps == ASSUME SaneInv, KeepInv, conflictor_prerm PROVE KeepInv'
<1>1. /\ UNCHANGED <<world, cur, istobe, was, conflictors, deconf>> /\ upc = "deconfigure" /\ deconf = <<>>
      /\ Stack(deconf') /\ Stack(conflictors')
    BY DEF conflictor_prerm, Scripts, Fixed, KeepInv, PlanTypes
<1>2. PICK i \in DOMAIN conflictors :
        /\ status[conflictors[i]] >= HALFCONFIGURED
        /\ \/ status' = [status EXCEPT ![conflictors[i]] = HALFINSTALLED] /\ upc' = upc
           \/ upc' = "unwind"
    BY DEF conflictor_prerm, First, ToStop, SetStatus, ohshit
<1>. DEFINE p == conflictors[i]
<1>3. CASE upc' = "unwind"
    BY <1>1, <1>3, StoppedKeeps
<1>4. CASE upc' # "unwind"
  <2>1. status' = [status EXCEPT ![p] = HALFINSTALLED] /\ upc' = "deconfigure"
      BY <1>1, <1>2, <1>4
  <2>2. upc \in Acting /\ upc' \in Acting
      BY <1>1, <2>1 DEF Acting
  <2>3. p \in Agreed
    <3>1. DOMAIN conflictors = 1 .. Len(conflictors)
        BY <1>1 DEF Stack
    <3>. QED
        BY <3>1 DEF Agreed, Elems
  <2>. HIDE DEF p
  <2>4. was.fresh /\ p \in Packages => p \in Gone
      BY <2>2, <2>3 DEF KeepInv, PlansFit, Gone
  <2>5. PlanTypes' /\ Agreed' = Agreed /\ ToDeconfigure' = ToDeconfigure /\ Gone \subseteq Packages
      BY <1>1, <2>1 DEF KeepInv, PlanTypes, Agreed, ToDeconfigure, Gone
  <2>6. status' \in [Packages -> Status] /\ \A q \in Packages : status'[q] = IF q = p THEN HALFINSTALLED ELSE status[q]
    <3>1. HALFINSTALLED \in Status
        BY Numbers
    <3>. QED
        BY <2>1, <3>1, StatusOf
  <2>7. HALFINSTALLED \notin Configured /\ ~(HALFINSTALLED < HALFINSTALLED)
      BY Numbers
  <2>8. p \in Packages => ~(status[p] < HALFINSTALLED)
      BY <1>2, Numbers DEF SaneInv, UnpackTypes, p
  <2>9. \A q \in Packages : status'[q] \in Configured => status[q] \in Configured
      BY <2>6, <2>7
  <2>10. was.fresh => \A q \in Packages : status[q] > HALFINSTALLED => status'[q] > HALFINSTALLED \/ q \in Gone
      BY <2>4, <2>6
  <2>11. \A q \in Packages : status'[q] < HALFINSTALLED <=> status[q] < HALFINSTALLED
      BY <2>6, <2>7, <2>8
  <2>12. \A q \in Gone : status[q] < HALFINSTALLED => status'[q] < HALFINSTALLED
      BY <2>5, <2>11
  <2>13. upc' \notin Acting \ {"prerm", "deconfigure"} /\ upc' \notin {"backups", "conflictors"}
      BY <2>1
  <2>. QED
      BY <1>1, <2>2, <2>5, <2>6, <2>9, <2>10, <2>11, <2>12, <2>13, ActingKeeps
<1>. QED
    BY <1>3, <1>4

\* A conflictor is removed.
LEMMA RemoveKeeps == ASSUME SaneInv, KeepInv, remove_conflictor PROVE KeepInv'
<1>. DEFINE p == Head(conflictors)
<1>1. /\ UNCHANGED <<world, cur, istobe, was, deconf>> /\ upc = "conflictors" /\ conflictors' = Tail(conflictors)
      /\ conflictors # <<>> /\ Stack(deconf') /\ Stack(conflictors)
    BY DEF remove_conflictor, Same, Fixed, KeepInv, PlanTypes
<1>2. Stack(conflictors') /\ Agreed = Agreed' \cup {p}
    BY <1>1, PopLemma DEF Agreed
<1>3. CASE upc' = "unwind"
    BY <1>1, <1>2, <1>3, StoppedKeeps
<1>4. CASE upc' # "unwind"
  <2>1. /\ upc' = "conflictors"
        /\ status' = [status EXCEPT ![p] = CONFIGFILES] \/ status' = [status EXCEPT ![p] = NOTINSTALLED]
      BY <1>1, <1>4 DEF remove_conflictor, SetStatus, ohshit
  <2>2. upc \in Acting /\ upc' \in Acting /\ upc' \in Acting \ {"prerm", "deconfigure"}
      BY <1>1, <2>1 DEF Acting
  <2>3. deconf = <<>> /\ istobe[newpkg] = "installnew" /\ (was.fresh => status[newpkg] = UNPACKED)
      BY <1>1, <2>1, <2>2 DEF KeepInv, PlansFit
  <2>. HIDE DEF p
  <2>4. was.fresh /\ p \in Packages => p \in Gone /\ p # newpkg
      BY <1>2, <2>2, <2>3 DEF KeepInv, PlansFit, Gone
  <2>5. PlanTypes' /\ ToDeconfigure' = ToDeconfigure /\ Gone \subseteq Packages /\ newpkg \in Packages
      BY <1>1, <1>2, <2>1 DEF KeepInv, PlanTypes, ToDeconfigure, Gone, SaneInv, UnpackTypes
  <2>6. PICK s \in {CONFIGFILES, NOTINSTALLED} : status' = [status EXCEPT ![p] = s]
      BY <2>1
  <2>7. status' \in [Packages -> Status] /\ \A q \in Packages : status'[q] = IF q = p THEN s ELSE status[q]
    <3>1. s \in Status
        BY Numbers
    <3>. QED
        BY <2>6, <3>1, StatusOf
  <2>8. s \notin Configured /\ s < HALFINSTALLED
      BY Numbers
  <2>9. \A q \in Packages : status'[q] \in Configured => status[q] \in Configured
      BY <2>7, <2>8
  <2>10. was.fresh => \A q \in Packages : status[q] > HALFINSTALLED => status'[q] > HALFINSTALLED \/ q \in Gone
      BY <2>4, <2>7
  <2>11. was.fresh => \A q \in Packages : status'[q] < HALFINSTALLED => status[q] < HALFINSTALLED \/ q \in Gone
      BY <2>4, <2>7
  <2>12. \A q \in Gone : status[q] < HALFINSTALLED => status'[q] < HALFINSTALLED
      BY <2>5, <2>7, <2>8
  <2>13. \A q \in Packages : q \in Agreed => q \in Agreed' \/ status'[q] < HALFINSTALLED
      BY <1>2, <2>7, <2>8
  <2>14. was.fresh => status'[newpkg] = UNPACKED
      BY <2>3, <2>4, <2>5, <2>7
  <2>. QED
      BY <1>1, <1>2, <2>2, <2>3, <2>5, <2>7, <2>9, <2>10, <2>11, <2>12, <2>13, <2>14, ActingKeeps
<1>. QED
    BY <1>3, <1>4

\* A package disappears when depisok() is content without it.
LEMMA DisappearKeeps == ASSUME SaneInv, KeepInv, pkg_disappear_others PROVE KeepInv'
<1>. USE DEF Fixed
<1>1. PICK p \in Packages \ seen :
      /\ UNCHANGED <<world, cur, was, deconf, conflictors>> /\ upc = "disappear"
      /\ istobe' = IF Emptied(p) THEN [istobe EXCEPT ![p] = "normal"] ELSE istobe
      /\ \/ upc' = "unwind"
         \/ upc' = "disappear" /\ (status' = status \/ (Disappears(p) /\ status' = [status EXCEPT ![p] = NOTINSTALLED]))
    BY DEF pkg_disappear_others, Fate, SetStatus, ohshit
<1>2. newpkg \in seen /\ newpkg \in Packages /\ p \in Packages /\ p # newpkg
    BY <1>1 DEF SaneInv, StackFits, UnpackTypes
<1>3. \A q \in Packages : istobe[q] = "installnew" => q = newpkg
    BY <1>1 DEF KeepInv, PlansFit, Acting
<1>4. PlanTypes' /\ \A q \in Packages : istobe'[q] = istobe[q] \/ (istobe[q] = "deconfigure" /\ istobe'[q] = "normal")
  <2>1. istobe \in [Packages -> Tobe] /\ Stack(deconf') /\ Stack(conflictors')
      BY <1>1 DEF KeepInv, PlanTypes
  <2>2. istobe' \in [Packages -> Tobe]
      BY <1>1, <2>1 DEF Tobe
  <2>3. CASE Emptied(p)
    <3>1. istobe[p] \in {"normal", "deconfigure"}
        BY <1>2, <1>3, <2>1, <2>3 DEF Emptied, Tobe
    <3>. QED
        BY <1>1, <2>1, <2>2, <2>3, <3>1 DEF PlanTypes
  <2>4. CASE ~Emptied(p)
      BY <1>1, <2>1, <2>2, <2>4 DEF PlanTypes
  <2>. QED
      BY <2>3, <2>4
<1>5. CASE upc' = "unwind"
    BY <1>4, <1>5, KeepIdle DEF Deciding, Acting
<1>6. CASE upc' # "unwind"
  <2>1. upc' = "disappear" /\ (status' = status \/ (Disappears(p) /\ status' = [status EXCEPT ![p] = NOTINSTALLED]))
      BY <1>1, <1>6
  <2>2. upc \in Acting \ {"prerm", "deconfigure"} /\ upc' \in Acting /\ upc' \notin Deciding
      BY <1>1, <2>1 DEF Acting, Deciding
  <2>3. deconf = <<>> /\ istobe[newpkg] = "installnew" /\ newpkg \notin Gone
      BY <2>2 DEF KeepInv, PlansFit, Gone
  <2>4. CASE status' = status
    <3>1. status' \in [Packages -> Status] /\ ToDeconfigure' = {} /\ ToDeconfigure = {} /\ Agreed' = Agreed
        BY <1>1, <2>3, <2>4, EmptyStack DEF SaneInv, UnpackTypes, ToDeconfigure, Agreed
    <3>2. upc' \notin {"backups", "conflictors"} /\ deconf' = <<>>
        BY <1>1, <2>1, <2>3
    <3>. QED
        BY <1>1, <1>4, <2>2, <2>3, <2>4, <3>1, <3>2, ActingKeeps
  <2>5. CASE Disappears(p) /\ status' = [status EXCEPT ![p] = NOTINSTALLED]
    <3>1. PlanTypes' /\ ToDeconfigure' = ToDeconfigure /\ Agreed' = Agreed /\ Gone' = Gone /\ Gone \subseteq Packages
        BY <1>1, <1>4 DEF ToDeconfigure, Agreed, Gone
    <3>2. /\ newpkg' = newpkg /\ Counts' = Counts /\ (\A r, n : Answers(r, n)' = Answers(r, n))
          /\ (\A d, q : DependsOn(d, q)' = DependsOn(d, q))
        BY <1>1, SameArchive DEF Counts
    <3>3. \A q \in Packages : status'[q] = IF q = p THEN NOTINSTALLED ELSE status[q]
      <4>1. NOTINSTALLED \in Status
          BY Numbers
      <4>. QED
          BY <2>5, <4>1, StatusOf
    <3>4. NOTINSTALLED \notin Configured /\ NOTINSTALLED < HALFINSTALLED
        BY Numbers
    <3>5. PlansFit'
      <4>1. \A q \in Packages : istobe'[q] = "deconfigure" => q \in ToDeconfigure \/ status'[q] \notin Configured
          BY <1>4, <2>2, <3>3, <3>4 DEF KeepInv, PlansFit
      <4>2. was.fresh => \A q \in Gone : q \in Agreed \/ status'[q] < HALFINSTALLED
          BY <2>2, <3>1, <3>3, <3>4 DEF KeepInv, PlansFit
      <4>3. (\A q \in Packages : istobe'[q] = "installnew" => q = newpkg) /\ istobe'[newpkg] = "installnew"
          BY <1>2, <1>3, <1>4, <2>3
      <4>4. was.fresh => \A q \in Agreed \cap Packages : istobe'[q] = "remove"
          BY <1>4, <2>2 DEF KeepInv, PlansFit
      <4>. QED
          BY <1>1, <2>1, <2>2, <2>3, <3>1, <3>2, <4>1, <4>2, <4>3, <4>4 DEF PlansFit
    <3>6. AskedFit' /\ AgreedFit'
        BY <2>1, <2>2 DEF AskedFit, AgreedFit
    <3>7. ASSUME NEW i \in DOMAIN world.depends, DependsOn(world.depends[i], p)
          PROVE  Kept(world.depends[i], Gone \cup {p}, HALFCONFIGURED)
      <4>. DEFINE to == [istobe EXCEPT ![p] = "remove"]
                  dep == world.depends[i]
      <4>1. PICK name \in NamesOf(p) : IsOn(dep, name, Needed)
          BY <3>7 DEF DependsOn
      <4>2. dep.type \in Needed /\ dep.up \in Packages
          BY <4>1, TheWorld DEF IsOn
      <4>3. depisok(to, dep, FALSE)
        <5>1. IsOn(dep, name, {"depends", "predepends", "recommends"})
            BY <4>1 DEF IsOn, Needed
        <5>2. \A k \in DOMAIN world.depends, n \in NamesOf(p) :
                IsOn(world.depends[k], n, {"depends", "predepends", "recommends"}) => depisok(to, world.depends[k], FALSE)
            BY <2>5 DEF Disappears, NamesOf
        <5>. QED
            BY <5>1, <5>2
      <4>4. istobe \in [Packages -> Tobe]
          BY DEF KeepInv, PlanTypes
      <4>5. to \in [Packages -> Tobe] /\ \A q \in Packages : to[q] = IF q = p THEN "remove" ELSE istobe[q]
          BY <4>4 DEF Tobe
      <4>. HIDE DEF to, dep
      <4>6. /\ \A q \in Packages : to[q] = "remove" <=> q \in Gone \cup {p}
            /\ \A q \in Packages : to[q] = "installnew" => q = newpkg
            /\ \A q \in Packages : to[q] = "deconfigure" => q \in ToDeconfigure \/ status[q] \notin Configured
          BY <2>2, <4>5 DEF KeepInv, PlansFit, Gone
      <4>7. Kept(dep, Gone \cup {p}, HALFCONFIGURED)
          BY <1>2, <4>2, <4>3, <4>5, <4>6, OkIsKept
      <4>. QED
          BY <4>7 DEF dep
    <3>8. ASSUME NEW i \in DOMAIN world.depends, Kept(world.depends[i], Gone \cup {p}, HALFCONFIGURED)
          PROVE  Kept(world.depends[i], Gone, HALFINSTALLED)'
      <4>1. world.depends[i].up \in Packages
          BY TheWorld
      <4>2. ASSUME NEW r \in Packages, Stays(r, Gone \cup {p}, HALFCONFIGURED) PROVE Stays(r, Gone, HALFINSTALLED)'
        <5>1. CASE r = newpkg
            BY <3>2, <5>1 DEF Stays
        <5>2. CASE r # newpkg
          <6>1. r \notin Gone /\ r # p /\ status[r] > HALFCONFIGURED /\ status'[r] = status[r]
              BY <3>3, <4>2, <5>2 DEF Stays
          <6>2. status'[r] > HALFINSTALLED
              BY <6>1, Numbers DEF SaneInv, UnpackTypes
          <6>. QED
              BY <3>1, <6>1, <6>2 DEF Stays
        <5>. QED
            BY <5>1, <5>2
      <4>. QED
          BY <1>1, <3>1, <3>2, <3>3, <3>4, <3>8, <4>1, <4>2 DEF Kept
    <3>9. GoneFit'
      <4>. SUFFICES ASSUME Counts', NEW q \in Packages, NEW i \in DOMAIN world.depends,
                           was.status[q] \in Configured, q \in Gone \/ status'[q] < HALFINSTALLED,
                           DependsOn(world.depends[i], q)
                    PROVE  Kept(world.depends[i], Gone, HALFINSTALLED)'
          BY <1>1, <3>1, <3>2 DEF GoneFit
      <4>. DEFINE dep == world.depends[i]
      <4>1. CASE DependsOn(dep, p)
          BY <3>7, <3>8, <4>1
      <4>2. CASE ~DependsOn(dep, p)
        <5>1. q # p /\ (q \in Gone \/ status[q] < HALFINSTALLED) /\ Counts /\ upc \in Acting
            BY <2>2, <3>2, <3>3, <4>2
        <5>2. Kept(dep, Gone, HALFINSTALLED)
          <6>1. GoneFit
              BY DEF KeepInv
          <6>. QED
              BY <5>1, <6>1, Zenon DEF GoneFit
        <5>3. dep.type \in Needed /\ dep.up \in Packages
            BY TheWorld DEF DependsOn, IsOn
        <5>4. ASSUME NEW j \in DOMAIN dep.list, NEW r \in Packages, Answers(r, dep.list[j].on), Stays(r, Gone, HALFINSTALLED)
              PROVE  Stays(r, Gone, HALFINSTALLED)'
          <6>1. CASE r = newpkg
              BY <3>2, <6>1 DEF Stays
          <6>2. CASE r # newpkg
            <7>1. r # p
                BY <4>2, <5>3, <5>4, <6>2 DEF Answers, DependsOn, IsOn
            <7>. QED
                BY <3>1, <3>2, <3>3, <5>4, <6>2, <7>1 DEF Stays
          <6>. QED
              BY <6>1, <6>2
        <5>. QED
            BY <1>1, <3>1, <3>2, <3>3, <3>4, <5>2, <5>3, <5>4 DEF Kept
      <4>. QED
          BY <4>1, <4>2
    <3>. QED
        BY <3>1, <3>5, <3>6, <3>9 DEF KeepInv
  <2>. QED
      BY <2>1, <2>4, <2>5
<1>. QED
    BY <1>5, <1>6

\* Every step keeps the plans and what they promise.
LEMMA KeepStep == SaneInv /\ BackInv /\ KeepInv /\ [UnpackNext]_unpackvars => KeepInv'
<1>. SUFFICES ASSUME SaneInv, BackInv, KeepInv, [UnpackNext]_unpackvars PROVE KeepInv'
    OBVIOUS
<1>1. CASE NextArchive \/ OpenFails \/ Skipped \/ finish \/ run_cleanups
    BY <1>1, PlansRest
<1>2. CASE Opened \/ DepIsFine \/ check_predepends \/ check_breaks \/ check_conflict
    BY <1>2, OpenedKeeps, DepIsFineKeeps, PredependsKeep, BreaksKeep, ConflictKeeps
<1>3. CASE ask_dependent \/ enqueue_conflictor \/ prerm_upgrade
    BY <1>3, AskKeeps, EnqueueKeeps, GoAheadKeeps
<1>4. CASE pkg_deconfigure_others \/ conflictor_prerm \/ remove_conflictor \/ pkg_disappear_others
    BY <1>4, DeconfigureKeeps, ConflictorKeeps, RemoveKeeps, DisappearKeeps
<1>5. CASE prerm_ran \/ preinst \/ extract \/ postrm_upgrade \/ tidy \/ become_unpacked \/ backups
    BY <1>5, PackageKeeps
<1>6. CASE UNCHANGED unpackvars
  <2>1. UNCHANGED <<world, cur, status, istobe, conflictors, deconf, checks, upc, was>>
      BY <1>6 DEF unpackvars
  <2>2. /\ newpkg' = newpkg /\ ToDeconfigure' = ToDeconfigure /\ Agreed' = Agreed /\ Gone' = Gone /\ Counts' = Counts
        /\ (\A q : NamesOf(q)' = NamesOf(q)) /\ (\A d, q : DependsOn(d, q)' = DependsOn(d, q))
        /\ (\A i, n : Pending(i, n)' = Pending(i, n))
        /\ (\A d, gone, least : Kept(d, gone, least)' = Kept(d, gone, least))
      BY <2>1, SameArchive, SameKept DEF ToDeconfigure, Agreed, Gone, Counts, Pending
  <2>3. PlanTypes' /\ PlansFit'
      BY <2>1, <2>2 DEF KeepInv, PlanTypes, PlansFit
  <2>4. AskedFit'
      BY <2>1, <2>2 DEF KeepInv, AskedFit
  <2>5. AgreedFit' /\ GoneFit'
      BY <2>1, <2>2 DEF KeepInv, AgreedFit, GoneFit
  <2>. QED
      BY <2>3, <2>4, <2>5 DEF KeepInv
<1>. QED
    BY <1>1, <1>2, <1>3, <1>4, <1>5, <1>6 DEF UnpackNext, process_archive

\* When the last conflictor has gone, who is still configured has what stayed for it.
LEMMA KeepImplies == SaneInv /\ KeepInv => RemovalKeepsDepends
<1>. SUFFICES ASSUME SaneInv, KeepInv, upc = "conflictors", conflictors = <<>>, was.fresh, ~in_force("depends"),
                     NEW p \in Packages \ {newpkg}, status[p] \in Configured, NeedsRemoved(p)
              PROVE  FALSE
    BY DEF RemovalKeepsDepends
<1>1. upc \in Acting \ {"prerm", "deconfigure"} /\ Counts
    BY DEF Acting, Counts
<1>2. Agreed = {} /\ ToDeconfigure = {} /\ status[newpkg] = UNPACKED
    BY <1>1, EmptyStack, NothingToStop DEF Agreed, KeepInv, PlansFit
<1>3. \A q \in Gone : status[q] < HALFINSTALLED
    BY <1>1, <1>2 DEF KeepInv, PlansFit
<1>4. p \notin Gone
    BY <1>3, Numbers DEF SaneInv, UnpackTypes
<1>5. PICK i \in DOMAIN world.depends :
        /\ world.depends[i].up = p /\ world.depends[i].type \in Needed
        /\ \E j \in DOMAIN world.depends[i].list :
             LET q == world.depends[i].list[j].on
             IN  q \in Packages /\ was.status[q] \in Configured /\ status[q] < HALFINSTALLED
        /\ ~ \E j \in DOMAIN world.depends[i].list, q \in Packages :
               /\ \/ q = world.depends[i].list[j].on \/ world.depends[i].list[j].on \in ToSet(world.provides[q])
                  \/ q = newpkg /\ world.depends[i].list[j].on \in archive.provides
               /\ status[q] > HALFINSTALLED
    BY DEF NeedsRemoved, Needed
<1>. DEFINE dep == world.depends[i]
<1>6. PICK j \in DOMAIN dep.list : /\ dep.list[j].on \in Packages /\ was.status[dep.list[j].on] \in Configured
                                   /\ status[dep.list[j].on] < HALFINSTALLED
    BY <1>5
<1>7. DependsOn(dep, dep.list[j].on)
    BY <1>5 DEF DependsOn, NamesOf, IsOn
<1>8. Kept(dep, Gone, HALFINSTALLED)
  <2>1. GoneFit
      BY DEF KeepInv
  <2>. QED
      BY <1>1, <1>6, <1>7, <2>1 DEF GoneFit
<1>9. PICK k \in DOMAIN dep.list, r \in Packages : Answers(r, dep.list[k].on) /\ Stays(r, Gone, HALFINSTALLED)
    BY <1>2, <1>4, <1>5, <1>8 DEF Kept
<1>10. status[r] > HALFINSTALLED
    BY <1>2, <1>9, Numbers DEF Stays
<1>. QED
    BY <1>5, <1>9, <1>10 DEF Answers, NamesOf

\* The plans of process_archive() and what they promise, always.
LEMMA PlansInvariant == UnpackSpec => [](SaneInv /\ KeepInv)
<1>1. UnpackInit => SaneInv /\ BackInv /\ KeepInv
    BY UnpackInitInv, KeepInit
<1>2. SaneInv /\ BackInv /\ KeepInv /\ [UnpackNext]_unpackvars => (SaneInv /\ BackInv /\ KeepInv)'
    BY UnpackStep, KeepStep
<1>. QED
    BY <1>1, <1>2, PTL DEF UnpackSpec

\* process_archive(): an archive that removes its conflictors, or makes packages disappear, leaves no
\* configured package but its own without an answer to a dependency on one of them, for any relations
\* between the packages, unless dependencies are forced.
THEOREM RemovalsAlwaysKeepDepends == UnpackSpec => []RemovalKeepsDepends
BY PlansInvariant, KeepImplies, PTL

\* The package that check_conflict() would remove is to stay or to be deconfigured: its internal error
\* ("to be fixed by removal is not to be normal nor deconfigure") cannot happen.
FixIsFree ==
  LET dep == Head(checks)
  IN  upc = "depcon" /\ dep.up \in Packages /\ ~depisok(istobe, dep, FALSE) =>
        \A x \in canfixbyremove(dep) : istobe[IF istobe[x] = "installnew" THEN dep.up ELSE x] \in {"normal", "deconfigure"}

\* check_conflict(): of two packages in conflict, one of them perhaps the new one, the one that is to be
\* removed was not marked for removal by an earlier conflict, and is not the one that is installed.
THEOREM FixIsAlwaysFree == UnpackSpec => []FixIsFree
<1>1. SaneInv /\ KeepInv => FixIsFree
  <2>. SUFFICES ASSUME SaneInv, KeepInv, NEW dep, dep = Head(checks), upc = "depcon", dep.up \in Packages, ~depisok(istobe, dep, FALSE),
                       NEW x \in canfixbyremove(dep), NEW p, p = IF istobe[x] = "installnew" THEN dep.up ELSE x
                PROVE  istobe[p] \in {"normal", "deconfigure"}
      BY DEF FixIsFree
  <2>1. p \in Packages
      BY DEF canfixbyremove, ConflictReal, ConflictVirtual
  <2>. QED
      BY <2>1, MayGo
<1>. QED
    BY <1>1, PlansInvariant, PTL
=============================================================================
