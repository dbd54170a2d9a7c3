------------------------------- MODULE Unpack -------------------------------
(***************************************************************************)
(* process_archive() (src/main/unpack.c): one archive after another is     *)
(* checked against what is installed, packages in its way are chosen for   *)
(* removal or deconfiguration (archives.c, depcon.c), their scripts and    *)
(* its own are run, and its files replace the old ones.  Every step that   *)
(* will have to be undone pushes a clean-up (cleanup.c, ehandle.c); an     *)
(* error runs them, the last one first, and a clean-up may fail itself.    *)
(*                                                                         *)
(* The files of a package are one value, and versions are what they decide:*)
(* does the installed, the new, the last configured version satisfy a      *)
(* dependency?  The single files are in FileInstall, the triggers in       *)
(* Triggers, and the configuration that follows in ProcessQueue.           *)
(***************************************************************************)
EXTENDS PkgStatus, Sequences, SequencesExt

CONSTANTS Packages,
          Worlds   \* what is installed, the archives and the options

ASSUME PackagesAssumption == IsFiniteSet(Packages)
ASSUME WorldsAssumption ==
  \A w \in Worlds :
    /\ w.status \in [Packages -> Status]
    /\ Len(w.archives) \in Nat
    /\ \A i \in 1 .. Len(w.archives) : w.archives[i].pkg \in Packages
    /\ w.depends \in Seq(ToSet(w.depends)) /\ \A i \in DOMAIN w.depends : w.depends[i].up \in Packages
    /\ \A p \in Packages : w.provides[p] \in Seq(ToSet(w.provides[p]))

VARIABLES world, status, reinst, files,
          istobe,        \* clientdata->istobe
          conflictors,   \* packages to remove; lives as long as dpkg does
          deconf,        \* packages to deconfigure, the last one first
          checks,        \* the dependencies still to be checked, after who is asked about one
          cleanups,      \* the stack of clean-ups of the archive
          oldversionstatus,
          cleanup_pkg_failed, cleanup_conflictor_failed,
          flagset,       \* with which the clean-ups are run
          seen,          \* packages looked at by pkg_disappear_others()
          queued,        \* packages queued for configuration
          upc, cur,      \* where process_archive() is, and with which archive
          was            \* history: the state before this archive

unpackvars == <<world, status, reinst, files, istobe, conflictors, deconf, checks, cleanups,
                oldversionstatus, cleanup_pkg_failed, cleanup_conflictor_failed, flagset,
                seen, queued, upc, cur, was>>
Fate    == <<status, reinst, files>>
Plans   == <<istobe, conflictors, deconf, checks>>
Undoing == <<cleanups, cleanup_pkg_failed, cleanup_conflictor_failed, flagset>>
Fixed   == <<world, cur>>
Same    == <<Fixed, seen>>

archive == world.archives[cur]
newpkg  == archive.pkg
in_force(f) == f \in world.force
Configured  == HALFCONFIGURED + 1 .. INSTALLED

-----------------------------------------------------------------------------
(* depisok(): one dependency against the packages and what is to become of *)
(* them.  A possibility says which versions of the package satisfy it.     *)

Satisfies(to, p, possi, allowunconfigd) ==
  CASE to[p] = "installnew" -> possi.avail
    [] to[p] = "normal" ->
         \/ status[p] \in {INSTALLED, TRIGGERSPENDING} /\ possi.inst
         \/ /\ allowunconfigd /\ status[p] \in {TRIGGERSAWAITED, UNPACKED, HALFCONFIGURED}
            /\ p \notin world.neverconfigured /\ possi.inst
    [] OTHER -> FALSE

\* What the new version provides counts, not what the old one did.
ProvidesNew(to, p, name) == to[p] = "installnew" /\ p = newpkg /\ name \in archive.provides
ProvidesOld(to, p, name) == to[p] # "installnew" /\ name \in ToSet(world.provides[p])

DependOk(to, dep, allowunconfigd) ==
  \E i \in DOMAIN dep.list :
    LET possi == dep.list[i]
    IN  \/ possi.on \in Packages /\ Satisfies(to, possi.on, possi, allowunconfigd)
        \/ \E p \in Packages : \/ ProvidesNew(to, p, possi.on)
                               \/ /\ ProvidesOld(to, p, possi.on) /\ to[p] = "normal"
                                  /\ status[p] \in {INSTALLED, TRIGGERSPENDING}

\* Packages whose awaited triggers would fix the dependency.
canfixbytrigaw(dep) ==
  {p \in Packages : /\ istobe[p] = "normal" /\ status[p] = TRIGGERSAWAITED
                    /\ \E i \in DOMAIN dep.list : \/ dep.list[i].on = p /\ dep.list[i].inst
                                                  \/ ProvidesOld(istobe, p, dep.list[i].on)}

\* Is an installed package in the way of a Conflicts or a Breaks?
InTheWay(to, dep, p) ==
  /\ to[p] \in (IF dep.type = "breaks" THEN {"normal"} ELSE {"normal", "deconfigure"})
  /\ status[p] \in (IF dep.type = "breaks" THEN Configured ELSE HALFINSTALLED .. INSTALLED)

ConflictReal(to, dep) ==
  {p \in Packages : /\ dep.list[1].on = p /\ p # dep.up
                    /\ \/ to[p] = "installnew" /\ dep.list[1].avail
                       \/ InTheWay(to, dep, p) /\ dep.list[1].inst}
ConflictVirtual(to, dep) ==
  {p \in Packages : p # dep.up /\ ProvidesOld(to, p, dep.list[1].on) /\ InTheWay(to, dep, p)}
ConflictNew(to, dep) == \E p \in Packages \ {dep.up} : ProvidesNew(to, p, dep.list[1].on)

\* The one package whose going would solve the problem.
canfixbyremove(dep) ==
  LET real == ConflictReal(istobe, dep) virtual == ConflictVirtual(istobe, dep)
  IN  {p \in real \cup virtual : /\ ~ConflictNew(istobe, dep) /\ real \cup virtual = {p}
                                 /\ real \cap virtual = {}}

\* Only packages that are, or are to be, installed make dependency problems.
Matters(to, dep) ==
  \/ to[dep.up] = "installnew"
  \/ to[dep.up] = "normal" /\ status[dep.up] \in Configured
  \/ /\ to[dep.up] = "normal" /\ status[dep.up] \in HALFINSTALLED .. HALFCONFIGURED
     /\ dep.type \in {"predepends", "conflicts", "breaks"}

depisok(to, dep, allowunconfigd) ==
  \/ ~Matters(to, dep)
  \/ IF dep.type \in {"conflicts", "breaks"}
     THEN ~ConflictNew(to, dep) /\ ConflictReal(to, dep) \cup ConflictVirtual(to, dep) = {}
     ELSE DependOk(to, dep, allowunconfigd)

-----------------------------------------------------------------------------
(* The stack of clean-ups: each entry has the flags that it runs under.    *)

Entry(what, p) == [what |-> what, pkg |-> p]
push_cleanup(e) == cleanups' = <<e>> \o cleanups
checkpoint == Entry("checkpoint", newpkg)

Goto(pc) == upc' = pc
ohshit == upc' = "unwind" /\ flagset' = "bombout"
SetStatus(p, s) == status' = [status EXCEPT ![p] = s]

-----------------------------------------------------------------------------
(* Before anything is changed.                                             *)

\* archivefiles() takes the next archive: it may not exist, not be whole, fail
\* its verification, or not be wanted.
NextArchive ==
  /\ upc = "idle" /\ cur < Len(world.archives)
  /\ cur' = cur + 1 /\ Goto("open")
  /\ cleanups' = <<>> /\ cleanup_pkg_failed' = 0 /\ cleanup_conflictor_failed' = 0
  /\ was' = [status |-> status, files |-> files, changed |-> FALSE, undone |-> TRUE,
             end |-> "none", removed |-> {}, fresh |-> conflictors = <<>>]
  /\ UNCHANGED <<world, seen, Fate, Plans, flagset, oldversionstatus, queued>>

OpenFails == upc = "open" /\ ohshit
             /\ UNCHANGED <<Same, Fate, Plans, cleanups, cleanup_pkg_failed, cleanup_conflictor_failed,
                            oldversionstatus, queued, was>>
Skipped == upc = "open" /\ Goto("idle")
           /\ UNCHANGED <<Same, Fate, Plans, Undoing, oldversionstatus, queued, was>>

Entries(ps, reason) == [i \in DOMAIN ps |-> [pkg |-> ps[i], removal |-> "none", reason |-> reason]]

\* Other instances of the package that are not of the same version.
OutOfSync == SetToSeq({p \in Packages : <<newpkg, p>> \in world.siblings /\ status[p] \in Configured})

\* pkg_check_depcon(): the archive's own fields, in their order, with the conflicts
\* with what it provides, and then the conflicts of others with the package.
ConflictsOn(name) == SelectSeq(world.depends, LAMBDA d : d.type = "conflicts" /\ d.list[1].on = name)
Checks ==
  FlattenSeq([i \in DOMAIN archive.depends |->
                IF archive.depends[i].type = "provides" THEN ConflictsOn(archive.depends[i].on)
                ELSE <<archive.depends[i]>>])
  \o ConflictsOn(newpkg)

Opened ==
  /\ upc = "open" /\ Goto("depcon")
  /\ deconf' = Reverse(Entries(OutOfSync, "unknown"))
  /\ istobe' = [p \in Packages |-> IF p = newpkg THEN "installnew"
                                   ELSE IF p \in ToSet(OutOfSync) THEN "deconfigure" ELSE "normal"]
  /\ checks' = Checks
  /\ UNCHANGED <<Same, Fate, Undoing, conflictors, oldversionstatus, queued, was>>

Check(types) == upc = "depcon" /\ checks # <<>> /\ Head(checks).type \in types /\ checks' = Tail(checks)
Unaffected == <<Same, Fate, cleanups, cleanup_pkg_failed, cleanup_conflictor_failed, oldversionstatus, queued>>

DepIsFine ==
  /\ Check({"conflicts", "breaks", "predepends"})
  /\ depisok(istobe, Head(checks), Head(checks).type = "predepends")
  /\ UNCHANGED <<Unaffected, istobe, conflictors, deconf, flagset, upc, was>>

\* Either one stops the archive, or its force lets it go on.
Forced(f) == in_force(f) /\ UNCHANGED <<flagset, upc>>
Refused(f) == ~in_force(f) /\ ohshit

\* A pre-dependency on a package that awaits triggers has them processed; their
\* postinst may fail.
check_predepends ==
  LET dep == Head(checks) fix == canfixbytrigaw(dep)
  IN  /\ Check({"predepends"}) /\ ~depisok(istobe, dep, TRUE)
      /\ \/ /\ fix # {} /\ UNCHANGED <<flagset, upc>>
            /\ \E p \in fix : SetStatus(p, INSTALLED)
         \/ fix # {} /\ ohshit /\ UNCHANGED status
         \/ fix = {} /\ (Forced("depends") \/ Refused("depends")) /\ UNCHANGED status
      /\ UNCHANGED <<Same, reinst, files, istobe, conflictors, deconf, cleanups, cleanup_pkg_failed,
                     cleanup_conflictor_failed, oldversionstatus, queued, was>>

\* enqueue_deconfigure() on the plans made so far.
Deconfiguring(plan, p, removal, reason) ==
  [plan EXCEPT !.istobe[p] = "deconfigure",
               !.deconf = <<[pkg |-> p, removal |-> removal, reason |-> reason]>> \o plan.deconf]
ThePlan == [istobe |-> istobe, deconf |-> deconf]
Planned(plan) == istobe' = plan.istobe /\ deconf' = plan.deconf

\* check_breaks() with try_deconfigure_can().
check_breaks ==
  LET dep == Head(checks) fix == canfixbyremove(dep)
  IN  /\ Check({"breaks"}) /\ ~depisok(istobe, dep, FALSE)
      /\ IF fix # {} /\ world.autodeconf /\ ~in_force("breaks")
         THEN /\ \E p \in fix : Planned(Deconfiguring(ThePlan, p, "none", "install"))
              /\ UNCHANGED <<flagset, upc>>
         ELSE (Forced("breaks") \/ Refused("breaks")) /\ UNCHANGED <<istobe, deconf>>
      /\ UNCHANGED <<Unaffected, conflictors, was>>

\* try_remove_can(): may the dependent be deconfigured so that p can go?
try_remove_can(dep) ==
  \/ in_force("depends")
  \/ /\ world.autodeconf
     /\ dep.up \notin world.essential \/ in_force("remove-essential")
     /\ dep.up \notin world.protected \/ in_force("remove-protected")

\* A dependency of one of these types on the name.
IsOn(dep, name, types) == dep.type \in types /\ \E i \in DOMAIN dep.list : dep.list[i].on = name

\* skip_due_to_hold() and the reinstallation flag.
Removable(p) ==
  /\ p \notin world.held \/ in_force("hold")
  /\ p \notin reinst \/ in_force("remove-reinstreq")

ImportantNew == newpkg \in world.newimportant
Important(p) == p \in world.essential \cup world.protected
WorthRemoving(p) ==
  \/ ImportantNew /\ Important(p)
  \/ /\ p \in world.unwanted \/ <<newpkg, p>> \in world.replaces
     /\ \/ p \notin world.essential \/ in_force("remove-essential")
        \/ p \notin world.protected \/ in_force("remove-protected")

\* What check_conflict() goes through to remove p: the dependents by its name and by each
\* name that it provides, if it is configured.
Asking(p) == [of |-> p, names |-> IF status[p] \in Configured THEN <<p>> \o world.provides[p] ELSE <<>>,
              at |-> 1]
removing_fault(p) == istobe
removing(p) == [istobe EXCEPT ![p] = "remove"]

\* check_conflict().  Without a package to remove the conflict stands.
check_conflict ==
  LET dep == Head(checks)
      fix == {IF istobe[p] = "installnew" THEN dep.up ELSE p : p \in canfixbyremove(dep)}
  IN  /\ upc = "depcon" /\ checks # <<>> /\ dep.type = "conflicts" /\ ~depisok(istobe, dep, FALSE)
      /\ \/ \E p \in fix :
              /\ WorthRemoving(p) /\ istobe' = removing(p)
              /\ checks' = <<Asking(p), Tail(checks)>> /\ Goto("asking") /\ UNCHANGED flagset
         \/ /\ ~ \E p \in fix : WorthRemoving(p)
            /\ checks' = Tail(checks) /\ (Forced("conflicts") \/ Refused("conflicts")) /\ UNCHANGED istobe
      /\ UNCHANGED <<Unaffected, conflictors, deconf, was>>

\* "Put it back": the conflict stands, and the plans for the dependents are not taken back.
put_back(p) ==
  /\ istobe' = [istobe EXCEPT ![p] = "normal"] /\ checks' = checks[2]
  /\ (in_force("conflicts") /\ Goto("depcon") /\ UNCHANGED flagset) \/ Refused("conflicts")

\* The loops of check_conflict(), one dependency after the other, each with the plans that
\* the ones before it made.
ask_dependent ==
  LET ask == checks[1] name == Head(ask.names) dep == world.depends[ask.at]
      next(a) == checks' = <<a, checks[2]>> /\ UNCHANGED <<flagset, upc>>
  IN  /\ upc = "asking" /\ ask.names # <<>>
      /\ IF ask.at > Len(world.depends)
         THEN next([of |-> ask.of, names |-> Tail(ask.names), at |-> 1]) /\ UNCHANGED <<istobe, deconf>>
         ELSE IF ~IsOn(dep, name, {"depends", "predepends"}) \/ depisok(istobe, dep, FALSE)
         THEN next([ask EXCEPT !.at = @ + 1]) /\ UNCHANGED <<istobe, deconf>>
         ELSE IF ~try_remove_can(dep) THEN put_back(ask.of) /\ UNCHANGED deconf
         ELSE /\ next([ask EXCEPT !.at = @ + 1])
              /\ IF in_force("depends") THEN UNCHANGED <<istobe, deconf>>
                 ELSE Planned(Deconfiguring(ThePlan, dep.up, ask.of, "deinstall"))
      /\ UNCHANGED <<Unaffected, conflictors, was>>

enqueue_conflictor ==
  LET p == checks[1].of
  IN  /\ upc = "asking" /\ checks[1].names = <<>>
      /\ IF Removable(p)
         THEN /\ conflictors' = Append(conflictors, p) /\ was' = [was EXCEPT !.removed = @ \cup {p}]
              /\ checks' = checks[2] /\ Goto("depcon") /\ UNCHANGED <<istobe, flagset>>
         ELSE put_back(p) /\ UNCHANGED <<conflictors, was>>
      /\ UNCHANGED <<Unaffected, deconf>>

-----------------------------------------------------------------------------
(* "OK, we're going ahead."  Every script may fail.                        *)

Scripts == <<Fixed, istobe, conflictors, queued>>

prerm_upgrade ==
  /\ upc = "depcon" /\ checks = <<>>
  /\ was' = [was EXCEPT !.changed = TRUE]
  /\ oldversionstatus' = status[newpkg]
  /\ IF status[newpkg] < HALFCONFIGURED THEN Goto("deconfigure") /\ UNCHANGED <<status, flagset, cleanups>>
     ELSE /\ IF status[newpkg] > HALFCONFIGURED THEN push_cleanup(Entry("cu_prermupgrade", newpkg))
             ELSE UNCHANGED cleanups
          /\ SetStatus(newpkg, HALFCONFIGURED) /\ Goto("prerm") /\ UNCHANGED flagset
  /\ UNCHANGED <<Scripts, seen, reinst, files, deconf, checks, cleanup_pkg_failed, cleanup_conflictor_failed>>

prerm_ran ==
  /\ upc = "prerm"
  /\ \/ SetStatus(newpkg, UNPACKED) /\ oldversionstatus' = UNPACKED /\ Goto("deconfigure") /\ UNCHANGED flagset
     \/ ohshit /\ UNCHANGED <<status, oldversionstatus>>
  /\ UNCHANGED <<Scripts, seen, reinst, files, deconf, checks, cleanups, cleanup_pkg_failed,
                 cleanup_conflictor_failed, was>>

\* pkg_deconfigure_others(); a package that is not configured is an internal error.
pkg_deconfigure_others ==
  LET p == Head(deconf).pkg
  IN  /\ upc = "deconfigure" /\ deconf # <<>>
      /\ IF status[p] <= HALFCONFIGURED
         THEN Goto("internerr") /\ UNCHANGED <<status, deconf, cleanups, flagset>>
         ELSE /\ SetStatus(p, HALFCONFIGURED) /\ deconf' = Tail(deconf)
              /\ push_cleanup(Entry("cu_prermdeconfigure", p))
              /\ UNCHANGED <<upc, flagset>> \/ ohshit
      /\ UNCHANGED <<Scripts, seen, reinst, files, checks, oldversionstatus, cleanup_pkg_failed,
                     cleanup_conflictor_failed, was>>

\* The conflictors' prerm, one conflictor after the other.
ToStop == {i \in DOMAIN conflictors : status[conflictors[i]] >= HALFCONFIGURED}
First(i) == i \in ToStop /\ \A j \in ToStop : i <= j
conflictor_prerm_fault ==
  /\ upc = "deconfigure" /\ deconf = <<>>
  /\ \E i \in DOMAIN conflictors :
       LET p == conflictors[i]
       IN  /\ First(i)
           /\ \/ /\ SetStatus(p, HALFINSTALLED) /\ UNCHANGED <<upc, flagset>>
                 /\ push_cleanup(Entry("cu_prerminfavour", p))
              \/ SetStatus(p, HALFCONFIGURED) /\ ohshit /\ UNCHANGED cleanups
  /\ UNCHANGED <<Scripts, seen, reinst, files, deconf, checks, oldversionstatus, cleanup_pkg_failed,
                 cleanup_conflictor_failed, was>>
conflictor_prerm ==
  /\ upc = "deconfigure" /\ deconf = <<>>
  /\ \E i \in DOMAIN conflictors :
       LET p == conflictors[i]
       IN  /\ First(i)
           /\ IF status[p] > HALFCONFIGURED THEN push_cleanup(Entry("cu_prerminfavour", p)) ELSE UNCHANGED cleanups
           /\ \/ SetStatus(p, HALFINSTALLED) /\ UNCHANGED <<upc, flagset>>
              \/ SetStatus(p, HALFCONFIGURED) /\ ohshit
  /\ UNCHANGED <<Scripts, seen, reinst, files, deconf, checks, oldversionstatus, cleanup_pkg_failed,
                 cleanup_conflictor_failed, was>>

preinst ==
  /\ upc = "deconfigure" /\ deconf = <<>> /\ ToStop = {}
  /\ reinst' = reinst \cup {newpkg} /\ SetStatus(newpkg, HALFINSTALLED)
  /\ push_cleanup(Entry(CASE oldversionstatus = NOTINSTALLED -> "cu_preinstverynew"
                          [] oldversionstatus = CONFIGFILES -> "cu_preinstnew"
                          [] OTHER -> "cu_preinstupgrade", newpkg))
  /\ (Goto("extract") /\ UNCHANGED flagset) \/ ohshit
  /\ UNCHANGED <<Scripts, seen, files, deconf, checks, oldversionstatus, cleanup_pkg_failed,
                 cleanup_conflictor_failed, was>>

\* tar_extractor() and tar_deferred_extract() replace files one by one (FileInstall).
extract ==
  /\ upc = "extract"
  /\ files' = [files EXCEPT ![newpkg] = "mixed"]
  /\ push_cleanup(Entry("cu_installnew", newpkg))
  /\ (Goto("postrm") /\ UNCHANGED flagset) \/ ohshit
  /\ UNCHANGED <<Scripts, seen, status, reinst, deconf, checks, oldversionstatus, cleanup_pkg_failed,
                 cleanup_conflictor_failed, was>>

postrm_upgrade ==
  /\ upc = "postrm"
  /\ IF oldversionstatus \in {HALFINSTALLED, UNPACKED}
     THEN /\ \/ Goto("tidy") /\ UNCHANGED flagset
                /\ cleanups' = <<checkpoint, Entry("cu_postrmupgrade", newpkg)>> \o cleanups
             \/ ohshit /\ push_cleanup(Entry("cu_postrmupgrade", newpkg))
     ELSE Goto("tidy") /\ push_cleanup(checkpoint) /\ UNCHANGED flagset
  /\ UNCHANGED <<Scripts, seen, Fate, deconf, checks, oldversionstatus, cleanup_pkg_failed,
                 cleanup_conflictor_failed, was>>

\* The old files, the lists, the control files and the fields.
tidy ==
  /\ upc = "tidy"
  /\ \/ files' = [files EXCEPT ![newpkg] = "new"] /\ Goto("disappear") /\ seen' = {newpkg} /\ UNCHANGED flagset
     \/ ohshit /\ UNCHANGED <<files, seen>>
  /\ UNCHANGED <<Scripts, status, reinst, deconf, checks, cleanups, oldversionstatus, cleanup_pkg_failed,
                 cleanup_conflictor_failed, was>>

\* Has the other package a file that nobody else has?  What a third package shares
\* with it counts for the new one in world.swallows.
filesavespackage(p) == <<newpkg, p>> \notin world.swallows

\* A package that no file saves disappears, unless something needs it; each is looked
\* at once, in the order in which the hash has them.
Emptied(p) ==
  p # newpkg /\ ~filesavespackage(p) /\ status[p] >= HALFINSTALLED /\ istobe[p] # "remove"

Disappears(p) ==
  LET to == [istobe EXCEPT ![p] = "remove"]
  IN  /\ Emptied(p)
      /\ \A i \in DOMAIN world.depends, name \in {p} \cup ToSet(world.provides[p]) :
           IsOn(world.depends[i], name, {"depends", "predepends", "recommends"})
             => depisok(to, world.depends[i], FALSE)

pkg_disappear_others ==
  /\ upc = "disappear"
  /\ \E p \in Packages \ seen :
       /\ seen' = seen \cup {p}
       /\ istobe' = IF Emptied(p) THEN [istobe EXCEPT ![p] = "normal"] ELSE istobe
       /\ \/ /\ Disappears(p) /\ SetStatus(p, NOTINSTALLED) /\ files' = [files EXCEPT ![p] = "none"]
             /\ reinst' = reinst \ {p} /\ UNCHANGED <<upc, flagset>>
          \/ Disappears(p) /\ ohshit /\ UNCHANGED Fate
          \/ ~Disappears(p) /\ UNCHANGED <<Fate, upc, flagset>>
  /\ UNCHANGED <<Fixed, conflictors, queued, deconf, checks, cleanups, oldversionstatus, cleanup_pkg_failed,
                 cleanup_conflictor_failed, was>>

\* The new files leave the lists of other packages before this one is unpacked.
become_unpacked ==
  /\ upc = "disappear" /\ seen = Packages
  /\ \/ SetStatus(newpkg, UNPACKED) /\ Goto("backups") /\ UNCHANGED flagset
     \/ ohshit /\ UNCHANGED status
  /\ UNCHANGED <<Scripts, seen, reinst, files, deconf, checks, cleanups, oldversionstatus, cleanup_pkg_failed,
                 cleanup_conflictor_failed, was>>

backups ==
  /\ upc = "backups"
  /\ \/ reinst' = reinst \ {newpkg} /\ Goto("conflictors") /\ push_cleanup(checkpoint) /\ UNCHANGED flagset
     \/ ohshit /\ UNCHANGED <<reinst, cleanups>>
  /\ UNCHANGED <<Scripts, seen, status, files, deconf, checks, oldversionstatus, cleanup_pkg_failed,
                 cleanup_conflictor_failed, was>>

\* removal_bulk() of a conflictor: it loses its files and keeps its configuration
\* files, or nothing; an error in between leaves it half-installed or config-files.
remove_conflictor ==
  /\ upc = "conflictors" /\ conflictors # <<>>
  /\ LET p == Head(conflictors)
         end == IF p \in world.conffiles /\ status[p] # NOTINSTALLED THEN CONFIGFILES ELSE NOTINSTALLED
         left(what) == files' = [files EXCEPT ![p] = what]
     IN  /\ conflictors' = Tail(conflictors)
         /\ \/ left("none") /\ SetStatus(p, end) /\ reinst' = reinst \ {p} /\ UNCHANGED <<upc, flagset>>
            \/ /\ status[p] \in {HALFINSTALLED, UNPACKED} /\ left("mixed")
               /\ SetStatus(p, HALFINSTALLED) /\ ohshit /\ UNCHANGED reinst
            \/ /\ status[p] # NOTINSTALLED /\ left("none")
               /\ SetStatus(p, CONFIGFILES) /\ ohshit /\ UNCHANGED reinst
  /\ UNCHANGED <<Same, istobe, deconf, checks, cleanups, oldversionstatus, cleanup_pkg_failed,
                 cleanup_conflictor_failed, queued, was>>

finish ==
  /\ upc = "conflictors" /\ conflictors = <<>>
  /\ queued' = queued \cup {newpkg} /\ Goto("unwind") /\ flagset' = "normaltidy"
  /\ UNCHANGED <<Same, Fate, Plans, cleanups, cleanup_pkg_failed, cleanup_conflictor_failed,
                 oldversionstatus, was>>

-----------------------------------------------------------------------------
(* run_cleanups(), one entry after the other.  A clean-up that fails has   *)
(* raised a counter and not lowered it.                                    *)

TopEntry == Head(cleanups)
Pop == upc = "unwind" /\ cleanups # <<>> /\ cleanups' = Tail(cleanups)
Undo(whats) == Pop /\ flagset = "bombout" /\ TopEntry.what \in whats
UndoRest == <<Same, Plans, oldversionstatus, upc>>

\* A checkpoint turns an error into a normal end for what was pushed before it.
cross_checkpoint ==
  /\ Pop /\ TopEntry.what = "checkpoint"
  /\ flagset' = IF flagset = "bombout" THEN "normaltidy" ELSE flagset
  /\ was' = [was EXCEPT !.end = "late"]
  /\ UNCHANGED <<UndoRest, Fate, cleanup_pkg_failed, cleanup_conflictor_failed, queued>>

\* On a normal end nothing is undone, but the deconfigured packages are queued.
normal_tidy ==
  /\ Pop /\ flagset = "normaltidy" /\ TopEntry.what # "checkpoint"
  /\ queued' = IF TopEntry.what = "cu_prermdeconfigure" THEN queued \cup {TopEntry.pkg} ELSE queued
  /\ UNCHANGED <<UndoRest, Fate, cleanup_pkg_failed, cleanup_conflictor_failed, flagset, was>>

PkgFailed == cleanup_pkg_failed' = cleanup_pkg_failed + 1 /\ was' = [was EXCEPT !.undone = FALSE]
             /\ UNCHANGED <<Fate, cleanup_conflictor_failed>>
NotAgain == cleanup_pkg_failed' = cleanup_pkg_failed + 1 /\ UNCHANGED <<Fate, cleanup_conflictor_failed, was>>
PkgDone == UNCHANGED <<cleanup_pkg_failed, cleanup_conflictor_failed, was>>

\* post_postinst_tasks() after the postinst was told that it stays.
cu_prermupgrade ==
  /\ Undo({"cu_prermupgrade"})
  /\ IF cleanup_pkg_failed # 0 THEN NotAgain
     ELSE \/ SetStatus(TopEntry.pkg, INSTALLED) /\ UNCHANGED <<reinst, files>> /\ PkgDone
          \/ PkgFailed
  /\ UNCHANGED <<UndoRest, flagset, queued>>

cu_prermdeconfigure ==
  /\ Undo({"cu_prermdeconfigure"})
  /\ \/ SetStatus(TopEntry.pkg, INSTALLED) /\ UNCHANGED was
     \/ was' = [was EXCEPT !.undone = FALSE] /\ UNCHANGED status
  /\ UNCHANGED <<UndoRest, reinst, files, cleanup_pkg_failed, cleanup_conflictor_failed, flagset, queued>>

cu_prerminfavour ==
  /\ Undo({"cu_prerminfavour"})
  /\ IF cleanup_conflictor_failed # 0
     THEN cleanup_conflictor_failed' = cleanup_conflictor_failed + 1 /\ UNCHANGED <<status, was>>
     ELSE \/ SetStatus(TopEntry.pkg, INSTALLED) /\ UNCHANGED <<cleanup_conflictor_failed, was>>
          \/ /\ cleanup_conflictor_failed' = 1 /\ UNCHANGED status
             /\ was' = [was EXCEPT !.undone = FALSE]
  /\ UNCHANGED <<UndoRest, reinst, files, cleanup_pkg_failed, flagset, queued>>

\* cu_preinstverynew(), cu_preinstnew() and cu_preinstupgrade().
cu_preinst_fault ==
  /\ Undo({"cu_preinstverynew", "cu_preinstnew", "cu_preinstupgrade"})
  /\ \/ SetStatus(TopEntry.pkg, oldversionstatus) /\ reinst' = reinst \ {TopEntry.pkg} /\ UNCHANGED files /\ PkgDone
     \/ PkgFailed
  /\ UNCHANGED <<UndoRest, flagset, queued>>
cu_preinst ==
  /\ Undo({"cu_preinstverynew", "cu_preinstnew", "cu_preinstupgrade"})
  /\ IF cleanup_pkg_failed # 0 THEN NotAgain
     ELSE \/ SetStatus(TopEntry.pkg, oldversionstatus) /\ reinst' = reinst \ {TopEntry.pkg} /\ UNCHANGED files /\ PkgDone
          \/ PkgFailed
  /\ UNCHANGED <<UndoRest, flagset, queued>>

\* All the cu_installnew() of the archive; the first that fails stops the later ones
\* of the package and of the conflictors.
cu_installnew_all ==
  /\ Undo({"cu_installnew"})
  /\ \/ files' = [files EXCEPT ![newpkg] = was.files[newpkg]] /\ PkgDone /\ UNCHANGED <<status, reinst>>
     \/ /\ cleanup_pkg_failed' = cleanup_pkg_failed + 1
        /\ cleanup_conflictor_failed' = cleanup_conflictor_failed + 1
        /\ was' = [was EXCEPT !.undone = FALSE] /\ UNCHANGED Fate
  /\ UNCHANGED <<UndoRest, flagset, queued>>

cu_postrmupgrade ==
  /\ Undo({"cu_postrmupgrade"})
  /\ IF cleanup_pkg_failed # 0 THEN NotAgain ELSE (UNCHANGED Fate /\ PkgDone) \/ PkgFailed
  /\ UNCHANGED <<UndoRest, flagset, queued>>

pop_error_context ==
  /\ upc = "unwind" /\ cleanups = <<>> /\ Goto("idle")
  /\ was' = IF was.end = "late" THEN was
            ELSE [was EXCEPT !.end = IF was.changed THEN "undone" ELSE "refused"]
  /\ UNCHANGED <<Same, Fate, Plans, Undoing, oldversionstatus, queued>>

-----------------------------------------------------------------------------
UnpackInit ==
  /\ world \in Worlds
  /\ status = world.status /\ reinst = {p \in Packages : world.status[p] = HALFINSTALLED}
  /\ files = [p \in Packages |-> CASE status[p] \in {NOTINSTALLED, CONFIGFILES} -> "none"
                                   [] status[p] = HALFINSTALLED -> "mixed" [] OTHER -> "old"]
  /\ istobe = [p \in Packages |-> "normal"]
  /\ conflictors = <<>> /\ deconf = <<>> /\ checks = <<>> /\ cleanups = <<>>
  /\ oldversionstatus = NOTINSTALLED
  /\ cleanup_pkg_failed = 0 /\ cleanup_conflictor_failed = 0 /\ flagset = "none"
  /\ seen = {} /\ queued = {} /\ upc = "idle" /\ cur = 0
  /\ was = [status |-> status, files |-> files, changed |-> FALSE, undone |-> TRUE,
            end |-> "none", removed |-> {}, fresh |-> TRUE]

process_archive ==
  \/ NextArchive \/ OpenFails \/ Skipped \/ Opened
  \/ DepIsFine \/ check_predepends \/ check_breaks \/ check_conflict \/ ask_dependent \/ enqueue_conflictor
  \/ prerm_upgrade \/ prerm_ran \/ pkg_deconfigure_others \/ conflictor_prerm
  \/ preinst \/ extract \/ postrm_upgrade \/ tidy \/ pkg_disappear_others \/ become_unpacked \/ backups \/ remove_conflictor \/ finish

run_cleanups ==
  \/ cross_checkpoint \/ normal_tidy \/ cu_prermupgrade \/ cu_prermdeconfigure \/ cu_prerminfavour
  \/ cu_preinst \/ cu_installnew_all \/ cu_postrmupgrade \/ pop_error_context

UnpackNext == process_archive \/ run_cleanups
UnpackSpec == UnpackInit /\ [][UnpackNext]_unpackvars

-----------------------------------------------------------------------------
(* Properties.                                                             *)

\* An archive that fails before its checkpoint leaves no trace when every clean-up
\* works: the files are the old ones, what was configured is so again, and what was
\* not configured has its status back (a half-configured package has lost its prerm).
AbortRestores ==
  upc = "idle" /\ was.end = "undone" /\ was.undone =>
    \A p \in Packages :
      /\ files[p] = was.files[p]
      /\ was.status[p] \in Configured => status[p] \in Configured
      /\ was.status[p] < HALFCONFIGURED => status[p] = was.status[p]

\* However many clean-ups fail, a package whose status is above half-installed has all
\* the files of one version, marked for reinstallation or not, and one that is not
\* installed has none.
SaneIsWhole ==
  \A p \in Packages :
    /\ status[p] > HALFINSTALLED => files[p] \in {"old", "new"}
    /\ status[p] < HALFINSTALLED => files[p] = "none"

\* Removing the conflictors of an archive, or letting packages disappear, does not leave
\* a configured package without anything it depends on, unless dependencies are forced.
NeedsRemoved(p) ==
  \E i \in DOMAIN world.depends :
    LET dep == world.depends[i]
        here(q) == was.status[q] \in Configured /\ status[q] < HALFINSTALLED
    IN  /\ dep.up = p /\ dep.type \in {"depends", "predepends"}
        /\ \E j \in DOMAIN dep.list : dep.list[j].on \in Packages /\ here(dep.list[j].on)
        /\ ~ \E j \in DOMAIN dep.list, q \in Packages :
               /\ \/ q = dep.list[j].on \/ dep.list[j].on \in ToSet(world.provides[q])
                  \/ q = newpkg /\ dep.list[j].on \in archive.provides
               /\ status[q] > HALFINSTALLED
RemovalKeepsDepends ==
  upc = "conflictors" /\ conflictors = <<>> /\ was.fresh /\ ~in_force("depends") =>
    \A p \in Packages \ {newpkg} : status[p] \in Configured => ~NeedsRemoved(p)

\* "yes, will remove %s in favour of %s": what an archive removes was agreed on for it.
RemovedInFavour == upc = "conflictors" => ToSet(conflictors) \subseteq was.removed

\* man/deb-control.pod:143: an essential package is not removed without a force option,
\* or unless the package that takes its place is essential or protected too
\* (check_conflict() of archives.c).
EssentialStays ==
  upc = "conflictors" /\ ~in_force("remove-essential") =>
    \A p \in ToSet(conflictors) \cap world.essential : newpkg \in world.newimportant
=============================================================================
