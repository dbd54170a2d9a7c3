---------------------------- MODULE Alternatives ----------------------------
(***************************************************************************)
(* update-alternatives: link groups whose links  link -> altdir/name ->    *)
(* file  follow the best of the registered choices (auto) or the one the   *)
(* administrator chose (manual).                                           *)
(*                                                                         *)
(* A command loads the administrative file of its group, decides, renames  *)
(* links that got another name, prepares *.dpkg-tmp links, saves the file  *)
(* and then moves all links in place.  Every change of the file system is  *)
(* a step of its own, and the command may die between any two of them.     *)
(* Time stamps, the log and the display commands are left out.             *)
(***************************************************************************)
EXTENDS Naturals, Sequences, FiniteSets, SequencesExt

CONSTANTS Groups,       \* master names
          SlaveNames,
          Links,        \* where the links of groups and slaves may be
          Files,        \* files of packages, numbered in the order of their names
          Installs,     \* the argument lists of --install
          MaxRuns,      \* bound: commands
          MaxAccidents  \* bound: deaths, changes by the user or by packages

VARIABLES admin,     \* the administrative file of each group
          fsys,      \* what is at each path
          files,     \* the files that exist
          alt,       \* the struct alternative of the running command
          new,       \* the choice it wants, or None
          inst,      \* the arguments of a running --install
          altpc,     \* where the command is
          ops,       \* the changes it will still make
          done,      \* the group whose command was the last thing that happened
          runs, accidents

altvars == <<admin, fsys, files, alt, new, inst, altpc, ops, done, runs, accidents>>

NoChoice == 0       \* no file
NoFile == <<>>      \* no administrative file, no alternative in memory
Names == Groups \cup SlaveNames
Link(l) == <<"link", l, "">>
Alt(n) == <<"alt", n, "">>
Tmp(p) == <<p[1], p[2], ".dpkg-tmp">>
File(f) == <<"file", f>>
Absent == <<"absent">>
Real == <<"real">>

AltPaths == LET p == {Link(l) : l \in Links} \cup {Alt(n) : n \in Names}
            IN p \cup {Tmp(q) : q \in p}

\* Reading and changing links.  fsys_symlink() and fsys_mv() replace what is there.
IsLink(p) == fsys[p] \notin {Absent, Real}
fsys_xreadlink(p) == fsys[p][2]
fsys_symlink(target, p) == [fsys EXCEPT ![p] = target]
fsys_mv(p, q) == [fsys EXCEPT ![q] = fsys[p], ![p] = Absent]
fsys_rm(p) == [fsys EXCEPT ![p] = Absent]

\* What altdir/name points to.
alternative_get_current(g) == IF fsys[Alt(g)] = Absent THEN NoChoice ELSE fsys_xreadlink(Alt(g))

\* opt_force is kept with the alternative; lines: --set-selections may have more.
alternative_new(g) == [name |-> g, link |-> "", status |-> "unknown", slaves |-> <<>>,
                       choices |-> <<>>, current |-> alternative_get_current(g),
                       modified |-> FALSE, force |-> FALSE, lines |-> FALSE]

(***************************************************************************)
(* The struct alternative and its lists.  Slaves are a function from names *)
(* to links; the order of the choices decides between equal priorities.    *)
(***************************************************************************)
alternative_set_status(a, s) == [a EXCEPT !.status = s, !.modified = @ \/ a.status # s]
alternative_set_link(a, l) == [a EXCEPT !.link = l, !.modified = @ \/ a.link # l]
alternative_has_choice(a, f) == \E i \in DOMAIN a.choices : a.choices[i].file = f
alternative_get_fileset(a, f) == SelectSeq(a.choices, LAMBDA c : c.file = f)[1]
fileset_has_slave(c, s) == s \in DOMAIN c.slaves
fileset_can_install_slave(c, s) == fileset_has_slave(c, s) /\ c.slaves[s] \in files
alternative_remove_choice(a, f) ==
  [a EXCEPT !.choices = SelectSeq(@, LAMBDA c : c.file # f), !.modified = TRUE]
alternative_add_choice(a, c) ==
  [a EXCEPT !.choices = IF alternative_has_choice(a, c.file)
                        THEN [i \in DOMAIN @ |-> IF @[i].file = c.file THEN c ELSE @[i]]
                        ELSE Append(@, c),
            !.modified = TRUE]
alternative_copy_slave(a, s, l) ==
  [a EXCEPT !.slaves = [n \in DOMAIN @ \cup {s} |-> IF n = s THEN l ELSE @[n]]]

alternative_path_can_remove(a, p) == a.force \/ fsys[p] # Real
alternative_path_needs_update(a, p, target) == a.force \/ fsys[p] \notin {target, Real}
alternative_has_broken_symlink(p, target) == fsys[p] # target

(***************************************************************************)
(* The greatest priority, the current choice or else the first one of the  *)
(* list among equals.                                                      *)
(***************************************************************************)
alternative_get_best(a) ==
  LET top == {i \in DOMAIN a.choices :
                \A j \in DOMAIN a.choices : a.choices[j].prio <= a.choices[i].prio}
      first == CHOOSE i \in top : \A j \in top : i <= j
  IN IF a.choices = <<>> THEN NoChoice
     ELSE IF \E i \in top : a.choices[i].file = a.current THEN a.current
     ELSE a.choices[first].file

(***************************************************************************)
(* The administrative file.  The parser refuses a link that occurs twice,  *)
(* and drops the choices whose file is missing.                            *)
(***************************************************************************)
alternative_parse_slave(f) ==
  /\ \A s \in DOMAIN f.slaves : f.slaves[s] # f.link
  /\ \A s, t \in DOMAIN f.slaves : s # t => f.slaves[s] # f.slaves[t]

alternative_parse_fileset(f) == SelectSeq(f.choices, LAMBDA c : c.file \in files)

alternative_load(g) ==
  IF admin[g] = NoFile THEN alternative_new(g)
  ELSE LET kept == alternative_parse_fileset(admin[g])
       IN [alternative_new(g) EXCEPT !.link = admin[g].link, !.status = admin[g].status,
             !.slaves = admin[g].slaves, !.choices = kept,
             !.modified = kept # admin[g].choices]

Loads(g) == admin[g] # NoFile /\ alternative_parse_slave(admin[g])

alternative_sort_choices(cs) == SetToSortSeq(ToSet(cs), LAMBDA c, d : c.file < d.file)

\* The slaves that no choice has are dropped, and the lists sorted.
alternative_save(a) ==
  LET used == {s \in DOMAIN a.slaves : \E i \in DOMAIN a.choices : fileset_has_slave(a.choices[i], s)}
  IN [link |-> a.link, status |-> a.status, slaves |-> [s \in used |-> a.slaves[s]],
      choices |-> alternative_sort_choices(a.choices)]

(***************************************************************************)
(* The changes that a command prepares.                                    *)
(***************************************************************************)
Symlink(target, p) == [op |-> "symlink", from |-> target, to |-> p]
Mv(p, q) == [op |-> "mv", from |-> p, to |-> q]
Rm(p) == [op |-> "rm", from |-> p, to |-> p]
Save == [op |-> "save", from |-> Absent, to |-> Absent]
Drop == [op |-> "drop", from |-> Absent, to |-> Absent]

alternative_prepare_install_single_fault(a, name, link, f) ==
  LET fn == Alt(name)
  IN [pre |-> <<Symlink(File(f), Tmp(fn)), Rm(Link(link)), Symlink(fn, Tmp(Link(link)))>>,
      commit |-> <<Mv(Tmp(fn), fn), Mv(Tmp(Link(link)), Link(link))>>]
alternative_prepare_install_single(a, name, link, f) ==
  LET fn == Alt(name)
      relink == alternative_path_needs_update(a, Link(link), fn)
  IN [pre |-> <<Symlink(File(f), Tmp(fn))>> \o
              (IF relink THEN <<Symlink(fn, Tmp(Link(link)))>> ELSE <<>>),
      commit |-> <<Mv(Tmp(fn), fn)>> \o
                 (IF relink THEN <<Mv(Tmp(Link(link)), Link(link))>> ELSE <<>>)]

alternative_drop_slave(a, s) ==
  [pre |-> <<>>,
   commit |-> (IF alternative_path_can_remove(a, Link(a.slaves[s]))
               THEN <<Rm(Link(a.slaves[s]))>> ELSE <<>>) \o <<Rm(Alt(s))>>]

alternative_prepare_install(a, choice) ==
  LET c == alternative_get_fileset(a, choice)
      single(s) == IF fileset_can_install_slave(c, s)
                   THEN alternative_prepare_install_single(a, s, a.slaves[s], c.slaves[s])
                   ELSE alternative_drop_slave(a, s)
      all == <<alternative_prepare_install_single(a, a.name, a.link, choice)>> \o
             [i \in 1..Cardinality(DOMAIN a.slaves) |-> single(SetToSeq(DOMAIN a.slaves)[i])]
  IN [pre |-> FlattenSeq([i \in DOMAIN all |-> all[i].pre]),
      commit |-> FlattenSeq([i \in DOMAIN all |-> all[i].commit])]

alternative_remove_files(a) ==
  LET gone(l, n) == <<Rm(Tmp(Link(l)))>> \o
                    (IF alternative_path_can_remove(a, Link(l)) THEN <<Rm(Link(l))>> ELSE <<>>) \o
                    <<Rm(Tmp(Alt(n))), Rm(Alt(n))>>
      names == SetToSeq(DOMAIN a.slaves)
  IN gone(a.link, a.name) \o
     FlattenSeq([i \in DOMAIN names |-> gone(a.slaves[names[i]], names[i])]) \o <<Drop>>

(***************************************************************************)
(* Do the links need repair?  Not for a current choice that is not         *)
(* registered.                                                             *)
(***************************************************************************)
alternative_has_broken_slave(a, s, c) ==
  IF fileset_can_install_slave(c, s)
  THEN \/ alternative_has_broken_symlink(Link(a.slaves[s]), Alt(s))
       \/ alternative_has_broken_symlink(Alt(s), File(c.slaves[s]))
  ELSE fsys[Link(a.slaves[s])] # Absent \/ fsys[Alt(s)] # Absent

alternative_needs_update_fault(a) ==
  alternative_has_broken_symlink(Link(a.link), Alt(a.name)) \/ a.current = NoChoice
alternative_needs_update(a) ==
  \/ alternative_has_broken_symlink(Link(a.link), Alt(a.name))
  \/ a.current = NoChoice
  \/ /\ alternative_has_choice(a, a.current)
     /\ \E s \in DOMAIN a.slaves :
          alternative_has_broken_slave(a, s, alternative_get_fileset(a, a.current))

(***************************************************************************)
(* alternative_update(): what is to be done for the choice that the        *)
(* command wants, or to repair the links.                                  *)
(***************************************************************************)
Repaired(a) ==
  IF a.current # NoChoice /\ ~alternative_has_choice(a, a.current)
  THEN alternative_set_status(a, "auto") ELSE a

alternative_update(a) ==
  LET repair == ~(new # NoChoice /\ new # a.current) /\ alternative_needs_update(a)
      b == IF repair THEN Repaired(a) ELSE a
      choice == IF ~repair THEN new
                ELSE IF a.current # NoChoice /\ ~alternative_has_choice(a, a.current)
                     THEN alternative_get_best(a) ELSE a.current
      ready == IF (repair /\ a.current # NoChoice) \/ (new # NoChoice /\ new # a.current)
               THEN alternative_prepare_install(b, choice)
               ELSE [pre |-> <<>>, commit |-> <<>>]
  IN IF a.choices = <<>> THEN [alt |-> a, ops |-> alternative_remove_files(a)]
     ELSE [alt |-> b,
           ops |-> ready.pre \o (IF b.modified THEN <<Save>> ELSE <<>>) \o ready.commit]

alternative_select_mode(a) ==
  IF a.current = NoChoice THEN alternative_set_status(a, "auto")
  ELSE IF alternative_has_choice(a, a.current) THEN a
  ELSE IF a.current \notin files THEN alternative_set_status(a, "auto")
  ELSE alternative_set_status(a, "manual")

(***************************************************************************)
(* The commands.  Each loads its group (an unreadable file, or an altdir   *)
(* entry that is no link, ends it), detects changes made by hand, and      *)
(* decides about mode and choice.                                          *)
(***************************************************************************)
Start(g) ==
  /\ altpc = "idle" /\ runs < MaxRuns
  /\ fsys[Alt(g)] # Real
  /\ runs' = runs + 1
  /\ done' = NoFile

LoadedAs(g, force) == [alternative_select_mode(alternative_load(g)) EXCEPT !.force = force]

Decide(a, choice) ==
  /\ alt' = a /\ new' = choice
  /\ altpc' = "update"
  /\ UNCHANGED <<admin, fsys, files, inst, ops, accidents>>

\* --set
alternative_set_manual(g, f, force) ==
  LET a == LoadedAs(g, force)
  IN Start(g) /\ Loads(g) /\ alternative_has_choice(a, f) /\
     Decide(alternative_set_status(a, "manual"), f)

\* --auto
alternative_set_auto(g, force) ==
  LET a == alternative_set_status(LoadedAs(g, force), "auto")
  IN Start(g) /\ Loads(g) /\ Decide(a, alternative_get_best(a))

\* --config and --all: end of input, the current choice, auto, or one of the choices.
alternative_config(g, force) ==
  LET a == LoadedAs(g, force)
  IN /\ Start(g) /\ Loads(g)
     /\ \/ Decide(a, NoChoice)
        \/ a.choices # <<>> /\ Decide(a, a.current)
        \/ a.choices # <<>> /\ Decide(alternative_set_status(a, "auto"), alternative_get_best(a))
        \/ \E i \in DOMAIN a.choices :
             Decide(alternative_set_status(a, "manual"), a.choices[i].file)

\* --remove: a removed current choice is replaced by the best of the others.
alternative_remove(g, f, force) ==
  LET a == LoadedAs(g, force)
      b == IF alternative_has_choice(a, f) THEN alternative_remove_choice(a, f) ELSE a
      c == IF a.current = f /\ b.status = "manual" THEN alternative_set_status(b, "auto") ELSE b
  IN Start(g) /\ Loads(g) /\ Decide(c, IF a.current = f THEN alternative_get_best(c) ELSE NoChoice)

\* --remove-all
alternative_choices_free(g, force) ==
  LET a == LoadedAs(g, force)
  IN Start(g) /\ Loads(g) /\
     Decide([a EXCEPT !.choices = <<>>, !.modified = @ \/ a.choices # <<>>], NoChoice)

(***************************************************************************)
(* --set-selections.  Here the mode is chosen before changes made by hand  *)
(* are looked for, and a later line for the same group works on what is in *)
(* memory, the current choice included.                                    *)
(***************************************************************************)
alternative_set_selection(a, status, f) ==
  LET b == IF status = "auto" THEN alternative_set_status(a, "auto")
           ELSE alternative_set_status(a, "manual")
      choice == IF status = "auto" THEN alternative_get_best(b) ELSE f
  IN /\ status = "auto" \/ alternative_has_choice(a, f)
     /\ choice # NoChoice
     /\ Decide(alternative_select_mode(b), choice)

alternative_set_selections(g, status, f) ==
  /\ Start(g) /\ Loads(g)
  /\ alternative_set_selection([alternative_load(g) EXCEPT !.lines = TRUE], status, f)

(***************************************************************************)
(* --install.  A name or link that another group has is refused, and so is *)
(* a slave link that another slave of the group has.                       *)
(***************************************************************************)
LinksOf(g) == {admin[g].link} \cup {admin[g].slaves[s] : s \in DOMAIN admin[g].slaves}

alternative_check_install_args(i) ==
  /\ i.file \in files
  /\ \A g \in Groups \ {i.name} : Loads(g) =>
       /\ ({i.link} \cup {i.slaves[s].link : s \in DOMAIN i.slaves}) \cap LinksOf(g) = {}
       /\ i.name \notin DOMAIN admin[g].slaves
       /\ DOMAIN i.slaves \cap ({g} \cup DOMAIN admin[g].slaves) = {}
  /\ Loads(i.name) =>
       \A s \in DOMAIN i.slaves, t \in DOMAIN admin[i.name].slaves :
         admin[i.name].slaves[t] = i.slaves[s].link => s = t

\* A group that is new is created from the arguments.
InstallNew(i) ==
  [alternative_new(i.name) EXCEPT !.status = "auto", !.link = i.link, !.modified = TRUE,
      !.slaves = [s \in DOMAIN i.slaves |-> i.slaves[s].link]]

BeginInstall(i, force) ==
  /\ Start(i.name) /\ (admin[i.name] = NoFile \/ Loads(i.name))
  /\ alternative_check_install_args(i)
  /\ inst' = i @@ [todo |-> DOMAIN i.slaves]
  /\ alt' = [(IF Loads(i.name) THEN LoadedAs(i.name, force) ELSE InstallNew(i)) EXCEPT !.force = force]
  /\ altpc' = IF Loads(i.name) THEN "evolve" ELSE "add"
  /\ UNCHANGED <<admin, fsys, files, new, ops, accidents>>

\* A master link of another name is renamed.
alternative_evolve(a, i) ==
  /\ altpc = "evolve"
  /\ fsys' = IF IsLink(Link(a.link)) /\ a.link # i.link
             THEN fsys_mv(Link(a.link), Link(i.link)) ELSE fsys
  /\ alt' = alternative_set_link(a, i.link)
  /\ altpc' = "slaves"
  /\ UNCHANGED <<admin, files, new, inst, ops, done, runs, accidents>>

\* So is a slave link, if the file behind it exists, or else it is removed.
alternative_evolve_slave(a, i, s) ==
  LET old == Link(a.slaves[s])
      link == Link(i.slaves[s].link)
      target == IF a.current = i.file THEN File(i.slaves[s].file) ELSE fsys[Alt(s)]
      rename == target \in {File(f) : f \in files}
  IN /\ altpc = "slaves" /\ s \in i.todo
     /\ fsys' = IF s \in DOMAIN a.slaves /\ old # link /\ IsLink(old)
                THEN (IF rename THEN fsys_mv(old, link) ELSE fsys_rm(old)) ELSE fsys
     /\ alt' = alternative_copy_slave(a, s, i.slaves[s].link)
     /\ inst' = [i EXCEPT !.todo = @ \ {s}]
     /\ UNCHANGED <<admin, files, new, altpc, ops, done, runs, accidents>>

alternative_install(a, i) ==
  LET b == alternative_add_choice(a, 
             [file |-> i.file, prio |-> i.prio,
              slaves |-> [s \in DOMAIN i.slaves |-> i.slaves[s].file]])
  IN /\ altpc = "add" \/ (altpc = "slaves" /\ i.todo = {})
     /\ alt' = b /\ new' = IF b.status = "auto" THEN alternative_get_best(b) ELSE NoChoice
     /\ altpc' = "update"
     /\ UNCHANGED <<admin, fsys, files, inst, ops, done, runs, accidents>>

(***************************************************************************)
(* alternative_update() prepares, and then the changes are made one by     *)
(* one.  A rename without a source is an error.                            *)
(***************************************************************************)
Update ==
  /\ altpc = "update"
  /\ alt' = alternative_update(alt).alt
  /\ ops' = alternative_update(alt).ops
  /\ altpc' = "commit"
  /\ UNCHANGED <<admin, fsys, files, new, inst, done, runs, accidents>>

Applied(o) ==
  CASE o.op = "symlink" -> fsys_symlink(o.from, o.to)
    [] o.op = "mv" -> fsys_mv(o.from, o.to)
    [] o.op = "rm" -> fsys_rm(o.to)
    [] OTHER -> fsys

alternative_commit ==
  /\ altpc = "commit" /\ ops # <<>>
  /\ fsys' = Applied(Head(ops))
  /\ admin' = CASE Head(ops).op = "save" -> [admin EXCEPT ![alt.name] = alternative_save(alt)]
                [] Head(ops).op = "drop" -> [admin EXCEPT ![alt.name] = NoFile]
                [] OTHER -> admin
  /\ ops' = Tail(ops)
  /\ UNCHANGED <<files, alt, new, inst, altpc, done, runs, accidents>>

Forget == alt' = NoFile /\ new' = NoChoice /\ inst' = NoFile /\ altpc' = "idle"

Finish ==
  /\ altpc = "commit" /\ ops = <<>>
  /\ Forget
  /\ done' = [name |-> alt.name, lines |-> alt.lines,
              chosen |-> \E f \in {new, alt.current} : alternative_has_choice(alt, f),
              changed |-> new \notin {NoChoice, alt.current}]
  /\ UNCHANGED <<admin, fsys, files, ops, runs, accidents>>

\* Another line of --set-selections for the same group.
NextLine(status, f) ==
  /\ altpc = "commit" /\ ops = <<>> /\ alt.lines /\ runs < MaxRuns
  /\ runs' = runs + 1 /\ done' = NoFile
  /\ alternative_set_selection(alt, status, f)

(***************************************************************************)
(* Accidents: the command dies, the administrator changes a link, or a     *)
(* package's file comes or goes.                                           *)
(***************************************************************************)
Accident == accidents < MaxAccidents /\ accidents' = accidents + 1 /\ done' = NoFile

Die ==
  /\ altpc # "idle" /\ Accident /\ Forget /\ ops' = <<>>
  /\ UNCHANGED <<admin, fsys, files, runs>>

UserChange ==
  /\ altpc = "idle" /\ Accident
  /\ \/ \E l \in Links : fsys' \in {[fsys EXCEPT ![Link(l)] = c] : c \in {Absent, Real}}
     \/ \E g \in Groups, f \in files : fsys' \in {[fsys EXCEPT ![Alt(g)] = c] : c \in {Absent, File(f)}}
  /\ UNCHANGED <<admin, files, alt, new, inst, altpc, ops, runs>>

PackageChange ==
  /\ altpc = "idle" /\ Accident
  /\ \E f \in Files : files' = IF f \in files THEN files \ {f} ELSE files \cup {f}
  /\ UNCHANGED <<admin, fsys, alt, new, inst, altpc, ops, runs>>

-----------------------------------------------------------------------------
AltInit ==
  /\ admin = [g \in Groups |-> NoFile]
  /\ fsys = [p \in AltPaths |-> Absent]
  /\ files = Files
  /\ alt = NoFile /\ new = NoChoice /\ inst = NoFile
  /\ altpc = "idle" /\ ops = <<>>
  /\ done = NoFile /\ runs = 0 /\ accidents = 0

AltNext ==
  \/ \E g \in Groups, force \in BOOLEAN :
       \/ alternative_set_auto(g, force)
       \/ alternative_config(g, force)
       \/ alternative_choices_free(g, force)
       \/ \E f \in Files : alternative_set_manual(g, f, force) \/ alternative_remove(g, f, force)
  \/ \E g \in Groups, status \in {"auto", "manual"}, f \in Files :
       alternative_set_selections(g, status, f)
  \/ \E status \in {"auto", "manual"}, f \in Files : NextLine(status, f)
  \/ \E i \in Installs, force \in BOOLEAN : BeginInstall(i, force)
  \/ alternative_evolve(alt, inst)
  \/ \E s \in SlaveNames : alternative_evolve_slave(alt, inst, s)
  \/ alternative_install(alt, inst)
  \/ Update
  \/ alternative_commit
  \/ Finish
  \/ Die
  \/ UserChange
  \/ PackageChange

AltSpec == AltInit /\ [][AltNext]_altvars

-----------------------------------------------------------------------------
(***************************************************************************)
(* A command that runs to its end leaves the group whole, whatever died or *)
(* was changed by hand before: the master link leads to the altdir entry,  *)
(* in auto mode that is the choice with the greatest priority, and each    *)
(* slave has links exactly if the current choice has an existing file for  *)
(* it.  Real files in place of links stay (alternative_update()).          *)
(***************************************************************************)
Placed(l, n, f) == fsys[Alt(n)] = File(f) /\ fsys[Link(l)] \in {Alt(n), Real}
Whole(g) ==
  LET a == admin[g]
      cur == fsys[Alt(g)][2]
      c == SelectSeq(a.choices, LAMBDA x : x.file = cur)
      best == \A i \in DOMAIN a.choices : a.choices[i].prio <= c[1].prio
  IN /\ fsys[Alt(g)] # Absent
     /\ Placed(a.link, g, cur)
     /\ a.status = "auto" /\ (done.changed \/ accidents = 0) => c # <<>> /\ best
     /\ c # <<>> => \A s \in DOMAIN a.slaves :
          IF s \in DOMAIN c[1].slaves /\ c[1].slaves[s] \in files
          THEN Placed(a.slaves[s], s, c[1].slaves[s])
          ELSE fsys[Link(a.slaves[s])] \in {Absent, Real} /\ fsys[Alt(s)] = Absent
WholeAfterRun ==
  (done # NoFile /\ done.chosen /\ ~done.lines /\ admin[done.name] # NoFile) => Whole(done.name)

(***************************************************************************)
(* A command that works keeps working: no step of update-alternatives      *)
(* leaves a master link without a file behind it, except the removal of    *)
(* the last choice; a link that is renamed works under its new name.  And  *)
(* what is put in place without --force replaces no real file              *)
(* (alternative_commit(), alternative_evolve(),                            *)
(* alternative_path_needs_update(), alternative_path_can_remove()).        *)
(***************************************************************************)
LinkWorks(g) ==
  \E l \in {admin[g].link} \cup (IF altpc # "idle" /\ alt.name = g THEN {alt.link} ELSE {}) :
    fsys[Link(l)] = Alt(g) /\ fsys[Alt(g)] \in {File(f) : f \in files}
LastGoes(g) == altpc # "idle" /\ alt.name = g /\ alt.choices = <<>>
LinksAndFilesStep ==
  /\ \A g \in Groups : (admin[g] # NoFile /\ LinkWorks(g) /\ accidents' = accidents)
       => LastGoes(g) \/ LinkWorks(g)'
  /\ \A l \in Links : (fsys[Link(l)] = Real /\ altpc = "commit" /\ ~alt.force)
       => fsys'[Link(l)] = Real
LinksAndFilesStay == [][LinksAndFilesStep]_altvars

=============================================================================
