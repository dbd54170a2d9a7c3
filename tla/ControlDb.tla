----------------------------- MODULE ControlDb -----------------------------
(***************************************************************************)
(* The instances of one package in dpkg's database: the in-core package set *)
(* (lib/dpkg/pkg.c, pkg-hash.c), the stanzas it is written as (dump.c) and  *)
(* read from (parse.c, fields.c), the names that select an instance         *)
(* (pkg-spec.c), and the commands that change it: unpacking, configuring,   *)
(* removing, --set-selections, --clear-selections, --update-avail,          *)
(* --merge-avail, --clear-avail, --record-avail, --add-architecture and     *)
(* --remove-architecture.                                                   *)
(*                                                                          *)
(* A stanza is a function from the fields it has to their values.  Fields   *)
(* that are only copied (Description, Maintainer, Origin, ...) are left     *)
(* out; Version and Maintainer-like fields are present together.            *)
(***************************************************************************)
EXTENDS Naturals, Sequences, SequencesExt, FiniteSets, FiniteSetsExt

CONSTANTS
  Native,       \* the native architecture
  Foreigns,     \* the architectures --add-architecture may name
  Archives,     \* the control stanzas of the archives there are
  ArchRank,     \* the order of the architecture names
  MaxCommands,  \* the number of dpkg processes started
  MaxNotes      \* no operation starts with that many notes in the journal

VARIABLES
  core,         \* the instances of the in-core package set, in chain order
  statusfile,   \* the stanzas of the status file
  updates,      \* the stanzas of the journal
  availfile,    \* the stanzas of the available file
  foreign,      \* the architectures registered as foreign
  cpc,          \* what the running dpkg does, "down" when none runs
  cur,          \* the instance it works on
  written,      \* history: the package set last written as the status file
  crashed,      \* history: some process was killed
  commands      \* the number of processes started

controlvars == <<core, statusfile, updates, availfile, foreign, cpc, cur,
                 written, crashed, commands>>

-----------------------------------------------------------------------------
(* Package sets.                                                           *)

UnusedBin == [arch |-> "none", multiarch |-> "no", version |-> 0,
              conffiles |-> <<>>, depends |-> {}]

pkgbin_blank(bin) ==
  [bin EXCEPT !.version = 0, !.conffiles = <<>>, !.depends = {}]

pkg_blank ==
  [want |-> "unknown", eflag |-> "ok", status |-> "not-installed",
   configversion |-> 0, section |-> "", trigpend |-> FALSE, trigaw |-> FALSE,
   installed |-> UnusedBin, available |-> UnusedBin]

Instances(set) == {i \in DOMAIN set : set[i].status # "not-installed"}

\* pkgset_installed_instances(): the counter pkg_set_status() keeps.
pkgset_installed_instances(set) == Cardinality(Instances(set))

\* The first instance for which Wanted holds, or else.
First(set, Wanted(_), else) ==
  LET found == {i \in DOMAIN set : Wanted(set[i])}
  IN  IF found = {} THEN else ELSE Min(found)

\* The singleton, 0 when several instances are installed.
pkg_hash_get_singleton(set) ==
  CASE pkgset_installed_instances(set) = 0 ->
         First(set, LAMBDA p : p.available.arch \in {Native, "all"}, 1)
    [] pkgset_installed_instances(set) = 1 -> Min(Instances(set))
    [] OTHER -> 0

\* The instance of an architecture, a new one if there is none.
pkg_hash_get_pkg(set, arch) ==
  LET i == First(set, LAMBDA p : p.installed.arch = arch, 0)
  IN  IF Len(set) = 1 /\ set[1].installed.arch = "none"
      THEN [ok |-> TRUE, i |-> 1,
            set |-> [set EXCEPT ![1].installed.arch = arch,
                                ![1].available.arch = arch]]
      ELSE IF i # 0 THEN [ok |-> TRUE, i |-> i, set |-> set]
      ELSE [ok |-> TRUE, i |-> Len(set) + 1,
            set |-> Append(set, [pkg_blank EXCEPT !.installed.arch = arch,
                                                  !.available.arch = arch])]

pkg_is_informative(pkg, half) ==
  \/ /\ half = "installed"
     /\ \/ pkg.want # "unknown" \/ pkg.eflag # "ok"
        \/ pkg.status # "not-installed" \/ pkg.configversion # 0
  \/ pkg[half].depends # {} \/ pkg[half].version # 0
  \/ pkg[half].conffiles # <<>>

-----------------------------------------------------------------------------
(* Writing a stanza.                                                       *)

\* Statuses whose Config-Version is the Version, or that have none.
NoConfigVersion == {"installed", "not-installed", "triggers-pending"}

w_configversion_fault(pkg) ==
  pkg.configversion # 0 /\ pkg.status \notin {"installed", "not-installed"}

w_configversion(pkg) ==
  pkg.configversion # 0 /\ pkg.status \notin NoConfigVersion

\* The words of a conffile's line.
w_conffiles(cf) ==
  <<cf.name, cf.hash>> \o (IF cf.obsolete THEN <<"obsolete">> ELSE <<>>)
    \o (IF cf.remove THEN <<"remove-on-upgrade">> ELSE <<>>)

\* A relation is written with its architecture only if it was given one.
varbufdependency(dop) ==
  [type |-> dop.type, ed |-> dop.ed, verrel |-> dop.verrel,
   qual |-> IF dop.arch_is_implicit \/ dop.arch \in {"none", "empty"}
            THEN "" ELSE dop.arch]

\* A field is written, as a pair of its name and value, if it is set.
Field(set, name, value) == IF set THEN {<<name, value>>} ELSE {}

w_status(pkg, half) ==
  Field(half = "installed", "Status", <<pkg.want, pkg.eflag, pkg.status>>)

w_section(pkg) == Field(pkg.section # "", "Section", pkg.section)

w_architecture(bin) ==
  Field(bin.arch \notin {"none", "empty"}, "Architecture", bin.arch)

w_multiarch(bin) == Field(bin.multiarch # "no", "Multi-Arch", bin.multiarch)

w_version(bin) == Field(bin.version # 0, "Version", bin.version)

w_dependency(bin) ==
  Field(bin.depends # {}, "Depends", {varbufdependency(d) : d \in bin.depends})

w_trigpend(pkg, half) ==
  Field(half = "installed" /\ pkg.trigpend, "Triggers-Pending", TRUE)

w_trigaw(pkg, half) ==
  Field(half = "installed" /\ pkg.trigaw, "Triggers-Awaited", TRUE)

StanzaFields(pkg, half) ==
  LET bin == pkg[half]
      own == half = "installed"
  IN  UNION {w_status(pkg, half), w_section(pkg), w_architecture(bin),
             w_multiarch(bin), w_version(bin),
             Field(own /\ w_configversion(pkg), "Config-Version",
                   pkg.configversion),
             w_dependency(bin),
             Field(own /\ bin.conffiles # <<>>, "Conffiles",
                   [i \in DOMAIN bin.conffiles |->
                      w_conffiles(bin.conffiles[i])]),
             w_trigpend(pkg, half), w_trigaw(pkg, half)}

varbuf_stanza(pkg, half) ==
  LET fields == StanzaFields(pkg, half)
  IN  [name \in {f[1] : f \in fields} |->
         (CHOOSE f \in fields : f[1] = name)[2]]

\* w_status(), w_trigpend() and w_trigaw() refuse to write other states.
Writable(pkg) ==
  /\ pkg.trigpend => pkg.status \in {"triggers-awaited", "triggers-pending"}
  /\ pkg.trigaw => pkg.status \in {"half-installed", "unpacked",
                                   "half-configured", "triggers-awaited"}
  /\ pkg.status = "triggers-awaited" => pkg.trigaw
  /\ pkg.status = "triggers-pending" => pkg.trigpend

pkgbin_name_needs_arch(bin) ==
  bin.multiarch = "same" \/ bin.arch \notin {Native, "all"}

\* Instances are sorted by pkg_sorter_by_nonambig_name_arch(), which says
\* nothing of two instances of one architecture, or that need none.
SortKey(pkg) ==
  IF pkgbin_name_needs_arch(pkg.installed)
  THEN 1 + ArchRank[pkg.installed.arch] ELSE 0

\* The files writedb() may write for a package set.
writedb(set, half) ==
  LET told == {i \in DOMAIN set : pkg_is_informative(set[i], half)}
      orders == {o \in [1 .. Cardinality(told) -> told] :
                   \A m, n \in 1 .. Cardinality(told) :
                     m < n => /\ o[m] # o[n]
                              /\ SortKey(set[o[m]]) <= SortKey(set[o[n]])}
  IN  {[n \in DOMAIN o |-> varbuf_stanza(set[o[n]], half)] : o \in orders}

-----------------------------------------------------------------------------
(* Reading a stanza.  The kinds of file are those of parse_get_type().     *)

parse_get_type(recordavailable, single_stanza) ==
  CASE recordavailable /\ single_stanza  -> "control"
    [] recordavailable /\ ~single_stanza -> "available"
    [] ~recordavailable /\ single_stanza -> "update"
    [] OTHER                             -> "status"

HalfOf(kind) ==
  IF kind \in {"control", "available"} THEN "available" ELSE "installed"

\* The words after the name are taken from the end of the line.
f_conffiles(words) ==
  LET remove == Last(words) = "remove-on-upgrade"
      rest1  == IF remove THEN Front(words) ELSE words
      obs    == Last(rest1) = "obsolete"
      rest2  == IF obs THEN Front(rest1) ELSE rest1
  IN  [name |-> rest2[1], hash |-> Last(rest2),
       obsolete |-> obs, remove |-> remove]

\* Relations get their architecture here, or from pkg_parse_verify().
f_dependency(dop, pkgarch) ==
  [type |-> dop.type, ed |-> dop.ed, verrel |-> dop.verrel,
   arch_is_implicit |-> dop.qual = "",
   arch |-> IF dop.qual # "" THEN dop.qual
            ELSE IF dop.type \in {"conflicts", "breaks", "replaces"}
                 THEN "any" ELSE pkgarch]

\* The value of a field of a stanza, or what a package without it has.
Get(text, field, default) ==
  IF field \in DOMAIN text THEN text[field] ELSE default

\* Status and Config-Version are only of the installed half.
f_status(text, kind) ==
  LET none == <<"unknown", "ok", "not-installed">>
  IN  IF HalfOf(kind) = "installed" THEN Get(text, "Status", none) ELSE none

f_configversion(text, kind) ==
  IF HalfOf(kind) = "installed" THEN Get(text, "Config-Version", 0) ELSE 0

f_architecture(text) == Get(text, "Architecture", "none")

f_multiarch(text) == Get(text, "Multi-Arch", "no")

f_version(text) == Get(text, "Version", 0)

f_section(text) == Get(text, "Section", "")

f_trigpend(text) == Get(text, "Triggers-Pending", FALSE)

f_trigaw(text) == Get(text, "Triggers-Awaited", FALSE)

\* The package being constructed, after pkg_parse_field() of every field.
pkg_parse_field(text, kind) ==
  LET st    == f_status(text, kind)
      arch  == f_architecture(text)
      lines == Get(text, "Conffiles", <<>>)
      bin   == [arch |-> arch, multiarch |-> f_multiarch(text),
                version |-> f_version(text),
                conffiles |-> [i \in DOMAIN lines |-> f_conffiles(lines[i])],
                depends |-> {f_dependency(d, IF arch = "none" THEN "empty"
                                             ELSE arch) :
                               d \in Get(text, "Depends", {})}]
  IN  [pkg_blank EXCEPT
         !.section = f_section(text), !.want = st[1], !.eflag = st[2],
         !.status = st[3], !.configversion = f_configversion(text, kind),
         !.trigpend = f_trigpend(text), !.trigaw = f_trigaw(text),
         ![HalfOf(kind)] = bin]

\* What pkg_parse_verify() calls an error.
Malformed(pkg, kind) ==
  LET bin == pkg[HalfOf(kind)]
      own == HalfOf(kind) = "installed"
  IN  \/ /\ ~own \/ pkg.status \notin {"not-installed", "half-installed"}
         /\ bin.version = 0
      \/ bin.multiarch = "same" /\ bin.arch \in {"none", "empty", "all"}
      \/ own /\ pkg.configversion # 0 /\ pkg.status \in NoConfigVersion
      \/ pkg.trigaw /\ pkg.status \in {"not-installed", "config-files",
                                       "triggers-pending", "installed"}
      \/ ~pkg.trigaw /\ pkg.status = "triggers-awaited"
      \/ pkg.trigpend /\ pkg.status \notin {"triggers-pending",
                                            "triggers-awaited"}
      \/ ~pkg.trigpend /\ pkg.status = "triggers-pending"

\* What pkg_parse_verify() completes and cleans up.
pkg_parse_verify(pkg, kind) ==
  LET half == HalfOf(kind)
      own  == half = "installed"
      idle == own /\ pkg.status = "not-installed" /\ pkg.eflag = "ok"
      arch == IF pkg[half].arch = "none" THEN "empty" ELSE pkg[half].arch
      want == IF \/ idle /\ pkg.want \in {"purge", "deinstall"}
                 \/ /\ idle /\ kind = "status" /\ pkg.want = "install"
                    /\ arch = "empty"
              THEN "unknown" ELSE pkg.want
      bin0 == [pkg[half] EXCEPT !.arch = arch]
      bin1 == IF own /\ pkg.status = "not-installed"
              THEN [bin0 EXCEPT !.conffiles = <<>>] ELSE bin0
  IN  [pkg EXCEPT
         !.want = want,
         !.configversion =
           IF own /\ @ = 0 /\ pkg.status \in {"installed", "triggers-pending"}
           THEN pkg.installed.version ELSE @,
         ![half] = IF idle /\ want = "unknown"
                   THEN pkgbin_blank(bin1) ELSE bin1]

\* parse_find_set_slot(): a set holds one instance that is not "Multi-Arch:
\* same", or any number that are.
parse_find_set_slot(set, pkg, kind) ==
  LET Counted(p) == p.status # "not-installed"
      bins == [i \in Instances(set) |-> set[i].installed.multiarch]
      new  == kind = "status" /\ Counted(pkg)
      Tally(same) ==
        Cardinality({i \in DOMAIN bins : (bins[i] = "same") = same})
        + (IF new /\ (pkg.installed.multiarch = "same") = same THEN 1 ELSE 0)
  IN  Tally(FALSE) <= 1 /\ (Tally(FALSE) = 0 \/ Tally(TRUE) = 0)

\* The instance a stanza is about: [ok, set, i].
Ambiguous(set, pkg, kind, bin) ==
  /\ kind # "available" /\ pkgset_installed_instances(set) > 1
  /\ ~(kind = "status" /\ pkg.status = "not-installed")
  /\ bin.multiarch # "same"
\* Is it about the only installed instance, whatever its architecture?
AboutSingleton(set, kind, bin, only) ==
  /\ pkgset_installed_instances(set) = 1
  /\ CASE kind = "available" -> bin.multiarch # "same"
       [] kind = "status" -> FALSE
       [] OTHER -> ~(set[only].installed.multiarch = "same" /\ bin.multiarch = "same")

parse_find_pkg_slot(set, pkg, kind) ==
  LET bin == pkg[HalfOf(kind)]
      only == pkg_hash_get_singleton(set)
  IN  IF ~parse_find_set_slot(set, pkg, kind) \/ Ambiguous(set, pkg, kind, bin)
      THEN [ok |-> FALSE, set |-> set, i |-> 0]
      ELSE IF AboutSingleton(set, kind, bin, only)
      THEN [ok |-> TRUE, set |-> set, i |-> only]
      ELSE pkg_hash_get_pkg(set, bin.arch)

\* The files of status and updates do not replace a section that is known.
pkg_parse_copy(old, new, kind) ==
  LET section == IF new.section # "" /\ ~(HalfOf(kind) = "installed"
                                          /\ old.section # "")
                 THEN new.section ELSE old.section
  IN  IF HalfOf(kind) = "available"
      THEN [old EXCEPT !.section = section, !.available = new.available]
      ELSE [new EXCEPT !.section = section, !.available = old.available]

\* One stanza of parsedb_parse(), into acc = [ok, set, i].
Unreadable(acc) == [ok |-> FALSE, set |-> acc.set, i |-> 0]

Store(slot, new, kind, ignoreolder) ==
  LET half == HalfOf(kind)
      older == /\ ignoreolder \/ kind = "available"
               /\ slot.set[slot.i][half].version # 0
               /\ new[half].version < slot.set[slot.i][half].version
  IN  [ok |-> slot.ok, i |-> slot.i,
       set |-> IF ~slot.ok \/ older THEN slot.set
               ELSE [slot.set EXCEPT ![slot.i] = pkg_parse_copy(@, new, kind)]]

Place(acc, new, kind, ignoreolder) ==
  Store(parse_find_pkg_slot(acc.set, new, kind), new, kind, ignoreolder)

Check(acc, read, kind, ignoreolder) ==
  IF Malformed(read, kind) THEN Unreadable(acc)
  ELSE Place(acc, pkg_parse_verify(read, kind), kind, ignoreolder)

ParseStanza(acc, text, kind, ignoreolder) ==
  IF ~acc.ok THEN acc
  ELSE Check(acc, pkg_parse_field(text, kind), kind, ignoreolder)

parsedb(acc, file, kind, ignoreolder) ==
  FoldLeft(LAMBDA a, text : ParseStanza(a, text, kind, ignoreolder), acc, file)

EmptySet == [ok |-> TRUE, set |-> <<pkg_blank>>, i |-> 0]

\* cleanupdates(): the status file, then the journal.
Replay(status, journal) ==
  parsedb(parsedb(EmptySet, status, parse_get_type(FALSE, FALSE), FALSE),
          journal, parse_get_type(FALSE, TRUE), FALSE)
-----------------------------------------------------------------------------
(* Names of instances on the command line: "" is a name without an          *)
(* architecture.                                                            *)

\* pkg_spec_parse_pkg(): [ok, set, i].
pkg_spec_parse_pkg(set, arch) ==
  LET only == pkg_hash_get_singleton(set)
  IN  IF arch = "" THEN [ok |-> only # 0, set |-> set, i |-> only]
      ELSE pkg_hash_get_pkg(set, arch)

Specs == {"", Native, "all"} \cup Foreigns

-----------------------------------------------------------------------------
(* Commands.  A process is started with the database in the files, works    *)
(* on the in-core set, notes each change in the journal, and writes the     *)
(* status file at its end.                                                  *)

ControlInit ==
  /\ core = <<pkg_blank>> /\ statusfile = <<>> /\ updates = <<>>
  /\ availfile = <<>> /\ foreign \in SUBSET Foreigns /\ cpc = "down" /\ written = <<>>
  /\ cur = [i |-> 0, was |-> "not-installed"]
  /\ crashed = FALSE /\ commands = 0

Started == cpc = "down" /\ commands < MaxCommands /\ commands' = commands + 1

\* modstatdb_open(): a writer incorporates the journal at once.
modstatdb_open ==
  /\ Started
  /\ \E r \in {Replay(statusfile, updates)} :
         /\ r.ok
         /\ IF updates = <<>> THEN UNCHANGED <<statusfile, written>>
            ELSE statusfile' \in writedb(r.set, "installed") /\ written' = r.set
         /\ updates' = <<>>
         /\ \E mode \in {"archives", "packages", "selections", "clear"} :
              /\ cpc' = mode
              /\ core' = IF mode = "selections"
                         THEN parsedb(r, availfile, "available", FALSE).set
                         ELSE r.set
  /\ UNCHANGED <<availfile, foreign, cur, crashed>>

\* modstatdb_shutdown().
modstatdb_shutdown ==
  /\ cpc \in {"archives", "packages", "selections"}
  /\ statusfile' \in writedb(core, "installed")
  /\ written' = core /\ updates' = <<>> /\ cpc' = "down"
  /\ UNCHANGED <<core, availfile, foreign, cur, crashed, commands>>

\* modstatdb_note() of states of one instance, one after the other.
Noted(set, i, states) ==
  updates' = updates \o [n \in DOMAIN states |->
                            varbuf_stanza(states[n], "installed")]

Rest == UNCHANGED <<statusfile, availfile, foreign, written, crashed, commands>>

Configured == {"half-configured", "triggers-awaited", "triggers-pending",
               "installed"}

\* Triggers end when a package leaves the states that have them.
At(pkg, st) == [pkg EXCEPT !.status = st, !.trigpend = FALSE, !.trigaw = FALSE]

\* process_archive() up to the note that the package is half-installed.
unpack_start ==
  /\ cpc = "archives" /\ Len(updates) < MaxNotes
  /\ \E c \in Archives :
     \E r \in {ParseStanza([ok |-> TRUE, set |-> core, i |-> 0], c, "control", FALSE)} :
       LET p   == [r.set[r.i] EXCEPT !.want = "install"]
           was == IF p.status \in Configured THEN "unpacked" ELSE p.status
           bin == [p.installed EXCEPT !.version = p.available.version,
                                      !.multiarch = p.available.multiarch]
           half == [At(p, "half-installed") EXCEPT
                      !.eflag = "reinstreq",
                      !.installed = IF p.status = "not-installed"
                                    THEN bin ELSE @]
       IN  /\ r.ok
           /\ p.available.arch \in {"all", Native} \cup foreign
           /\ core' = [r.set EXCEPT ![r.i] = half]
           /\ cur' = [i |-> r.i, was |-> was]
           /\ Noted(core, r.i,
                    (IF p.status \in Configured
                     THEN <<At(p, "half-configured"), At(p, "unpacked")>>
                     ELSE <<>>) \o <<half>>)
  /\ cpc' = "unpacking" /\ Rest

\* cu_preinstverynew(), cu_preinstnew() and cu_preinstupgrade().
unpack_fails ==
  LET back == [At(core[cur.i], cur.was) EXCEPT
                 !.eflag = "ok",
                 !.installed = IF cur.was = "not-installed"
                               THEN pkgbin_blank(@) ELSE @]
  IN  /\ cpc = "unpacking"
      /\ core' = [core EXCEPT ![cur.i] = back]
      /\ Noted(core, cur.i, <<back>>)
      /\ cpc' = "archives" /\ UNCHANGED cur /\ Rest

\* pkg_update_fields(): conffiles no longer shipped stay, as obsolete.
pkg_update_fields(pkg) ==
  LET new  == pkg.available.conffiles
      gone == SelectSeq(pkg.installed.conffiles,
                LAMBDA old : \A n \in DOMAIN new : new[n].name # old.name)
  IN  [pkg EXCEPT !.installed =
         [pkg.available EXCEPT
            !.conffiles = new \o [n \in DOMAIN gone |->
                                    [gone[n] EXCEPT !.obsolete = TRUE]]]]

\* process_archive(): another instance with the architecture of a package
\* that changed it is blanked.
BlankDuplicates(set, i) ==
  [j \in DOMAIN set |->
     IF j # i /\ set[j].installed.arch = set[i].installed.arch
     THEN pkg_blank ELSE set[j]]

unpack_done ==
  LET p   == At(pkg_update_fields(core[cur.i]), "unpacked")
      set == BlankDuplicates([core EXCEPT ![cur.i] = p], cur.i)
      ok  == [p EXCEPT !.eflag = "ok"]
  IN  /\ cpc = "unpacking"
      /\ core' = [set EXCEPT ![cur.i] = ok]
      /\ Noted(set, cur.i, <<p, ok>>)
      /\ cpc' = "archives" /\ UNCHANGED cur /\ Rest

\* deferred_configure() and post_postinst_tasks(): the postinst may have
\* activated a trigger the package awaits.
configure ==
  /\ cpc \in {"archives", "packages"} /\ Len(updates) < MaxNotes
  /\ \E i \in DOMAIN core, aw \in BOOLEAN :
       LET p   == At(core[i], "half-configured")
           end == IF aw THEN [p EXCEPT !.trigaw = TRUE,
                                       !.status = "triggers-awaited"]
                  ELSE [p EXCEPT !.status = "installed"]
       IN  /\ core[i].status \in {"unpacked", "half-configured"}
           /\ core' = [core EXCEPT ![i] = end]
           /\ Noted(core, i, <<p, end>>)
  /\ UNCHANGED <<cpc, cur>> /\ Rest

\* trig_note_pend(), trig_clear_awaiters() and trigproc(): a configured
\* package gets a pending trigger, processes it, or stops waiting.
trigger ==
  /\ cpc = "packages" /\ Len(updates) < MaxNotes
  /\ \E i \in DOMAIN core :
       LET p == core[i]
           q == CASE p.status = "installed" ->
                       [p EXCEPT !.status = "triggers-pending",
                                 !.trigpend = TRUE]
                  [] p.status = "triggers-pending" -> At(p, "installed")
                  [] OTHER -> At(p, "installed")
       IN  /\ p.status \in Configured \ {"half-configured"}
           /\ core' = [core EXCEPT ![i] = q]
           /\ Noted(core, i, <<q>>)
  /\ UNCHANGED <<cpc, cur>> /\ Rest

\* deferred_remove() and removal_bulk() of a named instance.  Only an
\* instance with conffiles is left in config-files.
deferred_remove ==
  /\ cpc = "packages" /\ Len(updates) < MaxNotes
  /\ \E arch \in Specs, purge \in BOOLEAN :
     \E r \in {pkg_spec_parse_pkg(core, arch)} :
       LET p    == IF r.set[r.i].want = "unknown" THEN r.set[r.i]
                   ELSE [r.set[r.i] EXCEPT
                           !.want = IF purge THEN "purge" ELSE "deinstall"]
           want == IF p.want = "unknown" THEN <<>> ELSE <<p>>
           over == \/ p.status = "not-installed"
                   \/ p.status = "config-files" /\ ~purge
           half == At(p, "half-installed")
           left == [At(p, "config-files") EXCEPT !.eflag = "ok"]
           none == [At(p, "not-installed") EXCEPT
                      !.want = "unknown", !.eflag = "ok",
                      !.configversion = 0, !.installed = pkgbin_blank(@)]
           steps == IF p.status = "config-files" THEN <<>>
                    ELSE <<At(p, "half-configured"), half>>
           end  == IF p.want = "purge" \/ p.installed.conffiles = <<>>
                   THEN none ELSE left
       IN  /\ r.ok
           /\ core' = [r.set EXCEPT ![r.i] = IF over THEN p ELSE end]
           /\ Noted(core, r.i, IF over THEN want ELSE want \o steps \o <<end>>)
  /\ UNCHANGED <<cpc, cur>> /\ Rest

\* setselections(): nothing is noted; the status file is written at the end.
setselections ==
  /\ cpc = "selections"
  /\ \E arch \in Specs, want \in {"install", "deinstall"} :
     \E r \in {pkg_spec_parse_pkg(core, arch)} :
           /\ r.ok
           /\ core' = IF \/ pkg_is_informative(r.set[r.i], "installed")
                         \/ pkg_is_informative(r.set[r.i], "available")
                      THEN [r.set EXCEPT ![r.i].want = want] ELSE r.set
  /\ UNCHANGED <<cpc, cur, updates>> /\ Rest

clearselections ==
  LET set == [i \in DOMAIN core |->
                [core[i] EXCEPT !.want = IF @ = "unknown" THEN @
                                         ELSE "deinstall"]]
  IN  /\ cpc = "clear"
      /\ core' = set /\ written' = set
      /\ statusfile' \in writedb(set, "installed")
      /\ updates' = <<>> /\ cpc' = "down"
      /\ UNCHANGED <<availfile, foreign, cur, crashed, commands>>

\* updateavailable(): the status file is not read.
updateavailable ==
  /\ Started
  /\ \E kind \in {"replace", "merge", "clear"}, c \in Archives :
     \E old \in {IF kind = "merge" THEN parsedb(EmptySet, availfile, "available", FALSE)
                  ELSE EmptySet} :
     \E new \in {IF kind = "clear" THEN old
                  ELSE parsedb(old, <<c>>, "available", TRUE)} :
       new.ok /\ availfile' \in writedb(new.set, "available")
  /\ UNCHANGED <<core, statusfile, updates, foreign, cpc, cur, written, crashed>>

\* archivefiles() for --record-avail: only the available file is written.
record_avail ==
  /\ Started
  /\ \E c \in Archives :
     \E old \in {parsedb(Replay(statusfile, updates), availfile, "available", FALSE)} :
     \E new \in {parsedb(old, <<c>>, "available", FALSE)} :
       new.ok /\ availfile' \in writedb(new.set, "available")
  /\ UNCHANGED <<core, statusfile, updates, foreign, cpc, cur, written, crashed>>

\* arch_add() and arch_remove(), which refuses an architecture in use.
arch_add ==
  /\ Started
  /\ \E a \in Foreigns : foreign' = foreign \cup {a}
  /\ UNCHANGED <<core, statusfile, updates, availfile, cpc, cur, written,
                 crashed>>

arch_remove ==
  /\ Started
  /\ \E a \in foreign :
     \E set \in {Replay(statusfile, updates).set} :
           /\ \A i \in DOMAIN set :
                set[i].status \in {"not-installed", "config-files"}
                  \/ set[i].installed.arch # a
           /\ foreign' = foreign \ {a}
  /\ UNCHANGED <<core, statusfile, updates, availfile, cpc, cur, written,
                 crashed>>

\* The process is killed: what is in the files stays.
Crash ==
  /\ cpc # "down" /\ cpc' = "down" /\ crashed' = TRUE
  /\ UNCHANGED <<core, statusfile, updates, availfile, foreign, cur, written,
                 commands>>

ControlNext ==
  \/ modstatdb_open \/ modstatdb_shutdown \/ unpack_start \/ unpack_fails
  \/ unpack_done \/ configure \/ trigger \/ deferred_remove \/ setselections
  \/ clearselections \/ updateavailable \/ record_avail \/ arch_add
  \/ arch_remove \/ Crash

ControlSpec == ControlInit /\ [][ControlNext]_controlvars

-----------------------------------------------------------------------------
(* What a reader must find of a package set: every installed instance, and  *)
(* the selections for others.                                               *)
Content(set) ==
  {[want |-> set[i].want, eflag |-> set[i].eflag, status |-> set[i].status,
    trigpend |-> set[i].trigpend, trigaw |-> set[i].trigaw,
    bin |-> set[i].installed] : i \in Instances(set)}
  \cup
  {[want |-> set[i].want, arch |-> set[i].installed.arch] :
     i \in {j \in DOMAIN set \ Instances(set) :
              set[j].want \in {"install", "hold"}
              /\ set[j].installed.arch \notin {"none", "empty"}}}

\* What writedb() writes, parsedb() reads back: the same instances, each in
\* its state, with its conffiles and the architectures of its relations, and
\* never an error that would leave dpkg without a database.  (After a crash
\* the set may hold two instances of one architecture: a journal entry goes to
\* the only installed instance, whatever its architecture, parse.c:443.)
StatusReadsBack ==
  \A r \in {parsedb(EmptySet, statusfile, "status", FALSE)} :
  LET distinct == \A i, j \in DOMAIN written :
                    i # j => \/ written[i].installed.arch = "none"
                             \/ written[i].installed.arch
                                  # written[j].installed.arch
  IN  (distinct \/ ~crashed) =>
        /\ r.ok /\ Content(r.set) = Content(written)
        /\ \A i \in DOMAIN written : Writable(written[i])
=============================================================================
