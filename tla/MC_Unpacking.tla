---------------------------- MODULE MC_Unpacking ----------------------------
(***************************************************************************)
(* Parts of dpkg that share no state in the models: the search for         *)
(* dependency cycles, installing a file of an archive, unpacking archives  *)
(* that remove and deconfigure other packages, removing files, the         *)
(* information files and their change of layout, the deferred trigger      *)
(* file, and the control files.  A behaviour runs one of them, which part  *)
(* says; the variables of the others stay unused.                          *)
(***************************************************************************)
EXTENDS MC_DepCycle, FileInstall, Unpack, RemoveFiles, InfoDb, TrigDeferred

VARIABLES
    part,
    core, statusfile, updates, availfile, foreign, cpc, ccur, written, crashed,
    commands

-----------------------------------------------------------------------------
(* Instances. *)

\* The packages: what is installed, what the archives bring, and the options.
MCPackages == {"a", "b", "c", "d"}
Dep(up, type, on) ==
  [up |-> up, type |-> type, list |-> <<[on |-> on, inst |-> TRUE, avail |-> TRUE]>>]
Either(up, type, on1, on2) ==
  [up |-> up, type |-> type, list |-> <<[on |-> on1, inst |-> TRUE, avail |-> TRUE],
                                        [on |-> on2, inst |-> TRUE, avail |-> TRUE]>>]
Provide(n) == [type |-> "provides", on |-> n]
Arch(p, deps, prov) == [pkg |-> p, depends |-> deps, provides |-> prov]
Plain == [archives |-> <<>>, depends |-> <<>>, provides |-> [p \in MCPackages |-> <<>>],
          status |-> [p \in MCPackages |-> INSTALLED],
          unwanted |-> {}, replaces |-> {<<"a", "b">>, <<"a", "c">>}, essential |-> {},
          protected |-> {}, held |-> {}, newimportant |-> {}, force |-> {},
          autodeconf |-> TRUE, siblings |-> {}, swallows |-> {}, neverconfigured |-> {},
          conffiles |-> {"b"}]
\* a conflicts with b and c, d needs one of them; then b is upgraded.
W1 == [Plain EXCEPT
         !.archives = <<Arch("a", <<Dep("a", "conflicts", "b"), Dep("a", "conflicts", "c")>>, {}),
                        Arch("b", <<>>, {})>>,
         !.depends = <<Either("d", "depends", "b", "c")>>]
\* The same for a new a, without automatic deconfiguration.
W2 == [W1 EXCEPT !.status["a"] = NOTINSTALLED, !.autodeconf = FALSE]
\* a takes the place of b and c, and provides c.
W3 == [W1 EXCEPT
         !.archives[1].provides = {"c"},
         !.archives[1].depends = <<Dep("a", "conflicts", "b"), Dep("a", "breaks", "c"),
                                   Provide("c")>>,
         !.status["b"] = HALFCONFIGURED, !.status["a"] = CONFIGFILES]
\* Virtual packages, pre-dependencies, breaks, a package that disappears, and a sibling.
W4 == [Plain EXCEPT
         !.archives = <<Arch("a", <<Dep("a", "predepends", "v"), Dep("a", "breaks", "b")>>, {"w"}),
                        Arch("c", <<>>, {})>>,
         !.provides["d"] = <<"v">>, !.provides["c"] = <<"w">>,
         !.status["d"] = TRIGGERSAWAITED,
         !.depends = <<Dep("b", "depends", "w"), Dep("c", "conflicts", "a")>>,
         !.swallows = {<<"a", "c">>}, !.siblings = {<<"a", "b">>}, !.unwanted = {"c"}]
\* An essential package, and one that the new package itself needs, in the way.
W5 == [Plain EXCEPT !.archives = <<Arch("a", <<Dep("a", "conflicts", "b")>>, {})>>,
                    !.essential = {"b"}]
W6 == [W5 EXCEPT !.essential = {}, !.depends = <<Dep("a", "depends", "b")>>]
Forcing(w, f) == [w EXCEPT !.force = f]
MCWorlds ==
  {W1, W2, W3, W4, W5, W6, Forcing(W1, {"conflicts"}), Forcing(W2, {"depends"}),
   Forcing(W4, {"breaks", "depends"}), [W1 EXCEPT !.status["a"] = HALFINSTALLED],
   [W1 EXCEPT !.status["a"] = UNPACKED, !.held = {"c"}]}

\* The archives' control stanzas.
Cf(n, o, r) == IF o THEN <<n, "h", "obsolete">>
               ELSE IF r THEN <<n, "h", "remove-on-upgrade">> ELSE <<n, "h">>
Relation(t, q) == [type |-> t, ed |-> "b", verrel |-> "ge", qual |-> q]
Text(arch, ma, version, cf, deps) ==
  ("Architecture" :> arch) @@ ("Version" :> version) @@ ("Section" :> "s")
  @@ (IF ma = "no" THEN <<>> ELSE "Multi-Arch" :> ma)
  @@ (IF cf = <<>> THEN <<>> ELSE "Conffiles" :> cf)
  @@ (IF deps = {} THEN <<>> ELSE "Depends" :> deps)
MCArchives ==
  { Text("amd64", "same", 1, <<Cf("c", FALSE, FALSE)>>, {Relation("depends", "")}),
    Text("i386", "same", 1, <<Cf("c", FALSE, FALSE)>>, {Relation("depends", "any")}),
    Text("amd64", "no", 2, <<Cf("c", FALSE, TRUE)>>, {Relation("conflicts", "")}),
    Text("i386", "no", 2, <<>>, {Relation("depends", "")}),
    Text("all", "no", 2, <<>>, {}) }

\* Two instances of a package that share files, and a package in the same directory.
MCPkgInfos == {"a1", "a2", "b"}
MCSetOf == [a1 |-> "a", a2 |-> "a", b |-> "b"]
MCParent == [d |-> "root", f |-> "d", c |-> "d"]
MCShips == {[a1 |-> {"d", "f", "c"}, a2 |-> x, b |-> y] :
              x \in {{}, {"d", "c"}, {"d", "f", "c"}}, y \in {{}, {"d"}}}

Control == INSTANCE ControlDb WITH
    Native <- "amd64", Foreigns <- {"i386"}, Archives <- MCArchives,
    ArchRank <- [none |-> 0, empty |-> 0, amd64 |-> 2, all |-> 1, i386 |-> 3],
    MaxCommands <- 3, MaxNotes <- 2, cur <- ccur

controlvars == <<core, statusfile, updates, availfile, foreign, cpc, ccur, written,
    crashed, commands>>
allvars == <<part, vars, filevars, unpackvars, removevars, infovars, trigdefvars, controlvars>>

Unused == "unused"   \* where a property reads more of a value, nothing to speak of
NoSearch ==
    /\ depends = Unused /\ provides = Unused /\ normal = Unused /\ postinst = Unused
    /\ cyclebreak = {} /\ color = Unused /\ stack = Unused /\ start = Unused
    /\ result = Unused
NoFile ==
    /\ disk = Unused /\ item = [type |-> Unused] /\ ground = Unused /\ flags = Unused
    /\ listed = Unused /\ pushed = Unused /\ before = Absent /\ tarpc = Unused
    /\ tries = Unused
NoUnpacking ==
    /\ world = Unused /\ status = [p \in Packages |-> HALFINSTALLED] /\ reinst = Unused /\ files = Unused
    /\ istobe = Unused /\ conflictors = Unused /\ deconf = Unused /\ checks = Unused
    /\ cleanups = Unused /\ oldversionstatus = Unused /\ cleanup_pkg_failed = Unused
    /\ cleanup_conflictor_failed = Unused /\ flagset = Unused /\ seen = Unused
    /\ queued = Unused /\ upc = Unused /\ cur = Unused /\ was = Unused
NoRemoval ==
    /\ ondisk = {} /\ lists = Unused /\ conffiles = Unused
    /\ stat = [i \in PkgInfos |-> Unused]
    /\ postrm = Unused /\ shipped = Unused /\ pkg = Unused /\ want = Unused
    /\ todo = Unused /\ leftover = Unused /\ rpc = Unused /\ removals = Unused
NoInformation ==
    /\ info = Unused /\ format = Unused /\ formatnew = Unused /\ same = Unused
    /\ ships = Unused /\ stands = Unused /\ rename_head = Unused
    /\ match_head = Unused /\ ipc = Unused /\ job = Unused /\ infos = Unused
NoTriggering ==
    /\ unincorp = {} /\ exists = Unused /\ newfile = Unused /\ locked = Unused
    /\ caller = Unused /\ accepted = {} /\ taken = {} /\ recorded = Unused
    /\ inmemory = Unused /\ edited = Unused /\ ci = Unused /\ unpacked = {}
    /\ dpkg = Unused /\ upgrade = Unused /\ trigs = Unused
NoControl ==
    /\ core = Unused /\ statusfile = Unused /\ updates = Unused
    /\ availfile = Unused /\ foreign = Unused /\ cpc = Unused /\ ccur = Unused
    /\ written = Unused /\ crashed = Unused /\ commands = Unused

-----------------------------------------------------------------------------
Components == {"findbreakcycle", "tarobject", "process_archive", "removal_bulk", "pkg_infodb",
               "dpkg-trigger", "parsedb"}

UnpackingInit ==
    /\ part \in Components
    /\ IF part = "findbreakcycle" THEN Init ELSE NoSearch
    /\ IF part = "tarobject" THEN FileInit ELSE NoFile
    /\ IF part = "process_archive" THEN UnpackInit ELSE NoUnpacking
    /\ IF part = "removal_bulk" THEN RemoveInit ELSE NoRemoval
    /\ IF part = "pkg_infodb" THEN InfoInit ELSE NoInformation
    /\ IF part = "dpkg-trigger" THEN TrigDefInit ELSE NoTriggering
    /\ IF part = "parsedb" THEN Control!ControlInit ELSE NoControl

BreaksCycles ==
    /\ part = "findbreakcycle" /\ Next
    /\ UNCHANGED <<part, filevars, unpackvars, removevars, infovars, trigdefvars, controlvars>>
InstallsAFile ==
    /\ part = "tarobject" /\ FileNext
    /\ UNCHANGED <<part, vars, unpackvars, removevars, infovars, trigdefvars, controlvars>>
UnpacksArchives ==
    /\ part = "process_archive" /\ UnpackNext
    /\ UNCHANGED <<part, vars, filevars, removevars, infovars, trigdefvars, controlvars>>
RemovesFiles ==
    /\ part = "removal_bulk" /\ RemoveNext
    /\ UNCHANGED <<part, vars, filevars, unpackvars, infovars, trigdefvars, controlvars>>
KeepsInformation ==
    /\ part = "pkg_infodb" /\ InfoNext
    /\ UNCHANGED <<part, vars, filevars, unpackvars, removevars, trigdefvars, controlvars>>
DefersTriggers ==
    /\ part = "dpkg-trigger" /\ TrigDefNext
    /\ UNCHANGED <<part, vars, filevars, unpackvars, removevars, infovars, controlvars>>
KeepsControl ==
    /\ part = "parsedb" /\ Control!ControlNext
    /\ UNCHANGED <<part, vars, filevars, unpackvars, removevars, infovars, trigdefvars>>

UnpackingNext == BreaksCycles \/ InstallsAFile \/ UnpacksArchives \/ RemovesFiles
                 \/ KeepsInformation \/ DefersTriggers \/ KeepsControl

UnpackingSpec == UnpackingInit /\ [][UnpackingNext]_allvars

-----------------------------------------------------------------------------
\* What writedb() writes, parsedb() reads back: the same instances, each in
\* its state, with its conffiles and the architectures of its relations
\* (ControlDb!StatusReadsBack).
StatusReadsBack == part = "parsedb" => Control!StatusReadsBack
=============================================================================
