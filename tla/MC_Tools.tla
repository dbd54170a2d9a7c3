------------------------------ MODULE MC_Tools ------------------------------
(***************************************************************************)
(* The programs beside dpkg that share nothing but the file system:        *)
(* update-alternatives, start-stop-daemon, dpkg-divert, dpkg-statoverride, *)
(* dpkg-split and dpkg --compare-versions.  A behaviour runs one of them,  *)
(* which tool says; the variables of the others stay unused.               *)
(***************************************************************************)
EXTENDS StartStop, Divert, StatOverride, SplitQueue

VARIABLES
    tool,
    admin, fsys, files, alt, altnew, inst, altpc, ops, done, altruns, accidents,
    question, answer

-----------------------------------------------------------------------------
(* Instances. *)

NoSlaves == [x \in {} |-> 0]
WithSlave(l, f) == [s |-> [link |-> l, file |-> f]]
Install(n, l, f, p, slaves) ==
    [name |-> n, link |-> l, file |-> f, prio |-> p, slaves |-> slaves]
Alternatives == INSTANCE Alternatives WITH
    Groups <- {"m", "n"}, SlaveNames <- {"s"}, Links <- {"l1", "l2", "k1", "k2"},
    Files <- {1, 2, 3, 4}, new <- altnew, runs <- altruns, MaxRuns <- 3, MaxAccidents <- 1,
    Installs <- {Install("m", "l1", 1, 1, NoSlaves),
                 Install("m", "l1", 1, 1, WithSlave("k1", 3)),
                 Install("m", "l2", 1, 1, WithSlave("k1", 3)),
                 Install("m", "l1", 2, 2, WithSlave("k2", 4)),
                 Install("m", "l1", 2, 1, NoSlaves),
                 Install("n", "l2", 2, 1, NoSlaves),
                 Install("n", "l1", 2, 1, WithSlave("k1", 3))}
MCMatches == SUBSET {"exec", "user", "name"}
MCSchedules == {<<>>, <<"1">>, <<"TERM", "1">>, <<"TERM", "forever", "KILL", "1">>}
MCArchives == [x |-> 3, y |-> 2]
Versions == INSTANCE Versions WITH
    Characters <- {"0", "1", "a", "+", "~"}, MaxPart <- 3, INT_MAX <- 10,
    Texts <- UNION {[1..n -> {"0", "1", "a", "-", ":", " "}] : n \in 0..5}

altvars == <<admin, fsys, files, alt, altnew, inst, altpc, ops, done, altruns, accidents>>
versionvars == <<question, answer>>
vars == <<tool, altvars, ssdvars, divertvars, statvars, splitvars, versionvars>>

Unused == "unused"
NoAlternatives ==
    /\ admin = Unused /\ fsys = Unused /\ files = Unused /\ alt = Unused /\ altnew = Unused
    /\ inst = Unused /\ altpc = Unused /\ ops = Unused /\ done = Unused /\ altruns = Unused
    /\ accidents = Unused
NoStartStop ==
    /\ procs = Unused /\ pidfile = Unused /\ opts = Unused /\ ssdpc = Unused
    /\ code = Unused /\ found = Unused /\ pid = Unused /\ schedule = Unused
    /\ position = Unused /\ killed = Unused /\ anykilled = Unused /\ second = Unused
    /\ child = Unused /\ notes = Unused /\ sent = Unused /\ late = Unused
NoDivert ==
    /\ diversions = {} /\ place = [p \in Paths |-> "nofile"] /\ owned = Unused /\ shared = Unused
    /\ run = Unused /\ dpc = Unused /\ runs = Unused
NoStatOverride ==
    /\ overrides = Unused /\ passwd = Unused /\ owner = Unused /\ changes = Unused
NoSplit ==
    /\ parts = Unused /\ depot = Unused /\ output = NoOutput /\ part = Unused
    /\ list = Unused /\ spc = Unused /\ splits = Unused
NoVersions == question = Unused /\ answer = Unused

-----------------------------------------------------------------------------
Tools == {"update-alternatives", "start-stop-daemon", "dpkg-divert",
          "dpkg-statoverride", "dpkg-split", "compare-versions"}

Init ==
    /\ tool \in Tools
    /\ IF tool = "update-alternatives" THEN Alternatives!AltInit ELSE NoAlternatives
    /\ IF tool = "start-stop-daemon" THEN SsdInit ELSE NoStartStop
    /\ IF tool = "dpkg-divert" THEN DivertInit ELSE NoDivert
    /\ IF tool = "dpkg-statoverride" THEN StatInit ELSE NoStatOverride
    /\ IF tool = "dpkg-split" THEN SplitInit ELSE NoSplit
    /\ IF tool = "compare-versions" THEN Versions!VersionsInit ELSE NoVersions

UpdateAlternatives ==
    /\ tool = "update-alternatives" /\ Alternatives!AltNext
    /\ UNCHANGED <<tool, ssdvars, divertvars, statvars, splitvars, versionvars>>
StartStopDaemon ==
    /\ tool = "start-stop-daemon" /\ SsdNext
    /\ UNCHANGED <<tool, altvars, divertvars, statvars, splitvars, versionvars>>
DpkgDivert ==
    /\ tool = "dpkg-divert" /\ DivertNext
    /\ UNCHANGED <<tool, altvars, ssdvars, statvars, splitvars, versionvars>>
DpkgStatOverride ==
    /\ tool = "dpkg-statoverride" /\ StatNext
    /\ UNCHANGED <<tool, altvars, ssdvars, divertvars, splitvars, versionvars>>
DpkgSplit ==
    /\ tool = "dpkg-split" /\ SplitNext
    /\ UNCHANGED <<tool, altvars, ssdvars, divertvars, statvars, versionvars>>
CompareVersions ==
    /\ tool = "compare-versions" /\ Versions!VersionsNext
    /\ UNCHANGED <<tool, altvars, ssdvars, divertvars, statvars, splitvars>>

Next == UpdateAlternatives \/ StartStopDaemon \/ DpkgDivert \/ DpkgStatOverride
        \/ DpkgSplit \/ CompareVersions

Spec == Init /\ [][Next]_vars

-----------------------------------------------------------------------------
\* After every command of update-alternatives that was not cut short its
\* group is whole (Alternatives!WholeAfterRun): the administrative file, the
\* links and the chosen files agree, whatever was interrupted before.  And no
\* step breaks a link that works while its group has a choice, or destroys a
\* real file at a link without --force (Alternatives!LinksAndFilesStep).
LinksStayWhole ==
    [][tool = "update-alternatives" => Alternatives!LinksAndFilesStep /\ Alternatives!WholeAfterRun']_vars

\* Versions compare in the documented order and read back as they were
\* written (Versions!OrderAsDocumented, Versions!VersionsReadBack).
VersionsAreRight ==
    tool = "compare-versions" => Versions!OrderAsDocumented /\ Versions!VersionsReadBack
=============================================================================
