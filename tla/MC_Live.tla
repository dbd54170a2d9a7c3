------------------------------ MODULE MC_Live ------------------------------
(***************************************************************************)
(* What ends: the queue of packages, the search for dependency cycles, the *)
(* notes of trigger states, the processes of dpkg-deb that unpack or build *)
(* an archive, the stop schedule of start-stop-daemon, and the resolver of *)
(* dselect.  A behaviour runs one of them, which program says; the         *)
(* variables of the others stay unused.                                    *)
(***************************************************************************)
EXTENDS MC_ProcessQueue

CONSTANTS None, NoName

VARIABLES
    program,
    depends, provides, normal, postinst, broken, color, stack, start, result,
    disk, interest, unincorp, supported, mem, tpc, running, fixup, records, half,
    clearing,
    procs, pidfile, opts, ssdpc, code, found, pid, schedule, position, killed,
    anykilled, second, child, notes, sent, late,
    archive, job, dpc, bpc, ar, pos, c2ended, pipe, life, got, symlinks,
    src, buildpc, walk, symlist, pipes, bprocs, missed, temp, deb,
    w, top, sub, loop, dspc, asked, insisted, keys

-----------------------------------------------------------------------------
(* Instances. *)

\* Archives that are whole, cut short, damaged, or followed by something else, of
\* every compression, and members that are missing, doubled or unknown.
Header == [name |-> "debian-binary", comp |-> "none", size |-> 1, body |-> <<"entry">>]
Member(n, comp, s, x) == [name |-> n, comp |-> comp, size |-> s, body |-> x]
Control == Member("control", "xz", 3, <<"entry", "eot", "end">>)
Ar(ms) == [magic |-> "ar", seekable |-> TRUE, odd |-> FALSE, members |-> ms]
Short == Member("data", "gzip", 3, <<"entry", "eot", "end">>)
Whole(comp) == IF comp = "none" THEN <<"sym", "entry", "entry", "eot">>
               ELSE <<"sym", "entry", "long", "entry", "eot", "end">>
Bodies(comp) == {Whole(comp), Whole(comp) \o <<"trail", "trail">>,
                 SubSeq(Whole(comp), 1, 2), <<"entry", "bad", "eot", "end">>}
Datas == UNION {{Member("data", comp, Len(x), x) : x \in Bodies(comp)}
                \cup {Member("data", comp, 5, <<"sym", "entry">>)} :
                comp \in {"none", "gzip", "xz", "zst"}}
Seekable ==
    {Ar(<<Header, Control, x>>) : x \in Datas}
    \cup {Ar(<<Header, Member("_extra", "none", 2, <<"entry">>), Control,
               Member("data", "gzip", 2, <<"eot", "end">>)>>),
          Ar(<<Header, Control, Control, Short>>), Ar(<<Header, Short>>),
          Ar(<<Header, Control>>), Ar(<<Control>>),
          [Ar(<<Header, Control>>) EXCEPT !.odd = TRUE],
          [Ar(<<Control, Short>>) EXCEPT !.magic = "old"],
          [Ar(<<Control>>) EXCEPT !.magic = "junk"],
          Ar(<<Header, Control, Member("data", "bzip2", 1, <<"entry">>)>>)}
MCArchives == Seekable \cup {[x EXCEPT !.seekable = FALSE] : x \in Seekable}

\* Directories to build from, DEBIAN/control always there, and compression options.
DEBIAN == {<<>>, <<0>>, <<0, 1>>}
Shapes == {T \in {DEBIAN \cup S : S \in SUBSET {<<1>>, <<1, 1>>, <<1, 1, 1>>, <<1, 2>>, <<2>>, <<2, 1>>}} :
             \A p \in T : p = <<>> \/ Front(p) \in T}
Kinds(S) ==
    {[p \in S |-> IF \E q \in S : q # <<>> /\ Front(q) = p THEN "dir"
                  ELSE IF p = <<2>> THEN k ELSE IF p = <<1, 1>> THEN l ELSE "file"] :
        k \in {"file", "dir", "newline"}, l \in {"file", "link"}}
Options(type, level, strategy, uniform, format) ==
    [type |-> type, level |-> level, strategy |-> strategy, uniform |-> uniform, format |-> format]
Tree(kind, cf) == [kind |-> kind, conffiles |-> cf, perms |-> TRUE, check |-> TRUE,
                   opts |-> Options("xz", 6, "none", TRUE, 2)]
Empty == Tree([p \in DEBIAN |-> IF p = <<0, 1>> THEN "file" ELSE "dir"], {})
MCTrees ==
    UNION {{Tree(k, {}) : k \in Kinds(S)} : S \in Shapes}
    \cup {Tree(CHOOSE k \in Kinds(DEBIAN \cup {<<1>>}) : TRUE,
               {[path |-> p, remove_on_upgrade |-> r]}) : p \in {<<1>>, <<2>>}, r \in BOOLEAN}
    \cup {[Empty EXCEPT !.opts = Options(type, level, strategy, uniform, format)] :
            type \in {"none", "gzip", "bzip2", "zst"}, level \in {0, 12},
            strategy \in {"none", "rle"}, uniform \in BOOLEAN, format \in {0, 2}}

\* What dselect finds: dependencies, conflicts, virtual packages, upgrades, cycles.
Need(e, n) == [ed |-> e, need |-> n]
On(p, bin, type, l) == [up |-> p, bin |-> bin, type |-> type, list |-> l]
Reals == {"a", "b", "c"}
All(x) == [p \in Reals |-> x]
World(status, want, old, new, deps) ==
    [status |-> status, want |-> want, old |-> old, new |-> new, deps |-> deps,
     prio |-> All(1), jump |-> {}, reinstreq |-> {}]
NewWorld(deps) == World(All("notinstalled"), All("purge"), All(0), All(1), deps)
MCDsWorlds ==
    {NewWorld(<<On("a", "new", "depends", <<Need("b", 0)>>),
                On("c", "new", "conflicts", <<Need("b", 0)>>)>>),
     NewWorld(<<On("a", "new", "depends", <<Need("b", 0), Need("v", 0)>>),
                On("c", "new", "provides", <<Need("v", 0)>>),
                On("b", "new", "conflicts", <<Need("v", 0)>>),
                On("b", "new", "recommends", <<Need("c", 0)>>)>>),
     World([All("installed") EXCEPT !["c"] = "notinstalled"],
           [All("install") EXCEPT !["c"] = "purge"], [All(1) EXCEPT !["c"] = 0], All(2),
           <<On("a", "old", "depends", <<Need("b", 1)>>),
             On("a", "new", "depends", <<Need("b", 2)>>),
             On("c", "new", "breaks", <<Need("b", 0)>>),
             On("c", "new", "suggests", <<Need("x", 0)>>)>>),
     NewWorld(<<On("a", "new", "depends", <<Need("b", 0)>>),
                On("b", "new", "depends", <<Need("c", 0)>>),
                On("c", "new", "conflicts", <<Need("a", 0)>>),
                On("b", "new", "depends", <<Need("x", 0), Need("c", 2)>>)>>),
     [World([All("notinstalled") EXCEPT !["b"] = "installed"],
            [All("purge") EXCEPT !["b"] = "hold"], [All(0) EXCEPT !["b"] = 1],
            [All(1) EXCEPT !["b"] = 2],
            <<On("a", "new", "depends", <<Need("b", 2)>>),
              On("c", "new", "enhances", <<Need("a", 0)>>),
              On("c", "new", "depends", <<Need("a", 0)>>)>>) EXCEPT !.jump = {"b"}]}

Search == INSTANCE DepCycle WITH
    MayDepend <- {<<a, b>>, <<a, c>>, <<b, a>>, <<b, v>>, <<c, a>>},
    MayProvide <- {<<c, v>>}, MayBeNormal <- {}, cyclebreak <- broken
Trig == INSTANCE Triggers WITH Pkgs <- {a, b}, Trigs <- {t}, pc <- tpc
Ssd == INSTANCE StartStop WITH
    Pids <- {1, 2}, MaxNotes <- 2, Matches <- {{}, {"exec"}},
    Schedules <- {<<>>, <<"1">>, <<"TERM", "1">>, <<"TERM", "forever", "KILL", "1">>}
Extract == INSTANCE DebExtract WITH
    Archives <- MCArchives, Jobs <- {"extract", "raw", "unpack"}, PipeSize <- 2
Build == INSTANCE DebBuild WITH Trees <- MCTrees, PipeRoom <- 2, procs <- bprocs
Select == INSTANCE Dselect WITH DsWorlds <- MCDsWorlds, MaxKeys <- 2

searchvars == <<depends, provides, normal, postinst, broken, color, stack, start, result>>
trigvars == <<disk, interest, unincorp, supported, mem, tpc, running, fixup, records,
              half, clearing>>
ssdvars == <<procs, pidfile, opts, ssdpc, code, found, pid, schedule, position, killed,
             anykilled, second, child, notes, sent, late>>
debvars == <<archive, job, dpc, bpc, ar, pos, c2ended, pipe, life, got, symlinks>>
buildvars == <<src, buildpc, walk, symlist, pipes, bprocs, missed, temp, deb>>
dsvars == <<w, top, sub, loop, dspc, asked, insisted, keys>>
livevars == <<program, vars, searchvars, trigvars, ssdvars, debvars, buildvars, dsvars>>

Unused == "unused"
NoQueue ==
    /\ sys = Unused /\ db = Unused /\ queue = Unused /\ deferred = Unused
    /\ istobe = Unused /\ cyclebreak = Unused /\ dependtry = Unused
    /\ sincenothing = Unused /\ progress = Unused /\ trace = Unused /\ advance = Unused
    /\ pc = Unused /\ cur = Unused /\ rok = Unused /\ checks = Unused /\ nerrs = Unused
    /\ failed = Unused /\ stuck = Unused
NoSearch ==
    /\ depends = Unused /\ provides = Unused /\ normal = Unused /\ postinst = Unused
    /\ broken = Unused /\ color = Unused /\ stack = Unused /\ start = Unused
    /\ result = Unused
NoTrig ==
    /\ disk = Unused /\ interest = Unused /\ unincorp = Unused /\ supported = Unused
    /\ mem = Unused /\ tpc = Unused /\ running = Unused /\ fixup = Unused
    /\ records = Unused /\ half = Unused /\ clearing = Unused
NoSsd ==
    /\ procs = Unused /\ pidfile = Unused /\ opts = Unused /\ ssdpc = Unused
    /\ code = Unused /\ found = Unused /\ pid = Unused /\ schedule = Unused
    /\ position = Unused /\ killed = Unused /\ anykilled = Unused /\ second = Unused
    /\ child = Unused /\ notes = Unused /\ sent = Unused /\ late = Unused
NoExtract ==
    /\ archive = Unused /\ job = Unused /\ dpc = Unused /\ bpc = Unused /\ ar = Unused
    /\ pos = Unused /\ c2ended = Unused /\ pipe = Unused /\ life = Unused
    /\ got = Unused /\ symlinks = Unused
NoBuild ==
    /\ src = Unused /\ buildpc = Unused /\ walk = Unused /\ symlist = Unused
    /\ pipes = Unused /\ bprocs = Unused /\ missed = Unused /\ temp = Unused
    /\ deb = Unused
NoSelect ==
    /\ w = Unused /\ top = Unused /\ sub = Unused /\ loop = Unused /\ dspc = Unused
    /\ asked = Unused /\ insisted = Unused /\ keys = Unused

-----------------------------------------------------------------------------
Programs == {"process_queue", "findbreakcycle", "triggers", "start-stop-daemon",
             "extracthalf", "do_build", "dselect"}

LiveInit ==
    /\ program \in Programs
    /\ IF program = "process_queue" THEN Init ELSE NoQueue
    /\ IF program = "findbreakcycle" THEN Search!Init ELSE NoSearch
    /\ IF program = "triggers" THEN Trig!Init ELSE NoTrig
    /\ IF program = "start-stop-daemon" THEN Ssd!SsdInit ELSE NoSsd
    /\ IF program = "extracthalf" THEN Extract!DebInit ELSE NoExtract
    /\ IF program = "do_build" THEN Build!BuildInit ELSE NoBuild
    /\ IF program = "dselect" THEN Select!DsInit ELSE NoSelect

\* A step of one program leaves the variables of the others alone.
Queueing(Action) ==
    /\ program = "process_queue" /\ Action
    /\ UNCHANGED <<program, searchvars, trigvars, ssdvars, debvars, buildvars, dsvars>>
Searching(Action) ==
    /\ program = "findbreakcycle" /\ Action
    /\ UNCHANGED <<program, vars, trigvars, ssdvars, debvars, buildvars, dsvars>>
Noting(Action) ==
    /\ program = "triggers" /\ Action
    /\ UNCHANGED <<program, vars, searchvars, ssdvars, debvars, buildvars, dsvars>>
Stopping(Action) ==
    /\ program = "start-stop-daemon" /\ Action
    /\ UNCHANGED <<program, vars, searchvars, trigvars, debvars, buildvars, dsvars>>
Extracting(Action) ==
    /\ program = "extracthalf" /\ Action
    /\ UNCHANGED <<program, vars, searchvars, trigvars, ssdvars, buildvars, dsvars>>
Building(Action) ==
    /\ program = "do_build" /\ Action
    /\ UNCHANGED <<program, vars, searchvars, trigvars, ssdvars, debvars, dsvars>>
Selecting(Action) ==
    /\ program = "dselect" /\ Action
    /\ UNCHANGED <<program, vars, searchvars, trigvars, ssdvars, debvars, buildvars>>

LiveNext ==
    \/ Queueing(Next) \/ Searching(Search!Next) \/ Noting(Trig!Next)
    \/ Stopping(Ssd!SsdNext) \/ Extracting(Extract!DebNext)
    \/ Building(Build!BuildNext) \/ Selecting(Select!DsNext)

\* The fairness of each component's specification.
LiveFairness ==
    /\ WF_livevars(Queueing(Next))
    /\ WF_livevars(Searching(Search!Search))
    /\ WF_livevars(Noting(Trig!Continue))
    /\ WF_livevars(Stopping(Ssd!SsdSteps)) /\ WF_livevars(Stopping(Ssd!Clock))
    /\ WF_livevars(Extracting(Extract!Backend))
    /\ WF_livevars(Extracting(Extract!Reader))
    /\ WF_livevars(Extracting(Extract!paste))
    /\ WF_livevars(Extracting(Extract!decompress_filter))
    /\ WF_livevars(Extracting(Extract!tar))
    /\ WF_livevars(Building(Build!Builder))
    /\ WF_livevars(Building(Build!tar_packs))
    /\ WF_livevars(Building(Build!compress_filter))
    /\ WF_livevars(Selecting(Select!Resolver))

LiveSpec == LiveInit /\ [][LiveNext]_livevars /\ LiveFairness

-----------------------------------------------------------------------------
\* An archive that dpkg-deb has built, or that dpkg has accepted, is whole
\* (DebBuild!BuiltIsWhole, DebExtract!AcceptedIsWhole): what the exit statuses
\* of the processes and the sizes in the headers say is all that is known.
ArchivesAreWhole ==
    /\ program = "extracthalf" => Extract!AcceptedIsWhole
    /\ program = "do_build" => Build!BuiltIsWhole

\* dselect leaves its main list with a selection whose dependencies hold,
\* unless the user insisted (Dselect!SavedIsConsistent).
SavedIsConsistent == program = "dselect" => Select!SavedIsConsistent

\* Where a program has nothing left to do that only takes its own steps.
Quiet ==
    /\ program = "process_queue" => pc \in {"done", "internerr"}
    /\ program = "findbreakcycle" => stack = <<>>
    /\ program = "triggers" => tpc \in {"down", "work", "postinst"} /\ clearing = <<>>
    /\ program = "start-stop-daemon" => ~Ssd!Working \/ ssdpc = "exit"
    /\ program = "extracthalf" => Extract!Finished
    /\ program = "do_build" => Build!Finished
    /\ program = "dselect" => dspc # "resolve"

\* Whatever a program has begun it ends: packages that wait for one another and
\* triggers that activate one another do not keep process_queue() busy, nor a cycle
\* findbreakcycle(); releasing awaiters, fixing up and incorporating come to an end; however the processes of dpkg-deb fail,
\* nobody waits for ever at a pipe; a stop schedule ends unless it says forever; and
\* the suggestions of dselect's resolver do not undo one another for ever.
EverythingEnds == []<>Quiet
=============================================================================
