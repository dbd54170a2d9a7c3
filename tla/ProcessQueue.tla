---------------------------- MODULE ProcessQueue ----------------------------
(***************************************************************************)
(* The heart of dpkg --configure, --triggers-only, --remove and --purge,   *)
(* and of the second half of --install: process_queue() of packages.c      *)
(* takes packages from a queue, and deferred_configure(), trigproc() or    *)
(* deferred_remove() deals with one or puts it back until the packages it  *)
(* depends on (or that depend on it) have had their turn.  When nothing    *)
(* moves any more, dependtry goes up: dependency cycles are broken, then   *)
(* triggers are processed to help, then dependencies are forced.           *)
(* trigproc_run_deferred() ends the run.                                   *)
(*                                                                         *)
(* dpkg is one thread; a step is the handling of one package.  What crashes*)
(* can do is the subject of StatusDb and Triggers: here notes are atomic.  *)
(***************************************************************************)
EXTENDS DepGraph, PkgStatus, SequencesExt

CONSTANTS
    Trigs,      \* trigger names
    NoPkg,      \* no package
    Rank,       \* the order in which pkg_hash_iter_next_pkg() finds packages
    ErrAbort,   \* --abort-after: how many errors dpkg bears
    Worlds      \* the systems and commands to start from, see Init

ASSUME NoPkgAssumption == NoPkg \notin Names
ASSUME RankAssumption == /\ Rank \in [Pkgs -> Nat]
                         /\ \A p, q \in Pkgs : Rank[p] = Rank[q] => p = q
ASSUME ErrAbortAssumption == ErrAbort \in Nat \ {0}

Pkginfo == [status : Status, trigpend : SUBSET Trigs, trigaw : SUBSET Pkgs]

(* What pkg_parse_verify() demands of a package it has read.               *)
Coherent(r) ==
    /\ r.trigaw # {} => r.status \in HALFINSTALLED .. TRIGGERSAWAITED
    /\ r.status = TRIGGERSAWAITED => r.trigaw # {}
    /\ r.trigpend # {} => r.status \in {TRIGGERSAWAITED, TRIGGERSPENDING}
    /\ r.status = TRIGGERSPENDING => r.trigpend # {}

ASSUME PkgsAssumption == IsFiniteSet(Pkgs)
ASSUME WorldsAssumption ==
    \A w \in Worlds :
        /\ w.sys.action \in {"configure", "install", "triggers", "remove", "purge"}
        /\ w.sys.args \in Seq(Pkgs)
        /\ w.sys.depends \in [Pkgs -> Seq(Seq(Names))]
        /\ w.db \in [Pkgs -> Pkginfo]
        /\ \A p \in Pkgs : Coherent(w.db[p])

(* enum dependtry                                                          *)
DEPEND_TRY_NORMAL                == 1
DEPEND_TRY_CYCLES                == 2
DEPEND_TRY_TRIGGERS              == 3
DEPEND_TRY_TRIGGERS_CYCLES       == 4
DEPEND_TRY_FORCE_DEPENDS_VERSION == 5
DEPEND_TRY_FORCE_DEPENDS         == 6
DEPEND_TRY_LAST                  == 7

VARIABLES
    sys,           \* the command line and what packages declare; never changes
    db,            \* status, pending and awaited triggers of every package
    queue,         \* packages to be handled
    deferred,      \* packages whose triggers are to be processed at the end
    istobe,        \* what is to become of a package
    cyclebreak,    \* dependencies that findbreakcycle() has broken
    dependtry,     \* how hard dpkg tries
    sincenothing,  \* packages handled since something was achieved
    progress,      \* progress_bytrigproc
    trace,         \* pending triggers at each trigproc(), from tortoise to hare
    advance,       \* tortoise_advance
    pc,            \* what is being done to the current package
    cur,           \* the current package
    rok,           \* what checkforremoval() has found so far
    checks,        \* dependencies that checkforremoval() has still to look at
    nerrs,         \* number of errors
    failed,        \* the errors: <<package, reason>>
    stuck          \* cleanup_pkg_failed: an error in a clean-up

vars == <<sys, db, queue, deferred, istobe, cyclebreak, dependtry, sincenothing, progress,
          trace, advance, pc, cur, rok, checks, nerrs, failed, stuck>>

cycles  == <<trace, advance>>
errors  == <<nerrs, failed>>
removal == <<rok, checks, stuck>>

(* pkg_hash_iter_next_pkg()                                                *)
InOrder(S) == SetToSortSeq(S, LAMBDA p, q : Rank[p] < Rank[q])

(***************************************************************************)
(* sys is a record of                                                      *)
(*   action     the command, args: the packages that it is about;          *)
(*   force      the --force options, ignore: the --ignore-depends packages;*)
(*   triggers   FALSE for --no-triggers;                                   *)
(*   depends    for each package its dependencies, a sequence of sequences *)
(*              of alternatives;                                           *)
(*   provides   who provides what;                                         *)
(*   wrong      <<p, n, q>>: q is (or provides) n in a version that p does *)
(*              not want;                                                  *)
(*   breaks     <<p, q>>: p breaks q;                                      *)
(*   held       packages on hold, reinstreq: packages to be reinstalled;   *)
(*   conffiles  packages that leave conffiles or a postrm when removed;    *)
(*   essential  packages that are essential or protected;                  *)
(*   interest   who is interested in a trigger, noawait: triggers nobody   *)
(*              awaits;                                                    *)
(*   activates  the triggers that a package declares to activate, and      *)
(*   scripts    those that its maintainer scripts activate.                *)
(***************************************************************************)
Init ==
    \E w \in Worlds :
        /\ sys = w.sys
        /\ db = w.db
        /\ queue = w.sys.args
        /\ deferred = IF w.sys.action = "configure" /\ w.sys.triggers
                      THEN InOrder({p \in Pkgs : w.db[p].trigpend # {}}) ELSE <<>>
        /\ istobe = [p \in Pkgs |-> IF p \notin ToSet(w.sys.args) THEN "normal"
                                    ELSE IF w.sys.action \in {"remove", "purge"} THEN "remove"
                                    ELSE "installnew"]
        /\ cyclebreak = {}
        /\ dependtry = DEPEND_TRY_NORMAL
        /\ sincenothing = 0
        /\ progress = NoPkg
        /\ trace = <<>>
        /\ advance = FALSE
        /\ pc = "queue"
        /\ cur = NoPkg
        /\ rok = "ok"
        /\ checks = {}
        /\ nerrs = 0
        /\ failed = {}
        /\ stuck = FALSE

Forced(f) == f \in sys.force

(* enqueue_package() and trigproc_enqueue_deferred()                       *)
Enqueue(q, p)    == IF Contains(q, p) THEN q ELSE Append(q, p)
EnqueueAll(q, s) == FoldLeft(Enqueue, q, s)

-----------------------------------------------------------------------------
(***************************************************************************)
(* dependencies_ok(p, r): can p be configured or have its triggers         *)
(* processed now, or do without r, which is to be removed (or NoPkg)?  cb  *)
(* are the broken dependencies.                                            *)
(***************************************************************************)
NONE   == 0
DEFER  == 1
FORCED == 2
OK     == 3

ForcedOnLate(try) == IF dependtry >= try THEN FORCED ELSE NONE    \* fault: does not wait for force
ForcedOn(try) == IF dependtry >= try THEN FORCED ELSE DEFER

(* The packages that the alternatives of a dependency lead to, and the     *)
(* order in which they are looked at.                                      *)
Providers(n) == {q \in Pkgs : <<q, n>> \in sys.provides}

Candidates(alternatives) ==
    UNION {{[alt |-> i, name |-> alternatives[i], pkg |-> q, provider |-> q # alternatives[i]] :
               q \in {q \in Pkgs : q = alternatives[i] \/ q \in Providers(alternatives[i])}} :
           i \in DOMAIN alternatives}

Before(c, d) ==
    \/ c.alt < d.alt
    \/ c.alt = d.alt /\ d.provider /\ (c.provider => Rank[c.pkg] < Rank[d.pkg])

(* deppossi_ok_found(): a candidate c is what p needs, ...                 *)
Present(r, c) == c.pkg # r /\ db[c.pkg].status >= UNPACKED
Wrong(p, c)   == <<p, c.name, c.pkg>> \in sys.wrong
Right(p, r, c) == c.pkg \notin sys.ignore /\ Present(r, c) /\ ~Wrong(p, c)

SatisfiesUnpacked(p, r, c) ==    \* fault: unpacked is enough
    c.pkg \in sys.ignore \/ Right(p, r, c)

Satisfies(p, r, c) ==
    \/ c.pkg \in sys.ignore
    \/ Right(p, r, c) /\ db[c.pkg].status \in {INSTALLED, TRIGGERSPENDING}

(* ... or will be when triggers have been processed, ...                   *)
HelpedByTriggers(p, r, c) == Right(p, r, c) /\ db[c.pkg].status = TRIGGERSAWAITED /\ r = NoPkg

(* ... or when it has been configured, which --force-configure-any sees to *)
(* if nobody else does.                                                    *)
Unconfigured(p, r, c) == Right(p, r, c) /\ db[c.pkg].status \in {UNPACKED, HALFCONFIGURED}

AlsoConfigures(p, r, c) ==
    /\ Unconfigured(p, r, c)
    /\ istobe[c.pkg] # "installnew"
    /\ r = NoPkg
    /\ Forced("configure-any")
    /\ c.pkg \notin sys.held
    /\ db[c.pkg].status # HALFCONFIGURED

MayYetUnasked(p, r, c) ==    \* fault: does not look at istobe
    HelpedByTriggers(p, r, c) \/ AlsoConfigures(p, r, c)

MayYet(p, r, c) ==
    \/ HelpedByTriggers(p, r, c)
    \/ Unconfigured(p, r, c) /\ istobe[c.pkg] = "installnew"
    \/ AlsoConfigures(p, r, c)

DeppossiOkFound(p, r, c) ==
    IF Satisfies(p, r, c) THEN OK
    ELSE IF MayYet(p, r, c) THEN DEFER
    ELSE IF Present(r, c) /\ Wrong(p, c) /\ Forced("depends-version")
         THEN ForcedOn(DEPEND_TRY_FORCE_DEPENDS_VERSION)
    ELSE NONE

(* A package may itself provide what it depends on.                        *)
OkFound(p, r, c) ==
    LET found == DeppossiOkFound(p, r, c) IN
    IF found = DEFER /\ c.provider /\ c.pkg = p /\ r = NoPkg THEN OK ELSE found

(* One dependency: candidates are tried up to the first that is good, or   *)
(* up to an alternative that was broken.                                   *)
Group(p, r, pos, cb) ==
    LET alternatives == sys.depends[p][pos]
        all    == Candidates(alternatives)
        broken == {i \in DOMAIN alternatives : <<p, alternatives[i]>> \in cb}
        good   == {c \in all : OkFound(p, r, c) = OK}
        tried  == {c \in all : (\A i \in broken : c.alt < i) /\ (\A d \in good : ~Before(d, c))}
        helped == {c \in tried : HelpedByTriggers(p, r, c)}
    IN  [pos     |-> pos,
         found   |-> Max({NONE}
                         \cup (IF broken # {} THEN {OK} ELSE {})
                         \cup (IF Forced("depends") THEN {ForcedOn(DEPEND_TRY_FORCE_DEPENDS)} ELSE {})
                         \cup {OkFound(p, r, c) : c \in tried}),
         matched |-> \E c \in tried : c.pkg = r /\ r \notin sys.ignore,
         awaited |-> UNION {db[c.pkg].trigaw : c \in {c \in helped : \A d \in helped : ~Before(c, d)}},
         also    |-> {c.pkg : c \in {c \in tried : AlsoConfigures(p, r, c)}}]

(* All of them, with the packages whose trigger processing may help (one   *)
(* that is awaited in the last dependency that waits), and the packages    *)
(* that are put on the queue, in the order of the dependencies.            *)
DependenciesOk(p, r, cb) ==
    LET groups == {Group(p, r, i, cb) : i \in DOMAIN sys.depends[p]}
        count  == {g \in groups : r # NoPkg => g.matched}
        halt   == \E g \in count : g.found = NONE
        wait   == {g \in count : g.found = DEFER}
        byfix  == ~halt /\ wait # {} /\ \A g \in wait : g.awaited # {}
        last   == CHOOSE g \in wait : \A h \in wait : h.pos <= g.pos
        also   == UNION {g.also : g \in groups}
    IN  {[ok         |-> IF halt THEN IF istobe[p] = "remove" THEN "defer" ELSE "halt"
                         ELSE IF wait # {} THEN "defer" ELSE "ok",
          progress   |-> fix,
          also       |-> new,
          since      |-> IF cb # cyclebreak \/ also # {} THEN 0 ELSE sincenothing,
          cyclebreak |-> cb] :
             fix \in IF byfix THEN last.awaited ELSE {progress},
             new \in SetToSeqs(also \ ToSet(queue))}

(* breakses_ok()                                                           *)
BreaksesOk(p) ==
    \/ Forced("breaks")
    \/ \A q \in Pkgs \ {p} :
           <<q, p>> \in sys.breaks => db[q].status <= CONFIGFILES \/ q \in sys.ignore

(***************************************************************************)
(* findbreakcycle(p), which DepCycle models: the broken dependencies after *)
(* it.                                                                     *)
(***************************************************************************)
Declared ==
    UNION {UNION {{<<p, sys.depends[p][i][j]>> : j \in DOMAIN sys.depends[p][i]} :
                     i \in DOMAIN sys.depends[p]} : p \in Pkgs}

AllDepends == {l \in Declared : db[l[1]].status # NOTINSTALLED}

LeadsNoProviders == [n \in Names |-> {q \in Pkgs : q = n}]    \* fault: providers are left out

Leads == [n \in Names |-> {q \in Pkgs : q = n \/ (q \in Providers(n) /\ istobe[q] # "normal")}]

FindBreakCycle(p) ==
    LET onCycle == OnCycle(Edges(AllDepends \ cyclebreak, Leads), p) IN
    IF dependtry < DEPEND_TRY_CYCLES \/ onCycle = {} THEN {cyclebreak}
    ELSE {cyclebreak \cup {e[1]} : e \in onCycle}

-----------------------------------------------------------------------------
(***************************************************************************)
(* The effects on the database d of modstatdb_note() and of activating     *)
(* triggers, which Triggers models step by step.                           *)
(***************************************************************************)
Release(d, q) ==
    IF d[q].trigpend # {} THEN d
    ELSE [p \in Pkgs |->
             LET aw == d[p].trigaw \ {q} IN
             IF q \notin d[p].trigaw THEN d[p]
             ELSE [d[p] EXCEPT !.trigaw = aw,
                               !.status = IF aw # {} \/ @ # TRIGGERSAWAITED THEN @
                                          ELSE IF d[p].trigpend # {} THEN TRIGGERSPENDING
                                          ELSE INSTALLED]]

Note(d, p, s) ==
    Release([d EXCEPT ![p] =
                [status   |-> s,
                 trigpend |-> IF s \in {TRIGGERSAWAITED, TRIGGERSPENDING} THEN @.trigpend ELSE {},
                 trigaw   |-> IF s <= CONFIGFILES THEN {} ELSE @.trigaw]], p)

(* Package p activates the triggers T; the packages that get them.         *)
Activated(d, T) ==
    {q \in Pkgs : d[q].status >= TRIGGERSAWAITED /\ \E t \in T : q \in sys.interest[t]}

Activate(d, p, T) ==
    LET pend == [q \in Pkgs |->
                    IF q \notin Activated(d, T) THEN d[q]
                    ELSE [d[q] EXCEPT !.trigpend = @ \cup {t \in T : q \in sys.interest[t]},
                                      !.status = IF d[q].trigaw # {} THEN TRIGGERSAWAITED
                                                 ELSE TRIGGERSPENDING]]
        aw   == IF d[p].status <= CONFIGFILES THEN {}
                ELSE d[p].trigaw \cup Activated(d, T \ sys.noawait)
    IN  [pend EXCEPT ![p] = [pend[p] EXCEPT !.trigaw = aw,
                                             !.status = IF aw # {} /\ @ > TRIGGERSAWAITED
                                                        THEN TRIGGERSAWAITED ELSE @]]

Defer(q, d, T) == IF sys.triggers THEN EnqueueAll(q, InOrder(Activated(d, T))) ELSE q

(* post_postinst_tasks(): the status that a configured package gets.       *)
Configured(r) ==
    IF r.trigaw # {} THEN TRIGGERSAWAITED
    ELSE IF r.trigpend # {} THEN TRIGGERSPENDING
    ELSE INSTALLED

(* A postinst of the half-configured package p succeeds or fails.          *)
Postinst(d, p, success) == IF success THEN Note(d, p, Configured(d[p])) ELSE d

(***************************************************************************)
(* check_trigger_cycle(): the hare is what is pending now; every other     *)
(* time the tortoise follows.  If nothing that was pending for the         *)
(* tortoise has been done, one of the packages is given up.                *)
(***************************************************************************)
Pending == [q \in Pkgs |-> db[q].trigpend]

Steps(moves) == IF moves THEN Tail(Append(trace, Pending)) ELSE Append(trace, Pending)

NoProgress(tortoise) == \A q \in Pkgs : tortoise[q] \subseteq Pending[q]

(* The list of packages is built from its end.                             *)
GiveUp(tortoise) ==
    CHOOSE p \in Pkgs : /\ tortoise[p] # {}
                        /\ \A q \in Pkgs : tortoise[q] # {} => Rank[q] <= Rank[p]

CheckTriggerCycleForgets ==    \* fault: starts anew each time
    [trace |-> <<Pending>>, advance |-> advance, gaveup |-> NoPkg]

CheckTriggerCycle ==
    IF trace = <<>>
    THEN [trace |-> <<Pending>>, advance |-> advance, gaveup |-> NoPkg]
    ELSE LET steps == Steps(advance) IN
         [trace   |-> steps,
          advance |-> ~advance,
          gaveup  |-> IF NoProgress(Head(steps)) THEN GiveUp(Head(steps)) ELSE NoPkg]

(* What remains when a package has been given up.                          *)
DbAfter(g)     == IF g = NoPkg THEN db ELSE Note(db, g, HALFCONFIGURED)
IstobeAfter(g) == IF g = NoPkg THEN istobe ELSE [istobe EXCEPT ![g] = "normal"]
FailedAfter(g) == IF g = NoPkg THEN failed ELSE failed \cup {<<g, "loop">>}
NerrsAfter(g)  == IF g = NoPkg THEN nerrs ELSE nerrs + 1

-----------------------------------------------------------------------------
(***************************************************************************)
(* process_queue(): take a package from the queue.  If too many packages   *)
(* have been handled for nothing, either process the triggers that would   *)
(* help, or try harder.                                                    *)
(***************************************************************************)
Handler(p, action) ==
    IF action \in {"remove", "purge"} THEN "remove"
    ELSE IF action = "triggers" /\ db[p].trigpend = {} THEN "notready"
    ELSE IF action \in {"install", "triggers"} /\ db[p].status = NOTINSTALLED THEN "skip"
    ELSE IF db[p].trigpend # {} THEN "trigproc" ELSE "configure"

Pop ==
    LET p     == Head(queue)
        rest  == Tail(queue)
        stop  == sincenothing > Len(rest) * 3 + 2
        stale == sincenothing + 1 > Len(rest) * 2 + 2
        byfix == /\ ~stop /\ stale
                 /\ dependtry >= DEPEND_TRY_TRIGGERS
                 /\ progress # NoPkg
                 /\ db[progress].trigpend # {}
        up    == stop \/ (stale /\ ~byfix)
    IN
    /\ pc = "queue"
    /\ queue # <<>>
    /\ queue' = IF byfix THEN Append(rest, p) ELSE rest
    /\ cur' = IF byfix THEN progress ELSE p
    /\ progress' = IF byfix THEN NoPkg ELSE progress
    /\ dependtry' = IF up THEN dependtry + 1 ELSE dependtry
    /\ sincenothing' = IF up THEN 0 ELSE sincenothing + 1
    /\ pc' = IF dependtry' >= DEPEND_TRY_LAST THEN "internerr"
             ELSE Handler(cur', IF byfix THEN "configure" ELSE sys.action)
    /\ UNCHANGED <<sys, db, deferred, istobe, cyclebreak, cycles, removal, errors>>

QueueDone ==
    /\ pc = "queue"
    /\ queue = <<>>
    /\ pc' = "deferred"
    /\ UNCHANGED <<sys, db, queue, deferred, istobe, cyclebreak, dependtry, sincenothing,
                   progress, cycles, cur, removal, errors>>

(* trigproc_run_deferred()                                                 *)
PopDeferred ==
    /\ pc = "deferred"
    /\ deferred # <<>>
    /\ cur' = Head(deferred)
    /\ deferred' = Tail(deferred)
    /\ pc' = "trigprocDeferred"
    /\ UNCHANGED <<sys, db, queue, istobe, cyclebreak, dependtry, sincenothing, progress,
                   cycles, removal, errors>>

DeferredDone ==
    /\ pc = "deferred"
    /\ deferred = <<>>
    /\ pc' = "done"
    /\ UNCHANGED <<sys, db, queue, deferred, istobe, cyclebreak, dependtry, sincenothing,
                   progress, cycles, cur, removal, errors>>

(* The handling of the current package is over, ...                        *)
Return ==
    /\ pc' = IF pc = "trigprocDeferred" THEN "deferred" ELSE "queue"
    /\ cur' = NoPkg

(* ... or was left by an error, after package g has been given up.         *)
ReturnError(why, g) ==
    /\ nerrs' = NerrsAfter(g) + 1
    /\ failed' = FailedAfter(g) \cup {<<cur, why>>}
    /\ cur' = NoPkg
    /\ IF pc = "trigprocDeferred"
       THEN pc' = "deferred" /\ istobe' = IstobeAfter(g)
       ELSE /\ pc' = IF nerrs' >= ErrAbort THEN "deferred" ELSE "queue"
            /\ istobe' = [IstobeAfter(g) EXCEPT ![cur] = "normal"]

(* A package that disappeared while another one was unpacked.              *)
Skip ==
    /\ pc = "skip"
    /\ Return
    /\ UNCHANGED <<sys, db, queue, deferred, istobe, cyclebreak, dependtry, sincenothing,
                   progress, cycles, removal, errors>>

NotReady ==
    /\ pc = "notready"
    /\ ReturnError("refused", NoPkg)
    /\ UNCHANGED <<sys, db, queue, deferred, cyclebreak, dependtry, sincenothing, progress,
                   cycles, removal>>

-----------------------------------------------------------------------------
(***************************************************************************)
(* deferred_configure()                                                    *)
(***************************************************************************)
Configurable == pc = "configure" /\ db[cur].status \in {UNPACKED, HALFCONFIGURED}

(* dependencies_ok(p, r) after findbreakcycle() for the current package.   *)
Checks(p, r) == UNION {DependenciesOk(p, r, cb) : cb \in FindBreakCycle(cur)}

ConfigureRefused ==
    /\ pc = "configure"
    /\ ~Configurable
    /\ ReturnError("refused", NoPkg)
    /\ UNCHANGED <<sys, db, queue, deferred, cyclebreak, dependtry, sincenothing, progress,
                   cycles, removal>>

ConfigureDeferForgets(c) ==    \* fault: not put back on the queue
    /\ Configurable
    /\ c.ok = "defer"
    /\ cyclebreak' = c.cyclebreak
    /\ progress' = c.progress
    /\ sincenothing' = c.since
    /\ istobe' = [istobe EXCEPT ![cur] = "installnew"]
    /\ queue' = queue \o c.also
    /\ Return
    /\ UNCHANGED <<sys, db, deferred, dependtry, cycles, removal, errors>>

ConfigureDefer(c) ==
    /\ Configurable
    /\ c.ok = "defer"
    /\ cyclebreak' = c.cyclebreak
    /\ progress' = c.progress
    /\ sincenothing' = c.since
    /\ istobe' = [istobe EXCEPT ![cur] = "installnew"]
    /\ queue' = Enqueue(queue \o c.also, cur)
    /\ Return
    /\ UNCHANGED <<sys, db, deferred, dependtry, cycles, removal, errors>>

Reinstall(p) == p \in sys.reinstreq /\ ~Forced("remove-reinstreq")

ConfigureHalt(c) ==
    /\ Configurable
    /\ c.ok = "halt" \/ (c.ok = "ok" /\ (~BreaksesOk(cur) \/ Reinstall(cur)))
    /\ cyclebreak' = c.cyclebreak
    /\ sincenothing' = 0
    /\ queue' = queue \o c.also
    /\ trace' = <<>>
    /\ advance' = FALSE
    /\ ReturnError(IF c.ok = "ok" /\ BreaksesOk(cur) THEN "refused" ELSE "depends", NoPkg)
    /\ UNCHANGED <<sys, db, deferred, dependtry, progress, removal>>

(* The conffiles may cause an error, then the postinst.                    *)
ConfigureRun(c, outcome) ==
    LET started == Activate(db, cur, sys.activates[cur])
        ran     == Postinst(Note(started, cur, HALFCONFIGURED), cur, outcome = "success")
        told    == Defer(deferred, db, sys.activates[cur])
    IN
    /\ Configurable
    /\ c.ok = "ok" /\ BreaksesOk(cur) /\ ~Reinstall(cur)
    /\ outcome = "conffiles" => db[cur].status = UNPACKED
    /\ cyclebreak' = c.cyclebreak
    /\ sincenothing' = 0
    /\ queue' = queue \o c.also
    /\ trace' = <<>>
    /\ advance' = FALSE
    /\ IF outcome = "conffiles"
       THEN db' = started /\ deferred' = told
       ELSE /\ db' = Activate(ran, cur, sys.scripts[cur])
            /\ deferred' = Defer(told, ran, sys.scripts[cur])
    /\ IF outcome = "success"
       THEN Return /\ UNCHANGED <<errors, istobe>>
       ELSE ReturnError("script", NoPkg)
    /\ UNCHANGED <<sys, dependtry, progress, removal>>

-----------------------------------------------------------------------------
(***************************************************************************)
(* trigproc(): from the queue, or deferred at the end of the run.          *)
(***************************************************************************)
InTrigproc == pc \in {"trigproc", "trigprocDeferred"}
HasWork    == InTrigproc /\ db[cur].trigpend # {}
Tries      == HasWork /\ (pc = "trigprocDeferred" \/ dependtry >= DEPEND_TRY_TRIGGERS)

Undeferred == Remove(deferred, cur)

TrigprocNothing ==
    /\ InTrigproc
    /\ ~HasWork
    /\ db' = Release(db, cur)
    /\ deferred' = Undeferred
    /\ Return
    /\ UNCHANGED <<sys, queue, istobe, cyclebreak, dependtry, sincenothing, progress, cycles,
                   removal, errors>>

TrigprocLater ==
    /\ HasWork
    /\ ~Tries
    /\ queue' = Enqueue(queue, cur)
    /\ deferred' = Undeferred
    /\ Return
    /\ UNCHANGED <<sys, db, istobe, cyclebreak, dependtry, sincenothing, progress, cycles,
                   removal, errors>>

TrigprocDefer(c) ==
    LET k   == IF dependtry >= DEPEND_TRY_TRIGGERS_CYCLES THEN CheckTriggerCycle
               ELSE [trace |-> trace, advance |-> advance, gaveup |-> NoPkg]
        all == queue \o c.also
    IN
    /\ Tries
    /\ c.ok = "defer"
    /\ cyclebreak' = c.cyclebreak
    /\ progress' = c.progress
    /\ sincenothing' = c.since
    /\ queue' = IF k.gaveup = cur THEN all ELSE Enqueue(all, cur)
    /\ deferred' = Undeferred
    /\ trace' = k.trace
    /\ advance' = k.advance
    /\ db' = DbAfter(k.gaveup)
    /\ istobe' = IstobeAfter(k.gaveup)
    /\ failed' = FailedAfter(k.gaveup)
    /\ nerrs' = NerrsAfter(k.gaveup)
    /\ Return
    /\ UNCHANGED <<sys, dependtry, removal>>

TrigprocHalt(c) ==
    /\ Tries
    /\ c.ok = "halt"
    /\ cyclebreak' = c.cyclebreak
    /\ queue' = queue \o c.also
    /\ deferred' = Undeferred
    /\ IF pc = "trigprocDeferred"
       THEN /\ trace' = <<>>
            /\ advance' = FALSE
            /\ sincenothing' = c.since
            /\ Return
            /\ UNCHANGED <<istobe, errors>>
       ELSE /\ sincenothing' = 0
            /\ ReturnError("depends", NoPkg)
            /\ UNCHANGED cycles
    /\ UNCHANGED <<sys, db, dependtry, progress, removal>>

TrigprocGivenUp(c) ==
    LET k == CheckTriggerCycle
    IN
    /\ Tries
    /\ c.ok = "ok"
    /\ k.gaveup = cur
    /\ cyclebreak' = c.cyclebreak
    /\ sincenothing' = c.since
    /\ queue' = queue \o c.also
    /\ deferred' = Undeferred
    /\ trace' = k.trace
    /\ advance' = k.advance
    /\ db' = DbAfter(cur)
    /\ istobe' = IstobeAfter(cur)
    /\ failed' = FailedAfter(cur)
    /\ nerrs' = NerrsAfter(cur)
    /\ Return
    /\ UNCHANGED <<sys, dependtry, progress, removal>>

TrigprocRun(c, success) ==
    LET k   == CheckTriggerCycle
        g   == k.gaveup
        ran == Postinst(Note(DbAfter(g), cur, HALFCONFIGURED), cur, success)
    IN
    /\ Tries
    /\ c.ok = "ok"
    /\ g # cur
    /\ cyclebreak' = c.cyclebreak
    /\ sincenothing' = 0
    /\ queue' = queue \o c.also
    /\ trace' = k.trace
    /\ advance' = k.advance
    /\ db' = Activate(ran, cur, sys.scripts[cur])
    /\ deferred' = Defer(Undeferred, ran, sys.scripts[cur])
    /\ IF success
       THEN /\ istobe' = IstobeAfter(g)
            /\ failed' = FailedAfter(g)
            /\ nerrs' = NerrsAfter(g)
            /\ Return
       ELSE ReturnError("script", g)
    /\ UNCHANGED <<sys, dependtry, progress, removal>>

-----------------------------------------------------------------------------
(***************************************************************************)
(* deferred_remove() and checkforremoval()                                 *)
(***************************************************************************)
Gone ==
    \/ db[cur].status = NOTINSTALLED
    \/ db[cur].status = CONFIGFILES /\ sys.action # "purge"

Protected ==
    /\ db[cur].status # CONFIGFILES
    /\ cur \in sys.essential
    /\ ~Forced("remove-essential")

RemoveNothing ==
    /\ pc = "remove"
    /\ Gone
    /\ sincenothing' = 0
    /\ istobe' = [istobe EXCEPT ![cur] = "normal"]
    /\ Return
    /\ UNCHANGED <<sys, db, queue, deferred, cyclebreak, dependtry, progress, cycles, removal,
                   errors>>

RemoveRefused ==
    /\ pc = "remove"
    /\ ~Gone
    /\ Protected
    /\ ReturnError("refused", NoPkg)
    /\ UNCHANGED <<sys, db, queue, deferred, cyclebreak, dependtry, sincenothing, progress,
                   cycles, removal>>

(* Look at all dependencies on the package or on what it provides.         *)
RemoveStart ==
    /\ pc = "remove"
    /\ ~Gone
    /\ ~Protected
    /\ rok' = "ok"
    /\ checks' = {l \in AllDepends : l[2] = cur \/ cur \in Providers(l[2])}
    /\ pc' = "check"
    /\ UNCHANGED <<sys, db, queue, deferred, istobe, cyclebreak, dependtry, sincenothing,
                   progress, cycles, cur, stuck, errors>>

WorseLast(a, b) == b    \* fault: the last check overrides the others

Worse(a, b) ==
    IF "halt" \in {a, b} THEN "halt" ELSE IF "defer" \in {a, b} THEN "defer" ELSE "ok"

Indifferent(p) == db[p].status < UNPACKED \/ p \in sys.ignore

RemoveCheck(l, c) ==
    /\ pc = "check"
    /\ l \in checks
    /\ checks' = checks \ {l}
    /\ IF Indifferent(l[1])
       THEN UNCHANGED <<cyclebreak, sincenothing, rok>>
       ELSE /\ cyclebreak' = c.cyclebreak
            /\ sincenothing' = c.since
            /\ rok' = Worse(rok, c.ok)
    /\ UNCHANGED <<sys, db, queue, deferred, istobe, dependtry, progress, cycles, pc, cur,
                   stuck, errors>>

RemoveDeferForgets ==    \* fault: not put back on the queue
    /\ pc = "check"
    /\ checks = {}
    /\ rok = "defer"
    /\ istobe' = [istobe EXCEPT ![cur] = "remove"]
    /\ Return
    /\ UNCHANGED <<sys, db, queue, deferred, cyclebreak, dependtry, sincenothing, progress, cycles,
                   removal, errors>>

RemoveDefer ==
    /\ pc = "check"
    /\ checks = {}
    /\ rok = "defer"
    /\ istobe' = [istobe EXCEPT ![cur] = "remove"]
    /\ queue' = Enqueue(queue, cur)
    /\ Return
    /\ UNCHANGED <<sys, db, deferred, cyclebreak, dependtry, sincenothing, progress, cycles,
                   removal, errors>>

RemoveHalt ==
    /\ pc = "check"
    /\ checks = {}
    /\ rok = "halt" \/ (rok = "ok" /\ Reinstall(cur))
    /\ sincenothing' = 0
    /\ ReturnError(IF rok = "ok" THEN "refused" ELSE "depends", NoPkg)
    /\ UNCHANGED <<sys, db, queue, deferred, cyclebreak, dependtry, progress, cycles, removal>>

(***************************************************************************)
(* The removal itself.  When the prerm fails, cu_prermremove() calls the   *)
(* postinst to undo what the prerm did, unless a clean-up has failed       *)
(* before in this run.  Later errors leave the package half-installed, or  *)
(* without its conffiles.                                                  *)
(***************************************************************************)
Outcomes == {"success", "prerm", "abort-remove", "files", "purge"}

(* Whether cu_prermremove() runs the postinst when the prerm has failed.   *)
AbortRemove == db[cur].status > HALFCONFIGURED /\ ~stuck

Possible(outcome, s) ==
    CASE outcome = "success"      -> TRUE
      [] outcome = "prerm"        -> s >= HALFCONFIGURED
      [] outcome = "abort-remove" -> AbortRemove
      [] outcome = "files"        -> s > CONFIGFILES
      [] outcome = "purge"        -> sys.action = "purge"

Removed == IF sys.action = "purge" \/ cur \notin sys.conffiles THEN NOTINSTALLED ELSE CONFIGFILES

RemoveRun(outcome) ==
    LET s       == db[cur].status
        started == Activate(db, cur, sys.activates[cur])
        prerm   == IF s >= HALFCONFIGURED THEN Note(started, cur, HALFCONFIGURED) ELSE started
        ran     == Activate(prerm, cur, sys.scripts[cur])
    IN
    /\ pc = "check"
    /\ checks = {}
    /\ rok = "ok"
    /\ ~Reinstall(cur)
    /\ Possible(outcome, s)
    /\ sincenothing' = 0
    /\ deferred' = Defer(Defer(deferred, db, sys.activates[cur]), prerm, sys.scripts[cur])
    /\ db' = CASE outcome = "success"      -> Note(ran, cur, Removed)
               [] outcome = "prerm"        -> IF AbortRemove THEN Postinst(ran, cur, TRUE) ELSE ran
               [] outcome = "abort-remove" -> ran
               [] outcome = "files"        -> Note(ran, cur, HALFINSTALLED)
               [] outcome = "purge"        -> Note(ran, cur, CONFIGFILES)
    /\ stuck' = (stuck \/ outcome = "abort-remove")
    /\ IF outcome = "success"
       THEN Return /\ UNCHANGED <<errors, istobe>>
       ELSE ReturnError("script", NoPkg)
    /\ UNCHANGED <<sys, queue, cyclebreak, dependtry, progress, cycles, rok, checks>>

-----------------------------------------------------------------------------
Next ==
    \/ Pop \/ QueueDone \/ PopDeferred \/ DeferredDone
    \/ Skip \/ NotReady
    \/ ConfigureRefused
    \/ /\ pc \in {"configure", "trigproc", "trigprocDeferred"}
       /\ \E c \in Checks(cur, NoPkg) :
             \/ ConfigureDefer(c) \/ ConfigureHalt(c)
             \/ \E o \in {"success", "conffiles", "postinst"} : ConfigureRun(c, o)
             \/ TrigprocDefer(c) \/ TrigprocHalt(c) \/ TrigprocGivenUp(c)
             \/ \E success \in BOOLEAN : TrigprocRun(c, success)
    \/ TrigprocNothing \/ TrigprocLater
    \/ RemoveNothing \/ RemoveRefused \/ RemoveStart \/ RemoveDefer \/ RemoveHalt
    \/ pc = "check" /\ \E l \in checks : \E c \in Checks(l[1], cur) : RemoveCheck(l, c)
    \/ \E o \in Outcomes : RemoveRun(o)

Spec     == Init /\ [][Next]_vars
FairSpec == Spec /\ WF_vars(Next)
-----------------------------------------------------------------------------
(* The types of the variables; no package is in a queue twice.             *)
TypeOK ==
    /\ db \in [Pkgs -> Pkginfo]
    /\ queue \in Seq(Pkgs) /\ IsInjective(queue)
    /\ deferred \in Seq(Pkgs) /\ IsInjective(deferred)
    /\ istobe \in [Pkgs -> {"normal", "installnew", "remove"}]
    /\ cyclebreak \subseteq Declared
    /\ dependtry \in DEPEND_TRY_NORMAL .. DEPEND_TRY_LAST
    /\ sincenothing \in 0 .. 3 * Cardinality(Pkgs) + 3
    /\ progress \in Pkgs \cup {NoPkg}
    /\ pc \in {"queue", "deferred", "done", "internerr", "skip", "notready", "configure",
               "trigproc", "trigprocDeferred", "remove", "check"}
    /\ cur \in Pkgs \cup {NoPkg}
    /\ failed \subseteq Pkgs \X {"refused", "depends", "script", "loop"}

(* A package that meets an alternative n of a dependency of p.             *)
Meets(d, p, n, q) ==
    /\ q = n \/ q \in Providers(n)
    /\ <<p, n, q>> \notin sys.wrong
    /\ d[q].status \in {TRIGGERSPENDING, INSTALLED}

Met(d, p, alternatives) == \E n \in ToSet(alternatives), q \in Pkgs : Meets(d, p, n, q)

(* Dependencies that p has, whether or not they have been broken, that     *)
(* are part of a cycle.                                                    *)
AllLeads == [n \in Names |-> {q \in Pkgs : q = n \/ q \in Providers(n)}]

Circular(p, alternatives) ==
    \E e \in OnCycle(Edges(Declared, AllLeads), p) :
        From(e) = p /\ e[1][2] \in ToSet(alternatives)

(***************************************************************************)
(* Without --force options and --ignore-depends a package is configured    *)
(* only when all that it depends on is configured, but for dependencies    *)
(* that are part of a cycle, however often dpkg has tried and whatever has *)
(* failed in the meantime.                                                 *)
(***************************************************************************)
DependenciesFirst ==
    [][\A p \in Pkgs :
          /\ sys.force \subseteq {"configure-any"}
          /\ sys.ignore = {}
          /\ db[p].status < TRIGGERSAWAITED
          /\ db'[p].status >= TRIGGERSAWAITED
          => \A i \in DOMAIN sys.depends[p] :
                \/ Met(db, p, sys.depends[p][i])
                \/ Circular(p, sys.depends[p][i])]_vars

Args == ToSet(sys.args)

Errors(p) == {e \in failed : e[1] = p}

(***************************************************************************)
(* No package gets lost between the queue, the deferred list and           *)
(* progress_bytrigproc: at the end of a run that was not given up, each    *)
(* package that was to be configured is configured, each one that was to   *)
(* be removed is gone, or an error has told why it is not.                 *)
(***************************************************************************)
Done(p) ==
    IF sys.action \in {"configure", "triggers"} THEN db[p].status >= TRIGGERSAWAITED
    ELSE sys.action \in {"remove", "purge"} => db[p].status <= CONFIGFILES

NothingForgotten ==
    pc = "done" /\ nerrs < ErrAbort => \A p \in Args : Done(p) \/ Errors(p) # {}

(***************************************************************************)
(* "dependency problems - leaving unconfigured" is the last word on a      *)
(* package only if there is such a problem: at the end of the run it       *)
(* breaks a dependency or is broken by a package.  With --force-depends    *)
(* dependencies never keep a package from being configured.                *)
(***************************************************************************)
HaltIsJustified ==
    \A p \in Pkgs :
        <<p, "depends">> \in failed =>
            /\ pc = "done" /\ sys.action = "configure"
               => \/ ~BreaksesOk(p)
                  \/ \E i \in DOMAIN sys.depends[p] : ~Met(db, p, sys.depends[p][i])
            /\ Forced("depends") => ~BreaksesOk(p)

(***************************************************************************)
(* Without --force-depends and --ignore-depends a removal takes nothing    *)
(* away that a package needs that stays, not even if the removal of that   *)
(* package was asked for and has failed, but for dependencies that are     *)
(* part of a cycle.                                                        *)
(***************************************************************************)
RemovalKeepsDependencies ==
    [][\A p \in Pkgs :
          /\ sys.force \cap {"depends", "depends-version"} = {}
          /\ sys.ignore = {}
          /\ pc = "check"
          /\ db'[p].status >= UNPACKED
          => \A i \in DOMAIN sys.depends[p] :
                \/ Met(db, p, sys.depends[p][i]) => Met(db', p, sys.depends[p][i])
                \/ Circular(p, sys.depends[p][i])]_vars

(***************************************************************************)
(* process_queue() never runs out of ways to try: the internerr() calls on *)
(* dependtry are not reached.                                              *)
(***************************************************************************)
NeverExhausted == pc # "internerr"

=============================================================================
