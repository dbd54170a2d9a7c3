------------------------- MODULE ProcessQueueProofs -------------------------
(***************************************************************************)
(* Proofs about ProcessQueue, for every set of packages, any dependencies  *)
(* and triggers, and any command: no package of the command line is        *)
(* forgotten, and neither configuration nor removal disregards             *)
(* dependencies.  What the list of deferred triggers holds does not        *)
(* matter for this.                                                        *)
(***************************************************************************)
EXTENDS ProcessQueue, SequenceTheorems, FiniteSetTheorems, WellFoundedInduction, TLAPS

(* A package in the database is what pkg_parse_verify() would accept, as   *)
(* far as the proofs need it.                                              *)
InfoOK(r) ==
    /\ r = [status |-> r.status, trigpend |-> r.trigpend, trigaw |-> r.trigaw]
    /\ r.status \in Status
    /\ r.trigaw \subseteq Pkgs
    /\ r.trigpend # {} => r.status >= TRIGGERSAWAITED
    /\ r.trigaw # {} => r.status <= TRIGGERSAWAITED

DbOK(d) == d = [p \in Pkgs |-> d[p]] /\ \A p \in Pkgs : InfoOK(d[p])

(* Stages of the run: the queue, a package of the queue, or the end.       *)
AtPackage == {"skip", "notready", "configure", "trigproc", "remove", "check"}
AtEnd     == {"deferred", "trigprocDeferred", "done"}
AtQueue   == {"queue"} \cup AtPackage

(* A package is dealt with, or an error has told why not.                  *)
Answered(p) == Done(p) \/ Errors(p) # {}

(* Where a package can be that is not.                                     *)
Waiting(p) ==
    \/ pc \in AtQueue /\ p \in ToSet(queue)
    \/ pc \in AtPackage \ {"skip", "trigproc"} /\ p = cur
    \/ pc \in AtEnd /\ nerrs >= ErrAbort
    \/ pc = "internerr"

Types ==
    /\ sys \in {w.sys : w \in Worlds}
    /\ DbOK(db)
    /\ pc \in AtQueue \cup AtEnd \cup {"internerr"}
    /\ pc \in AtQueue => queue \in Seq(Pkgs)
    /\ pc \in AtPackage => cur \in Pkgs
    /\ pc \in AtQueue => progress \in Pkgs \cup {NoPkg}
    /\ nerrs \in Nat

(* What process_queue() has seen before it called a handler.               *)
Handled ==
    /\ pc = "trigproc" => db[cur].trigpend # {}
    /\ pc = "configure" => sys.action \notin {"remove", "purge"}
    /\ pc \in {"remove", "check"} => sys.action \in {"remove", "purge"}

NoneForgotten == \A p \in Args : Answered(p) \/ Waiting(p)

(* Broken dependencies are part of a cycle.                                *)
OnlyCircular == \A l \in cyclebreak : Circular(l[1], <<l[2]>>)

(* What checkforremoval() has found out about the dependencies it has      *)
(* looked at: each of them is met without the current package.             *)
Concerns(p, i) ==
    \E j \in DOMAIN sys.depends[p][i] :
        LET l == <<p, sys.depends[p][i][j]>> IN
        /\ l \notin checks
        /\ l[2] = cur \/ cur \in Providers(l[2])

MetWithout(p, alternatives) ==
    \E n \in ToSet(alternatives), q \in Pkgs : q # cur /\ Meets(db, p, n, q)

RemovalOK == rok \in {"ok", "defer", "halt"}

CheckedAreMet ==
    /\ pc = "check"
    /\ sys.force \cap {"depends", "depends-version"} = {}
    /\ sys.ignore = {}
    /\ rok = "ok"
    => \A p \in Pkgs :
          db[p].status >= UNPACKED =>
             \A i \in DOMAIN sys.depends[p] :
                Concerns(p, i) => \/ MetWithout(p, sys.depends[p][i])
                                  \/ Circular(p, sys.depends[p][i])


-----------------------------------------------------------------------------
(***************************************************************************)
(* What notes and activations leave alone.                                 *)
(***************************************************************************)

(* A package is as much configured, and as much gone, as it was.           *)
Keeps(r, s) ==
    /\ r.status < TRIGGERSAWAITED => s.status = r.status
    /\ r.status >= TRIGGERSAWAITED => s.status >= TRIGGERSAWAITED

(* Moreover it meets the dependencies that it met.                         *)
Alike(r, s) == Keeps(r, s) /\ (r.status > TRIGGERSAWAITED => s.status > TRIGGERSAWAITED)

USE DEF NOTINSTALLED, CONFIGFILES, HALFINSTALLED, UNPACKED, HALFCONFIGURED, TRIGGERSAWAITED,
        TRIGGERSPENDING, INSTALLED

(* A package that processes its triggers stays what it is for others.      *)
LEMMA ReleaseEffect ==
    ASSUME NEW d, DbOK(d), NEW q
    PROVE  /\ DbOK(Release(d, q))
           /\ \A p \in Pkgs : Alike(d[p], Release(d, q)[p])
<1>1. CASE d[q].trigpend # {}
    BY <1>1 DEF Release, Alike, Keeps
<1>2. CASE d[q].trigpend = {}
    <2> DEFINE aw(p) == d[p].trigaw \ {q}
               st(p) == IF aw(p) # {} \/ d[p].status # TRIGGERSAWAITED THEN d[p].status
                        ELSE IF d[p].trigpend # {} THEN TRIGGERSPENDING ELSE INSTALLED
    <2>1. Release(d, q) =
             [p \in Pkgs |-> IF q \notin d[p].trigaw THEN d[p]
                             ELSE [d[p] EXCEPT !.trigaw = aw(p), !.status = st(p)]]
        BY <1>2 DEF Release
    <2>2. ASSUME NEW p \in Pkgs
          PROVE  InfoOK(Release(d, q)[p]) /\ Alike(d[p], Release(d, q)[p])
        <3>1. InfoOK(d[p])
            BY DEF DbOK
        <3>2. CASE q \notin d[p].trigaw
            BY <2>1, <3>1, <3>2 DEF Alike, Keeps
        <3>3. CASE q \in d[p].trigaw
            <4>1. Release(d, q)[p] =
                     [status |-> st(p), trigpend |-> d[p].trigpend, trigaw |-> aw(p)]
                BY <2>1, <3>1, <3>3 DEF InfoOK
            <4>2. st(p) \in Status /\ Alike(d[p], [status |-> st(p)])
                BY <3>1 DEF InfoOK, Status, Alike, Keeps
            <4>. QED
                BY <3>1, <4>1, <4>2 DEF InfoOK, Status, Alike, Keeps
        <3>. QED
            BY <3>2, <3>3
    <2>. QED
        BY <2>1, <2>2 DEF DbOK
<1>. QED
    BY <1>1, <1>2

(* A note changes the status of one package; others may be released.       *)
LEMMA NoteEffect ==
    ASSUME NEW d, DbOK(d), NEW p, NEW s \in Status,
           p \in Pkgs /\ s > TRIGGERSAWAITED => d[p].trigaw = {}
    PROVE  /\ DbOK(Note(d, p, s))
           /\ \A q \in Pkgs \ {p} : Alike(d[q], Note(d, p, s)[q])
           /\ p \in Pkgs => Keeps([status |-> s], Note(d, p, s)[p])
<1> DEFINE r == [status   |-> s,
                 trigpend |-> IF s \in {TRIGGERSAWAITED, TRIGGERSPENDING} THEN d[p].trigpend ELSE {},
                 trigaw   |-> IF s <= CONFIGFILES THEN {} ELSE d[p].trigaw]
           e == [d EXCEPT ![p] = r]
<1>1. Note(d, p, s) = Release(e, p)
    BY DEF Note
<1>2. e = [q \in Pkgs |-> IF q = p THEN r ELSE d[q]]
    BY DEF DbOK
<1>3. p \in Pkgs => InfoOK(r)
    BY DEF DbOK, InfoOK, Status
<1>4. DbOK(e)
    BY <1>2, <1>3 DEF DbOK
<1>5. DbOK(Release(e, p)) /\ \A q \in Pkgs : Alike(e[q], Release(e, p)[q])
    BY <1>4, ReleaseEffect
<1>. QED
    BY <1>1, <1>2, <1>5 DEF Alike, Keeps

(* An activation gives triggers to configured packages only, and makes the *)
(* activating package await them.                                          *)
LEMMA ActivateEffect ==
    ASSUME NEW d, DbOK(d), NEW p, NEW T
    PROVE  /\ DbOK(Activate(d, p, T))
           /\ \A q \in Pkgs \ {p} : Alike(d[q], Activate(d, p, T)[q])
           /\ p \in Pkgs => Keeps(d[p], Activate(d, p, T)[p])
<1> DEFINE got  == Activated(d, T)
           pend == [q \in Pkgs |->
                       IF q \notin got THEN d[q]
                       ELSE [d[q] EXCEPT !.trigpend = @ \cup {t \in T : q \in sys.interest[t]},
                                         !.status = IF d[q].trigaw # {} THEN TRIGGERSAWAITED
                                                    ELSE TRIGGERSPENDING]]
           aw   == IF d[p].status <= CONFIGFILES THEN {}
                   ELSE d[p].trigaw \cup Activated(d, T \ sys.noawait)
           e    == [pend EXCEPT ![p] = [pend[p] EXCEPT !.trigaw = aw,
                                                         !.status = IF aw # {} /\ @ > TRIGGERSAWAITED
                                                                    THEN TRIGGERSAWAITED ELSE @]]
<1>1. Activate(d, p, T) = e
    BY DEF Activate
<1>2. ASSUME NEW q \in Pkgs
      PROVE  InfoOK(pend[q]) /\ Alike(d[q], pend[q]) /\ pend[q].trigaw = d[q].trigaw
    <2>1. InfoOK(d[q])
        BY DEF DbOK
    <2>2. CASE q \notin got
        BY <2>1, <2>2 DEF Alike, Keeps
    <2>3. CASE q \in got
        <3>1. d[q].status >= TRIGGERSAWAITED
            BY <2>3 DEF Activated
        <3>2. pend[q] = [status   |-> IF d[q].trigaw # {} THEN TRIGGERSAWAITED ELSE TRIGGERSPENDING,
                         trigpend |-> d[q].trigpend \cup {t \in T : q \in sys.interest[t]},
                         trigaw   |-> d[q].trigaw]
            BY <2>1, <2>3 DEF InfoOK
        <3>. HIDE DEF pend, got
        <3>. QED
            BY <2>1, <3>1, <3>2 DEF InfoOK, Alike, Keeps, Status
    <2>. QED
        BY <2>2, <2>3
<1>3. ASSUME p \in Pkgs
      PROVE  InfoOK(e[p]) /\ Keeps(d[p], e[p])
    <2>1. InfoOK(d[p]) /\ InfoOK(pend[p]) /\ Alike(d[p], pend[p]) /\ pend[p].trigaw = d[p].trigaw
        BY <1>2, <1>3 DEF DbOK
    <2>2. aw \subseteq Pkgs
        BY <2>1 DEF InfoOK, Activated
    <2>3. e[p] = [status   |-> IF aw # {} /\ pend[p].status > TRIGGERSAWAITED
                               THEN TRIGGERSAWAITED ELSE pend[p].status,
                  trigpend |-> pend[p].trigpend,
                  trigaw   |-> aw]
        <3>1. e[p] = [pend[p] EXCEPT !.trigaw = aw,
                                     !.status = IF aw # {} /\ @ > TRIGGERSAWAITED
                                                THEN TRIGGERSAWAITED ELSE @]
            <4>1. pend = [q \in Pkgs |-> pend[q]]
                OBVIOUS
            <4>. HIDE DEF pend, aw
            <4>. QED
                BY <1>3, <4>1
        <3>. HIDE DEF pend, e, aw
        <3>. QED
            BY <2>1, <3>1 DEF InfoOK
    <2>. HIDE DEF pend, e, aw
    <2>. QED
        BY <2>1, <2>2, <2>3 DEF InfoOK, Alike, Keeps, Status
<1>4. pend = [q \in Pkgs |-> pend[q]]
    OBVIOUS
<1>5. e = [q \in Pkgs |-> e[q]] /\ \A q \in Pkgs \ {p} : e[q] = pend[q]
    <2>. HIDE DEF pend, aw
    <2>. QED
        BY <1>4
<1>. HIDE DEF e, pend
<1>. QED
    BY <1>1, <1>2, <1>3, <1>5 DEF DbOK

-----------------------------------------------------------------------------
(***************************************************************************)
(* What dependencies_ok() has found out when it says that all is well.     *)
(***************************************************************************)

(* What a command and its packages are does not change.                    *)
LEMMA SysFacts ==
    ASSUME Types
    PROVE  /\ sys.action \in {"configure", "install", "triggers", "remove", "purge"}
           /\ sys.args \in Seq(Pkgs)
           /\ sys.depends \in [Pkgs -> Seq(Seq(Names))]
BY WorldsAssumption DEF Types

(* A set of positions in a sequence has a last one.                        *)
LEMMA HasLast ==
    ASSUME NEW n \in Nat, NEW S \in SUBSET (1 .. n), S # {}
    PROVE  \E i \in S : \A j \in S : j <= i
<1>. DEFINE R == {ss \in Nat \X Nat : ss[1] < ss[2]}
            T == {n - i : i \in S}
<1>1. IsWellFoundedOn(R, Nat)
    BY NatLessThanWellFounded DEF OpToRel
<1>2. T \subseteq Nat /\ T # {}
    <2>1. ASSUME NEW i \in S PROVE n - i \in Nat
        OBVIOUS
    <2>. QED
        BY <2>1
<1>3. PICK t \in T : \A j \in T : ~(<<j, t>> \in R)
    <2>. HIDE DEF R, T
    <2>. QED
        BY <1>1, <1>2, WFMin, Zenon
<1>4. PICK i \in S : t = n - i
    BY <1>3
<1>5. ASSUME NEW j \in S
      PROVE  j <= i
    <2>1. i \in Nat /\ j \in Nat /\ n - j \in T /\ n - j \in Nat /\ t \in Nat
        BY <1>2, <1>3
    <2>2. ~(n - j < t)
        <3>. SUFFICES ASSUME n - j < t PROVE <<n - j, t>> \in R
            BY <1>3, <2>1
        <3>. QED
            BY <2>1
    <2>. QED
        BY <1>4, <2>1, <2>2
<1>. QED
    BY <1>5

(* A candidate is a package that an alternative leads to.                  *)
LEMMA CandidateFacts ==
    ASSUME NEW alternatives, NEW c \in Candidates(alternatives)
    PROVE  /\ c.alt \in DOMAIN alternatives
           /\ c.name = alternatives[c.alt]
           /\ c.pkg \in Pkgs
           /\ c.pkg = c.name \/ c.pkg \in Providers(c.name)
           /\ c.provider = (c.pkg # c.name)
BY DEF Candidates

(* A candidate that is good enough meets the dependency, unless packages   *)
(* are ignored; only a package that provides it to itself need not.        *)
LEMMA OkMeets ==
    ASSUME NEW p, NEW r, NEW alternatives, NEW c \in Candidates(alternatives), DbOK(db),
           sys.ignore = {}, OkFound(p, r, c) = OK
    PROVE  \/ c.pkg # r /\ Meets(db, p, c.name, c.pkg)
           \/ r = NoPkg /\ c.pkg = p /\ p \in Providers(c.name)
<1>1. /\ c.pkg \in Pkgs
      /\ c.pkg = c.name \/ c.pkg \in Providers(c.name)
      /\ c.provider = (c.pkg # c.name)
    BY CandidateFacts
<1>2. CASE Satisfies(p, r, c)
    BY <1>1, <1>2 DEF Satisfies, Right, Present, Wrong, Meets
<1>3. CASE ~Satisfies(p, r, c)
    <2>1. DeppossiOkFound(p, r, c) # OK
        BY <1>3 DEF DeppossiOkFound, ForcedOn, NONE, DEFER, FORCED, OK
    <2>2. c.provider /\ c.pkg = p /\ r = NoPkg
        BY <2>1 DEF OkFound
    <2>. QED
        BY <1>1, <2>2
<1>. QED
    BY <1>2, <1>3

(* The candidates up to the first that is good, and the answer for them.   *)
Broken(p, i, cb)   == {j \in DOMAIN sys.depends[p][i] : <<p, sys.depends[p][i][j]>> \in cb}
Good(p, r, i)      == {c \in Candidates(sys.depends[p][i]) : OkFound(p, r, c) = OK}
Tried(p, r, i, cb) == {c \in Candidates(sys.depends[p][i]) :
                          /\ \A j \in Broken(p, i, cb) : c.alt < j
                          /\ \A d \in Good(p, r, i) : ~Before(d, c)}

Answers(p, r, i, cb) ==
    {NONE}
    \cup (IF Broken(p, i, cb) # {} THEN {OK} ELSE {})
    \cup (IF Forced("depends") THEN {ForcedOn(DEPEND_TRY_FORCE_DEPENDS)} ELSE {})
    \cup {OkFound(p, r, c) : c \in Tried(p, r, i, cb)}

LEMMA GroupFound ==
    ASSUME NEW p, NEW r, NEW i, NEW cb
    PROVE  Group(p, r, i, cb).found = Max(Answers(p, r, i, cb))
BY DEF Group, Answers, Broken, Good, Tried

LEMMA GroupMatched ==
    ASSUME NEW p, NEW r, NEW i, NEW cb
    PROVE  Group(p, r, i, cb).matched =
              (\E c \in Tried(p, r, i, cb) : c.pkg = r /\ r \notin sys.ignore)
BY DEF Group, Broken, Good, Tried

LEMMA GroupPackages ==
    ASSUME DbOK(db), NEW p, NEW r, NEW i, NEW cb
    PROVE  /\ Group(p, r, i, cb).pos = i
           /\ Group(p, r, i, cb).also \subseteq Pkgs
           /\ Group(p, r, i, cb).awaited \subseteq Pkgs
<1>1. Group(p, r, i, cb).pos = i
    BY DEF Group
<1>2. Group(p, r, i, cb).also \subseteq Pkgs
    BY CandidateFacts DEF Group
<1>3. Group(p, r, i, cb).awaited \subseteq Pkgs
    BY CandidateFacts DEF Group, DbOK, InfoOK
<1>. QED
    BY <1>1, <1>2, <1>3

(* Without --force options the answer is good only when a candidate is, or *)
(* when the dependency was broken.                                         *)
LEMMA FoundIsGood ==
    ASSUME NEW p, NEW r, NEW i, NEW cb, ~Forced("depends"), ~Forced("depends-version"),
           Group(p, r, i, cb).found \notin {NONE, DEFER}
    PROVE  \/ Broken(p, i, cb) # {}
           \/ \E c \in Candidates(sys.depends[p][i]) : OkFound(p, r, c) = OK
<1>. SUFFICES ASSUME Broken(p, i, cb) = {},
                     \A c \in Candidates(sys.depends[p][i]) : OkFound(p, r, c) # OK
              PROVE  FALSE
    OBVIOUS
<1>. DEFINE S == {NONE} \cup {OkFound(p, r, c) : c \in Tried(p, r, i, cb)}
<1>1. Group(p, r, i, cb).found = Max(S)
    <2>1. Answers(p, r, i, cb) = S
        BY DEF Answers
    <2>2. Group(p, r, i, cb).found = Max(Answers(p, r, i, cb))
        BY GroupFound
    <2>. QED
        BY <2>1, <2>2, Zenon
<1>2. \A c \in Candidates(sys.depends[p][i]) : OkFound(p, r, c) \in {NONE, DEFER}
    BY DEF OkFound, DeppossiOkFound
<1>3. S \subseteq {NONE, DEFER} /\ NONE \in S
    BY <1>2 DEF Tried
<1>4. \E x \in S : \A y \in S : x >= y
    BY <1>3 DEF NONE, DEFER
<1>5. Max(S) \in S
    <2>. HIDE DEF S
    <2>. QED
        BY <1>4 DEF Max
<1>. QED
    BY <1>1, <1>3, <1>5

(* What an answer of dependencies_ok() consists of.                        *)
LEMMA AnswerFacts ==
    ASSUME Types, NEW p, NEW r, NEW c \in Checks(p, r)
    PROVE  /\ c.also \in Seq(Pkgs)
           /\ p \in Pkgs /\ progress \in Pkgs \cup {NoPkg} => c.progress \in Pkgs \cup {NoPkg}
           /\ c.cyclebreak \in FindBreakCycle(cur)
           /\ c.ok \in {"ok", "defer", "halt"}
           /\ c.ok = "ok" =>
                 \A i \in DOMAIN sys.depends[p] :
                    LET g == Group(p, r, i, c.cyclebreak) IN
                    (r # NoPkg => g.matched) => g.found \notin {NONE, DEFER}
<1>1. PICK cb \in FindBreakCycle(cur) : c \in DependenciesOk(p, r, cb)
    BY DEF Checks
<1>. DEFINE groups == {Group(p, r, i, cb) : i \in DOMAIN sys.depends[p]}
            count  == {g \in groups : r # NoPkg => g.matched}
            halt   == \E g \in count : g.found = NONE
            wait   == {g \in count : g.found = DEFER}
            byfix  == ~halt /\ wait # {} /\ \A g \in wait : g.awaited # {}
            last   == CHOOSE g \in wait : \A h \in wait : h.pos <= g.pos
            also   == UNION {g.also : g \in groups}
            verdict == IF halt THEN IF istobe[p] = "remove" THEN "defer" ELSE "halt"
                       ELSE IF wait # {} THEN "defer" ELSE "ok"
<1>8. DbOK(db)
    BY DEF Types
<1>2. PICK fix \in IF byfix THEN last.awaited ELSE {progress},
           new \in SetToSeqs(also \ ToSet(queue)) :
         /\ c.ok = verdict
         /\ c.progress = fix
         /\ c.also = new
         /\ c.cyclebreak = cb
    <2>. DEFINE result(fix, new) ==
                    [ok         |-> verdict,
                     progress   |-> fix,
                     also       |-> new,
                     since      |-> IF cb # cyclebreak \/ also # {} THEN 0 ELSE sincenothing,
                     cyclebreak |-> cb]
    <2>1. c \in {result(fix, new) : fix \in IF byfix THEN last.awaited ELSE {progress},
                                    new \in SetToSeqs(also \ ToSet(queue))}
        <3>1. DependenciesOk(p, r, cb) =
                 {result(fix, new) : fix \in IF byfix THEN last.awaited ELSE {progress},
                                     new \in SetToSeqs(also \ ToSet(queue))}
            BY DEF DependenciesOk
        <3>. HIDE DEF byfix, last, also, verdict, result
        <3>. QED BY <1>1, <3>1
    <2>. HIDE DEF byfix, last, also, verdict
    <2>. QED
        BY <2>1
<1>3. also \subseteq Pkgs
    <2>1. \A g \in groups : g.also \subseteq Pkgs
        BY <1>8, GroupPackages
    <2>. HIDE DEF groups
    <2>. QED
        BY <2>1
<1>4. new \in Seq(Pkgs)
    <2>. DEFINE N == also \ ToSet(queue)
    <2>1. N \subseteq Pkgs
        BY <1>3
    <2>2. IsFiniteSet(N)
        BY <2>1, PkgsAssumption, FS_Subset
    <2>3. Cardinality(N) \in Nat
        BY <2>2, FS_CardinalityType
    <2>4. new \in [1 .. Cardinality(N) -> N]
        BY <1>2 DEF SetToSeqs
    <2>. HIDE DEF N
    <2>5. new \in Seq(N)
        BY <2>3, <2>4
    <2>. QED
        BY <2>1, <2>5
<1>5. ASSUME p \in Pkgs, byfix
      PROVE  last \in groups
    <2>. DEFINE S == {g.pos : g \in wait}
                n == Len(sys.depends[p])
    <2>1. n \in Nat /\ DOMAIN sys.depends[p] = 1 .. n
        BY <1>5, SysFacts
    <2>2. \A g \in wait : g.pos \in 1 .. n
        BY <1>8, <2>1, GroupPackages
    <2>3. S \in SUBSET (1 .. n) /\ S # {}
        BY <1>5, <2>2
    <2>4. PICK k \in S : \A j \in S : j <= k
        <3>. HIDE DEF S, n
        <3>. QED
            BY <2>1, <2>3, HasLast
    <2>5. \E g \in wait : \A h \in wait : h.pos <= g.pos
        BY <2>4
    <2>6. last \in wait
        <3>. HIDE DEF wait
        <3>. QED
            BY <2>5
    <2>. QED
        BY <2>6
<1>6. ASSUME p \in Pkgs
      PROVE  fix \in Pkgs \cup {progress}
    <2>1. CASE byfix
        <3>1. \A g \in groups : g.awaited \subseteq Pkgs
            BY <1>8, GroupPackages
        <3>2. last.awaited \subseteq Pkgs
            <4>. HIDE DEF groups, last
            <4>. QED
                BY <1>5, <1>6, <2>1, <3>1
        <3>. QED
            BY <1>2, <2>1, <3>2
    <2>2. CASE ~byfix
        BY <1>2, <2>2
    <2>. QED
        BY <2>1, <2>2
<1>7. ASSUME c.ok = "ok", NEW i \in DOMAIN sys.depends[p],
             r # NoPkg => Group(p, r, i, cb).matched
      PROVE  Group(p, r, i, cb).found \notin {NONE, DEFER}
    <2>1. ~halt /\ wait = {}
        BY <1>2, <1>7
    <2>2. Group(p, r, i, cb) \in count
        BY <1>7
    <2>. QED
        BY <2>1, <2>2
<1>. QED
    BY <1>1, <1>2, <1>4, <1>6, <1>7

-----------------------------------------------------------------------------
(***************************************************************************)
(* Cycles of dependencies.                                                 *)
(***************************************************************************)

(* More edges lead further.                                                *)
LEMMA ReachableGrows ==
    ASSUME NEW E, NEW F, E \subseteq F, NEW p
    PROVE  Reachable(E, p) \subseteq Reachable(F, p)
<1>1. ASSUME NEW S \in SUBSET Pkgs, Closed(F, S)
      PROVE  Closed(E, S)
    BY <1>1 DEF Closed
<1>. QED
    BY <1>1 DEF Reachable

(* A dependency that is declared.                                          *)
LEMMA DeclaredFacts ==
    ASSUME Types, NEW l
    PROVE  l \in Declared <=>
              \E p \in Pkgs : \E i \in DOMAIN sys.depends[p] : \E j \in DOMAIN sys.depends[p][i] :
                 l = <<p, sys.depends[p][i][j]>>
BY DEF Declared

LEMMA DeclaredNames ==
    ASSUME Types, NEW p \in Pkgs, NEW i \in DOMAIN sys.depends[p],
           NEW j \in DOMAIN sys.depends[p][i]
    PROVE  sys.depends[p][i][j] \in Names
<1>1. sys.depends[p] \in Seq(Seq(Names))
    BY SysFacts
<1>2. sys.depends[p][i] \in Seq(Names)
    BY <1>1
<1>. QED
    BY <1>2

(* The edge by which a package leads to one of its own cycles.             *)
LEMMA EdgeIsCircular ==
    ASSUME NEW e \in Edges(Declared, AllLeads), NEW n, NEW p \in Pkgs, e[1] = <<p, n>>,
           p \in Reachable(Edges(Declared, AllLeads), To(e)),
           NEW alternatives, n \in ToSet(alternatives)
    PROVE  Circular(p, alternatives)
<1>1. From(e) = p
    BY DEF From
<1>2. p \in Reachable(Edges(Declared, AllLeads), p)
    BY DEF Reachable
<1>3. e \in OnCycle(Edges(Declared, AllLeads), p)
    BY <1>1, <1>2 DEF OnCycle
<1>. QED
    BY <1>1, <1>3 DEF Circular

(* findbreakcycle() breaks a dependency only where there is a cycle.       *)
LEMMA BreaksCycles ==
    ASSUME Types, OnlyCircular, NEW q, NEW cb \in FindBreakCycle(q), NEW l \in cb
    PROVE  Circular(l[1], <<l[2]>>)
<1>1. CASE l \in cyclebreak
    BY <1>1 DEF OnlyCircular
<1>2. CASE l \notin cyclebreak
    <2>. DEFINE E == Edges(AllDepends \ cyclebreak, Leads)
                F == Edges(Declared, AllLeads)
    <2>1. PICK e \in OnCycle(E, q) : l = e[1]
        BY <1>2 DEF FindBreakCycle
    <2>2. e \in E /\ From(e) \in Reachable(E, To(e))
        BY <2>1 DEF OnCycle
    <2>3. E \subseteq F
        <3>. SUFFICES ASSUME NEW x \in E
                      PROVE  x \in F
            OBVIOUS
        <3>1. x[1] \in Declared /\ x = <<x[1], x[2]>> /\ x[2] \in Pkgs /\ x[2] \in Leads[x[1][2]]
            BY DEF Edges, AllDepends
        <3>2. x[1][2] \in Names
            BY <3>1, DeclaredFacts, DeclaredNames
        <3>3. x[2] \in AllLeads[x[1][2]]
            BY <3>1, <3>2 DEF Leads, AllLeads
        <3>. QED
            BY <3>1, <3>3 DEF Edges
    <2>4. e[1] \in Declared
        BY <2>2, <2>3 DEF Edges
    <2>. DEFINE n == e[1][2]
    <2>5. PICK p \in Pkgs : e[1] = <<p, n>>
        BY <2>4, DeclaredFacts
    <2>6. From(e) = p /\ l = <<p, n>>
        BY <2>1, <2>5 DEF From
    <2>7. p \in Reachable(F, To(e)) /\ e \in F
        <3>. HIDE DEF E, F
        <3>. QED
            BY <2>2, <2>3, <2>6, ReachableGrows
    <2>8. n \in ToSet(<<n>>)
        BY DEF ToSet
    <2>. QED
        BY <2>5, <2>6, <2>7, <2>8, EdgeIsCircular
<1>. QED
    BY <1>1, <1>2

(* A dependency with a broken alternative is part of a cycle.              *)
LEMMA BrokenIsCircular ==
    ASSUME Types, OnlyCircular, NEW q, NEW cb \in FindBreakCycle(q), NEW p, NEW i,
           Broken(p, i, cb) # {}
    PROVE  Circular(p, sys.depends[p][i])
<1>1. PICK j \in DOMAIN sys.depends[p][i] : <<p, sys.depends[p][i][j]>> \in cb
    BY DEF Broken
<1>2. Circular(p, <<sys.depends[p][i][j]>>)
    BY <1>1, BreaksCycles
<1>3. ToSet(<<sys.depends[p][i][j]>>) \subseteq ToSet(sys.depends[p][i])
    BY <1>1 DEF ToSet
<1>. QED
    BY <1>2, <1>3 DEF Circular

(* When dependencies_ok() has nothing against it, each dependency in       *)
(* question is met without r, or part of a cycle.                          *)
LEMMA AnswerIsRight ==
    ASSUME Types, OnlyCircular, ~Forced("depends"), ~Forced("depends-version"), sys.ignore = {},
           NEW p \in Pkgs, NEW r, NEW c \in Checks(p, r), c.ok = "ok",
           NEW i \in DOMAIN sys.depends[p],
           r # NoPkg => \E d \in Candidates(sys.depends[p][i]) : d.pkg = r
    PROVE  \/ \E n \in ToSet(sys.depends[p][i]), q \in Pkgs : q # r /\ Meets(db, p, n, q)
           \/ Circular(p, sys.depends[p][i])
<1>. DEFINE alternatives == sys.depends[p][i]
            cb == c.cyclebreak
<1>1. /\ cb \in FindBreakCycle(cur)
      /\ (r # NoPkg => Group(p, r, i, cb).matched) => Group(p, r, i, cb).found \notin {NONE, DEFER}
    BY AnswerFacts
<1>2. Broken(p, i, cb) # {} \/ \E d \in Candidates(alternatives) : OkFound(p, r, d) = OK
    <2>1. CASE r # NoPkg => Group(p, r, i, cb).matched
        BY <1>1, <2>1, FoundIsGood
    <2>2. CASE r # NoPkg /\ ~Group(p, r, i, cb).matched
        <3>1. PICK d \in Candidates(alternatives) : d.pkg = r
            BY <2>2
        <3>2. d \notin Tried(p, r, i, cb)
            BY <2>2, <3>1, GroupMatched
        <3>. QED
            BY <3>1, <3>2 DEF Tried, Good
    <2>. QED
        BY <2>1, <2>2
<1>3. CASE Broken(p, i, cb) # {}
    BY <1>1, <1>3, BrokenIsCircular
<1>4. ASSUME NEW d \in Candidates(alternatives), OkFound(p, r, d) = OK
      PROVE  \/ \E n \in ToSet(alternatives), q \in Pkgs : q # r /\ Meets(db, p, n, q)
             \/ Circular(p, alternatives)
    <2>1. /\ d.alt \in DOMAIN alternatives /\ d.name = alternatives[d.alt] /\ d.pkg \in Pkgs
          /\ d.name \in ToSet(alternatives)
        BY CandidateFacts DEF ToSet
    <2>2. CASE d.pkg # r /\ Meets(db, p, d.name, d.pkg)
        BY <2>1, <2>2
    <2>3. CASE p \in Providers(d.name)
        <3>. DEFINE e == <<<<p, d.name>>, p>>
        <3>1. <<p, d.name>> \in Declared
            BY <2>1, DeclaredFacts
        <3>2. d.name \in Names
            BY <2>1, DeclaredNames
        <3>3. e \in Edges(Declared, AllLeads)
            BY <2>3, <3>1, <3>2 DEF Edges, AllLeads
        <3>4. p \in Reachable(Edges(Declared, AllLeads), To(e))
            BY DEF Reachable, To
        <3>5. e[1] = <<p, d.name>>
            OBVIOUS
        <3>. HIDE DEF e
        <3>. QED
            BY <2>1, <3>3, <3>4, <3>5, EdgeIsCircular
    <2>4. DbOK(db)
        BY DEF Types
    <2>. QED
        BY <1>4, <2>2, <2>3, <2>4, OkMeets
<1>. QED
    BY <1>2, <1>3, <1>4

-----------------------------------------------------------------------------
(***************************************************************************)
(* The queue.                                                              *)
(***************************************************************************)
LEMMA EnqueueFacts ==
    ASSUME NEW q \in Seq(Pkgs), NEW p \in Pkgs
    PROVE  Enqueue(q, p) \in Seq(Pkgs) /\ ToSet(Enqueue(q, p)) = ToSet(q) \cup {p}
<1>1. CASE Contains(q, p)
    BY <1>1 DEF Enqueue, Contains, ToSet
<1>2. CASE ~Contains(q, p)
    <2>1. Enqueue(q, p) = Append(q, p)
        BY <1>2 DEF Enqueue
    <2>. QED
        BY <2>1, AppendProperties DEF ToSet
<1>. QED
    BY <1>1, <1>2

LEMMA ConcatFacts ==
    ASSUME NEW q \in Seq(Pkgs), NEW s \in Seq(Pkgs)
    PROVE  q \o s \in Seq(Pkgs) /\ ToSet(q) \subseteq ToSet(q \o s)
<1>1. ASSUME NEW i \in DOMAIN q
      PROVE  i \in DOMAIN (q \o s) /\ (q \o s)[i] = q[i]
    BY ConcatProperties
<1>. QED
    BY <1>1, ConcatProperties DEF ToSet

LEMMA HeadFacts ==
    ASSUME NEW q \in Seq(Pkgs), q # <<>>
    PROVE  /\ Head(q) \in Pkgs /\ Tail(q) \in Seq(Pkgs)
           /\ ToSet(q) \subseteq {Head(q)} \cup ToSet(Tail(q))
<1>1. Head(q) \in Pkgs /\ Tail(q) \in Seq(Pkgs) /\ Len(Tail(q)) = Len(q) - 1
    BY HeadTailProperties
<1>2. ASSUME NEW i \in DOMAIN q, i # 1
      PROVE  i - 1 \in DOMAIN Tail(q) /\ Tail(q)[i - 1] = q[i]
    BY <1>1, <1>2, HeadTailProperties
<1>3. Head(q) = q[1]
    OBVIOUS
<1>. QED
    BY <1>1, <1>2, <1>3 DEF ToSet

LEMMA AppendFacts ==
    ASSUME NEW q \in Seq(Pkgs), NEW p \in Pkgs
    PROVE  Append(q, p) \in Seq(Pkgs) /\ ToSet(Append(q, p)) = ToSet(q) \cup {p}
BY AppendProperties DEF ToSet

-----------------------------------------------------------------------------
(***************************************************************************)
(* The handling of a package, whatever it is: other packages are left as   *)
(* they are, or an error is recorded for them, and the package itself is   *)
(* dealt with, or has an error, or is back in the queue.                   *)
(***************************************************************************)
HasError(p) == \E e \in failed' : e[1] = p

Handles ==
    /\ sys' = sys
    /\ DbOK(db')
    /\ nerrs' \in Nat /\ nerrs' >= nerrs
    /\ failed \subseteq failed'
    /\ \/ /\ pc \in AtPackage
          /\ queue' \in Seq(Pkgs) /\ ToSet(queue) \subseteq ToSet(queue')
          /\ progress' \in Pkgs \cup {NoPkg}
          /\ pc' = "queue" \/ (pc' = "deferred" /\ nerrs' >= ErrAbort)
       \/ pc = "trigprocDeferred" /\ pc' = "deferred"
    /\ \A p \in Pkgs \ {cur} : Keeps(db[p], db'[p]) \/ HasError(p)
    /\ \A p \in Pkgs \cap {cur} :
          \/ HasError(p)
          \/ Done(p)'
          \/ /\ Keeps(db[p], db'[p])
             /\ \/ pc \in {"skip", "trigproc", "trigprocDeferred"}
                \/ pc' = "queue" /\ p \in ToSet(queue')

(* A package that was dealt with remains so.                               *)
LEMMA StaysDone ==
    ASSUME Types, sys' = sys, DbOK(db'), NEW p \in Pkgs, Done(p), Keeps(db[p], db'[p])
    PROVE  Done(p)'
<1>1. db[p].status \in Status
    BY DEF Types, DbOK, InfoOK
<1>. QED
    BY <1>1 DEF Done, Keeps, Status

LEMMA HandlesIsRight ==
    ASSUME Types, NoneForgotten, Handles
    PROVE  Types' /\ Handled' /\ NoneForgotten'
<1>1. Types' /\ Handled'
    BY DEF Types, Handled, Handles, AtPackage, AtQueue, AtEnd
<1>2. ASSUME NEW p \in Args'
      PROVE  Answered(p)' \/ Waiting(p)'
    <2>1. p \in Args /\ p \in Pkgs
        BY SysFacts DEF Args, ToSet, Handles
    <2>2. HasError(p) => Answered(p)'
        BY DEF HasError, Answered, Errors
    <2>3. Errors(p) # {} => HasError(p)
        BY DEF HasError, Errors, Handles
    <2>4. ASSUME Keeps(db[p], db'[p]), Done(p)
          PROVE  Answered(p)'
        BY <2>1, <2>4, StaysDone DEF Handles, Answered
    <2>5. CASE pc = "trigprocDeferred"
        <3>1. pc' = "deferred"
            BY <2>5 DEF Handles, AtPackage
        <3>2. Answered(p) \/ nerrs >= ErrAbort
            BY <2>1, <2>5 DEF NoneForgotten, Waiting, AtPackage, AtQueue
        <3>3. nerrs >= ErrAbort => Waiting(p)'
            BY <3>1, ErrAbortAssumption DEF Waiting, AtEnd, Handles, Types
        <3>4. Keeps(db[p], db'[p]) \/ HasError(p) \/ Done(p)'
            BY <2>1, <3>1 DEF Handles
        <3>. QED
            BY <2>2, <2>3, <2>4, <3>2, <3>3, <3>4 DEF Answered
    <2>6. CASE pc \in AtPackage
        <3>1. CASE pc' = "deferred"
            BY <2>6, <3>1 DEF Handles, Waiting, AtEnd, AtPackage
        <3>2. CASE pc' = "queue"
            <4>1. p \in ToSet(queue) => Waiting(p)'
                BY <2>6, <3>2 DEF Handles, Waiting, AtQueue, AtPackage
            <4>2. Keeps(db[p], db'[p]) \/ HasError(p) \/ Done(p)'
                BY <2>1 DEF Handles
            <4>3. CASE Answered(p) \/ p \in ToSet(queue)
                BY <2>2, <2>3, <2>4, <4>1, <4>2, <4>3 DEF Answered
            <4>4. CASE ~Answered(p) /\ p \notin ToSet(queue)
                <5>1. p = cur /\ pc \notin {"skip", "trigproc", "trigprocDeferred"}
                    BY <2>1, <2>6, <4>4 DEF NoneForgotten, Waiting, AtPackage, AtEnd
                <5>2. HasError(p) \/ Done(p)' \/ p \in ToSet(queue')
                    BY <2>1, <5>1 DEF Handles
                <5>3. p \in ToSet(queue') => Waiting(p)'
                    BY <3>2 DEF Waiting, AtQueue
                <5>. QED
                    BY <2>2, <5>2, <5>3 DEF Answered
            <4>. QED
                BY <4>3, <4>4
        <3>. QED
            BY <2>6, <3>1, <3>2 DEF Handles, AtPackage
    <2>. QED
        BY <2>5, <2>6 DEF Handles
<1>. QED
    BY <1>1, <1>2 DEF NoneForgotten

-----------------------------------------------------------------------------
(***************************************************************************)
(* The actions that leave the database alone.                              *)
(***************************************************************************)
LEMMA ErrorReturns ==
    ASSUME Types, pc \in AtPackage \cup {"trigprocDeferred"}, NEW why, NEW g, ReturnError(why, g)
    PROVE  /\ nerrs' \in Nat /\ nerrs' >= nerrs
           /\ failed \subseteq failed'
           /\ HasError(cur)
           /\ g # NoPkg => HasError(g)
           /\ pc \in AtPackage => pc' = "queue" \/ (pc' = "deferred" /\ nerrs' >= ErrAbort)
           /\ pc = "trigprocDeferred" => pc' = "deferred"
<1>1. nerrs \in Nat /\ ErrAbort \in Nat
    BY ErrAbortAssumption DEF Types
<1>2. nerrs' \in Nat /\ nerrs' >= nerrs
    BY <1>1 DEF ReturnError, NerrsAfter
<1>3. failed' = FailedAfter(g) \cup {<<cur, why>>}
    BY DEF ReturnError
<1>4. failed \subseteq failed'
    BY <1>3 DEF FailedAfter
<1>5. <<cur, why>> \in failed' /\ <<cur, why>>[1] = cur
    BY <1>3
<1>6. g # NoPkg => <<g, "loop">> \in failed' /\ <<g, "loop">>[1] = g
    BY <1>3 DEF FailedAfter
<1>7. /\ pc \in AtPackage => pc' = "queue" \/ (pc' = "deferred" /\ nerrs' >= ErrAbort)
      /\ pc = "trigprocDeferred" => pc' = "deferred"
    BY DEF ReturnError, AtPackage
<1>. QED
    BY <1>2, <1>4, <1>5, <1>6, <1>7 DEF HasError

LEMMA NormalReturns ==
    ASSUME pc \in AtPackage \cup {"trigprocDeferred"}, Return
    PROVE  /\ pc \in AtPackage => pc' = "queue"
           /\ pc = "trigprocDeferred" => pc' = "deferred"
BY DEF Return, AtPackage

LEMMA KeepsSame == \A r : Keeps(r, r)
BY DEF Keeps

LEMMA SkipStep ==
    ASSUME Types, Skip
    PROVE  Handles
BY NormalReturns, KeepsSame DEF Skip, Handles, Types, AtPackage, AtQueue, errors

LEMMA RefusalStep ==
    ASSUME Types, NotReady \/ ConfigureRefused \/ RemoveRefused \/ RemoveHalt
    PROVE  Handles
<1>1. /\ pc \in AtPackage
      /\ UNCHANGED <<sys, db, queue, progress>>
      /\ \E why : ReturnError(why, NoPkg)
    BY DEF NotReady, ConfigureRefused, RemoveRefused, RemoveHalt, AtPackage
<1>2. /\ nerrs' \in Nat /\ nerrs' >= nerrs
      /\ failed \subseteq failed'
      /\ HasError(cur)
      /\ pc' = "queue" \/ (pc' = "deferred" /\ nerrs' >= ErrAbort)
    BY <1>1, ErrorReturns
<1>. QED
    BY <1>1, <1>2, KeepsSame DEF Handles, Types, AtQueue

LEMMA ConfigureDeferStep ==
    ASSUME Types, NEW c \in Checks(cur, NoPkg), ConfigureDefer(c)
    PROVE  Handles
<1>1. pc = "configure" /\ cur \in Pkgs /\ pc \in AtPackage /\ pc \in AtQueue
    BY DEF ConfigureDefer, Configurable, Types, AtPackage, AtQueue
<1>2. c.also \in Seq(Pkgs) /\ c.progress \in Pkgs \cup {NoPkg}
    BY <1>1, AnswerFacts DEF Types
<1>3. /\ queue \in Seq(Pkgs) /\ queue \o c.also \in Seq(Pkgs)
      /\ ToSet(queue) \subseteq ToSet(queue \o c.also)
    BY <1>1, <1>2, ConcatFacts DEF Types
<1>4. queue' \in Seq(Pkgs) /\ ToSet(queue) \subseteq ToSet(queue') /\ cur \in ToSet(queue')
    BY <1>1, <1>3, EnqueueFacts DEF ConfigureDefer
<1>5. pc' = "queue"
    BY <1>1, NormalReturns DEF ConfigureDefer
<1>. QED
    BY <1>1, <1>2, <1>4, <1>5, KeepsSame DEF ConfigureDefer, Handles, Types, errors

LEMMA ConfigureHaltStep ==
    ASSUME Types, NEW c \in Checks(cur, NoPkg), ConfigureHalt(c)
    PROVE  Handles
<1>1. pc = "configure" /\ cur \in Pkgs /\ pc \in AtPackage /\ pc \in AtQueue
    BY DEF ConfigureHalt, Configurable, Types, AtPackage, AtQueue
<1>2. c.also \in Seq(Pkgs)
    BY <1>1, AnswerFacts
<1>3. queue' \in Seq(Pkgs) /\ ToSet(queue) \subseteq ToSet(queue')
    BY <1>1, <1>2, ConcatFacts DEF Types, ConfigureHalt
<1>4. /\ nerrs' \in Nat /\ nerrs' >= nerrs
      /\ failed \subseteq failed'
      /\ HasError(cur)
      /\ pc' = "queue" \/ (pc' = "deferred" /\ nerrs' >= ErrAbort)
    BY <1>1, ErrorReturns DEF ConfigureHalt
<1>. QED
    BY <1>1, <1>3, <1>4, KeepsSame DEF ConfigureHalt, Handles, Types

LEMMA TrigprocLaterStep ==
    ASSUME Types, TrigprocLater
    PROVE  Handles
<1>1. pc = "trigproc" /\ cur \in Pkgs /\ pc \in AtPackage /\ pc \in AtQueue
    BY DEF TrigprocLater, Tries, HasWork, InTrigproc, Types, AtPackage, AtQueue
<1>2. queue' \in Seq(Pkgs) /\ ToSet(queue) \subseteq ToSet(queue')
    BY <1>1, EnqueueFacts DEF TrigprocLater, Types
<1>3. pc' = "queue"
    BY <1>1, NormalReturns DEF TrigprocLater
<1>. QED
    BY <1>1, <1>2, <1>3, KeepsSame DEF TrigprocLater, Handles, Types, errors

LEMMA TrigprocHaltStep ==
    ASSUME Types, NEW c \in Checks(cur, NoPkg), TrigprocHalt(c)
    PROVE  Handles
<1>1. CASE pc = "trigprocDeferred"
    <2>1. pc' = "deferred" /\ UNCHANGED <<sys, db, nerrs, failed>>
        BY <1>1 DEF TrigprocHalt, Return, errors
    <2>. QED
        BY <1>1, <2>1, KeepsSame DEF Handles, Types
<1>2. CASE pc # "trigprocDeferred"
    <2>1. pc = "trigproc" /\ cur \in Pkgs /\ pc \in AtPackage /\ pc \in AtQueue
        BY <1>2 DEF TrigprocHalt, Tries, HasWork, InTrigproc, Types, AtPackage, AtQueue
    <2>2. c.also \in Seq(Pkgs)
        BY <2>1, AnswerFacts
    <2>3. queue' \in Seq(Pkgs) /\ ToSet(queue) \subseteq ToSet(queue')
        BY <2>1, <2>2, ConcatFacts DEF Types, TrigprocHalt
    <2>4. /\ nerrs' \in Nat /\ nerrs' >= nerrs
          /\ failed \subseteq failed'
          /\ HasError(cur)
          /\ pc' = "queue" \/ (pc' = "deferred" /\ nerrs' >= ErrAbort)
        BY <1>2, <2>1, ErrorReturns DEF TrigprocHalt
    <2>. QED
        BY <2>1, <2>3, <2>4, KeepsSame DEF TrigprocHalt, Handles, Types
<1>. QED
    BY <1>1, <1>2

LEMMA RemoveNothingStep ==
    ASSUME Types, Handled, RemoveNothing
    PROVE  Handles
<1>1. pc = "remove" /\ cur \in Pkgs /\ pc \in AtPackage /\ pc \in AtQueue
    BY DEF RemoveNothing, Types, AtPackage, AtQueue
<1>2. pc' = "queue" /\ UNCHANGED <<sys, db, queue, progress, nerrs, failed>>
    BY <1>1, NormalReturns DEF RemoveNothing, errors
<1>3. ASSUME NEW p \in Pkgs, p = cur
      PROVE  Done(p)'
    BY <1>1, <1>2, <1>3 DEF RemoveNothing, Gone, Handled, Done
<1>. QED
    BY <1>1, <1>2, <1>3, KeepsSame DEF Handles, Types

LEMMA RemoveDeferStep ==
    ASSUME Types, RemoveDefer
    PROVE  Handles
<1>1. pc = "check" /\ cur \in Pkgs /\ pc \in AtPackage /\ pc \in AtQueue
    BY DEF RemoveDefer, Types, AtPackage, AtQueue
<1>2. queue' \in Seq(Pkgs) /\ ToSet(queue) \subseteq ToSet(queue') /\ cur \in ToSet(queue')
    BY <1>1, EnqueueFacts DEF RemoveDefer, Types
<1>3. pc' = "queue"
    BY <1>1, NormalReturns DEF RemoveDefer
<1>. QED
    BY <1>1, <1>2, <1>3, KeepsSame DEF RemoveDefer, Handles, Types, errors

-----------------------------------------------------------------------------
(***************************************************************************)
(* The actions that change the database.                                   *)
(***************************************************************************)

(* One change after another.                                               *)
LEMMA KeepsOn ==
    ASSUME NEW d, NEW e, NEW f, DbOK(d), DbOK(e), NEW p \in Pkgs,
           Keeps(d[p], e[p]), Keeps(e[p], f[p])
    PROVE  Keeps(d[p], f[p])
<1>1. d[p].status \in Status /\ e[p].status \in Status
    BY DEF DbOK, InfoOK
<1>. QED
    BY <1>1 DEF Keeps, Status

(* A note of a status below triggers-awaited.                              *)
LEMMA NoteBelow ==
    ASSUME NEW d, DbOK(d), NEW p, NEW s \in Status, s < TRIGGERSAWAITED
    PROVE  /\ DbOK(Note(d, p, s))
           /\ \A q \in Pkgs \ {p} : Alike(d[q], Note(d, p, s)[q])
           /\ p \in Pkgs => Note(d, p, s)[p].status = s
<1>1. ~(s > TRIGGERSAWAITED)
    BY DEF Status
<1>. QED
    BY <1>1, NoteEffect DEF Keeps

LEMMA NoteHalfConfigured ==
    ASSUME NEW d, DbOK(d), NEW p
    PROVE  /\ DbOK(Note(d, p, HALFCONFIGURED))
           /\ \A q \in Pkgs \ {p} : Alike(d[q], Note(d, p, HALFCONFIGURED)[q])
           /\ p \in Pkgs => Note(d, p, HALFCONFIGURED)[p].status = HALFCONFIGURED
<1>1. HALFCONFIGURED \in Status /\ HALFCONFIGURED < TRIGGERSAWAITED
    BY DEF Status
<1>. HIDE DEF HALFCONFIGURED
<1>. QED
    BY <1>1, NoteBelow

(* A postinst that succeeds leaves its package configured, and others as   *)
(* they are.                                                               *)
LEMMA PostinstEffect ==
    ASSUME NEW d, DbOK(d), NEW p, NEW success \in BOOLEAN, NEW e, e = Postinst(d, p, success)
    PROVE  /\ DbOK(e)
           /\ \A q \in Pkgs \ {p} : Alike(d[q], e[q])
           /\ p \in Pkgs /\ success => e[p].status >= TRIGGERSAWAITED
<1>1. CASE ~success
    BY <1>1 DEF Postinst, Alike, Keeps
<1>2. CASE success
    <2>. DEFINE s == Configured(d[p])
    <2>1. e = Note(d, p, s)
        BY <1>2 DEF Postinst
    <2>2. s \in Status /\ s >= TRIGGERSAWAITED /\ (s > TRIGGERSAWAITED => d[p].trigaw = {})
        BY DEF Configured, Status
    <2>. HIDE DEF s
    <2>3. /\ DbOK(e)
          /\ \A q \in Pkgs \ {p} : Alike(d[q], e[q])
          /\ p \in Pkgs => Keeps([status |-> s], e[p])
        BY <2>1, <2>2, NoteEffect
    <2>. QED
        BY <2>2, <2>3 DEF Keeps
<1>. QED
    BY <1>1, <1>2

LEMMA AlikeOn ==
    ASSUME NEW d, NEW e, NEW f, DbOK(d), DbOK(e), NEW p \in Pkgs,
           Alike(d[p], e[p]), Alike(e[p], f[p])
    PROVE  Alike(d[p], f[p])
<1>1. d[p].status \in Status /\ e[p].status \in Status
    BY DEF DbOK, InfoOK
<1>. QED
    BY <1>1 DEF Alike, Keeps, Status

(* A package is half-configured while its postinst runs.                   *)
LEMMA RunEffect ==
    ASSUME NEW d, DbOK(d), NEW p, NEW success \in BOOLEAN,
           NEW e, e = Postinst(Note(d, p, HALFCONFIGURED), p, success)
    PROVE  /\ DbOK(e)
           /\ \A q \in Pkgs \ {p} : Keeps(d[q], e[q])
           /\ p \in Pkgs /\ success => e[p].status >= TRIGGERSAWAITED
<1>. DEFINE h == Note(d, p, HALFCONFIGURED)
<1>1. DbOK(h) /\ \A q \in Pkgs \ {p} : Alike(d[q], h[q])
    BY NoteHalfConfigured
<1>. HIDE DEF h
<1>2. /\ DbOK(e)
      /\ \A q \in Pkgs \ {p} : Alike(h[q], e[q])
      /\ p \in Pkgs /\ success => e[p].status >= TRIGGERSAWAITED
    BY <1>1, PostinstEffect DEF h
<1>. QED
    BY <1>1, <1>2, AlikeOn DEF Alike

(* A package that is given up has an error.                                *)
LEMMA GivenUpEffect ==
    ASSUME Types, NEW g
    PROVE  /\ DbOK(DbAfter(g))
           /\ \A q \in Pkgs \ {g} : Keeps(db[q], DbAfter(g)[q])
           /\ g = NoPkg => DbAfter(g) = db
BY NoteHalfConfigured, KeepsSame DEF DbAfter, Alike, Types

LEMMA ConfigureRunStep ==
    ASSUME Types, Handled, NEW c \in Checks(cur, NoPkg),
           NEW o \in {"success", "conffiles", "postinst"}, ConfigureRun(c, o)
    PROVE  Handles
<1>. DEFINE started == Activate(db, cur, sys.activates[cur])
            ran     == Postinst(Note(started, cur, HALFCONFIGURED), cur, o = "success")
<1>1. pc = "configure" /\ cur \in Pkgs /\ pc \in AtPackage /\ pc \in AtQueue /\ DbOK(db)
    BY DEF ConfigureRun, Configurable, Types, AtPackage, AtQueue
<1>2. c.also \in Seq(Pkgs)
    BY <1>1, AnswerFacts
<1>3. queue' \in Seq(Pkgs) /\ ToSet(queue) \subseteq ToSet(queue')
    BY <1>1, <1>2, ConcatFacts DEF Types, ConfigureRun
<1>4. DbOK(started) /\ \A q \in Pkgs \ {cur} : Keeps(db[q], started[q])
    BY <1>1, ActivateEffect DEF Alike
<1>. HIDE DEF started
<1>5. /\ DbOK(ran)
      /\ \A q \in Pkgs \ {cur} : Keeps(started[q], ran[q])
      /\ o = "success" => ran[cur].status >= TRIGGERSAWAITED
    BY <1>1, <1>4, RunEffect
<1>. HIDE DEF ran
<1>6. CASE o = "conffiles"
    <2>1. db' = started /\ ReturnError("script", NoPkg) /\ UNCHANGED <<sys, progress>>
        BY <1>6 DEF ConfigureRun, started
    <2>2. /\ nerrs' \in Nat /\ nerrs' >= nerrs
          /\ failed \subseteq failed'
          /\ HasError(cur)
          /\ pc' = "queue" \/ (pc' = "deferred" /\ nerrs' >= ErrAbort)
        BY <1>1, <2>1, ErrorReturns
    <2>. QED
        BY <1>1, <1>3, <1>4, <2>1, <2>2 DEF Handles, Types
<1>7. CASE o # "conffiles"
    <2>1. db' = Activate(ran, cur, sys.scripts[cur]) /\ UNCHANGED <<sys, progress>>
        BY <1>7 DEF ConfigureRun, ran, started
    <2>2. /\ DbOK(db')
          /\ \A q \in Pkgs \ {cur} : Keeps(ran[q], db'[q])
          /\ Keeps(ran[cur], db'[cur])
        BY <1>1, <1>5, <2>1, ActivateEffect DEF Alike
    <2>3. \A q \in Pkgs \ {cur} : Keeps(db[q], db'[q])
        BY <1>1, <1>4, <1>5, <2>2, KeepsOn
    <2>4. CASE o = "success"
        <3>1. pc' = "queue" /\ UNCHANGED <<nerrs, failed>>
            BY <1>1, <2>4, NormalReturns DEF ConfigureRun, errors
        <3>2. db'[cur].status >= TRIGGERSAWAITED
            BY <1>5, <2>2, <2>4 DEF Keeps
        <3>3. sys.action \notin {"remove", "purge"}
            BY <1>1 DEF Handled
        <3>4. ASSUME NEW p \in Pkgs, p = cur
              PROVE  Done(p)'
            BY <2>1, <3>2, <3>3, <3>4 DEF Done
        <3>. QED
            BY <1>1, <1>3, <2>1, <2>2, <2>3, <3>1, <3>4 DEF Handles, Types
    <2>5. CASE o # "success"
        <3>1. ReturnError("script", NoPkg)
            BY <2>5 DEF ConfigureRun
        <3>2. /\ nerrs' \in Nat /\ nerrs' >= nerrs
              /\ failed \subseteq failed'
              /\ HasError(cur)
              /\ pc' = "queue" \/ (pc' = "deferred" /\ nerrs' >= ErrAbort)
            BY <1>1, <3>1, ErrorReturns
        <3>. QED
            BY <1>1, <1>3, <2>1, <2>2, <2>3, <3>2 DEF Handles, Types
    <2>. QED
        BY <2>4, <2>5
<1>. QED
    BY <1>6, <1>7

LEMMA TrigprocNothingStep ==
    ASSUME Types, TrigprocNothing
    PROVE  Handles
<1>1. DbOK(db') /\ \A p \in Pkgs : Keeps(db[p], db'[p])
    BY ReleaseEffect DEF Types, TrigprocNothing, Alike
<1>2. UNCHANGED <<sys, queue, progress, nerrs, failed>>
    BY DEF TrigprocNothing, errors
<1>3. \/ pc = "trigproc" /\ pc \in AtPackage /\ pc \in AtQueue /\ pc' = "queue"
      \/ pc = "trigprocDeferred" /\ pc' = "deferred"
    BY DEF TrigprocNothing, InTrigproc, Return, AtPackage, AtQueue
<1>. QED
    BY <1>1, <1>2, <1>3 DEF Handles, Types

(* Packages that are given up are accounted for.                           *)
LEMMA GivenUpErrors ==
    ASSUME Types, NEW g, failed' = FailedAfter(g), nerrs' = NerrsAfter(g)
    PROVE  /\ nerrs' \in Nat /\ nerrs' >= nerrs
           /\ failed \subseteq failed'
           /\ g # NoPkg => HasError(g)
<1>1. g # NoPkg => <<g, "loop">> \in failed' /\ <<g, "loop">>[1] = g
    BY DEF FailedAfter
<1>2. failed \subseteq failed'
    BY DEF FailedAfter
<1>3. nerrs' \in Nat /\ nerrs' >= nerrs
    BY DEF NerrsAfter, Types
<1>. QED
    BY <1>1, <1>2, <1>3 DEF HasError

LEMMA TrigprocDeferStep ==
    ASSUME Types, NEW c \in Checks(cur, NoPkg), TrigprocDefer(c)
    PROVE  Handles
<1>1. PICK g : /\ db' = DbAfter(g) /\ failed' = FailedAfter(g) /\ nerrs' = NerrsAfter(g)
               /\ queue' = IF g = cur THEN queue \o c.also ELSE Enqueue(queue \o c.also, cur)
    BY DEF TrigprocDefer
<1>2. UNCHANGED sys /\ progress' = c.progress
    BY DEF TrigprocDefer
<1>3. /\ DbOK(db')
      /\ \A q \in Pkgs : Keeps(db[q], db'[q]) \/ HasError(q)
      /\ nerrs' \in Nat /\ nerrs' >= nerrs
      /\ failed \subseteq failed'
    BY <1>1, GivenUpEffect, GivenUpErrors, KeepsSame
<1>4. CASE pc = "trigprocDeferred"
    <2>1. pc' = "deferred"
        BY <1>4 DEF TrigprocDefer, Return
    <2>. QED
        BY <1>2, <1>3, <1>4, <2>1 DEF Handles
<1>5. CASE pc # "trigprocDeferred"
    <2>1. pc = "trigproc" /\ cur \in Pkgs /\ pc \in AtPackage /\ pc \in AtQueue
        BY <1>5 DEF TrigprocDefer, Tries, HasWork, InTrigproc, Types, AtPackage, AtQueue
    <2>2. c.also \in Seq(Pkgs) /\ c.progress \in Pkgs \cup {NoPkg}
        BY <2>1, AnswerFacts DEF Types
    <2>3. queue \o c.also \in Seq(Pkgs) /\ ToSet(queue) \subseteq ToSet(queue \o c.also)
        BY <2>1, <2>2, ConcatFacts DEF Types
    <2>4. queue' \in Seq(Pkgs) /\ ToSet(queue) \subseteq ToSet(queue')
        BY <1>1, <2>1, <2>3, EnqueueFacts
    <2>5. pc' = "queue"
        BY <2>1, NormalReturns DEF TrigprocDefer
    <2>. QED
        BY <1>2, <1>3, <2>1, <2>2, <2>4, <2>5 DEF Handles
<1>. QED
    BY <1>4, <1>5

LEMMA TrigprocGivenUpStep ==
    ASSUME Types, NEW c \in Checks(cur, NoPkg), TrigprocGivenUp(c)
    PROVE  Handles
<1>1. /\ db' = DbAfter(cur) /\ failed' = FailedAfter(cur) /\ nerrs' = NerrsAfter(cur)
      /\ queue' = queue \o c.also
      /\ UNCHANGED <<sys, progress>>
    BY DEF TrigprocGivenUp
<1>2. /\ DbOK(db')
      /\ \A q \in Pkgs : Keeps(db[q], db'[q]) \/ HasError(q)
      /\ nerrs' \in Nat /\ nerrs' >= nerrs
      /\ failed \subseteq failed'
    BY <1>1, GivenUpEffect, GivenUpErrors, KeepsSame
<1>3. CASE pc = "trigprocDeferred"
    <2>1. pc' = "deferred"
        BY <1>3 DEF TrigprocGivenUp, Return
    <2>. QED
        BY <1>1, <1>2, <1>3, <2>1 DEF Handles
<1>4. CASE pc # "trigprocDeferred"
    <2>1. pc = "trigproc" /\ cur \in Pkgs /\ pc \in AtPackage /\ pc \in AtQueue
        BY <1>4 DEF TrigprocGivenUp, Tries, HasWork, InTrigproc, Types, AtPackage, AtQueue
    <2>2. c.also \in Seq(Pkgs)
        BY <2>1, AnswerFacts
    <2>3. queue' \in Seq(Pkgs) /\ ToSet(queue) \subseteq ToSet(queue')
        BY <1>1, <2>1, <2>2, ConcatFacts DEF Types
    <2>4. pc' = "queue"
        BY <2>1, NormalReturns DEF TrigprocGivenUp
    <2>. QED
        BY <1>1, <1>2, <2>1, <2>3, <2>4 DEF Handles, Types
<1>. QED
    BY <1>3, <1>4

LEMMA TrigprocRunStep ==
    ASSUME Types, NEW c \in Checks(cur, NoPkg), NEW success \in BOOLEAN, TrigprocRun(c, success)
    PROVE  Handles
<1>1. PICK g :
         /\ g # cur
         /\ db' = Activate(Postinst(Note(DbAfter(g), cur, HALFCONFIGURED), cur, success), cur,
                           sys.scripts[cur])
         /\ IF success THEN failed' = FailedAfter(g) /\ nerrs' = NerrsAfter(g) /\ Return
            ELSE ReturnError("script", g)
    BY DEF TrigprocRun
<1>2. /\ pc \in {"trigproc", "trigprocDeferred"} /\ db[cur].trigpend # {}
      /\ UNCHANGED <<sys, progress>>
    BY DEF TrigprocRun, Tries, HasWork, InTrigproc
<1>. DEFINE d   == DbAfter(g)
            ran == Postinst(Note(d, cur, HALFCONFIGURED), cur, success)
<1>3. DbOK(db) /\ DbOK(d) /\ \A q \in Pkgs \ {g} : Keeps(db[q], d[q])
    BY GivenUpEffect DEF Types
<1>. HIDE DEF d
<1>4. /\ DbOK(ran)
      /\ \A q \in Pkgs \ {cur} : Keeps(d[q], ran[q])
      /\ cur \in Pkgs /\ success => ran[cur].status >= TRIGGERSAWAITED
    BY <1>3, RunEffect
<1>. HIDE DEF ran
<1>5. /\ DbOK(db')
      /\ \A q \in Pkgs \ {cur} : Keeps(ran[q], db'[q])
      /\ cur \in Pkgs => Keeps(ran[cur], db'[cur])
    BY <1>1, <1>4, ActivateEffect DEF Alike, ran, d
<1>6. \A q \in Pkgs \ {cur, g} : Keeps(db[q], db'[q])
    BY <1>3, <1>4, <1>5, KeepsOn
<1>7. cur \in Pkgs /\ success => Keeps(db[cur], db'[cur])
    <2>. SUFFICES ASSUME cur \in Pkgs, success
                  PROVE  Keeps(db[cur], db'[cur])
        OBVIOUS
    <2>1. db[cur].status >= TRIGGERSAWAITED /\ db[cur].status \in Status
        BY <1>2, <1>3 DEF DbOK, InfoOK
    <2>2. db'[cur].status >= TRIGGERSAWAITED
        BY <1>4, <1>5 DEF Keeps
    <2>. QED
        BY <2>1, <2>2 DEF Keeps, Status
<1>8. /\ pc \in AtPackage \cup {"trigprocDeferred"}
      /\ pc # "trigprocDeferred" => pc = "trigproc" /\ pc \in AtPackage
    BY <1>2 DEF AtPackage
<1>9. /\ nerrs' \in Nat /\ nerrs' >= nerrs
      /\ failed \subseteq failed'
      /\ g # NoPkg => HasError(g)
      /\ ~success => HasError(cur)
      /\ pc \in AtPackage => pc' = "queue" \/ (pc' = "deferred" /\ nerrs' >= ErrAbort)
      /\ pc = "trigprocDeferred" => pc' = "deferred"
    <2>1. CASE success
        BY <1>1, <1>8, <2>1, GivenUpErrors, NormalReturns
    <2>2. CASE ~success
        BY <1>1, <1>8, <2>2, ErrorReturns
    <2>. QED
        BY <2>1, <2>2
<1>10. \A q \in Pkgs \ {cur} : Keeps(db[q], db'[q]) \/ HasError(q)
    <2>1. g \in Pkgs => g # NoPkg
        BY NamesAssumption, NoPkgAssumption
    <2>. QED
        BY <1>6, <1>9, <2>1
<1>11. pc # "trigprocDeferred" =>
          /\ queue' \in Seq(Pkgs) /\ ToSet(queue) \subseteq ToSet(queue')
          /\ progress' \in Pkgs \cup {NoPkg}
    <2>. SUFFICES ASSUME pc # "trigprocDeferred"
                  PROVE  queue' \in Seq(Pkgs) /\ ToSet(queue) \subseteq ToSet(queue')
                         /\ progress' \in Pkgs \cup {NoPkg}
        OBVIOUS
    <2>1. cur \in Pkgs /\ pc \in AtQueue
        BY <1>8 DEF Types, AtQueue
    <2>2. c.also \in Seq(Pkgs)
        BY <2>1, AnswerFacts
    <2>3. queue' = queue \o c.also
        BY DEF TrigprocRun
    <2>. QED
        BY <1>2, <2>1, <2>2, <2>3, ConcatFacts DEF Types
<1>. QED
    BY <1>2, <1>5, <1>7, <1>8, <1>9, <1>10, <1>11 DEF Handles

(* A removal leaves other packages as they are, whatever comes of it.      *)
LEMMA RemoveRunEffect ==
    ASSUME Types, NEW o \in Outcomes, RemoveRun(o)
    PROVE  /\ DbOK(db')
           /\ \A q \in Pkgs \ {cur} : Alike(db[q], db'[q])
           /\ cur \in Pkgs /\ o = "success" => db'[cur].status <= CONFIGFILES
           /\ cur \in Pkgs /\ db[cur].status < TRIGGERSAWAITED => db'[cur].status < TRIGGERSAWAITED
<1>. DEFINE s       == db[cur].status
            started == Activate(db, cur, sys.activates[cur])
            prerm   == IF s >= HALFCONFIGURED THEN Note(started, cur, HALFCONFIGURED) ELSE started
            ran     == Activate(prerm, cur, sys.scripts[cur])
<1>1. DbOK(db)
    BY DEF Types
<1>2. /\ DbOK(started) /\ \A q \in Pkgs \ {cur} : Alike(db[q], started[q])
      /\ cur \in Pkgs => Keeps(db[cur], started[cur])
    BY <1>1, ActivateEffect
<1>. HIDE DEF started
<1>3. /\ DbOK(prerm) /\ \A q \in Pkgs \ {cur} : Alike(started[q], prerm[q])
      /\ cur \in Pkgs /\ started[cur].status < TRIGGERSAWAITED => prerm[cur].status < TRIGGERSAWAITED
    <2>1. CASE s >= HALFCONFIGURED
        <3>1. prerm = Note(started, cur, HALFCONFIGURED)
            BY <2>1
        <3>. QED
            BY <1>2, <3>1, NoteHalfConfigured
    <2>2. CASE ~(s >= HALFCONFIGURED)
        <3>1. prerm = started
            BY <2>2
        <3>. QED
            BY <1>2, <3>1 DEF Alike, Keeps
    <2>. QED
        BY <2>1, <2>2
<1>. HIDE DEF prerm
<1>4. /\ DbOK(ran) /\ \A q \in Pkgs \ {cur} : Alike(prerm[q], ran[q])
      /\ cur \in Pkgs => Keeps(prerm[cur], ran[cur])
    BY <1>3, ActivateEffect
<1>. HIDE DEF ran
<1>9. cur \in Pkgs /\ s < TRIGGERSAWAITED => ran[cur].status < TRIGGERSAWAITED
    BY <1>2, <1>3, <1>4 DEF Keeps
<1>5. \A q \in Pkgs \ {cur} : Alike(db[q], ran[q])
    BY <1>1, <1>2, <1>3, <1>4, AlikeOn
<1>6. db' = CASE o = "success"      -> Note(ran, cur, Removed)
              [] o = "prerm"        -> IF AbortRemove THEN Postinst(ran, cur, TRUE) ELSE ran
              [] o = "abort-remove" -> ran
              [] o = "files"        -> Note(ran, cur, HALFINSTALLED)
              [] o = "purge"        -> Note(ran, cur, CONFIGFILES)
    BY DEF RemoveRun, ran, prerm, started
<1>7. ASSUME NEW t \in Status, t < TRIGGERSAWAITED, db' = Note(ran, cur, t)
      PROVE  /\ DbOK(db')
             /\ \A q \in Pkgs \ {cur} : Alike(ran[q], db'[q])
             /\ cur \in Pkgs => db'[cur].status = t
    BY <1>4, <1>7, NoteBelow
<1>8. /\ DbOK(db')
      /\ \A q \in Pkgs \ {cur} : Alike(ran[q], db'[q])
      /\ cur \in Pkgs /\ o = "success" => db'[cur].status <= CONFIGFILES
      /\ cur \in Pkgs /\ s < TRIGGERSAWAITED => db'[cur].status < TRIGGERSAWAITED
    <2>1. CASE o = "success"
        <3>1. Removed \in Status /\ Removed < TRIGGERSAWAITED /\ Removed <= CONFIGFILES
            BY DEF Removed, Status
        <3>2. db' = Note(ran, cur, Removed)
            BY <1>6, <2>1
        <3>. HIDE DEF Removed
        <3>. QED
            BY <1>7, <3>1, <3>2
    <2>2. CASE o = "prerm" /\ AbortRemove
        <3>1. db' = Postinst(ran, cur, TRUE)
            BY <1>6, <2>2
        <3>2. cur \in Pkgs => ~(s < TRIGGERSAWAITED)
            BY <1>1, <2>2 DEF AbortRemove, DbOK, InfoOK, Status
        <3>. QED
            BY <1>4, <2>2, <3>1, <3>2, PostinstEffect
    <2>3. CASE db' = ran /\ o # "success"
        BY <1>4, <1>9, <2>3 DEF Alike, Keeps
    <2>4. CASE o = "files"
        <3>1. HALFINSTALLED \in Status /\ HALFINSTALLED < TRIGGERSAWAITED
            BY DEF Status
        <3>2. db' = Note(ran, cur, HALFINSTALLED)
            BY <1>6, <2>4
        <3>. HIDE DEF HALFINSTALLED
        <3>. QED
            BY <1>7, <2>4, <3>1, <3>2
    <2>5. CASE o = "purge"
        <3>1. CONFIGFILES \in Status /\ CONFIGFILES < TRIGGERSAWAITED
            BY DEF Status
        <3>2. db' = Note(ran, cur, CONFIGFILES)
            BY <1>6, <2>5
        <3>. HIDE DEF CONFIGFILES
        <3>. QED
            BY <1>7, <2>5, <3>1, <3>2
    <2>. QED
        BY <1>6, <2>1, <2>2, <2>3, <2>4, <2>5 DEF Outcomes
<1>. QED
    BY <1>1, <1>4, <1>5, <1>8, AlikeOn

LEMMA RemoveRunStep ==
    ASSUME Types, Handled, NEW o \in Outcomes, RemoveRun(o)
    PROVE  Handles
<1>1. pc = "check" /\ cur \in Pkgs /\ pc \in AtPackage /\ pc \in AtQueue
    BY DEF RemoveRun, Types, AtPackage, AtQueue
<1>2. UNCHANGED <<sys, queue, progress>>
    BY DEF RemoveRun
<1>3. /\ DbOK(db')
      /\ \A q \in Pkgs \ {cur} : Keeps(db[q], db'[q])
      /\ o = "success" => db'[cur].status <= CONFIGFILES
    BY <1>1, RemoveRunEffect DEF Alike
<1>4. CASE o = "success"
    <2>1. pc' = "queue" /\ UNCHANGED <<nerrs, failed>>
        BY <1>1, <1>4, NormalReturns DEF RemoveRun, errors
    <2>2. ASSUME NEW p \in Pkgs, p = cur
          PROVE  Done(p)'
        BY <1>1, <1>2, <1>3, <1>4, <2>2 DEF Handled, Done
    <2>. QED
        BY <1>1, <1>2, <1>3, <2>1, <2>2 DEF Handles, Types
<1>5. CASE o # "success"
    <2>1. /\ nerrs' \in Nat /\ nerrs' >= nerrs
          /\ failed \subseteq failed'
          /\ HasError(cur)
          /\ pc' = "queue" \/ (pc' = "deferred" /\ nerrs' >= ErrAbort)
        BY <1>1, <1>5, ErrorReturns DEF RemoveRun
    <2>. QED
        BY <1>1, <1>2, <1>3, <2>1 DEF Handles, Types
<1>. QED
    BY <1>4, <1>5

-----------------------------------------------------------------------------
(***************************************************************************)
(* The steps between the packages, and those of a check for removal.       *)
(***************************************************************************)

(* The handler that process_queue() calls.                                 *)
LEMMA HandlerFacts ==
    ASSUME DbOK(db), NEW p \in Pkgs,
           NEW action \in {"configure", "install", "triggers", "remove", "purge"}
    PROVE  /\ Handler(p, action) \in AtPackage
           /\ Handler(p, action) = "trigproc" => db[p].trigpend # {}
           /\ Handler(p, action) \in {"remove", "check"} => action \in {"remove", "purge"}
           /\ Handler(p, action) = "configure" => action \notin {"remove", "purge"}
           /\ Handler(p, action) = "skip" => action = "install"
           /\ Handler(p, action) = "trigproc" => action \notin {"remove", "purge"}
                                                /\ db[p].status >= TRIGGERSAWAITED
           /\ action = "configure" /\ db[p].trigpend # {} => Handler(p, action) = "trigproc"
<1>1. /\ db[p].trigpend # {} => db[p].status >= TRIGGERSAWAITED
      /\ db[p].status \in Status
    BY DEF DbOK, InfoOK
<1>. QED
    BY <1>1 DEF Handler, AtPackage, Status

LEMMA PopStep ==
    ASSUME Types, NoneForgotten, Pop
    PROVE  Types' /\ Handled' /\ NoneForgotten'
<1>. DEFINE p     == Head(queue)
            rest  == Tail(queue)
            stop  == sincenothing > Len(rest) * 3 + 2
            stale == sincenothing + 1 > Len(rest) * 2 + 2
            byfix == /\ ~stop /\ stale
                     /\ dependtry >= DEPEND_TRY_TRIGGERS
                     /\ progress # NoPkg
                     /\ db[progress].trigpend # {}
<1>1. /\ pc = "queue" /\ queue # <<>>
      /\ queue' = IF byfix THEN Append(rest, p) ELSE rest
      /\ cur' = IF byfix THEN progress ELSE p
      /\ progress' = IF byfix THEN NoPkg ELSE progress
      /\ pc' = IF dependtry' >= DEPEND_TRY_LAST THEN "internerr"
               ELSE Handler(cur', IF byfix THEN "configure" ELSE sys.action)
      /\ UNCHANGED <<sys, db, nerrs, failed>>
    BY DEF Pop, errors
<1>2. byfix => progress # NoPkg /\ db[progress].trigpend # {}
    OBVIOUS
<1>. HIDE DEF byfix
<1>3. queue \in Seq(Pkgs) /\ progress \in Pkgs \cup {NoPkg} /\ DbOK(db)
    BY <1>1 DEF Types, AtQueue
<1>4. p \in Pkgs /\ rest \in Seq(Pkgs) /\ ToSet(queue) \subseteq {p} \cup ToSet(rest)
    BY <1>1, <1>3, HeadFacts
<1>5. /\ queue' \in Seq(Pkgs)
      /\ byfix => ToSet(queue) \subseteq ToSet(queue')
      /\ ~byfix => ToSet(queue) \subseteq {cur'} \cup ToSet(queue')
    BY <1>1, <1>4, AppendFacts
<1>. HIDE DEF p, rest
<1>6. cur' \in Pkgs /\ progress' \in Pkgs \cup {NoPkg}
    BY <1>1, <1>2, <1>3, <1>4
<1>7. sys.action \in {"configure", "install", "triggers", "remove", "purge"}
    BY SysFacts
<1>8. CASE pc' = "internerr"
    <2>1. Types' /\ Handled'
        BY <1>1, <1>3, <1>8 DEF Types, Handled, AtPackage, AtQueue
    <2>. QED
        BY <1>8, <2>1 DEF NoneForgotten, Waiting
<1>9. CASE byfix /\ pc' # "internerr"
    <2>1. pc' = "trigproc" /\ db[cur'].trigpend # {}
        BY <1>1, <1>2, <1>3, <1>6, <1>9, HandlerFacts
    <2>2. Types' /\ Handled'
        BY <1>1, <1>3, <1>5, <1>6, <2>1 DEF Types, Handled, AtPackage, AtQueue
    <2>3. ASSUME NEW q \in Args'
          PROVE  Answered(q)' \/ Waiting(q)'
        <3>1. Answered(q) \/ q \in ToSet(queue)
            BY <1>1, <2>3 DEF NoneForgotten, Waiting, Args, AtPackage, AtEnd
        <3>2. Answered(q) => Answered(q)'
            BY <1>1 DEF Answered, Done, Errors
        <3>. QED
            BY <1>5, <1>9, <2>1, <3>1, <3>2 DEF Waiting, AtQueue, AtPackage
    <2>. QED
        BY <2>2, <2>3 DEF NoneForgotten
<1>10. CASE ~byfix /\ pc' # "internerr"
    <2>1. pc' = Handler(cur', sys.action)
        BY <1>1, <1>10
    <2>2. /\ pc' \in AtPackage
          /\ pc' = "trigproc" => db[cur'].trigpend # {}
          /\ pc' \in {"remove", "check"} => sys.action \in {"remove", "purge"}
          /\ pc' = "configure" => sys.action \notin {"remove", "purge"}
          /\ pc' = "skip" => sys.action = "install"
          /\ pc' = "trigproc" => sys.action \notin {"remove", "purge"}
                                 /\ db[cur'].status >= TRIGGERSAWAITED
        BY <1>3, <1>6, <1>7, <2>1, HandlerFacts
    <2>3. Types' /\ Handled'
        BY <1>1, <1>3, <1>5, <1>6, <2>2 DEF Types, Handled, AtQueue
    <2>4. ASSUME NEW q \in Args'
          PROVE  Answered(q)' \/ Waiting(q)'
        <3>1. Answered(q) \/ q \in ToSet(queue)
            BY <1>1, <2>4 DEF NoneForgotten, Waiting, Args, AtPackage, AtEnd
        <3>2. Answered(q) => Answered(q)'
            BY <1>1 DEF Answered, Done, Errors
        <3>3. q \in ToSet(queue') => Waiting(q)'
            BY <2>2 DEF Waiting, AtQueue
        <3>4. ASSUME q = cur'
              PROVE  Answered(q)' \/ Waiting(q)'
            <4>1. pc' \in {"skip", "trigproc"} => Done(q)
                BY <1>7, <2>2, <3>4 DEF Done
            <4>. QED
                BY <2>2, <3>2, <3>4, <4>1 DEF Answered, Waiting
        <3>. QED
            BY <1>5, <1>10, <3>1, <3>2, <3>3, <3>4
    <2>. QED
        BY <2>3, <2>4 DEF NoneForgotten
<1>. QED
    BY <1>8, <1>9, <1>10

LEMMA OtherSteps ==
    ASSUME Types, Handled, NoneForgotten,
           \/ QueueDone \/ PopDeferred \/ DeferredDone \/ RemoveStart
           \/ \E l, c : RemoveCheck(l, c)
           \/ UNCHANGED vars
    PROVE  Types' /\ Handled' /\ NoneForgotten'
<1>1. UNCHANGED <<sys, db, nerrs, failed>>
    BY DEF QueueDone, PopDeferred, DeferredDone, RemoveStart, RemoveCheck, vars, errors
<1>2. \A p : Answered(p) => Answered(p)'
    BY <1>1 DEF Answered, Done, Errors
<1>3. \A p : p \in Args' => p \in Args /\ (Answered(p) \/ Waiting(p))
    BY <1>1 DEF Args, NoneForgotten
<1>4. CASE QueueDone
    <2>1. pc = "queue" /\ queue = <<>> /\ pc' = "deferred"
        BY <1>4 DEF QueueDone
    <2>2. \A p : ~Waiting(p)
        BY <2>1 DEF Waiting, ToSet, AtPackage, AtEnd
    <2>3. Types' /\ Handled'
        BY <1>1, <2>1 DEF Types, Handled, AtPackage, AtQueue, AtEnd
    <2>. QED
        BY <1>2, <1>3, <2>2, <2>3 DEF NoneForgotten
<1>5. CASE PopDeferred \/ DeferredDone
    <2>1. pc = "deferred" /\ pc' \in {"trigprocDeferred", "done"}
        BY <1>5 DEF PopDeferred, DeferredDone
    <2>2. \A p : Waiting(p) => Waiting(p)'
        BY <1>1, <2>1 DEF Waiting, AtPackage, AtQueue, AtEnd
    <2>3. Types' /\ Handled'
        BY <1>1, <2>1 DEF Types, Handled, AtPackage, AtQueue, AtEnd
    <2>. QED
        BY <1>2, <1>3, <2>2, <2>3 DEF NoneForgotten
<1>6. CASE RemoveStart \/ \E l, c : RemoveCheck(l, c)
    <2>1. pc \in {"remove", "check"} /\ pc' = "check" /\ UNCHANGED <<queue, progress, cur>>
        BY <1>6 DEF RemoveStart, RemoveCheck
    <2>2. \A p : Waiting(p) => Waiting(p)'
        BY <1>1, <2>1 DEF Waiting, AtPackage, AtQueue, AtEnd
    <2>3. Types' /\ Handled'
        BY <1>1, <2>1 DEF Types, Handled, AtPackage, AtQueue, AtEnd
    <2>. QED
        BY <1>2, <1>3, <2>2, <2>3 DEF NoneForgotten
<1>7. CASE UNCHANGED vars
    <2>1. UNCHANGED <<pc, queue, cur, progress>>
        BY <1>7 DEF vars
    <2>2. \A p : Waiting(p) => Waiting(p)'
        BY <1>1, <2>1 DEF Waiting
    <2>3. Types' /\ Handled'
        BY <1>1, <2>1 DEF Types, Handled
    <2>. QED
        BY <1>2, <1>3, <2>2, <2>3 DEF NoneForgotten
<1>. QED
    BY <1>4, <1>5, <1>6, <1>7

LEMMA AccountStep ==
    ASSUME Types, Handled, NoneForgotten, [Next]_vars
    PROVE  Types' /\ Handled' /\ NoneForgotten'
<1>1. CASE \/ Skip \/ NotReady \/ ConfigureRefused \/ RemoveRefused \/ RemoveHalt
           \/ TrigprocNothing \/ TrigprocLater \/ RemoveNothing \/ RemoveDefer
           \/ \E o \in Outcomes : RemoveRun(o)
    <2>1. Handles
        BY <1>1, SkipStep, RefusalStep, TrigprocNothingStep, TrigprocLaterStep,
           RemoveNothingStep, RemoveDeferStep, RemoveRunStep
    <2>. QED
        BY <2>1, HandlesIsRight
<1>2. ASSUME NEW c \in Checks(cur, NoPkg),
             \/ ConfigureDefer(c) \/ ConfigureHalt(c)
             \/ \E o \in {"success", "conffiles", "postinst"} : ConfigureRun(c, o)
             \/ TrigprocDefer(c) \/ TrigprocHalt(c) \/ TrigprocGivenUp(c)
             \/ \E success \in BOOLEAN : TrigprocRun(c, success)
      PROVE  Types' /\ Handled' /\ NoneForgotten'
    <2>1. Handles
        BY <1>2, ConfigureDeferStep, ConfigureHaltStep, ConfigureRunStep, TrigprocDeferStep,
           TrigprocHaltStep, TrigprocGivenUpStep, TrigprocRunStep
    <2>. QED
        BY <2>1, HandlesIsRight
<1>3. CASE Pop
    BY <1>3, PopStep
<1>4. CASE \/ QueueDone \/ PopDeferred \/ DeferredDone \/ RemoveStart
           \/ \E l, c : RemoveCheck(l, c)
           \/ UNCHANGED vars
    BY <1>4, OtherSteps
<1>. QED
    BY <1>1, <1>2, <1>3, <1>4 DEF Next

LEMMA AccountInit ==
    ASSUME Init
    PROVE  Types /\ Handled /\ NoneForgotten
<1>1. PICK w \in Worlds : sys = w.sys /\ db = w.db /\ queue = w.sys.args
    BY DEF Init
<1>2. pc = "queue" /\ progress = NoPkg /\ nerrs = 0
    BY DEF Init
<1>3. DbOK(db)
    <2>1. db \in [Pkgs -> Pkginfo] /\ \A p \in Pkgs : Coherent(db[p])
        BY <1>1, WorldsAssumption
    <2>2. ASSUME NEW p \in Pkgs
          PROVE  InfoOK(db[p])
        <3>1. db[p] \in Pkginfo /\ Coherent(db[p])
            BY <2>1
        <3>. QED
            BY <3>1 DEF Pkginfo, Coherent, InfoOK, Status
    <2>. QED
        BY <2>1, <2>2 DEF DbOK
<1>4. queue \in Seq(Pkgs)
    BY <1>1, WorldsAssumption
<1>5. Types /\ Handled
    BY <1>1, <1>2, <1>3, <1>4 DEF Types, Handled, AtPackage, AtQueue
<1>. QED
    BY <1>1, <1>2, <1>5 DEF NoneForgotten, Waiting, Args, AtQueue

(* No package gets lost between process_queue(), the handlers it calls and *)
(* trigproc_run_deferred(): when dpkg comes to its end without having been *)
(* stopped by --abort-after, each package of the command line is dealt     *)
(* with or has an error.                                                   *)
THEOREM NothingIsForgotten == Spec => []NothingForgotten
<1>1. Types /\ Handled /\ NoneForgotten => NothingForgotten
    <2>. SUFFICES ASSUME Types, NoneForgotten, pc = "done", nerrs < ErrAbort, NEW p \in Args
                  PROVE  Done(p) \/ Errors(p) # {}
        BY DEF NothingForgotten
    <2>1. ~Waiting(p)
        BY ErrAbortAssumption DEF Waiting, AtPackage, AtQueue, Types
    <2>. QED
        BY <2>1 DEF NoneForgotten, Answered
<1>. QED
    BY <1>1, AccountInit, AccountStep, PTL DEF Spec

-----------------------------------------------------------------------------
(***************************************************************************)
(* Dependencies are broken only in cycles.                                 *)
(***************************************************************************)
LEMMA SysStays ==
    ASSUME [Next]_vars
    PROVE  sys' = sys
BY DEF Next, vars, Pop, QueueDone, PopDeferred, DeferredDone, Skip, NotReady, ConfigureRefused,
       ConfigureDefer, ConfigureHalt, ConfigureRun, TrigprocDefer, TrigprocHalt,
       TrigprocGivenUp, TrigprocRun, TrigprocNothing, TrigprocLater, RemoveNothing,
       RemoveRefused, RemoveStart, RemoveDefer, RemoveHalt, RemoveCheck, RemoveRun

(* What is broken has been there, or findbreakcycle() has broken it.       *)
LEMMA BreakStep ==
    ASSUME Types, [Next]_vars
    PROVE  cyclebreak' = cyclebreak \/ cyclebreak' \in FindBreakCycle(cur)
<1>1. ASSUME NEW p, NEW r, NEW c \in Checks(p, r)
      PROVE  c.cyclebreak \in FindBreakCycle(cur)
    BY AnswerFacts
<1>2. ASSUME NEW c \in Checks(cur, NoPkg),
             \/ ConfigureDefer(c) \/ ConfigureHalt(c)
             \/ \E o \in {"success", "conffiles", "postinst"} : ConfigureRun(c, o)
             \/ TrigprocDefer(c) \/ TrigprocHalt(c) \/ TrigprocGivenUp(c)
             \/ \E success \in BOOLEAN : TrigprocRun(c, success)
      PROVE  cyclebreak' \in FindBreakCycle(cur)
    <2>1. cyclebreak' = c.cyclebreak
        BY <1>2 DEF ConfigureDefer, ConfigureHalt, ConfigureRun, TrigprocDefer, TrigprocHalt,
                    TrigprocGivenUp, TrigprocRun
    <2>. QED
        BY <1>1, <2>1
<1>3. ASSUME NEW l, NEW c \in Checks(l[1], cur), RemoveCheck(l, c)
      PROVE  cyclebreak' = cyclebreak \/ cyclebreak' \in FindBreakCycle(cur)
    BY <1>1, <1>3 DEF RemoveCheck
<1>4. CASE \/ Pop \/ QueueDone \/ PopDeferred \/ DeferredDone
           \/ Skip \/ NotReady \/ ConfigureRefused
           \/ TrigprocNothing \/ TrigprocLater
           \/ RemoveNothing \/ RemoveRefused \/ RemoveStart \/ RemoveDefer \/ RemoveHalt
           \/ \E o \in Outcomes : RemoveRun(o)
           \/ UNCHANGED vars
    BY <1>4 DEF vars, Pop, QueueDone, PopDeferred, DeferredDone, Skip, NotReady, ConfigureRefused,
                TrigprocNothing, TrigprocLater, RemoveNothing, RemoveRefused, RemoveStart,
                RemoveDefer, RemoveHalt, RemoveRun
<1>. QED
    BY <1>2, <1>3, <1>4 DEF Next

LEMMA CircularStays ==
    ASSUME sys' = sys, NEW p, NEW alternatives
    PROVE  Circular(p, alternatives)' <=> Circular(p, alternatives)
BY DEF Circular, Declared, AllLeads, Providers

LEMMA CircularStep ==
    ASSUME Types, OnlyCircular, [Next]_vars
    PROVE  OnlyCircular'
<1>1. sys' = sys
    BY SysStays
<1>2. \A l \in cyclebreak' : Circular(l[1], <<l[2]>>)
    BY BreakStep, BreaksCycles DEF OnlyCircular
<1>3. ASSUME NEW l \in cyclebreak'
      PROVE  Circular(l[1], <<l[2]>>)'
    BY <1>1, <1>2, CircularStays
<1>. QED
    BY <1>3 DEF OnlyCircular

-----------------------------------------------------------------------------
(***************************************************************************)
(* A package becomes configured in deferred_configure() only.              *)
(***************************************************************************)
Rises(p) == db[p].status < TRIGGERSAWAITED /\ db'[p].status >= TRIGGERSAWAITED

LEMMA KeepsIsFlat ==
    ASSUME DbOK(db), NEW p \in Pkgs, Keeps(db[p], db'[p])
    PROVE  ~Rises(p)
<1>1. db[p].status \in Status
    BY DEF DbOK, InfoOK
<1>. QED
    BY <1>1 DEF Keeps, Rises, Status

LEMMA GivenUpIsFlat ==
    ASSUME Types, NEW g, db' = DbAfter(g), NEW p \in Pkgs
    PROVE  ~Rises(p)
<1>1. CASE p = g
    <2>1. g # NoPkg
        BY <1>1, NamesAssumption, NoPkgAssumption
    <2>2. db'[p].status = HALFCONFIGURED
        BY <1>1, <2>1, NoteHalfConfigured DEF DbAfter, Types
    <2>. QED
        BY <2>2 DEF Rises
<1>2. CASE p # g
    BY <1>2, GivenUpEffect, KeepsIsFlat DEF Types
<1>. QED
    BY <1>1, <1>2

LEMMA TrigprocRunIsFlat ==
    ASSUME Types, NEW c, NEW success \in BOOLEAN, TrigprocRun(c, success), NEW p \in Pkgs
    PROVE  ~Rises(p)
<1>1. PICK g :
         db' = Activate(Postinst(Note(DbAfter(g), cur, HALFCONFIGURED), cur, success), cur,
                        sys.scripts[cur])
    BY DEF TrigprocRun
<1>. DEFINE d   == DbAfter(g)
            ran == Postinst(Note(d, cur, HALFCONFIGURED), cur, success)
<1>2. DbOK(db) /\ DbOK(d)
    BY GivenUpEffect DEF Types
<1>3. db[p].status < TRIGGERSAWAITED => d[p].status < TRIGGERSAWAITED
    <2>1. CASE p = g
        <3>1. g # NoPkg
            BY <2>1, NamesAssumption, NoPkgAssumption
        <3>. QED
            BY <1>2, <2>1, <3>1, NoteHalfConfigured DEF DbAfter
    <2>2. CASE p # g
        BY <2>2, GivenUpEffect DEF Keeps
    <2>. QED
        BY <2>1, <2>2
<1>. HIDE DEF d
<1>4. DbOK(ran) /\ \A q \in Pkgs \ {cur} : Keeps(d[q], ran[q])
    BY <1>2, RunEffect
<1>. HIDE DEF ran
<1>5. DbOK(db') /\ \A q \in Pkgs \ {cur} : Keeps(ran[q], db'[q])
    BY <1>1, <1>4, ActivateEffect DEF Alike, ran, d
<1>6. CASE p = cur
    <2>1. db[cur].trigpend # {}
        BY DEF TrigprocRun, Tries, HasWork
    <2>2. db[p].status \in Status /\ db[p].status >= TRIGGERSAWAITED
        BY <1>2, <1>6, <2>1 DEF DbOK, InfoOK
    <2>. QED
        BY <2>2 DEF Rises, Status
<1>7. CASE p # cur
    <2>1. db[p].status < TRIGGERSAWAITED => db'[p].status < TRIGGERSAWAITED
        BY <1>3, <1>4, <1>5, <1>7 DEF Keeps
    <2>2. db'[p].status \in Status
        BY <1>5 DEF DbOK, InfoOK
    <2>. QED
        BY <2>1, <2>2 DEF Rises, Status
<1>. QED
    BY <1>6, <1>7

LEMMA ConfigureRunIsFlat ==
    ASSUME Types, NEW c \in Checks(cur, NoPkg), NEW o \in {"success", "conffiles", "postinst"},
           ConfigureRun(c, o), NEW p \in Pkgs \ {cur}
    PROVE  ~Rises(p)
<1>. DEFINE started == Activate(db, cur, sys.activates[cur])
            ran     == Postinst(Note(started, cur, HALFCONFIGURED), cur, o = "success")
<1>1. DbOK(db)
    BY DEF Types
<1>2. DbOK(started) /\ Keeps(db[p], started[p])
    BY <1>1, ActivateEffect DEF Alike
<1>. HIDE DEF started
<1>3. DbOK(ran) /\ Keeps(started[p], ran[p])
    BY <1>2, RunEffect
<1>. HIDE DEF ran
<1>4. Keeps(ran[p], Activate(ran, cur, sys.scripts[cur])[p])
    BY <1>3, ActivateEffect DEF Alike
<1>5. db' = started \/ db' = Activate(ran, cur, sys.scripts[cur])
    BY DEF ConfigureRun, ran, started
<1>6. Keeps(db[p], db'[p])
    BY <1>1, <1>2, <1>3, <1>4, <1>5, KeepsOn
<1>. QED
    BY <1>1, <1>6, KeepsIsFlat

LEMMA RemoveRunIsFlat ==
    ASSUME Types, NEW o \in Outcomes, RemoveRun(o), NEW p \in Pkgs
    PROVE  ~Rises(p)
<1>1. DbOK(db) /\ DbOK(db')
    BY RemoveRunEffect DEF Types
<1>2. CASE p = cur
    <2>1. db[p].status < TRIGGERSAWAITED => db'[p].status < TRIGGERSAWAITED
        BY <1>2, RemoveRunEffect
    <2>2. db'[p].status \in Status
        BY <1>1 DEF DbOK, InfoOK
    <2>. QED
        BY <2>1, <2>2 DEF Rises, Status
<1>3. CASE p # cur
    BY <1>1, <1>3, RemoveRunEffect, KeepsIsFlat DEF Alike
<1>. QED
    BY <1>2, <1>3

(* Whoever becomes configured has passed the check of its dependencies.    *)
LEMMA RiseIsConfigured ==
    ASSUME Types, [Next]_vars, NEW p \in Pkgs, Rises(p)
    PROVE  p = cur /\ \E c \in Checks(cur, NoPkg) : c.ok = "ok"
<1>1. DbOK(db)
    BY DEF Types
<1>2. db' # db
    <2>. SUFFICES ASSUME db' = db PROVE FALSE
        OBVIOUS
    <2>. QED
        BY <1>1, KeepsSame, KeepsIsFlat
<1>3. ~TrigprocNothing
    <2>. SUFFICES ASSUME TrigprocNothing PROVE FALSE
        OBVIOUS
    <2>. QED
        BY <1>1, ReleaseEffect, KeepsIsFlat DEF TrigprocNothing, Alike
<1>4. \A c : ~TrigprocDefer(c) /\ ~TrigprocGivenUp(c)
    <2>1. ASSUME NEW c, TrigprocDefer(c) \/ TrigprocGivenUp(c)
          PROVE  \E g : db' = DbAfter(g)
        BY <2>1 DEF TrigprocDefer, TrigprocGivenUp
    <2>. QED
        BY <2>1, GivenUpIsFlat
<1>5. ~ \/ Pop \/ QueueDone \/ PopDeferred \/ DeferredDone \/ Skip \/ NotReady
        \/ ConfigureRefused \/ TrigprocLater \/ RemoveNothing \/ RemoveRefused \/ RemoveStart
        \/ RemoveDefer \/ RemoveHalt \/ UNCHANGED vars
    BY <1>2 DEF vars, Pop, QueueDone, PopDeferred, DeferredDone, Skip, NotReady,
                ConfigureRefused, TrigprocLater, RemoveNothing, RemoveRefused, RemoveStart,
                RemoveDefer, RemoveHalt
<1>6. \A l, c : ~ConfigureDefer(c) /\ ~ConfigureHalt(c) /\ ~TrigprocHalt(c) /\ ~RemoveCheck(l, c)
    BY <1>2 DEF ConfigureDefer, ConfigureHalt, TrigprocHalt, RemoveCheck
<1>7. PICK c \in Checks(cur, NoPkg), o \in {"success", "conffiles", "postinst"} : ConfigureRun(c, o)
    BY <1>3, <1>4, <1>5, <1>6, TrigprocRunIsFlat, RemoveRunIsFlat DEF Next
<1>8. c.ok = "ok"
    BY <1>7 DEF ConfigureRun
<1>. QED
    BY <1>7, <1>8, ConfigureRunIsFlat

(* A package is configured only when what it depends on is configured, but *)
(* for cycles: the steps of dpkg keep to it whatever their order.          *)
THEOREM ConfiguresInOrder == Spec => DependenciesFirst
<1>. DEFINE A == \A p \in Pkgs :
                    /\ sys.force \subseteq {"configure-any"}
                    /\ sys.ignore = {}
                    /\ db[p].status < TRIGGERSAWAITED
                    /\ db'[p].status >= TRIGGERSAWAITED
                    => \A i \in DOMAIN sys.depends[p] :
                          \/ Met(db, p, sys.depends[p][i])
                          \/ Circular(p, sys.depends[p][i])
<1>1. Init => OnlyCircular
    BY DEF Init, OnlyCircular
<1>2. ASSUME Types, OnlyCircular, [Next]_vars
      PROVE  A
    <2>. SUFFICES ASSUME NEW p \in Pkgs, sys.force \subseteq {"configure-any"}, sys.ignore = {},
                         Rises(p), NEW i \in DOMAIN sys.depends[p]
                  PROVE  Met(db, p, sys.depends[p][i]) \/ Circular(p, sys.depends[p][i])
        BY DEF Rises
    <2>1. ~Forced("depends") /\ ~Forced("depends-version")
        BY DEF Forced
    <2>2. PICK c \in Checks(p, NoPkg) : c.ok = "ok"
        BY <1>2, RiseIsConfigured
    <2>. QED
        BY <1>2, <2>1, <2>2, AnswerIsRight DEF Met
<1>3. DependenciesFirst <=> [][A]_vars
    BY DEF DependenciesFirst
<1>. HIDE DEF A
<1>. QED
    BY <1>1, <1>2, <1>3, AccountInit, AccountStep, CircularStep, PTL DEF Spec

-----------------------------------------------------------------------------
(***************************************************************************)
(* checkforremoval() looks at every dependency on the package.             *)
(***************************************************************************)
LEMMA RemovalOKStep ==
    ASSUME RemovalOK, [Next]_vars
    PROVE  RemovalOK'
BY DEF RemovalOK, Next, vars, removal, Pop, QueueDone, PopDeferred, DeferredDone, Skip, NotReady,
       ConfigureRefused, ConfigureDefer, ConfigureHalt, ConfigureRun, TrigprocDefer,
       TrigprocHalt, TrigprocGivenUp, TrigprocRun, TrigprocNothing, TrigprocLater,
       RemoveNothing, RemoveRefused, RemoveStart, RemoveDefer, RemoveHalt, RemoveCheck,
       RemoveRun, Worse

(* A check begins with all dependencies, and none is dropped unseen.       *)
LEMMA CheckStarts ==
    ASSUME Types, RemoveStart
    PROVE  CheckedAreMet'
<1>1. /\ UNCHANGED <<sys, db, cur>>
      /\ checks' = {l \in AllDepends : l[2] = cur \/ cur \in Providers(l[2])}
    BY DEF RemoveStart
<1>2. ASSUME NEW p \in Pkgs, db[p].status >= UNPACKED, NEW i \in DOMAIN sys.depends[p],
             NEW j \in DOMAIN sys.depends[p][i],
             sys.depends[p][i][j] = cur \/ cur \in Providers(sys.depends[p][i][j])
      PROVE  <<p, sys.depends[p][i][j]>> \in checks'
    <2>1. <<p, sys.depends[p][i][j]>> \in Declared
        BY DeclaredFacts
    <2>2. db[p].status # NOTINSTALLED
        BY <1>2
    <2>3. <<p, sys.depends[p][i][j]>> \in AllDepends
        BY <2>1, <2>2 DEF AllDepends
    <2>. QED
        BY <1>1, <1>2, <2>3
<1>3. ASSUME NEW p \in Pkgs, db'[p].status >= UNPACKED, NEW i \in DOMAIN sys.depends[p]
      PROVE  ~Concerns(p, i)'
    BY <1>1, <1>2, <1>3 DEF Concerns, Providers
<1>. QED
    BY <1>1, <1>3 DEF CheckedAreMet

LEMMA CheckGoesOn ==
    ASSUME Types, OnlyCircular, RemovalOK, CheckedAreMet,
           NEW l \in checks, NEW c \in Checks(l[1], cur), RemoveCheck(l, c)
    PROVE  CheckedAreMet'
<1>1. UNCHANGED <<sys, db, cur, pc>> /\ checks' = checks \ {l} /\ pc = "check"
    BY DEF RemoveCheck
<1>2. cur \in Pkgs
    BY <1>1 DEF Types, AtPackage
<1>. SUFFICES ASSUME sys.force \cap {"depends", "depends-version"} = {}, sys.ignore = {},
                     rok' = "ok", NEW p \in Pkgs, db[p].status >= UNPACKED,
                     NEW i \in DOMAIN sys.depends[p], Concerns(p, i)'
              PROVE  MetWithout(p, sys.depends[p][i]) \/ Circular(p, sys.depends[p][i])
    BY <1>1, CircularStays DEF CheckedAreMet, MetWithout, Meets, Providers
<1>3. PICK j \in DOMAIN sys.depends[p][i] :
         /\ <<p, sys.depends[p][i][j]>> \notin checks'
         /\ sys.depends[p][i][j] = cur \/ cur \in Providers(sys.depends[p][i][j])
    BY <1>1 DEF Concerns, Providers
<1>4. CASE rok = "ok" /\ <<p, sys.depends[p][i][j]>> \notin checks
    <2>1. Concerns(p, i)
        BY <1>3, <1>4 DEF Concerns
    <2>. QED
        BY <1>1, <1>4, <2>1 DEF CheckedAreMet
<1>5. CASE l = <<p, sys.depends[p][i][j]>>
    <2>1. l[1] = p
        BY <1>5
    <2>2. db[p].status \in Status
        BY DEF Types, DbOK, InfoOK
    <2>3. ~Indifferent(p)
        BY <2>2 DEF Indifferent, Status
    <2>4. rok' = Worse(rok, c.ok)
        BY <2>1, <2>3 DEF RemoveCheck
    <2>5. c \in Checks(p, cur)
        BY <2>1
    <2>6. c.ok \in {"ok", "defer", "halt"}
        BY <2>5, AnswerFacts
    <2>7. c.ok = "ok"
        BY <2>4, <2>6 DEF Worse
    <2>8. cur # NoPkg
        BY <1>2, NamesAssumption, NoPkgAssumption
    <2>9. \E d \in Candidates(sys.depends[p][i]) : d.pkg = cur
        <3>. DEFINE n == sys.depends[p][i][j]
                    d == [alt |-> j, name |-> n, pkg |-> cur, provider |-> cur # n]
        <3>1. cur \in {q \in Pkgs : q = n \/ q \in Providers(n)}
            BY <1>2, <1>3
        <3>2. d \in Candidates(sys.depends[p][i])
            BY <3>1 DEF Candidates
        <3>. QED
            BY <3>2
    <2>10. ~Forced("depends") /\ ~Forced("depends-version")
        BY DEF Forced
    <2>. QED
        BY <2>5, <2>7, <2>9, <2>10, AnswerIsRight DEF MetWithout
<1>6. rok = "ok"
    BY DEF RemoveCheck, Worse, RemovalOK
<1>. QED
    BY <1>1, <1>3, <1>4, <1>5, <1>6

(* No other step leads to a check.                                         *)
LEMMA CheckStep ==
    ASSUME Types, OnlyCircular, RemovalOK, CheckedAreMet, [Next]_vars
    PROVE  CheckedAreMet'
<1>1. CASE RemoveStart
    BY <1>1, CheckStarts
<1>2. ASSUME NEW l \in checks, NEW c \in Checks(l[1], cur), RemoveCheck(l, c)
      PROVE  CheckedAreMet'
    BY <1>2, CheckGoesOn
<1>3. CASE UNCHANGED vars
    <2>1. UNCHANGED <<sys, db, cur, pc, rok, checks>>
        BY <1>3 DEF vars
    <2>. QED
        BY <2>1, CircularStays DEF CheckedAreMet, MetWithout, Meets, Providers, Concerns
<1>4. ASSUME pc' # "check"
      PROVE  CheckedAreMet'
    BY <1>4 DEF CheckedAreMet
<1>5. CASE Pop
    <2>1. pc' = "internerr" \/ \E p, action : pc' = Handler(p, action)
        BY <1>5 DEF Pop
    <2>2. pc' # "check"
        BY <2>1 DEF Handler
    <2>. QED
        BY <1>4, <2>2
<1>6. CASE \/ QueueDone \/ PopDeferred \/ DeferredDone
           \/ Skip \/ NotReady \/ ConfigureRefused
           \/ TrigprocNothing \/ TrigprocLater
           \/ RemoveNothing \/ RemoveRefused \/ RemoveDefer \/ RemoveHalt
           \/ \E o \in Outcomes : RemoveRun(o)
    <2>1. pc' # "check"
        BY <1>6 DEF QueueDone, PopDeferred, DeferredDone, Skip, NotReady, ConfigureRefused,
                    TrigprocNothing, TrigprocLater, RemoveNothing, RemoveRefused, RemoveDefer,
                    RemoveHalt, RemoveRun, Return, ReturnError
    <2>. QED
        BY <1>4, <2>1
<1>7. ASSUME NEW c \in Checks(cur, NoPkg),
             \/ ConfigureDefer(c) \/ ConfigureHalt(c)
             \/ \E o \in {"success", "conffiles", "postinst"} : ConfigureRun(c, o)
             \/ TrigprocDefer(c) \/ TrigprocHalt(c) \/ TrigprocGivenUp(c)
             \/ \E success \in BOOLEAN : TrigprocRun(c, success)
      PROVE  CheckedAreMet'
    <2>1. pc' # "check"
        BY <1>7 DEF ConfigureDefer, ConfigureHalt, ConfigureRun, TrigprocDefer, TrigprocHalt,
                    TrigprocGivenUp, TrigprocRun, Return, ReturnError
    <2>. QED
        BY <1>4, <2>1
<1>. QED
    BY <1>1, <1>2, <1>3, <1>5, <1>6, <1>7 DEF Next

(* A package that provides to itself what it needs is its own cycle.       *)
LEMMA OwnIsCircular ==
    ASSUME Types, NEW p \in Pkgs, NEW i \in DOMAIN sys.depends[p],
           NEW n \in ToSet(sys.depends[p][i]), p = n \/ p \in Providers(n)
    PROVE  Circular(p, sys.depends[p][i])
<1>1. PICK j \in DOMAIN sys.depends[p][i] : n = sys.depends[p][i][j]
    BY DEF ToSet
<1>. DEFINE e == <<<<p, n>>, p>>
<1>2. <<p, n>> \in Declared
    BY <1>1, DeclaredFacts
<1>3. n \in Names
    BY <1>1, DeclaredNames
<1>4. e \in Edges(Declared, AllLeads)
    BY <1>2, <1>3 DEF Edges, AllLeads
<1>5. p \in Reachable(Edges(Declared, AllLeads), To(e))
    BY DEF Reachable, To
<1>6. e[1] = <<p, n>>
    OBVIOUS
<1>. HIDE DEF e
<1>. QED
    BY <1>4, <1>5, <1>6, EdgeIsCircular

(* A removal takes away no package that another one needs, unless both are *)
(* on a cycle, however many packages are removed in one run and whatever   *)
(* has failed before.                                                      *)
THEOREM RemovesInOrder == Spec => RemovalKeepsDependencies
<1>. DEFINE A == \A p \in Pkgs :
                    /\ sys.force \cap {"depends", "depends-version"} = {}
                    /\ sys.ignore = {}
                    /\ pc = "check"
                    /\ db'[p].status >= UNPACKED
                    => \A i \in DOMAIN sys.depends[p] :
                          \/ Met(db, p, sys.depends[p][i]) => Met(db', p, sys.depends[p][i])
                          \/ Circular(p, sys.depends[p][i])
<1>1. Init => OnlyCircular /\ RemovalOK /\ CheckedAreMet
    BY DEF Init, OnlyCircular, RemovalOK, CheckedAreMet
<1>2. ASSUME Types, OnlyCircular, RemovalOK, CheckedAreMet, [Next]_vars
      PROVE  A
    <2>. SUFFICES ASSUME NEW p \in Pkgs, sys.force \cap {"depends", "depends-version"} = {},
                         sys.ignore = {}, pc = "check", db'[p].status >= UNPACKED,
                         NEW i \in DOMAIN sys.depends[p], Met(db, p, sys.depends[p][i])
                  PROVE  Met(db', p, sys.depends[p][i]) \/ Circular(p, sys.depends[p][i])
        OBVIOUS
    <2>1. CASE db' = db
        BY <2>1
    <2>2. ASSUME NEW o \in Outcomes, RemoveRun(o)
          PROVE  Met(db', p, sys.depends[p][i]) \/ Circular(p, sys.depends[p][i])
        <3>1. DbOK(db) /\ DbOK(db') /\ \A q \in Pkgs \ {cur} : Alike(db[q], db'[q])
            BY <1>2, <2>2, RemoveRunEffect DEF Types
        <3>2. ASSUME NEW n, NEW q \in Pkgs \ {cur}, Meets(db, p, n, q)
              PROVE  Meets(db', p, n, q)
            <4>1. db'[q].status \in Status /\ db'[q].status > TRIGGERSAWAITED
                BY <3>1, <3>2 DEF Alike, Meets, DbOK, InfoOK
            <4>. QED
                BY <3>2, <4>1 DEF Meets, Status
        <3>3. PICK n \in ToSet(sys.depends[p][i]), q \in Pkgs : Meets(db, p, n, q)
            BY DEF Met
        <3>4. CASE q # cur
            BY <3>2, <3>3, <3>4 DEF Met
        <3>5. CASE q = cur /\ p = cur
            BY <1>2, <3>3, <3>5, OwnIsCircular DEF Meets
        <3>6. CASE q = cur /\ p # cur
            <4>1. db[p].status >= UNPACKED
                BY <3>1, <3>6 DEF Alike, Keeps, DbOK, InfoOK, Status
            <4>2. checks = {} /\ rok = "ok"
                BY <2>2 DEF RemoveRun
            <4>3. PICK j \in DOMAIN sys.depends[p][i] : n = sys.depends[p][i][j]
                BY <3>3 DEF ToSet
            <4>4. Concerns(p, i)
                BY <3>3, <3>6, <4>2, <4>3 DEF Concerns, Meets
            <4>5. MetWithout(p, sys.depends[p][i]) \/ Circular(p, sys.depends[p][i])
                BY <1>2, <4>1, <4>2, <4>4 DEF CheckedAreMet
            <4>. QED
                BY <3>2, <4>5 DEF MetWithout, Met
        <3>. QED
            BY <3>4, <3>5, <3>6
    <2>3. db' = db \/ \E o \in Outcomes : RemoveRun(o)
        BY <1>2 DEF Next, vars, Pop, QueueDone, PopDeferred, DeferredDone, Skip, NotReady,
                    ConfigureRefused, InTrigproc, HasWork, Tries, TrigprocNothing, TrigprocLater,
                    RemoveNothing, RemoveRefused, RemoveStart, RemoveDefer, RemoveHalt, RemoveCheck
    <2>. QED
        BY <2>1, <2>2, <2>3
<1>3. RemovalKeepsDependencies <=> [][A]_vars
    BY DEF RemovalKeepsDependencies
<1>. HIDE DEF A
<1>. QED
    BY <1>1, <1>2, <1>3, AccountInit, AccountStep, CircularStep, RemovalOKStep, CheckStep, PTL
       DEF Spec
=============================================================================
