------------------------------ MODULE Triggers ------------------------------
(***************************************************************************)
(* The trigger states of packages: lib/dpkg/triglib.c, trignote.c and      *)
(* modstatdb_note() of dbmodify.c, with the parts of dpkg that call them   *)
(* (trigproc.c, configure.c, script.c, unpack.c, remove.c).                *)
(*                                                                         *)
(* A package that is interested in a trigger gets it added to its list of  *)
(* pending triggers (trigpend) when somebody activates it; the package     *)
(* that activated it goes on to await (trigaw) the interested one.  Both   *)
(* lists live in the status database.  An activation by dpkg-trigger first *)
(* waits in the file triggers/Unincorp, until dpkg incorporates it.        *)
(*                                                                         *)
(* One dpkg works at a time, as the lock of StatusDb makes sure; it may    *)
(* die after any note.  A note of one package is atomic and durable: that  *)
(* is what StatusDb proves, so here the database is one stanza per package.*)
(***************************************************************************)
EXTENDS PkgStatus, Sequences

CONSTANTS
    Pkgs,    \* package names
    Trigs,   \* trigger names
    NoPkg,   \* nobody awaits the activation; no postinst is running
    None     \* no activation is half recorded

ASSUME NoPkgAssumption == NoPkg \notin Pkgs
ASSUME NoneAssumption == None \notin [pend : Pkgs, aw : Pkgs \cup {NoPkg}, trig : Trigs]

Pkginfo     == [status : Status, trigpend : SUBSET Trigs, trigaw : SUBSET Pkgs]
Activations == Trigs \X (Pkgs \cup {NoPkg})
Records     == [pend : Pkgs, aw : Pkgs \cup {NoPkg}, trig : Trigs]

VARIABLES
    disk,       \* the status database
    interest,   \* who is interested in a trigger, and how: triggers/<trigger>
    unincorp,   \* triggers/Unincorp: activations by dpkg-trigger
    supported,  \* does triggers/Unincorp exist?
    mem,        \* the packages as the running dpkg has them in memory
    pc,         \* what dpkg is doing
    running,    \* the package whose postinst runs
    fixup,      \* packages that trig_fixup_awaiters() has still to visit
    records,    \* activations that are still to be recorded
    half,       \* the activation whose pending side has been noted
    clearing    \* packages whose awaiters are being released, innermost first

vars == <<disk, interest, unincorp, supported, mem, pc, running, fixup,
          records, half, clearing>>

(* What a package says of a trigger in its control file.                   *)
Options == {"none", "await", "noawait"}

(* Who awaits q in memory: the list othertrigaw of q.                      *)
Awaiters(m, q) == {p \in Pkgs : q \in m[p].trigaw}
Awaited(m)     == {q \in Pkgs : Awaiters(m, q) # {}}

(* At first the database is that of a dpkg that knew nothing of triggers,  *)
(* and only control files declare interests.                               *)
OldStatus == Status \ {TRIGGERSAWAITED, TRIGGERSPENDING}

Init ==
    /\ disk \in [Pkgs -> {[status |-> s, trigpend |-> {}, trigaw |-> {}] : s \in OldStatus}]
    /\ interest \in [Trigs -> [Pkgs -> Options]]
    /\ \A t \in Trigs, p \in Pkgs : disk[p].status <= HALFINSTALLED => interest[t][p] = "none"
    /\ unincorp = {}
    /\ supported = FALSE
    /\ mem = disk
    /\ pc = "down"
    /\ running = NoPkg
    /\ fixup = {}
    /\ records = {}
    /\ half = None
    /\ clearing = <<>>

-----------------------------------------------------------------------------
(***************************************************************************)
(* modstatdb_note(): make the lists agree with the status, write the       *)
(* stanza, and then release the awaiters of a package without pending      *)
(* triggers.  The write may be the one that fills the journal; then all    *)
(* packages are written as they are in memory.                             *)
(***************************************************************************)
Normal(r) ==
    [r EXCEPT !.trigpend = IF r.status \in {TRIGGERSPENDING, TRIGGERSAWAITED} THEN @ ELSE {},
              !.trigaw   = IF r.status <= CONFIGFILES THEN {} ELSE @]

MustRelease(p) ==
    /\ mem'[p].trigpend = {}
    /\ Awaiters(mem', p) # {}
    /\ \A i \in 1 .. Len(clearing) : clearing[i] # p

Release(p, rest) == IF MustRelease(p) THEN <<p>> \o rest ELSE rest

Note(p, r) ==
    /\ mem' = [mem EXCEPT ![p] = Normal(r)]
    /\ disk' \in {[disk EXCEPT ![p] = mem'[p]], mem'}
    /\ clearing' = Release(p, clearing)

(* trig_clear_awaiters(): one awaiter of the innermost package.  It is     *)
(* noted only if its status changes.                                       *)
ClearAwaiterUnnoted(p) ==    \* fault: the new status is not noted
    LET q == Head(clearing)
        r == [mem[p] EXCEPT !.trigaw = @ \ {q}]
        s == IF r.trigpend # {} THEN TRIGGERSPENDING ELSE INSTALLED
    IN
    /\ clearing # <<>>
    /\ p \in Awaiters(mem, q)
    /\ mem' = [mem EXCEPT ![p] = IF r.trigaw = {} /\ r.status = TRIGGERSAWAITED
                                 THEN [r EXCEPT !.status = s] ELSE r]
    /\ UNCHANGED <<disk, clearing, interest, unincorp, supported, pc, running, fixup, records, half>>

ClearAwaiterForgets(p) ==    \* fault: the package stays in the awaiter's list
    /\ clearing # <<>>
    /\ p \in Awaiters(mem, Head(clearing))
    /\ Note(p, mem[p])
    /\ UNCHANGED <<interest, unincorp, supported, pc, running, fixup, records, half>>

ClearAwaiter(p) ==
    LET q == Head(clearing)
        r == [mem[p] EXCEPT !.trigaw = @ \ {q}]
        s == IF r.trigpend # {} THEN TRIGGERSPENDING ELSE INSTALLED
    IN
    /\ clearing # <<>>
    /\ p \in Awaiters(mem, q)
    /\ IF r.trigaw = {} /\ r.status = TRIGGERSAWAITED
       THEN Note(p, [r EXCEPT !.status = s])
       ELSE /\ mem' = [mem EXCEPT ![p] = r]
            /\ UNCHANGED <<disk, clearing>>
    /\ UNCHANGED <<interest, unincorp, supported, pc, running, fixup, records, half>>

ClearDone ==
    /\ clearing # <<>>
    /\ Awaiters(mem, Head(clearing)) = {}
    /\ clearing' = Tail(clearing)
    /\ UNCHANGED <<disk, interest, unincorp, supported, mem, pc, running, fixup, records, half>>

(* The calls that dpkg makes one after the other.                          *)
At(l) == pc = l /\ clearing = <<>>

-----------------------------------------------------------------------------
(***************************************************************************)
(* modstatdb_open(): read the database, release those who await a package  *)
(* without pending triggers (a dpkg that died may leave such), and         *)
(* incorporate what dpkg-trigger has recorded.                             *)
(***************************************************************************)
Open ==
    /\ At("down")
    /\ mem' = disk
    /\ fixup' = Awaited(disk)
    /\ pc' = "fixup"
    /\ UNCHANGED <<disk, interest, unincorp, supported, running, records, half, clearing>>

FixupVisit(q) ==
    /\ At("fixup")
    /\ q \in fixup
    /\ fixup' = fixup \ {q}
    /\ clearing' = IF mem[q].trigpend = {} THEN <<q>> ELSE <<>>
    /\ UNCHANGED <<disk, interest, unincorp, supported, mem, pc, running, records, half>>

FixupSkipped ==    \* fault: the list is thrown away
    /\ At("fixup")
    /\ fixup' = {}
    /\ pc' = "incorporate"
    /\ UNCHANGED <<disk, interest, unincorp, supported, mem, running, records, half, clearing>>

FixupDone ==
    /\ At("fixup")
    /\ fixup = {}
    /\ pc' = "incorporate"
    /\ UNCHANGED <<disk, interest, unincorp, supported, mem, running, fixup, records, half, clearing>>

(* What has to be recorded when trigger t is activated by aw.              *)
RecordsFor(t, aw) ==
    {[pend |-> q, aw |-> IF interest[t][q] = "await" THEN aw ELSE NoPkg, trig |-> t] :
        q \in {x \in Pkgs : interest[t][x] # "none"}}

(* trig_incorporate(): read Unincorp under the triggers lock, ...          *)
IncorporateStartEmpties ==    \* fault: Unincorp is replaced too early
    /\ At("incorporate")
    /\ supported
    /\ records' = UNION {RecordsFor(a[1], a[2]) : a \in unincorp}
    /\ pc' = IF unincorp = {} THEN "work" ELSE "incorporating"
    /\ unincorp' = {}
    /\ UNCHANGED <<disk, interest, supported, mem, running, fixup, half, clearing>>

IncorporateStart ==
    /\ At("incorporate")
    /\ supported
    /\ records' = UNION {RecordsFor(a[1], a[2]) : a \in unincorp}
    /\ pc' = IF unincorp = {} THEN "work" ELSE "incorporating"
    /\ UNCHANGED <<disk, interest, unincorp, supported, mem, running, fixup, half, clearing>>

(* ... record every activation, and install a new, empty Unincorp.         *)
IncorporateDone ==
    /\ At("incorporating")
    /\ records = {}
    /\ half = None
    /\ unincorp' = {}
    /\ supported' = TRUE
    /\ pc' = "work"
    /\ UNCHANGED <<disk, interest, mem, running, fixup, records, half, clearing>>

(***************************************************************************)
(* trig_transitional_activate(): there is no Unincorp, so no dpkg that     *)
(* knows triggers has been here.  Every trigger is activated; a checkpoint *)
(* writes all packages.                                                    *)
(***************************************************************************)
Activated(r, pend) ==
    IF r.status < TRIGGERSAWAITED THEN [r EXCEPT !.trigpend = {}]
    ELSE [r EXCEPT !.trigpend = pend,
                   !.status = IF r.trigaw # {} THEN TRIGGERSAWAITED
                              ELSE IF pend # {} THEN TRIGGERSPENDING
                              ELSE INSTALLED]

TransitionalActivate ==
    /\ At("incorporate")
    /\ ~supported
    /\ mem' = [p \in Pkgs |->
                  IF mem[p].status <= HALFINSTALLED THEN mem[p]
                  ELSE Activated(mem[p], {t \in Trigs : interest[t][p] # "none"})]
    /\ disk' = mem'
    /\ pc' = "incorporating"
    /\ UNCHANGED <<interest, unincorp, supported, running, fixup, records, half, clearing>>

(***************************************************************************)
(* trig_record_activation(): the interested package is noted first, then   *)
(* the one that awaits it.  A package that is not configured is not        *)
(* interested.                                                             *)
(***************************************************************************)
Recording == At("incorporating") \/ At("activating")

RecordPend(r) ==
    LET q == mem[r.pend]
        n == [q EXCEPT !.trigpend = @ \cup {r.trig},
                       !.status = IF q.trigaw # {} THEN TRIGGERSAWAITED ELSE TRIGGERSPENDING]
    IN
    /\ Recording
    /\ half = None
    /\ r \in records
    /\ records' = records \ {r}
    /\ half' = IF q.status >= TRIGGERSAWAITED /\ r.aw # NoPkg THEN r ELSE None
    /\ IF q.status >= TRIGGERSAWAITED /\ r.trig \notin q.trigpend
       THEN Note(r.pend, n)
       ELSE UNCHANGED <<mem, disk, clearing>>
    /\ UNCHANGED <<interest, unincorp, supported, pc, running, fixup>>

AwaitKeepsStatus(p, q) ==    \* fault: an installed package awaits a trigger
    [mem[p] EXCEPT !.trigaw = @ \cup {q}]

Await(p, q) ==
    [mem[p] EXCEPT !.trigaw = @ \cup {q},
                   !.status = IF @ > TRIGGERSAWAITED THEN TRIGGERSAWAITED ELSE @]

RecordAw ==
    /\ Recording
    /\ half # None
    /\ half' = None
    /\ IF half.pend \notin mem[half.aw].trigaw
       THEN Note(half.aw, Await(half.aw, half.pend))
       ELSE UNCHANGED <<mem, disk, clearing>>
    /\ UNCHANGED <<interest, unincorp, supported, pc, running, fixup, records>>

(***************************************************************************)
(* trig_path_activate() and trig_activate_packageprocessing(): dpkg itself *)
(* activates triggers while it unpacks, configures or removes aw.          *)
(***************************************************************************)
Activate(t, aw) ==
    /\ At("work")
    /\ records' = RecordsFor(t, aw)
    /\ pc' = "activating"
    /\ UNCHANGED <<disk, interest, unincorp, supported, mem, running, fixup, half, clearing>>

ActivateDone ==
    /\ At("activating")
    /\ records = {}
    /\ half = None
    /\ pc' = "work"
    /\ UNCHANGED <<disk, interest, unincorp, supported, mem, running, fixup, records, half, clearing>>

-----------------------------------------------------------------------------
(***************************************************************************)
(* The status changes of unpack.c, remove.c, cleanup.c and configure.c.    *)
(* Each is noted at once.                                                  *)
(***************************************************************************)
Deconfigure == (HALFCONFIGURED .. INSTALLED) \X {HALFCONFIGURED}
Disappear   == (HALFINSTALLED .. INSTALLED) \X {NOTINSTALLED}
Moves ==
    Deconfigure \cup Disappear \cup
    {<<HALFCONFIGURED, UNPACKED>>, <<HALFCONFIGURED, HALFINSTALLED>>,
     <<UNPACKED, HALFINSTALLED>>, <<UNPACKED, HALFCONFIGURED>>,
     <<NOTINSTALLED, HALFINSTALLED>>, <<CONFIGFILES, HALFINSTALLED>>,
     <<HALFINSTALLED, UNPACKED>>, <<HALFINSTALLED, CONFIGFILES>>,
     <<CONFIGFILES, NOTINSTALLED>>}

SetStatus(p, s) ==
    /\ At("work")
    /\ <<mem[p].status, s>> \in Moves
    /\ Note(p, [mem[p] EXCEPT !.status = s])
    /\ UNCHANGED <<interest, unincorp, supported, pc, running, fixup, records, half>>

(* A note of something else: what is wanted of the package, its conffiles. *)
NoteOther(p) ==
    /\ At("work")
    /\ Note(p, mem[p])
    /\ UNCHANGED <<interest, unincorp, supported, pc, running, fixup, records, half>>

(* trig_cicb_interest_add() and trig_cicb_interest_delete(), while the new *)
(* control files are put in place or the package is removed.               *)
ChangeInterest(p, t, o) ==
    /\ At("work")
    /\ mem[p].status = HALFINSTALLED
    /\ interest' = [interest EXCEPT ![t][p] = o]
    /\ UNCHANGED <<disk, unincorp, supported, mem, pc, running, fixup, records, half, clearing>>

(* post_script_tasks(): any other maintainer script has run.               *)
ScriptDone ==
    /\ At("work")
    /\ pc' = "incorporate"
    /\ UNCHANGED <<disk, interest, unincorp, supported, mem, running, fixup, records, half, clearing>>

(***************************************************************************)
(* trigproc() and deferred_configure(): the package is half-configured     *)
(* while its postinst runs.                                                *)
(***************************************************************************)
Trigproc(p) ==
    /\ At("work")
    /\ mem[p].trigpend # {}
    /\ Note(p, [mem[p] EXCEPT !.status = HALFCONFIGURED])
    /\ running' = p
    /\ pc' = "postinst"
    /\ UNCHANGED <<interest, unincorp, supported, fixup, records, half>>

TrigprocNothing(p) ==
    /\ At("work")
    /\ mem[p].trigpend = {}
    /\ clearing' = <<p>>
    /\ UNCHANGED <<disk, interest, unincorp, supported, mem, pc, running, fixup, records, half>>

Configure(p) ==
    /\ At("work")
    /\ mem[p].status \in {UNPACKED, HALFCONFIGURED}
    /\ Note(p, [mem[p] EXCEPT !.status = HALFCONFIGURED])
    /\ running' = p
    /\ pc' = "postinst"
    /\ UNCHANGED <<interest, unincorp, supported, fixup, records, half>>

(* cu_prermupgrade() and the like: after a failure the postinst of a       *)
(* package that was deconfigured is called to undo that.                   *)
AbortRemoval(p) ==
    /\ At("work")
    /\ mem[p].status \in HALFINSTALLED .. HALFCONFIGURED
    /\ running' = p
    /\ pc' = "postinst"
    /\ UNCHANGED <<disk, interest, unincorp, supported, mem, fixup, records, half, clearing>>

(* post_postinst_tasks(): note the package, then incorporate.              *)
PostinstOk ==
    LET r == mem[running]
        s == IF r.trigaw # {} THEN TRIGGERSAWAITED
             ELSE IF r.trigpend # {} THEN TRIGGERSPENDING ELSE INSTALLED
    IN
    /\ At("postinst")
    /\ Note(running, [r EXCEPT !.status = s])
    /\ running' = NoPkg
    /\ pc' = "incorporate"
    /\ UNCHANGED <<interest, unincorp, supported, fixup, records, half>>

(* cu_post_script_tasks(): a script that fails is also followed by it.     *)
PostinstFail ==
    /\ At("postinst")
    /\ running' = NoPkg
    /\ pc' = "incorporate"
    /\ UNCHANGED <<disk, interest, unincorp, supported, mem, fixup, records, half, clearing>>

-----------------------------------------------------------------------------
(* dpkg-trigger: it waits for the triggers lock, and replaces Unincorp.    *)
DpkgTrigger(t, aw) ==
    /\ supported
    /\ pc # "incorporating"
    /\ unincorp' = unincorp \cup {<<t, aw>>}
    /\ UNCHANGED <<disk, interest, supported, mem, pc, running, fixup, records, half, clearing>>

Forget ==
    /\ mem' = disk'
    /\ pc' = "down"
    /\ running' = NoPkg
    /\ fixup' = {}
    /\ records' = {}
    /\ half' = None
    /\ clearing' = <<>>
    /\ UNCHANGED <<interest, unincorp, supported>>

(* modstatdb_shutdown() checkpoints.                                       *)
Shutdown == At("work") /\ disk' = mem /\ Forget

(* dpkg dies between two notes.                                            *)
Die == pc # "down" /\ disk' = disk /\ Forget

-----------------------------------------------------------------------------
(* The steps that follow from what dpkg has begun.                         *)
Continue ==
    \/ \E p \in Pkgs : ClearAwaiter(p) \/ FixupVisit(p)
    \/ ClearDone \/ FixupDone
    \/ IncorporateStart \/ IncorporateDone \/ TransitionalActivate
    \/ \E r \in records : RecordPend(r)
    \/ RecordAw \/ ActivateDone

(* What dpkg is asked to do, and what maintainer scripts do.               *)
Work ==
    \/ Open \/ Shutdown \/ ScriptDone \/ PostinstOk \/ PostinstFail
    \/ \E t \in Trigs, p \in Pkgs : Activate(t, p)
    \/ \E p \in Pkgs : Trigproc(p) \/ TrigprocNothing(p) \/ Configure(p) \/ AbortRemoval(p) \/ NoteOther(p)
    \/ \E p \in Pkgs, s \in Status : SetStatus(p, s)
    \/ \E p \in Pkgs, t \in Trigs, o \in Options : ChangeInterest(p, t, o)
    \/ \E t \in Trigs, p \in Pkgs \cup {NoPkg} : DpkgTrigger(t, p)

Next == Continue \/ Work \/ Die

Spec     == Init /\ [][Next]_vars
FairSpec == Spec /\ WF_vars(Continue)
-----------------------------------------------------------------------------
Labels == {"down", "fixup", "incorporate", "incorporating", "activating", "work", "postinst"}

(* The variables have the types that the comments above give them, and     *)
(* what belongs to an operation is gone once the operation is over.        *)
TypeOK ==
    /\ disk \in [Pkgs -> Pkginfo]
    /\ interest \in [Trigs -> [Pkgs -> Options]]
    /\ unincorp \in SUBSET Activations
    /\ supported \in BOOLEAN
    /\ mem \in [Pkgs -> Pkginfo]
    /\ pc \in Labels
    /\ running \in Pkgs \cup {NoPkg}
    /\ fixup \in SUBSET Pkgs
    /\ records \in SUBSET Records
    /\ half \in Records \cup {None}
    /\ clearing \in Seq(Pkgs)
    /\ running # NoPkg <=> pc = "postinst"
    /\ pc \notin {"incorporating", "activating"} => records = {} /\ half = None

(***************************************************************************)
(* The relation between status and lists that pkg_parse_verify() demands   *)
(* of a stanza it reads, and w_trigpend() and w_trigaw() of a package they *)
(* write.                                                                  *)
(***************************************************************************)
Coherent(r) ==
    /\ r.trigaw # {} => r.status \in HALFINSTALLED .. TRIGGERSAWAITED
    /\ r.status = TRIGGERSAWAITED => r.trigaw # {}
    /\ r.trigpend # {} => r.status \in {TRIGGERSAWAITED, TRIGGERSPENDING}
    /\ r.status = TRIGGERSPENDING => r.trigpend # {}

(***************************************************************************)
(* Whenever dpkg dies, it leaves a database that the next dpkg can read:   *)
(* pkg_parse_verify() would reject the whole status file for one stanza    *)
(* whose status and triggers disagree.  The packages that nobody has noted *)
(* for a while are covered too: a checkpoint writes all of them.           *)
(***************************************************************************)
DatabaseIsReadable == \A p \in Pkgs : Coherent(disk[p]) /\ Coherent(mem[p])

(***************************************************************************)
(* No package awaits one that has nothing to process: there would be       *)
(* nothing left to bring it to installed.  Where it is not so, dpkg is on  *)
(* its way to release the awaiters.                                        *)
(***************************************************************************)
Releasing(q) == q \in fixup \/ \E i \in 1 .. Len(clearing) : clearing[i] = q

AwaitedIsPending ==
    pc # "down" => \A q \in Awaited(mem) : mem[q].trigpend # {} \/ Releasing(q)

(***************************************************************************)
(* The database lags behind memory only in whom a package has ceased to    *)
(* await: that is all a dpkg that dies forgets, and trig_fixup_awaiters()  *)
(* finds it out again.                                                     *)
(***************************************************************************)
DiskAgrees ==
    pc # "down" =>
        \A p \in Pkgs : /\ disk[p].status = mem[p].status
                         /\ disk[p].trigpend = mem[p].trigpend
                         /\ mem[p].trigaw \subseteq disk[p].trigaw

=============================================================================
