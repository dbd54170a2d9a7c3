--------------------------- MODULE TriggersProofs ---------------------------
(***************************************************************************)
(* Proofs about Triggers and TriggersHistory: for every set of packages    *)
(* and triggers and any number of activations and deaths of dpkg, the      *)
(* database can be read back at any time, no package awaits one that has   *)
(* nothing to process, and no activation is lost.                          *)
(***************************************************************************)
EXTENDS TriggersHistory, TLAPS

(* An activation is half recorded when its pending side is: the awaiter    *)
(* that follows is a package, and has a reason to wait.                    *)
HalfIsPending ==
    half # None => half \in Records /\ half.aw \in Pkgs /\ mem[half.pend].trigpend # {}

(* Until triggers/Unincorp exists, nobody awaits anybody.                  *)
NobodyAwaitsYet ==
    ~supported =>
        /\ pc \in {"down", "fixup", "incorporate", "incorporating"}
        /\ records = {} /\ half = None /\ unincorp = {}
        /\ \A p \in Pkgs : mem[p].trigaw = {} /\ disk[p].trigaw = {}

(* dpkg releases awaiters only while it runs.                              *)
StackIsEmptyWhenDown == pc = "down" => clearing = <<>>

Inv ==
    /\ TypeOK
    /\ DatabaseIsReadable
    /\ AwaitedIsPending
    /\ DiskAgrees
    /\ HalfIsPending
    /\ NobodyAwaitsYet
    /\ StackIsEmptyWhenDown

-----------------------------------------------------------------------------
(* modstatdb_note() normalises a package within its type, and only drops   *)
(* triggers and awaited packages.                                          *)
LEMMA NormalType ==
    ASSUME NEW r \in Pkginfo
    PROVE  /\ Normal(r) \in Pkginfo
           /\ Normal(r).status = r.status
           /\ Normal(r).trigaw \subseteq r.trigaw
           /\ Normal(r).trigpend \subseteq r.trigpend
BY DEF Normal, Pkginfo

(* The release stack of modstatdb_note() keeps the packages it had, and a  *)
(* package pushed on it is on it.                                          *)
LEMMA Pushed ==
    ASSUME NEW p \in Pkgs, NEW s \in Seq(Pkgs)
    PROVE  /\ <<p>> \o s \in Seq(Pkgs)
           /\ \E i \in 1 .. Len(<<p>> \o s) : (<<p>> \o s)[i] = p
           /\ \A i \in 1 .. Len(s) : \E j \in 1 .. Len(<<p>> \o s) : (<<p>> \o s)[j] = s[i]
<1>1. <<p>> \o s \in Seq(Pkgs) /\ Len(<<p>> \o s) = 1 + Len(s) /\ Len(s) \in Nat
    OBVIOUS
<1>2. (<<p>> \o s)[1] = p
    OBVIOUS
<1>3. \A i \in 1 .. Len(s) : (<<p>> \o s)[i + 1] = s[i] /\ i + 1 \in 1 .. 1 + Len(s)
    OBVIOUS
<1>4. 1 \in 1 .. Len(<<p>> \o s)
    BY <1>1
<1>. QED
    BY <1>1, <1>2, <1>3, <1>4

(* Leaving the innermost trig_clear_awaiters() forgets only its package.   *)
LEMMA Popped ==
    ASSUME NEW s \in Seq(Pkgs), s # <<>>
    PROVE  /\ Head(s) \in Pkgs
           /\ Tail(s) \in Seq(Pkgs)
           /\ \A i \in 1 .. Len(s) : s[i] # Head(s) =>
                 \E j \in 1 .. Len(Tail(s)) : Tail(s)[j] = s[i]
<1>1. Head(s) \in Pkgs /\ Tail(s) \in Seq(Pkgs) /\ Len(s) \in Nat /\ Len(s) >= 1
    OBVIOUS
<1>2. Len(Tail(s)) = Len(s) - 1 /\ Head(s) = s[1]
    OBVIOUS
<1>3. \A j \in 1 .. Len(s) - 1 : Tail(s)[j] = s[j + 1]
    OBVIOUS
<1>4. ASSUME NEW i \in 1 .. Len(s), s[i] # Head(s)
      PROVE  \E j \in 1 .. Len(Tail(s)) : Tail(s)[j] = s[i]
    <2>1. i - 1 \in 1 .. Len(s) - 1 /\ (i - 1) + 1 = i
        BY <1>1, <1>2, <1>4
    <2>2. Tail(s)[i - 1] = s[i]
        BY <2>1, <1>3
    <2>. QED
        BY <2>1, <2>2, <1>2
<1>. QED
    BY <1>1, <1>4

(***************************************************************************)
(* What modstatdb_note() of a well-typed stanza does to the types, to the  *)
(* database and to memory.                                                 *)
(***************************************************************************)
LEMMA NoteTypes ==
    ASSUME TypeOK, NEW p \in Pkgs, NEW r \in Pkginfo, Note(p, r)
    PROVE  /\ mem' \in [Pkgs -> Pkginfo]
           /\ disk' \in [Pkgs -> Pkginfo]
           /\ clearing' \in Seq(Pkgs)
           /\ mem'[p] = Normal(r)
           /\ disk'[p] = Normal(r)
           /\ \A x \in Pkgs \ {p} : mem'[x] = mem[x] /\ disk'[x] \in {disk[x], mem[x]}
           /\ clearing' = clearing \/ clearing' = <<p>> \o clearing
<1>1. Normal(r) \in Pkginfo
    BY NormalType
<1>2. mem' = [mem EXCEPT ![p] = Normal(r)] /\ mem \in [Pkgs -> Pkginfo] /\ disk \in [Pkgs -> Pkginfo]
    BY DEF Note, TypeOK
<1>3. mem' \in [Pkgs -> Pkginfo] /\ mem'[p] = Normal(r)
    BY <1>1, <1>2
<1>4. disk' = [disk EXCEPT ![p] = Normal(r)] \/ disk' = mem'
    BY <1>3 DEF Note
<1>5. clearing' = clearing \/ clearing' = <<p>> \o clearing
    BY DEF Note, Release
<1>6. clearing' \in Seq(Pkgs)
    BY <1>5, Pushed DEF TypeOK
<1>7. disk' \in [Pkgs -> Pkginfo] /\ disk'[p] = Normal(r)
    BY <1>1, <1>2, <1>3, <1>4
<1>8. \A x \in Pkgs \ {p} : mem'[x] = mem[x] /\ disk'[x] \in {disk[x], mem[x]}
    BY <1>2, <1>3, <1>4
<1>. QED
    BY <1>3, <1>5, <1>6, <1>7, <1>8

(* A note of a coherent stanza leaves a database that can be read.         *)
LEMMA NoteReadable ==
    ASSUME TypeOK, DatabaseIsReadable,
           NEW p \in Pkgs, NEW r \in Pkginfo, Note(p, r), Coherent(Normal(r))
    PROVE  DatabaseIsReadable'
<1>. SUFFICES ASSUME NEW x \in Pkgs
              PROVE  Coherent(disk'[x]) /\ Coherent(mem'[x])
    BY DEF DatabaseIsReadable, Coherent
<1>1. Coherent(disk[x]) /\ Coherent(mem[x])
    BY DEF DatabaseIsReadable
<1>2. CASE x = p
    BY <1>2, NoteTypes
<1>3. CASE x # p
    BY <1>1, <1>3, NoteTypes
<1>. QED
    BY <1>2, <1>3

(* A note brings the database up to date about the noted package.          *)
LEMMA NoteAgrees ==
    ASSUME TypeOK, DiskAgrees, pc # "down",
           NEW p \in Pkgs, NEW r \in Pkginfo, Note(p, r)
    PROVE  DiskAgrees'
BY NoteTypes DEF DiskAgrees

(* A note lets nobody wait for a package without pending triggers: if the  *)
(* noted package has none, its awaiters are released.                      *)
LEMMA NotePending ==
    ASSUME TypeOK, AwaitedIsPending, pc # "down", fixup' = fixup,
           NEW p \in Pkgs, NEW r \in Pkginfo, Note(p, r),
           \A q \in r.trigaw : q \in mem[p].trigaw \/ mem[q].trigpend # {}
    PROVE  AwaitedIsPending'
<1>. SUFFICES ASSUME NEW q \in Pkgs, NEW x \in Pkgs, q \in mem'[x].trigaw,
                     mem'[q].trigpend = {}
              PROVE  (q \in fixup \/ \E i \in 1 .. Len(clearing') : clearing'[i] = q)
    BY DEF AwaitedIsPending, Awaited, Awaiters, Releasing
<1>1. CASE q = p
    <2>1. Awaiters(mem', p) # {} /\ mem'[p].trigpend = {}
        BY <1>1 DEF Awaiters
    <2>2. CASE \A i \in 1 .. Len(clearing) : clearing[i] # p
        <3>1. clearing' = <<p>> \o clearing
            BY <2>1, <2>2 DEF Note, Release, MustRelease
        <3>. QED
            BY <3>1, <1>1, Pushed DEF TypeOK
    <2>3. CASE \E i \in 1 .. Len(clearing) : clearing[i] = p
        <3>1. clearing' = clearing
            BY <2>3 DEF Note, Release, MustRelease
        <3>. QED
            BY <3>1, <2>3, <1>1
    <2>. QED
        BY <2>2, <2>3
<1>2. CASE q # p
    <2>1. mem'[q] = mem[q] /\ mem[q].trigpend = {}
        BY <1>2, NoteTypes
    <2>2. q \in mem[x].trigaw
        <3>1. CASE x = p
            <4>1. q \in Normal(r).trigaw
                BY <3>1, NoteTypes
            <4>2. q \in r.trigaw
                BY <4>1, NormalType
            <4>. QED
                BY <4>2, <3>1, <2>1
        <3>2. CASE x # p
            BY <3>2, NoteTypes
        <3>. QED
            BY <3>1, <3>2
    <2>3. q \in fixup \/ \E i \in 1 .. Len(clearing) : clearing[i] = q
        BY <2>1, <2>2 DEF AwaitedIsPending, Awaited, Awaiters, Releasing
    <2>4. CASE \E i \in 1 .. Len(clearing) : clearing[i] = q
        <3>1. clearing' = clearing \/ clearing' = <<p>> \o clearing
            BY NoteTypes
        <3>. QED
            BY <2>4, <3>1, Pushed DEF TypeOK
    <2>. QED
        BY <2>3, <2>4
<1>. QED
    BY <1>1, <1>2

-----------------------------------------------------------------------------
(* The invariant holds at first.                                           *)
LEMMA InitInv == Init => Inv
<1>. SUFFICES ASSUME Init
              PROVE  Inv
    OBVIOUS
<1>1. disk \in [Pkgs -> Pkginfo] /\ mem = disk
    BY DEF Init, Pkginfo, OldStatus, Status, NOTINSTALLED, INSTALLED
<1>2. TypeOK
    <2>1. clearing = <<>> /\ clearing \in Seq(Pkgs)
        BY DEF Init
    <2>2. pc = "down" /\ running = NoPkg /\ records = {} /\ half = None /\ fixup = {} /\ unincorp = {}
        BY DEF Init
    <2>3. interest \in [Trigs -> [Pkgs -> Options]] /\ supported \in BOOLEAN
        BY DEF Init
    <2>. QED
        BY <1>1, <2>1, <2>2, <2>3 DEF TypeOK, Labels
<1>3. \A p \in Pkgs : /\ disk[p].status \in Status \ {TRIGGERSAWAITED, TRIGGERSPENDING}
                       /\ disk[p].trigpend = {} /\ disk[p].trigaw = {}
    BY DEF Init, OldStatus
<1>4. DatabaseIsReadable
    BY <1>1, <1>3 DEF DatabaseIsReadable, Coherent
<1>5. AwaitedIsPending /\ DiskAgrees /\ HalfIsPending
    BY DEF Init, AwaitedIsPending, DiskAgrees, HalfIsPending
<1>6. NobodyAwaitsYet
    BY <1>1, <1>3 DEF Init, NobodyAwaitsYet
<1>7. StackIsEmptyWhenDown
    BY DEF Init, StackIsEmptyWhenDown
<1>. QED
    BY <1>2, <1>4, <1>5, <1>6, <1>7 DEF Inv

(* The steps that touch neither the packages nor the stack of releases     *)
(* keep what the invariant says of them.                                   *)
LEMMA QuietStep ==
    ASSUME Inv, UNCHANGED <<disk, mem, clearing>>, pc # "down", fixup' = fixup
    PROVE  DatabaseIsReadable' /\ AwaitedIsPending' /\ DiskAgrees'
<1>1. DatabaseIsReadable'
    BY DEF Inv, DatabaseIsReadable, Coherent
<1>2. AwaitedIsPending'
    BY DEF Inv, AwaitedIsPending, Awaited, Awaiters, Releasing
<1>3. DiskAgrees'
    BY DEF Inv, DiskAgrees
<1>. QED
    BY <1>1, <1>2, <1>3

(* A step of dpkg that notes a coherent stanza which awaits nobody new but *)
(* packages with pending triggers.                                         *)
LEMMA NoteStep ==
    ASSUME Inv, pc # "down", fixup' = fixup,
           NEW p \in Pkgs, NEW r \in Pkginfo, Note(p, r), Coherent(Normal(r)),
           \A q \in r.trigaw : q \in mem[p].trigaw \/ mem[q].trigpend # {}
    PROVE  DatabaseIsReadable' /\ AwaitedIsPending' /\ DiskAgrees'
BY NoteReadable, NotePending, NoteAgrees DEF Inv

(* A stanza whose lists agree with its status, but for what the note       *)
(* itself puts right, is coherent once it is noted.                        *)
LEMMA NormalCoherent ==
    ASSUME NEW r \in Pkginfo,
           r.trigaw # {} => r.status <= TRIGGERSAWAITED,
           r.status = TRIGGERSAWAITED => r.trigaw # {},
           r.status = TRIGGERSPENDING => r.trigpend # {}
    PROVE  Coherent(Normal(r))
BY DEF Coherent, Normal, Pkginfo, Status, NOTINSTALLED, CONFIGFILES, HALFINSTALLED,
       TRIGGERSAWAITED, TRIGGERSPENDING, INSTALLED

(* A package that is noted with a status below triggers-awaited.           *)
LEMMA SetStatusStep ==
    ASSUME Inv, At("work"), fixup' = fixup, NEW p \in Pkgs, NEW s \in NOTINSTALLED .. HALFCONFIGURED,
           Note(p, [mem[p] EXCEPT !.status = s])
    PROVE  /\ DatabaseIsReadable' /\ AwaitedIsPending' /\ DiskAgrees'
           /\ mem' \in [Pkgs -> Pkginfo] /\ disk' \in [Pkgs -> Pkginfo] /\ clearing' \in Seq(Pkgs)
<1>. DEFINE r == [mem[p] EXCEPT !.status = s]
<1>1. mem[p] \in Pkginfo /\ pc # "down" /\ TypeOK
    BY DEF Inv, TypeOK, At
<1>2. s \in Status /\ s <= TRIGGERSAWAITED /\ s # TRIGGERSAWAITED /\ s # TRIGGERSPENDING
    BY DEF Status, NOTINSTALLED, HALFCONFIGURED, TRIGGERSAWAITED, TRIGGERSPENDING, INSTALLED
<1>3. r \in Pkginfo /\ r.trigaw = mem[p].trigaw /\ r.status = s
    BY <1>1, <1>2 DEF Pkginfo
<1>4. Coherent(Normal(r))
    BY <1>2, <1>3, NormalCoherent
<1>. HIDE DEF r
<1>5. Note(p, r)
    BY DEF r
<1>. QED
    BY <1>1, <1>3, <1>4, <1>5, NoteStep, NoteTypes

-----------------------------------------------------------------------------
(* An awaiter that is released goes on to the status its other lists call  *)
(* for; nobody's pending triggers change.                                  *)
LEMMA ClearAwaiterStep == ASSUME Inv, NEW p \in Pkgs, ClearAwaiter(p) PROVE Inv'
<1>. DEFINE q == Head(clearing)
            r == [mem[p] EXCEPT !.trigaw = @ \ {q}]
            s == IF r.trigpend # {} THEN TRIGGERSPENDING ELSE INSTALLED
            n == [r EXCEPT !.status = s]
<1>1. TypeOK /\ mem[p] \in Pkginfo /\ clearing # <<>> /\ q \in mem[p].trigaw
    BY DEF Inv, TypeOK, ClearAwaiter, Awaiters
<1>2. supported
    BY <1>1 DEF Inv, NobodyAwaitsYet
<1>3. r \in Pkginfo /\ r.status = mem[p].status /\ r.trigpend = mem[p].trigpend
      /\ r.trigaw = mem[p].trigaw \ {q}
    BY <1>1 DEF Pkginfo
<1>4. Coherent(mem[p])
    BY DEF Inv, DatabaseIsReadable
<1>5. pc # "down"
    <2>1. pc = "down" => clearing = <<>>
        BY DEF Inv, StackIsEmptyWhenDown
    <2>. QED
        BY <2>1, <1>1
<1>6. UNCHANGED <<interest, unincorp, supported, pc, running, fixup, records, half>>
    BY DEF ClearAwaiter
<1>7. CASE r.trigaw = {} /\ r.status = TRIGGERSAWAITED
    <2>1. Note(p, n)
        BY <1>7 DEF ClearAwaiter
    <2>2. n \in Pkginfo /\ n.status = s /\ n.trigpend = mem[p].trigpend /\ n.trigaw = {}
        <3>1. s \in Status
            BY DEF Status, NOTINSTALLED, INSTALLED, TRIGGERSPENDING
        <3>. HIDE DEF s, r
        <3>. QED
            BY <1>3, <1>7, <3>1 DEF Pkginfo
    <2>3. s # TRIGGERSAWAITED /\ (s = TRIGGERSPENDING => n.trigpend # {})
        BY <1>3, <2>2 DEF TRIGGERSPENDING, TRIGGERSAWAITED, INSTALLED
    <2>4. Coherent(Normal(n)) /\ Normal(n).trigpend = mem[p].trigpend
        <3>1. Coherent(Normal(n))
            BY <2>2, <2>3, NormalCoherent
        <3>2. Normal(n).trigpend = mem[p].trigpend
            BY <2>2, <1>3 DEF Normal, Pkginfo, TRIGGERSPENDING, TRIGGERSAWAITED, INSTALLED
        <3>. QED
            BY <3>1, <3>2
    <2>. HIDE DEF n, s, r, q
    <2>5. DatabaseIsReadable' /\ AwaitedIsPending' /\ DiskAgrees'
        BY <1>5, <1>6, <2>1, <2>2, <2>4, NoteStep
    <2>6. TypeOK'
        BY <1>1, <1>6, <2>1, <2>2, NoteTypes DEF TypeOK
    <2>7. HalfIsPending'
        BY <1>1, <1>6, <2>1, <2>2, <2>4, NoteTypes DEF Inv, HalfIsPending, Records
    <2>8. NobodyAwaitsYet' /\ StackIsEmptyWhenDown'
        BY <1>2, <1>5, <1>6 DEF NobodyAwaitsYet, StackIsEmptyWhenDown
    <2>. QED
        BY <2>5, <2>6, <2>7, <2>8 DEF Inv
<1>8. CASE ~(r.trigaw = {} /\ r.status = TRIGGERSAWAITED)
    <2>1. mem' = [mem EXCEPT ![p] = r] /\ UNCHANGED <<disk, clearing>>
        BY <1>8 DEF ClearAwaiter
    <2>2. mem \in [Pkgs -> Pkginfo]
        BY DEF Inv, TypeOK
    <2>3. Coherent(r)
        BY <1>3, <1>4, <1>8 DEF Coherent
    <2>. HIDE DEF n, s, r, q
    <2>4. mem' \in [Pkgs -> Pkginfo] /\ mem'[p] = r /\ \A x \in Pkgs \ {p} : mem'[x] = mem[x]
        BY <1>3, <2>1, <2>2
    <2>5. \A x \in Pkgs : mem'[x].trigaw \subseteq mem[x].trigaw /\ mem'[x].trigpend = mem[x].trigpend
                           /\ mem'[x].status = mem[x].status
        BY <1>3, <2>4
    <2>6. DatabaseIsReadable'
        <3>1. SUFFICES ASSUME NEW x \in Pkgs
                       PROVE  Coherent(disk'[x]) /\ Coherent(mem'[x])
            BY DEF DatabaseIsReadable, Coherent
        <3>2. Coherent(disk[x]) /\ Coherent(mem[x])
            BY DEF Inv, DatabaseIsReadable
        <3>. QED
            BY <2>1, <2>3, <2>4, <3>2
    <2>7. AwaitedIsPending'
        BY <1>6, <2>1, <2>5 DEF Inv, AwaitedIsPending, Awaited, Awaiters, Releasing
    <2>8. DiskAgrees'
        BY <1>6, <2>1, <2>5 DEF Inv, DiskAgrees
    <2>9. TypeOK' /\ HalfIsPending'
        BY <1>6, <2>1, <2>4, <2>5 DEF Inv, TypeOK, HalfIsPending, Records
    <2>10. NobodyAwaitsYet' /\ StackIsEmptyWhenDown'
        BY <1>2, <1>5, <1>6 DEF NobodyAwaitsYet, StackIsEmptyWhenDown
    <2>. QED
        BY <2>6, <2>7, <2>8, <2>9, <2>10 DEF Inv
<1>. QED
    BY <1>7, <1>8

(* A package whose awaiters have all been released may leave the stack.    *)
LEMMA ClearDoneStep == ASSUME Inv, ClearDone PROVE Inv'
<1>1. /\ clearing # <<>> /\ Awaiters(mem, Head(clearing)) = {} /\ clearing' = Tail(clearing)
      /\ UNCHANGED <<disk, interest, unincorp, supported, mem, pc, running, fixup, records, half>>
    BY DEF ClearDone
<1>2. TypeOK'
    BY <1>1, Popped DEF Inv, TypeOK
<1>3. DatabaseIsReadable' /\ DiskAgrees' /\ HalfIsPending' /\ NobodyAwaitsYet'
    BY <1>1 DEF Inv, DatabaseIsReadable, Coherent, DiskAgrees, HalfIsPending, NobodyAwaitsYet
<1>4. AwaitedIsPending'
    <2>. SUFFICES ASSUME NEW q \in Awaited(mem), pc # "down", mem[q].trigpend = {}
                  PROVE  q \in fixup \/ \E i \in 1 .. Len(Tail(clearing)) : Tail(clearing)[i] = q
        BY <1>1 DEF AwaitedIsPending, Awaited, Awaiters, Releasing
    <2>1. q \in fixup \/ \E i \in 1 .. Len(clearing) : clearing[i] = q
        BY DEF Inv, AwaitedIsPending, Releasing
    <2>2. q # Head(clearing)
        BY <1>1 DEF Awaited
    <2>. QED
        BY <2>1, <2>2, <1>1, Popped DEF Inv, TypeOK
<1>5. StackIsEmptyWhenDown'
    BY <1>1 DEF Inv, StackIsEmptyWhenDown
<1>. QED
    BY <1>2, <1>3, <1>4, <1>5 DEF Inv

-----------------------------------------------------------------------------
(* modstatdb_open(): every package that somebody awaits is visited.        *)
LEMMA OpenStep == ASSUME Inv, Open PROVE Inv'
<1>1. /\ At("down") /\ mem' = disk /\ fixup' = Awaited(disk) /\ pc' = "fixup"
      /\ UNCHANGED <<disk, interest, unincorp, supported, running, records, half, clearing>>
    BY DEF Open
<1>2. TypeOK' /\ half = None
    BY <1>1 DEF Inv, TypeOK, At, Labels, Awaited
<1>3. DatabaseIsReadable' /\ DiskAgrees' /\ HalfIsPending'
    BY <1>1, <1>2 DEF Inv, DatabaseIsReadable, Coherent, DiskAgrees, HalfIsPending
<1>4. AwaitedIsPending'
    BY <1>1 DEF AwaitedIsPending, Awaited, Awaiters, Releasing
<1>5. NobodyAwaitsYet' /\ StackIsEmptyWhenDown'
    BY <1>1 DEF Inv, NobodyAwaitsYet, StackIsEmptyWhenDown
<1>. QED
    BY <1>2, <1>3, <1>4, <1>5 DEF Inv

(* trig_fixup_awaiters(): a package leaves the list when it has pending    *)
(* triggers, or when its awaiters are being released.                      *)
LEMMA FixupVisitStep == ASSUME Inv, NEW v \in Pkgs, FixupVisit(v) PROVE Inv'
<1>1. /\ pc = "fixup" /\ clearing = <<>> /\ fixup' = fixup \ {v}
      /\ clearing' = IF mem[v].trigpend = {} THEN <<v>> ELSE <<>>
      /\ UNCHANGED <<disk, interest, unincorp, supported, mem, pc, running, records, half>>
    BY DEF FixupVisit, At
<1>2. clearing' \in Seq(Pkgs)
    BY <1>1
<1>3. TypeOK'
    BY <1>1, <1>2 DEF Inv, TypeOK
<1>4. DatabaseIsReadable' /\ DiskAgrees' /\ HalfIsPending' /\ NobodyAwaitsYet' /\ StackIsEmptyWhenDown'
    BY <1>1 DEF Inv, DatabaseIsReadable, Coherent, DiskAgrees, HalfIsPending, NobodyAwaitsYet,
                StackIsEmptyWhenDown
<1>5. AwaitedIsPending'
    <2>. SUFFICES ASSUME NEW q \in Awaited(mem), mem[q].trigpend = {}
                  PROVE  q \in fixup' \/ \E i \in 1 .. Len(clearing') : clearing'[i] = q
        BY <1>1 DEF AwaitedIsPending, Awaited, Awaiters, Releasing
    <2>1. q \in fixup
        BY <1>1 DEF Inv, AwaitedIsPending, Releasing
    <2>2. CASE q = v
        BY <2>2, <1>1
    <2>. QED
        BY <2>1, <2>2, <1>1
<1>. QED
    BY <1>3, <1>4, <1>5 DEF Inv

(***************************************************************************)
(* The steps that change neither packages nor stack nor list: the ends of  *)
(* operations, the reading and replacing of Unincorp, activations, changes *)
(* of interest, and scripts.                                               *)
(***************************************************************************)
Quiet ==
    \/ FixupDone \/ IncorporateStart \/ IncorporateDone \/ ActivateDone \/ ScriptDone
    \/ PostinstFail
    \/ \E t \in Trigs, p \in Pkgs : Activate(t, p)
    \/ \E p \in Pkgs : AbortRemoval(p)
    \/ \E p \in Pkgs, t \in Trigs, o \in Options : ChangeInterest(p, t, o)

(* What an activation leaves to record is well-typed.                      *)
LEMMA RecordsForType ==
    ASSUME NEW t \in Trigs, NEW aw \in Pkgs \cup {NoPkg}
    PROVE  RecordsFor(t, aw) \in SUBSET Records
BY DEF RecordsFor, Records

(* The quiet steps keep the types.                                         *)
LEMMA QuietTypes == ASSUME Inv, Quiet PROVE TypeOK'
<1>1. TypeOK
    BY DEF Inv
<1>2. CASE FixupDone \/ ScriptDone \/ ActivateDone \/ PostinstFail
    BY <1>1, <1>2 DEF FixupDone, ScriptDone, ActivateDone, PostinstFail, At, TypeOK, Labels
<1>3. CASE IncorporateStart
    <2>1. records' \in SUBSET Records /\ (unincorp = {} => records' = {})
        <3>1. \A a \in unincorp : RecordsFor(a[1], a[2]) \in SUBSET Records
            BY <1>1, RecordsForType DEF TypeOK, Activations
        <3>. QED
            BY <1>3, <3>1 DEF IncorporateStart
    <2>. QED
        BY <1>1, <1>3, <2>1 DEF IncorporateStart, At, TypeOK, Labels
<1>4. CASE IncorporateDone
    BY <1>1, <1>4 DEF IncorporateDone, At, TypeOK, Labels
<1>5. ASSUME NEW t \in Trigs, NEW p \in Pkgs, Activate(t, p)
      PROVE  TypeOK'
    BY <1>1, <1>5, RecordsForType DEF Activate, At, TypeOK, Labels
<1>6. ASSUME NEW p \in Pkgs, NEW t \in Trigs, NEW o \in Options, ChangeInterest(p, t, o)
      PROVE  TypeOK'
    <2>1. interest' \in [Trigs -> [Pkgs -> Options]]
        BY <1>1, <1>6 DEF ChangeInterest, TypeOK
    <2>. QED
        BY <1>1, <1>6, <2>1 DEF ChangeInterest, TypeOK
<1>7. ASSUME NEW p \in Pkgs, AbortRemoval(p)
      PROVE  TypeOK'
    BY <1>1, <1>7, NoPkgAssumption DEF AbortRemoval, At, TypeOK, Labels
<1>. QED
    BY <1>2, <1>3, <1>4, <1>5, <1>6, <1>7 DEF Quiet

(* The quiet steps keep the invariant.                                     *)
LEMMA QuietInv == ASSUME Inv, Quiet PROVE Inv'
<1>1. /\ UNCHANGED <<disk, mem, clearing, fixup>> /\ pc # "down" /\ pc' # "down"
      /\ clearing = <<>> /\ (half' = half \/ half' = None)
    BY DEF Quiet, FixupDone, IncorporateStart, IncorporateDone, ActivateDone, ScriptDone,
           PostinstFail, Activate, AbortRemoval, ChangeInterest, At
<1>2. DatabaseIsReadable' /\ AwaitedIsPending' /\ DiskAgrees'
    BY <1>1, QuietStep
<1>3. HalfIsPending' /\ StackIsEmptyWhenDown'
    BY <1>1 DEF Inv, HalfIsPending, StackIsEmptyWhenDown
<1>4. NobodyAwaitsYet'
    BY <1>1 DEF Inv, NobodyAwaitsYet, Quiet, FixupDone, IncorporateStart, IncorporateDone,
                ActivateDone, ScriptDone, PostinstFail, Activate, AbortRemoval, ChangeInterest, At
<1>. QED
    BY <1>2, <1>3, <1>4, QuietTypes DEF Inv

(* dpkg-trigger changes Unincorp only.                                     *)
LEMMA DpkgTriggerStep ==
    ASSUME Inv, NEW t \in Trigs, NEW aw \in Pkgs \cup {NoPkg}, DpkgTrigger(t, aw)
    PROVE  Inv'
<1>1. /\ supported /\ unincorp' = unincorp \cup {<<t, aw>>}
      /\ UNCHANGED <<disk, interest, supported, mem, pc, running, fixup, records, half, clearing>>
    BY DEF DpkgTrigger
<1>2. TypeOK'
    BY <1>1 DEF Inv, TypeOK, Activations
<1>3. DatabaseIsReadable' /\ DiskAgrees' /\ HalfIsPending' /\ NobodyAwaitsYet' /\ StackIsEmptyWhenDown'
    BY <1>1 DEF Inv, DatabaseIsReadable, Coherent, DiskAgrees, HalfIsPending, NobodyAwaitsYet,
                StackIsEmptyWhenDown
<1>4. AwaitedIsPending'
    BY <1>1 DEF Inv, AwaitedIsPending, Awaited, Awaiters, Releasing
<1>. QED
    BY <1>2, <1>3, <1>4 DEF Inv

(* trigproc() of a package with nothing pending releases its awaiters.     *)
LEMMA TrigprocNothingStep == ASSUME Inv, NEW p \in Pkgs, TrigprocNothing(p) PROVE Inv'
<1>1. /\ pc = "work" /\ clearing = <<>> /\ clearing' = <<p>>
      /\ UNCHANGED <<disk, interest, unincorp, supported, mem, pc, running, fixup, records, half>>
    BY DEF TrigprocNothing, At
<1>2. TypeOK'
    BY <1>1 DEF Inv, TypeOK
<1>3. DatabaseIsReadable' /\ DiskAgrees' /\ HalfIsPending' /\ NobodyAwaitsYet' /\ StackIsEmptyWhenDown'
    BY <1>1 DEF Inv, DatabaseIsReadable, Coherent, DiskAgrees, HalfIsPending, NobodyAwaitsYet,
                StackIsEmptyWhenDown
<1>4. AwaitedIsPending'
    BY <1>1 DEF Inv, AwaitedIsPending, Awaited, Awaiters, Releasing
<1>. QED
    BY <1>2, <1>3, <1>4 DEF Inv

(* Dying and shutting down forget everything but the files.                *)
LEMMA ForgetStep == ASSUME Inv, Forget, disk' \in {disk, mem} PROVE Inv'
<1>1. /\ mem' = disk' /\ pc' = "down" /\ running' = NoPkg /\ fixup' = {} /\ records' = {}
      /\ half' = None /\ clearing' = <<>> /\ UNCHANGED <<interest, unincorp, supported>>
    BY DEF Forget
<1>2. disk' \in [Pkgs -> Pkginfo] /\ clearing' \in Seq(Pkgs)
    BY <1>1 DEF Inv, TypeOK
<1>3. TypeOK'
    BY <1>1, <1>2 DEF Inv, TypeOK, Labels
<1>4. DatabaseIsReadable'
    BY <1>1 DEF Inv, DatabaseIsReadable, Coherent
<1>5. AwaitedIsPending' /\ DiskAgrees' /\ HalfIsPending' /\ StackIsEmptyWhenDown'
    BY <1>1 DEF AwaitedIsPending, DiskAgrees, HalfIsPending, StackIsEmptyWhenDown
<1>6. NobodyAwaitsYet'
    BY <1>1 DEF Inv, NobodyAwaitsYet
<1>. QED
    BY <1>3, <1>4, <1>5, <1>6 DEF Inv

-----------------------------------------------------------------------------
(* trig_transitional_activate(): nobody awaits anybody yet, so a configured*)
(* package is pending or installed.                                        *)
LEMMA TransitionalStep == ASSUME Inv, TransitionalActivate PROVE Inv'
<1>. DEFINE pend(p) == {t \in Trigs : interest[t][p] # "none"}
            new(p) == IF mem[p].status <= HALFINSTALLED THEN mem[p] ELSE Activated(mem[p], pend(p))
<1>1. /\ pc = "incorporate" /\ clearing = <<>> /\ ~supported /\ mem' = [p \in Pkgs |-> new(p)]
      /\ disk' = mem' /\ pc' = "incorporating"
      /\ UNCHANGED <<interest, unincorp, supported, running, fixup, records, half, clearing>>
    BY DEF TransitionalActivate, At
<1>2. ASSUME NEW p \in Pkgs
      PROVE  new(p) \in Pkginfo /\ Coherent(new(p)) /\ new(p).trigaw = {}
    <2>1. mem[p] \in Pkginfo /\ Coherent(mem[p]) /\ mem[p].trigaw = {}
        BY <1>1 DEF Inv, TypeOK, DatabaseIsReadable, NobodyAwaitsYet
    <2>2. pend(p) \in SUBSET Trigs
        OBVIOUS
    <2>. HIDE DEF pend
    <2>3. CASE mem[p].status <= HALFINSTALLED
        BY <2>1, <2>3
    <2>4. CASE ~(mem[p].status <= HALFINSTALLED) /\ mem[p].status < TRIGGERSAWAITED
        <3>1. new(p) = [mem[p] EXCEPT !.trigpend = {}]
            BY <2>4 DEF Activated
        <3>2. mem[p].status # TRIGGERSAWAITED /\ mem[p].status # TRIGGERSPENDING
            BY <2>1, <2>4 DEF Pkginfo, Status, NOTINSTALLED, TRIGGERSAWAITED, TRIGGERSPENDING, INSTALLED
        <3>. HIDE DEF new
        <3>. QED
            BY <2>1, <3>1, <3>2 DEF Pkginfo, Coherent
    <2>5. CASE ~(mem[p].status <= HALFINSTALLED) /\ ~(mem[p].status < TRIGGERSAWAITED)
        <3>. DEFINE s == IF pend(p) # {} THEN TRIGGERSPENDING ELSE INSTALLED
        <3>1. new(p) = [mem[p] EXCEPT !.trigpend = pend(p), !.status = s]
            BY <2>1, <2>5 DEF Activated
        <3>2. /\ s \in Status /\ s # TRIGGERSAWAITED
              /\ s = TRIGGERSPENDING => pend(p) # {}
              /\ pend(p) # {} => s = TRIGGERSPENDING
            BY DEF Status, NOTINSTALLED, TRIGGERSAWAITED, TRIGGERSPENDING, INSTALLED
        <3>. HIDE DEF s, new
        <3>. QED
            BY <2>1, <2>2, <3>1, <3>2 DEF Pkginfo, Coherent
    <2>. QED
        BY <2>3, <2>4, <2>5
<1>. HIDE DEF new
<1>3. \A p \in Pkgs : mem'[p] \in Pkginfo /\ Coherent(mem'[p]) /\ mem'[p].trigaw = {}
    BY <1>1, <1>2
<1>4. mem' \in [Pkgs -> Pkginfo] /\ records = {} /\ half = None
    BY <1>1, <1>2 DEF Inv, NobodyAwaitsYet
<1>5. TypeOK'
    BY <1>1, <1>4 DEF Inv, TypeOK, Labels
<1>6. DatabaseIsReadable'
    BY <1>1, <1>3 DEF DatabaseIsReadable, Coherent
<1>7. AwaitedIsPending' /\ DiskAgrees' /\ HalfIsPending' /\ StackIsEmptyWhenDown'
    BY <1>1, <1>3, <1>4 DEF AwaitedIsPending, Awaited, Awaiters, DiskAgrees, HalfIsPending,
                            StackIsEmptyWhenDown
<1>8. NobodyAwaitsYet'
    BY <1>1, <1>3 DEF Inv, NobodyAwaitsYet
<1>. QED
    BY <1>5, <1>6, <1>7, <1>8 DEF Inv

(* trig_note_pend(): the interested package gets a pending trigger.        *)
LEMMA RecordPendStep == ASSUME Inv, NEW r \in records, RecordPend(r) PROVE Inv'
<1>. DEFINE q == mem[r.pend]
            s == IF q.trigaw # {} THEN TRIGGERSAWAITED ELSE TRIGGERSPENDING
            n == [q EXCEPT !.trigpend = @ \cup {r.trig}, !.status = s]
<1>1. r \in Records /\ r.pend \in Pkgs /\ r.trig \in Trigs /\ r.aw \in Pkgs \cup {NoPkg} /\ q \in Pkginfo
    BY DEF Inv, TypeOK, Records
<1>2. /\ records' = records \ {r} /\ half = None /\ pc \in {"incorporating", "activating"}
      /\ clearing = <<>> /\ half' = IF q.status >= TRIGGERSAWAITED /\ r.aw # NoPkg THEN r ELSE None
      /\ UNCHANGED <<interest, unincorp, supported, pc, running, fixup>>
    BY DEF RecordPend, Recording, At
<1>3. supported /\ r # None
    BY <1>1, NoneAssumption DEF Inv, NobodyAwaitsYet, Records
<1>4. NobodyAwaitsYet' /\ StackIsEmptyWhenDown'
    BY <1>2, <1>3 DEF NobodyAwaitsYet, StackIsEmptyWhenDown
<1>5. CASE q.status >= TRIGGERSAWAITED /\ r.trig \notin q.trigpend
    <2>1. Note(r.pend, n)
        BY <1>5 DEF RecordPend
    <2>2. s \in Status /\ s \in {TRIGGERSAWAITED, TRIGGERSPENDING} /\ s <= TRIGGERSPENDING
          /\ (s = TRIGGERSAWAITED <=> q.trigaw # {})
        BY DEF Status, NOTINSTALLED, TRIGGERSAWAITED, TRIGGERSPENDING, INSTALLED
    <2>. HIDE DEF s
    <2>3. n \in Pkginfo /\ n.trigaw = q.trigaw /\ n.trigpend = q.trigpend \cup {r.trig} /\ n.status = s
        BY <1>1, <2>2 DEF Pkginfo
    <2>4. Coherent(Normal(n))
        <3>1. n.trigaw # {} => n.status <= TRIGGERSAWAITED
            BY <2>2, <2>3 DEF TRIGGERSAWAITED
        <3>2. (n.status = TRIGGERSAWAITED => n.trigaw # {}) /\ n.trigpend # {}
            BY <2>2, <2>3
        <3>. HIDE DEF n
        <3>. QED
            BY <2>3, <3>1, <3>2, NormalCoherent
    <2>5. Normal(n).trigpend # {}
        BY <2>2, <2>3 DEF Normal
    <2>. HIDE DEF n
    <2>6. DatabaseIsReadable' /\ AwaitedIsPending' /\ DiskAgrees'
        BY <1>1, <1>2, <2>1, <2>3, <2>4, NoteStep
    <2>7. TypeOK'
        BY <1>1, <1>2, <2>1, <2>3, NoteTypes DEF Inv, TypeOK
    <2>8. HalfIsPending'
        BY <1>1, <1>2, <2>1, <2>3, <2>5, NoteTypes DEF Inv, HalfIsPending
    <2>. QED
        BY <1>4, <2>6, <2>7, <2>8 DEF Inv
<1>6. CASE ~(q.status >= TRIGGERSAWAITED /\ r.trig \notin q.trigpend)
    <2>1. UNCHANGED <<mem, disk, clearing>>
        BY <1>6 DEF RecordPend
    <2>2. DatabaseIsReadable' /\ AwaitedIsPending' /\ DiskAgrees'
        BY <1>2, <2>1, QuietStep
    <2>3. TypeOK'
        BY <1>1, <1>2, <2>1 DEF Inv, TypeOK
    <2>4. HalfIsPending'
        BY <1>1, <1>2, <1>6, <2>1 DEF HalfIsPending
    <2>. QED
        BY <1>4, <2>2, <2>3, <2>4 DEF Inv
<1>. QED
    BY <1>5, <1>6

(* trig_note_aw(): the activating package awaits one that has a pending    *)
(* trigger.                                                                *)
LEMMA RecordAwStep == ASSUME Inv, RecordAw PROVE Inv'
<1>. DEFINE p == half.aw
            q == half.pend
            n == Await(p, q)
<1>1. half \in Records /\ p \in Pkgs /\ q \in Pkgs /\ mem[q].trigpend # {} /\ mem[p] \in Pkginfo
    BY DEF Inv, HalfIsPending, RecordAw, TypeOK, Records
<1>2. /\ half # None /\ half' = None /\ pc \in {"incorporating", "activating"} /\ clearing = <<>>
      /\ UNCHANGED <<interest, unincorp, supported, pc, running, fixup, records>>
    BY DEF RecordAw, Recording, At
<1>3. supported
    BY <1>2 DEF Inv, NobodyAwaitsYet
<1>4. NobodyAwaitsYet' /\ StackIsEmptyWhenDown' /\ HalfIsPending'
    BY <1>2, <1>3 DEF NobodyAwaitsYet, StackIsEmptyWhenDown, HalfIsPending
<1>5. CASE q \notin mem[p].trigaw
    <2>1. Note(p, n)
        BY <1>5 DEF RecordAw
    <2>2. /\ n \in Pkginfo /\ n.trigaw = mem[p].trigaw \cup {q} /\ n.trigpend = mem[p].trigpend
          /\ n.status = IF mem[p].status > TRIGGERSAWAITED THEN TRIGGERSAWAITED ELSE mem[p].status
        <3>. DEFINE s == IF mem[p].status > TRIGGERSAWAITED THEN TRIGGERSAWAITED ELSE mem[p].status
        <3>1. n = [mem[p] EXCEPT !.trigaw = mem[p].trigaw \cup {q}, !.status = s]
            BY <1>1 DEF Await, Pkginfo
        <3>2. s \in Status
            BY <1>1 DEF Pkginfo, Status, NOTINSTALLED, TRIGGERSAWAITED, INSTALLED
        <3>. HIDE DEF s, n
        <3>3. /\ n \in Pkginfo /\ n.trigaw = mem[p].trigaw \cup {q} /\ n.trigpend = mem[p].trigpend
              /\ n.status = s
            BY <1>1, <3>1, <3>2 DEF Pkginfo
        <3>. QED
            BY <3>3 DEF s
    <2>. HIDE DEF n
    <2>3. n.status <= TRIGGERSAWAITED /\ n.status # TRIGGERSPENDING /\ n.trigaw # {}
        BY <1>1, <2>2 DEF Pkginfo, Status, NOTINSTALLED, TRIGGERSAWAITED, TRIGGERSPENDING, INSTALLED
    <2>4. Coherent(Normal(n))
        BY <2>2, <2>3, NormalCoherent
    <2>5. DatabaseIsReadable' /\ AwaitedIsPending' /\ DiskAgrees'
        BY <1>1, <1>2, <2>1, <2>2, <2>4, NoteStep
    <2>6. TypeOK'
        BY <1>1, <1>2, <2>1, <2>2, NoteTypes DEF Inv, TypeOK
    <2>. QED
        BY <1>4, <2>5, <2>6 DEF Inv
<1>6. CASE q \in mem[p].trigaw
    <2>1. UNCHANGED <<mem, disk, clearing>>
        BY <1>6 DEF RecordAw
    <2>2. DatabaseIsReadable' /\ AwaitedIsPending' /\ DiskAgrees'
        BY <1>2, <2>1, QuietStep
    <2>3. TypeOK'
        BY <1>2, <2>1 DEF Inv, TypeOK
    <2>. QED
        BY <1>4, <2>2, <2>3 DEF Inv
<1>. QED
    BY <1>5, <1>6

-----------------------------------------------------------------------------
(* The status changes of unpack, removal and configuration end below       *)
(* triggers-awaited.                                                       *)
LEMMA MovesType == ASSUME NEW a, NEW s, <<a, s>> \in Moves PROVE s \in NOTINSTALLED .. HALFCONFIGURED
BY DEF Moves, Deconfigure, Disappear, NOTINSTALLED, CONFIGFILES, HALFINSTALLED, UNPACKED,
       HALFCONFIGURED, INSTALLED

(* A status change keeps the invariant.                                    *)
LEMMA SetStatusInv == ASSUME Inv, NEW p \in Pkgs, NEW s \in Status, SetStatus(p, s) PROVE Inv'
<1>1. /\ At("work") /\ s \in NOTINSTALLED .. HALFCONFIGURED
      /\ Note(p, [mem[p] EXCEPT !.status = s])
      /\ UNCHANGED <<interest, unincorp, supported, pc, running, fixup, records, half>>
    BY MovesType DEF SetStatus
<1>2. /\ DatabaseIsReadable' /\ AwaitedIsPending' /\ DiskAgrees'
      /\ mem' \in [Pkgs -> Pkginfo] /\ disk' \in [Pkgs -> Pkginfo] /\ clearing' \in Seq(Pkgs)
    BY <1>1, SetStatusStep
<1>3. TypeOK' /\ half = None /\ supported
    BY <1>1, <1>2 DEF Inv, TypeOK, At, NobodyAwaitsYet
<1>4. HalfIsPending' /\ NobodyAwaitsYet' /\ StackIsEmptyWhenDown'
    BY <1>1, <1>3 DEF HalfIsPending, NobodyAwaitsYet, StackIsEmptyWhenDown, At
<1>. QED
    BY <1>2, <1>3, <1>4 DEF Inv

(* Noting something else about a package keeps the invariant.              *)
LEMMA NoteOtherInv == ASSUME Inv, NEW p \in Pkgs, NoteOther(p) PROVE Inv'
<1>1. /\ pc = "work" /\ clearing = <<>> /\ Note(p, mem[p])
      /\ UNCHANGED <<interest, unincorp, supported, pc, running, fixup, records, half>>
    BY DEF NoteOther, At
<1>2. TypeOK /\ mem[p] \in Pkginfo /\ half = None /\ supported
    BY <1>1 DEF Inv, TypeOK, NobodyAwaitsYet
<1>3. Coherent(mem[p])
    BY DEF Inv, DatabaseIsReadable
<1>4. mem[p].trigaw # {} => mem[p].status <= TRIGGERSAWAITED
    BY <1>2, <1>3 DEF Coherent, Pkginfo, HALFINSTALLED, TRIGGERSAWAITED
<1>5. Coherent(Normal(mem[p]))
    BY <1>2, <1>3, <1>4, NormalCoherent DEF Coherent
<1>6. DatabaseIsReadable' /\ AwaitedIsPending' /\ DiskAgrees'
    BY <1>1, <1>2, <1>5, NoteStep
<1>7. TypeOK'
    BY <1>1, <1>2, NoteTypes DEF TypeOK
<1>8. HalfIsPending' /\ NobodyAwaitsYet' /\ StackIsEmptyWhenDown'
    BY <1>1, <1>2 DEF HalfIsPending, NobodyAwaitsYet, StackIsEmptyWhenDown
<1>. QED
    BY <1>6, <1>7, <1>8 DEF Inv

(* A package becomes half-configured before its postinst runs.             *)
LEMMA PostinstStartInv == ASSUME Inv, NEW p \in Pkgs, Trigproc(p) \/ Configure(p) PROVE Inv'
<1>1. /\ At("work") /\ Note(p, [mem[p] EXCEPT !.status = HALFCONFIGURED])
      /\ running' = p /\ pc' = "postinst"
      /\ UNCHANGED <<interest, unincorp, supported, fixup, records, half>>
    BY DEF Trigproc, Configure
<1>2. HALFCONFIGURED \in NOTINSTALLED .. HALFCONFIGURED
    BY DEF HALFCONFIGURED, NOTINSTALLED
<1>3. /\ DatabaseIsReadable' /\ AwaitedIsPending' /\ DiskAgrees'
      /\ mem' \in [Pkgs -> Pkginfo] /\ disk' \in [Pkgs -> Pkginfo] /\ clearing' \in Seq(Pkgs)
    BY <1>1, <1>2, SetStatusStep
<1>4. p # NoPkg
    BY NoPkgAssumption
<1>5. TypeOK' /\ half = None /\ supported
    BY <1>1, <1>3, <1>4 DEF Inv, TypeOK, At, NobodyAwaitsYet, Labels
<1>6. HalfIsPending' /\ NobodyAwaitsYet' /\ StackIsEmptyWhenDown'
    BY <1>1, <1>5 DEF HalfIsPending, NobodyAwaitsYet, StackIsEmptyWhenDown
<1>. QED
    BY <1>3, <1>5, <1>6 DEF Inv

(* post_postinst_tasks() chooses the status that the lists call for.       *)
LEMMA PostinstOkInv == ASSUME Inv, PostinstOk PROVE Inv'
<1>. DEFINE r == mem[running]
            s == IF r.trigaw # {} THEN TRIGGERSAWAITED
                 ELSE IF r.trigpend # {} THEN TRIGGERSPENDING ELSE INSTALLED
            n == [r EXCEPT !.status = s]
<1>1. /\ pc = "postinst" /\ clearing = <<>> /\ Note(running, n) /\ running' = NoPkg
      /\ pc' = "incorporate" /\ UNCHANGED <<interest, unincorp, supported, fixup, records, half>>
    BY DEF PostinstOk, At
<1>2. running \in Pkgs /\ r \in Pkginfo /\ half = None /\ records = {} /\ supported
    BY <1>1 DEF Inv, TypeOK, NobodyAwaitsYet
<1>3. /\ s \in Status /\ (s = TRIGGERSAWAITED <=> r.trigaw # {})
      /\ (s = TRIGGERSPENDING => r.trigpend # {})
    BY DEF Status, NOTINSTALLED, TRIGGERSAWAITED, TRIGGERSPENDING, INSTALLED
<1>. HIDE DEF s
<1>4. n \in Pkginfo /\ n.trigaw = r.trigaw /\ n.trigpend = r.trigpend /\ n.status = s
    BY <1>2, <1>3 DEF Pkginfo
<1>. HIDE DEF n
<1>5. n.trigaw # {} => n.status <= TRIGGERSAWAITED
    BY <1>3, <1>4 DEF TRIGGERSAWAITED
<1>6. Coherent(Normal(n))
    BY <1>3, <1>4, <1>5, NormalCoherent
<1>7. DatabaseIsReadable' /\ AwaitedIsPending' /\ DiskAgrees'
    BY <1>1, <1>2, <1>4, <1>6, NoteStep
<1>8. TypeOK'
    BY <1>1, <1>2, <1>4, NoteTypes DEF Inv, TypeOK, Labels
<1>9. HalfIsPending' /\ NobodyAwaitsYet' /\ StackIsEmptyWhenDown'
    BY <1>1, <1>2 DEF HalfIsPending, NobodyAwaitsYet, StackIsEmptyWhenDown
<1>. QED
    BY <1>7, <1>8, <1>9 DEF Inv

-----------------------------------------------------------------------------
(* Every step keeps the invariant.                                         *)
LEMMA NextInv == Inv /\ [Next]_vars => Inv'
<1>. SUFFICES ASSUME Inv, [Next]_vars
              PROVE  Inv'
    OBVIOUS
<1>1. CASE UNCHANGED vars
    BY <1>1 DEF vars, Inv, TypeOK, DatabaseIsReadable, Coherent, AwaitedIsPending, Awaited,
                Awaiters, Releasing, DiskAgrees, HalfIsPending, NobodyAwaitsYet, StackIsEmptyWhenDown
<1>2. CASE Continue
    BY <1>2, ClearAwaiterStep, FixupVisitStep, ClearDoneStep, QuietInv, TransitionalStep,
       RecordPendStep, RecordAwStep DEF Continue, Quiet
<1>3. CASE Work
    <2>1. CASE Shutdown
        BY <2>1, ForgetStep DEF Shutdown
    <2>2. CASE Open \/ ScriptDone \/ PostinstOk \/ PostinstFail
        BY <2>2, OpenStep, QuietInv, PostinstOkInv DEF Quiet
    <2>3. CASE \E t \in Trigs, p \in Pkgs : Activate(t, p)
        BY <2>3, QuietInv DEF Quiet
    <2>4. CASE \E p \in Pkgs : \/ Trigproc(p) \/ TrigprocNothing(p) \/ Configure(p)
                              \/ AbortRemoval(p) \/ NoteOther(p)
        BY <2>4, PostinstStartInv, TrigprocNothingStep, NoteOtherInv, QuietInv DEF Quiet
    <2>5. CASE \E p \in Pkgs, s \in Status : SetStatus(p, s)
        BY <2>5, SetStatusInv
    <2>6. CASE \E p \in Pkgs, t \in Trigs, o \in Options : ChangeInterest(p, t, o)
        BY <2>6, QuietInv DEF Quiet
    <2>7. CASE \E t \in Trigs, p \in Pkgs \cup {NoPkg} : DpkgTrigger(t, p)
        BY <2>7, DpkgTriggerStep
    <2>. QED
        BY <1>3, <2>1, <2>2, <2>3, <2>4, <2>5, <2>6, <2>7 DEF Work
<1>4. CASE Die
    BY <1>4, ForgetStep DEF Die
<1>. QED
    BY <1>1, <1>2, <1>3, <1>4 DEF Next

(* The invariant holds in every state dpkg can reach.                      *)
THEOREM Invariance == Spec => []Inv
BY InitInv, NextInv, PTL DEF Spec

(* The packages and the progress of dpkg have their types.                 *)
THEOREM TypeCorrect == Spec => []TypeOK
<1>1. Inv => TypeOK
    BY DEF Inv
<1>. QED
    BY <1>1, Invariance, PTL

(* However many packages and triggers there are, the database that a dpkg  *)
(* leaves behind can be read by the next one.                              *)
THEOREM Readable == Spec => []DatabaseIsReadable
<1>1. Inv => DatabaseIsReadable
    BY DEF Inv
<1>. QED
    BY <1>1, Invariance, PTL

(* No package waits for one that has no trigger to process, unless dpkg is *)
(* about to release it.                                                    *)
THEOREM NobodyWaitsInVain == Spec => []AwaitedIsPending
<1>1. Inv => AwaitedIsPending
    BY DEF Inv
<1>. QED
    BY <1>1, Invariance, PTL

(* A dpkg that dies forgets only releases of awaiters.                     *)
THEOREM LittleIsForgotten == Spec => []DiskAgrees
<1>1. Inv => DiskAgrees
    BY DEF Inv
<1>. QED
    BY <1>1, Invariance, PTL

-----------------------------------------------------------------------------
(* A package is owed a trigger only while it is configured and interested; *)
(* before triggers/Unincorp exists, nothing is owed.                       *)
OwedConfigured ==
    /\ owed \in [Pkgs -> SUBSET Trigs]
    /\ \A q \in Pkgs : \A t \in owed[q] :
          supported /\ disk[q].status >= TRIGGERSAWAITED /\ interest[t][q] # "none"

(* While Unincorp is incorporated, what is owed is pending or in the list  *)
(* of activations still to be recorded: Unincorp may be emptied at the end.*)
OwedIsListed ==
    pc = "incorporating" =>
        \A q \in Pkgs : \A t \in owed[q] :
            t \in disk[q].trigpend \/ \E r \in records : r.pend = q /\ r.trig = t

HistoryInv == OwedConfigured /\ OwedIsListed /\ NoActivationLost

-----------------------------------------------------------------------------
(* A note that keeps the triggers in memory keeps those in the database,   *)
(* for every package that stays configured.                                *)
LEMMA NoteKeeps ==
    ASSUME Inv, pc # "down", NEW p \in Pkgs, NEW r \in Pkginfo, Note(p, r),
           r.status >= TRIGGERSAWAITED =>
              mem[p].trigpend \subseteq r.trigpend /\ (r.status = INSTALLED => r.trigpend = {}),
           NEW q \in Pkgs, disk'[q].status >= TRIGGERSAWAITED
    PROVE  disk[q].trigpend \subseteq disk'[q].trigpend
<1>1. TypeOK /\ disk[q].trigpend = mem[q].trigpend
    BY DEF Inv, DiskAgrees
<1>2. CASE q = p
    <2>1. disk'[p] = Normal(r) /\ Normal(r).status = r.status
        BY <1>1, NoteTypes, NormalType
    <2>2. r.status >= TRIGGERSAWAITED
        BY <1>2, <2>1
    <2>3. CASE r.status = INSTALLED
        BY <1>1, <1>2, <2>1, <2>2, <2>3
    <2>4. CASE r.status # INSTALLED
        <3>1. r.status \in {TRIGGERSPENDING, TRIGGERSAWAITED}
            BY <2>2, <2>4 DEF Pkginfo, Status, NOTINSTALLED, INSTALLED, TRIGGERSPENDING, TRIGGERSAWAITED
        <3>2. Normal(r).trigpend = r.trigpend
            BY <3>1 DEF Normal, Pkginfo
        <3>. QED
            BY <1>1, <1>2, <2>1, <2>2, <3>2
    <2>. QED
        BY <2>3, <2>4
<1>3. CASE q # p
    <2>1. disk'[q] \in {disk[q], mem[q]}
        BY <1>1, <1>3, NoteTypes
    <2>. QED
        BY <1>1, <2>1
<1>. QED
    BY <1>2, <1>3

(* A pending trigger stays in the database until its package is no longer  *)
(* configured: until a postinst is run to process it.                      *)
LEMMA PendingStays ==
    ASSUME Inv, [Next]_vars, supported, NEW q \in Pkgs, disk'[q].status >= TRIGGERSAWAITED
    PROVE  disk[q].trigpend \subseteq disk'[q].trigpend
<1>1. CASE disk' = disk
    BY <1>1
<1>2. CASE Shutdown
    BY <1>2 DEF Shutdown, At, Inv, DiskAgrees
<1>3. ASSUME NEW p \in Pkgs, ClearAwaiter(p), disk' # disk
      PROVE  disk[q].trigpend \subseteq disk'[q].trigpend
    <2>. DEFINE h == Head(clearing)
                r == [mem[p] EXCEPT !.trigaw = @ \ {h}]
                s == IF r.trigpend # {} THEN TRIGGERSPENDING ELSE INSTALLED
                n == [r EXCEPT !.status = s]
    <2>1. Note(p, n)
        BY <1>3 DEF ClearAwaiter
    <2>2. mem[p] \in Pkginfo /\ pc # "down"
        BY <1>3 DEF Inv, TypeOK, StackIsEmptyWhenDown, ClearAwaiter
    <2>3. s \in Status /\ (s = INSTALLED => r.trigpend = {})
        BY DEF Status, NOTINSTALLED, INSTALLED, TRIGGERSPENDING
    <2>. HIDE DEF s
    <2>4. n \in Pkginfo /\ n.status = s /\ n.trigpend = mem[p].trigpend /\ r.trigpend = mem[p].trigpend
        BY <2>2, <2>3 DEF Pkginfo
    <2>. HIDE DEF n, r
    <2>. QED
        BY <2>1, <2>2, <2>3, <2>4, NoteKeeps
<1>4. ASSUME NEW r \in records, RecordPend(r), disk' # disk
      PROVE  disk[q].trigpend \subseteq disk'[q].trigpend
    <2>. DEFINE m == mem[r.pend]
                s == IF m.trigaw # {} THEN TRIGGERSAWAITED ELSE TRIGGERSPENDING
                n == [m EXCEPT !.trigpend = @ \cup {r.trig}, !.status = s]
    <2>1. r.pend \in Pkgs /\ r.trig \in Trigs /\ m \in Pkginfo /\ pc # "down" /\ Note(r.pend, n)
        BY <1>4 DEF RecordPend, Recording, At, Inv, TypeOK, Records
    <2>2. s \in Status /\ s # INSTALLED
        BY DEF Status, NOTINSTALLED, TRIGGERSAWAITED, TRIGGERSPENDING, INSTALLED
    <2>. HIDE DEF s
    <2>3. n \in Pkginfo /\ n.status = s /\ m.trigpend \subseteq n.trigpend
        BY <2>1, <2>2 DEF Pkginfo
    <2>. HIDE DEF n
    <2>. QED
        BY <2>1, <2>2, <2>3, NoteKeeps
<1>5. ASSUME RecordAw, disk' # disk
      PROVE  disk[q].trigpend \subseteq disk'[q].trigpend
    <2>. DEFINE p == half.aw
                n == Await(p, half.pend)
                s == IF mem[p].status > TRIGGERSAWAITED THEN TRIGGERSAWAITED ELSE mem[p].status
    <2>1. p \in Pkgs /\ half.pend \in Pkgs /\ mem[p] \in Pkginfo /\ pc # "down" /\ Note(p, n)
        BY <1>5 DEF RecordAw, Recording, At, Inv, TypeOK, HalfIsPending, Records
    <2>2. s \in Status /\ s # INSTALLED
        BY <2>1 DEF Pkginfo, Status, NOTINSTALLED, TRIGGERSAWAITED, INSTALLED
    <2>3. n = [mem[p] EXCEPT !.trigaw = mem[p].trigaw \cup {half.pend}, !.status = s]
        BY <2>1 DEF Await, Pkginfo
    <2>. HIDE DEF n, s
    <2>4. n \in Pkginfo /\ n.status = s /\ n.trigpend = mem[p].trigpend
        BY <2>1, <2>2, <2>3 DEF Pkginfo
    <2>. QED
        BY <2>1, <2>2, <2>4, NoteKeeps
<1>6. ASSUME PostinstOk
      PROVE  disk[q].trigpend \subseteq disk'[q].trigpend
    <2>. DEFINE r == mem[running]
                s == IF r.trigaw # {} THEN TRIGGERSAWAITED
                     ELSE IF r.trigpend # {} THEN TRIGGERSPENDING ELSE INSTALLED
                n == [r EXCEPT !.status = s]
    <2>1. running \in Pkgs /\ r \in Pkginfo /\ pc # "down" /\ Note(running, n)
        BY <1>6 DEF PostinstOk, At, Inv, TypeOK
    <2>2. s \in Status /\ (s = INSTALLED => r.trigpend = {})
        BY DEF Status, NOTINSTALLED, TRIGGERSAWAITED, TRIGGERSPENDING, INSTALLED
    <2>. HIDE DEF s
    <2>3. n \in Pkginfo /\ n.status = s /\ n.trigpend = r.trigpend
        BY <2>1, <2>2 DEF Pkginfo
    <2>. HIDE DEF n
    <2>. QED
        BY <2>1, <2>2, <2>3, NoteKeeps
<1>7. ASSUME NEW p \in Pkgs, NEW s \in NOTINSTALLED .. HALFCONFIGURED, pc # "down",
             Note(p, [mem[p] EXCEPT !.status = s])
      PROVE  disk[q].trigpend \subseteq disk'[q].trigpend
    <2>. DEFINE n == [mem[p] EXCEPT !.status = s]
    <2>1. s \in Status /\ ~(s >= TRIGGERSAWAITED) /\ mem[p] \in Pkginfo
        BY DEF Status, NOTINSTALLED, HALFCONFIGURED, TRIGGERSAWAITED, INSTALLED, Inv, TypeOK
    <2>2. n \in Pkginfo /\ n.status = s
        BY <2>1 DEF Pkginfo
    <2>. HIDE DEF n
    <2>3. Note(p, n)
        BY <1>7 DEF n
    <2>. QED
        BY <1>7, <2>1, <2>2, <2>3, NoteKeeps
<1>8. ASSUME NEW p \in Pkgs, Trigproc(p) \/ Configure(p)
      PROVE  disk[q].trigpend \subseteq disk'[q].trigpend
    <2>1. HALFCONFIGURED \in NOTINSTALLED .. HALFCONFIGURED
        BY DEF HALFCONFIGURED, NOTINSTALLED
    <2>. QED
        BY <1>7, <1>8, <2>1 DEF Trigproc, Configure, At
<1>9. ASSUME NEW p \in Pkgs, NEW s \in Status, SetStatus(p, s)
      PROVE  disk[q].trigpend \subseteq disk'[q].trigpend
    BY <1>7, <1>9, MovesType DEF SetStatus, At
<1>10. ASSUME NEW p \in Pkgs, NoteOther(p)
       PROVE  disk[q].trigpend \subseteq disk'[q].trigpend
    <2>1. mem[p] \in Pkginfo /\ pc # "down" /\ Note(p, mem[p]) /\ Coherent(mem[p])
        BY <1>10 DEF NoteOther, At, Inv, TypeOK, DatabaseIsReadable
    <2>2. mem[p].status = INSTALLED => mem[p].trigpend = {}
        BY <2>1 DEF Coherent, INSTALLED, TRIGGERSAWAITED, TRIGGERSPENDING
    <2>. QED
        BY <2>1, <2>2, NoteKeeps
<1>11. ASSUME disk' # disk, ~Shutdown
       PROVE  \/ \E p \in Pkgs : ClearAwaiter(p)
              \/ \E r \in records : RecordPend(r)
              \/ RecordAw \/ PostinstOk
              \/ \E p \in Pkgs : Trigproc(p) \/ Configure(p) \/ NoteOther(p)
              \/ \E p \in Pkgs, s \in Status : SetStatus(p, s)
    <2>1. CASE Continue
        BY <1>11, <2>1 DEF Continue, FixupVisit, ClearDone, FixupDone, IncorporateStart,
                           IncorporateDone, TransitionalActivate, ActivateDone
    <2>2. CASE Work
        BY <1>11, <2>2 DEF Work, Open, ScriptDone, PostinstFail, Activate, TrigprocNothing,
                           AbortRemoval, ChangeInterest, DpkgTrigger
    <2>. QED
        BY <1>11, <2>1, <2>2 DEF Next, Die, vars
<1>. QED
    BY <1>1, <1>2, <1>3, <1>4, <1>5, <1>6, <1>8, <1>9, <1>10, <1>11

-----------------------------------------------------------------------------
(* The invariant holds at first: nothing is owed.                          *)
LEMMA HistoryInitInv == Init /\ HistoryInit => HistoryInv
BY DEF Init, HistoryInit, HistoryInv, OwedConfigured, OwedIsListed, NoActivationLost

(* Unincorp shrinks only at the end of trig_incorporate(), and support for *)
(* triggers does not go away.                                              *)
LEMMA UnincorpKept ==
    ASSUME Inv, [Next]_vars
    PROVE  /\ unincorp \subseteq unincorp' \/ IncorporateDone
           /\ supported => supported'
           /\ unincorp' # unincorp /\ ~IncorporateDone => supported /\ interest' = interest
           /\ IncorporateDone => interest' = interest /\ disk' = disk /\ unincorp' = {}
<1>1. CASE IncorporateDone
    BY <1>1 DEF IncorporateDone
<1>2. CASE \E t \in Trigs, p \in Pkgs \cup {NoPkg} : DpkgTrigger(t, p)
    <2>1. pc # "incorporating" /\ supported /\ supported' /\ unincorp \subseteq unincorp' /\ interest' = interest
        BY <1>2 DEF DpkgTrigger
    <2>. QED
        BY <2>1 DEF IncorporateDone, At
<1>3. ASSUME ~IncorporateDone, ~(\E t \in Trigs, p \in Pkgs \cup {NoPkg} : DpkgTrigger(t, p))
      PROVE  unincorp' = unincorp /\ supported' = supported
    <2>1. CASE UNCHANGED vars
        BY <2>1 DEF vars
    <2>2. CASE Continue
        BY <1>3, <2>2 DEF Continue, ClearAwaiter, FixupVisit, ClearDone, FixupDone, IncorporateStart,
                          TransitionalActivate, ActivateDone, RecordPend, RecordAw
    <2>3. CASE Work
        BY <1>3, <2>3 DEF Work, Open, Shutdown, Forget, ScriptDone, PostinstOk, PostinstFail, Activate,
                          Trigproc, TrigprocNothing, Configure, AbortRemoval, NoteOther, SetStatus, ChangeInterest
    <2>4. CASE Die
        BY <2>4 DEF Die, Forget
    <2>. QED
        BY <2>1, <2>2, <2>3, <2>4 DEF Next
<1>. QED
    BY <1>1, <1>2, <1>3

(* Interests change only for packages that are not configured.             *)
LEMMA InterestKept ==
    ASSUME Inv, [Next]_vars, NEW q \in Pkgs, NEW t \in Trigs,
           disk'[q].status >= TRIGGERSAWAITED
    PROVE  interest'[t][q] = interest[t][q]
<1>1. CASE interest' = interest
    BY <1>1
<1>2. ASSUME NEW p \in Pkgs, NEW u \in Trigs, NEW o \in Options, ChangeInterest(p, u, o)
      PROVE  interest'[t][q] = interest[t][q]
    <2>1. disk'[p].status = HALFINSTALLED
        BY <1>2 DEF ChangeInterest, At, Inv, DiskAgrees
    <2>2. p # q
        BY <2>1 DEF HALFINSTALLED, TRIGGERSAWAITED
    <2>. QED
        BY <1>2, <2>2 DEF ChangeInterest, Inv, TypeOK
<1>3. ASSUME interest' # interest
      PROVE  \E p \in Pkgs, u \in Trigs, o \in Options : ChangeInterest(p, u, o)
    <2>1. ~Continue
        BY <1>3 DEF Continue, ClearAwaiter, FixupVisit, ClearDone, FixupDone, IncorporateStart,
                    IncorporateDone, TransitionalActivate, ActivateDone, RecordPend, RecordAw
    <2>2. CASE Work
        BY <1>3, <2>2 DEF Work, Open, Shutdown, Forget, ScriptDone, PostinstOk, PostinstFail,
                    Activate, Trigproc, TrigprocNothing, Configure, AbortRemoval, NoteOther,
                    SetStatus, DpkgTrigger
    <2>. QED
        BY <1>3, <2>1, <2>2 DEF Next, Die, Forget, vars
<1>. QED
    BY <1>1, <1>2, <1>3

(* What is newly owed to a package is in Unincorp; what was owed before is *)
(* owed as long as the package is configured.                              *)
LEMMA OwedNext ==
    ASSUME Inv, HistoryInv, [Next]_vars, HistoryNext, NEW q \in Pkgs, NEW t \in owed'[q]
    PROVE  /\ disk'[q].status >= TRIGGERSAWAITED
           /\ \/ t \in owed[q]
              \/ /\ t \in Trigs /\ interest[t][q] # "none"
                 /\ \E p \in Pkgs \cup {NoPkg} : <<t, p>> \in unincorp' \ unincorp
<1>1. owed'[q] = IF disk'[q].status < TRIGGERSAWAITED THEN {}
                 ELSE owed[q] \cup {u \in NewlyActivated : interest[u][q] # "none"}
    BY DEF HistoryNext
<1>2. disk'[q] \in Pkginfo /\ unincorp' \in SUBSET Activations
    BY NextInv DEF Inv, TypeOK
<1>3. disk'[q].status >= TRIGGERSAWAITED
    BY <1>1, <1>2 DEF Pkginfo, Status, TRIGGERSAWAITED, NOTINSTALLED, INSTALLED
<1>4. ASSUME t \notin owed[q]
      PROVE  /\ t \in Trigs /\ interest[t][q] # "none"
             /\ \E p \in Pkgs \cup {NoPkg} : <<t, p>> \in unincorp' \ unincorp
    <2>1. t \in NewlyActivated /\ interest[t][q] # "none"
        BY <1>1, <1>4
    <2>2. PICK a \in unincorp' \ unincorp : t = a[1]
        BY <2>1 DEF NewlyActivated
    <2>3. a \in Activations
        BY <1>2, <2>2
    <2>4. t \in Trigs /\ a[2] \in Pkgs \cup {NoPkg} /\ a = <<t, a[2]>>
        BY <2>2, <2>3 DEF Activations
    <2>. QED
        BY <2>1, <2>2, <2>4
<1>. QED
    BY <1>3, <1>4

(* The ways into and through the incorporation of Unincorp.                *)
LEMMA Incorporating ==
    ASSUME [Next]_vars, pc' = "incorporating"
    PROVE  \/ IncorporateStart /\ pc # "incorporating"
           \/ TransitionalActivate
           \/ pc = "incorporating" /\ unincorp' = unincorp /\ records' = records
           \/ pc = "incorporating" /\ unincorp' = unincorp /\ \E r \in records : RecordPend(r)
<1>1. CASE UNCHANGED vars
    BY <1>1 DEF vars
<1>2. CASE Continue
    BY <1>2 DEF Continue, ClearAwaiter, FixupVisit, ClearDone, FixupDone, IncorporateStart,
                IncorporateDone, ActivateDone, RecordPend, RecordAw, At
<1>3. CASE Work
    BY <1>3 DEF Work, Open, Shutdown, Forget, ScriptDone, PostinstOk, PostinstFail, Activate,
                Trigproc, TrigprocNothing, Configure, AbortRemoval, NoteOther, SetStatus, ChangeInterest, DpkgTrigger, At
<1>4. CASE Die
    BY <1>4 DEF Die, Forget
<1>. QED
    BY <1>1, <1>2, <1>3, <1>4 DEF Next

(* Recording an activation makes it pending in the database.               *)
LEMMA RecordedIsPending ==
    ASSUME Inv, NEW r \in records, RecordPend(r), disk[r.pend].status >= TRIGGERSAWAITED
    PROVE  r.trig \in disk'[r.pend].trigpend
<1>. DEFINE m == mem[r.pend]
            s == IF m.trigaw # {} THEN TRIGGERSAWAITED ELSE TRIGGERSPENDING
            n == [m EXCEPT !.trigpend = @ \cup {r.trig}, !.status = s]
<1>1. /\ r.pend \in Pkgs /\ r.trig \in Trigs /\ m \in Pkginfo /\ pc # "down" /\ TypeOK
      /\ m.status >= TRIGGERSAWAITED /\ disk[r.pend].trigpend = m.trigpend
    BY DEF RecordPend, Recording, At, Inv, TypeOK, Records, DiskAgrees
<1>2. CASE r.trig \in m.trigpend
    BY <1>1, <1>2 DEF RecordPend
<1>3. CASE r.trig \notin m.trigpend
    <2>1. Note(r.pend, n)
        BY <1>1, <1>3 DEF RecordPend
    <2>2. s \in Status /\ s \in {TRIGGERSAWAITED, TRIGGERSPENDING}
        BY DEF Status, NOTINSTALLED, TRIGGERSAWAITED, TRIGGERSPENDING, INSTALLED
    <2>. HIDE DEF s
    <2>3. n \in Pkginfo /\ n.status = s /\ r.trig \in n.trigpend
        BY <1>1, <2>2 DEF Pkginfo
    <2>. HIDE DEF n
    <2>4. Normal(n).trigpend = n.trigpend
        BY <2>2, <2>3 DEF Normal, Pkginfo
    <2>. QED
        BY <1>1, <2>1, <2>3, <2>4, NoteTypes
<1>. QED
    BY <1>2, <1>3

(* What is owed stays owed to a configured and interested package.         *)
LEMMA OwedConfiguredStep ==
    ASSUME Inv, HistoryInv, [Next]_vars, HistoryNext
    PROVE  OwedConfigured'
<1>1. owed' \in [Pkgs -> SUBSET Trigs]
    <2>1. unincorp' \in SUBSET Activations
        BY NextInv DEF Inv, TypeOK
    <2>2. NewlyActivated \in SUBSET Trigs
        BY <2>1 DEF NewlyActivated, Activations
    <2>. QED
        BY <2>2 DEF HistoryNext, HistoryInv, OwedConfigured
<1>2. ASSUME NEW q \in Pkgs, NEW t \in owed'[q]
      PROVE  supported' /\ disk'[q].status >= TRIGGERSAWAITED /\ interest'[t][q] # "none"
    <2>1. disk'[q].status >= TRIGGERSAWAITED /\ t \in Trigs
        BY <1>1, OwedNext
    <2>2. interest'[t][q] = interest[t][q]
        BY <2>1, InterestKept
    <2>3. CASE t \in owed[q]
        BY <2>1, <2>2, <2>3, UnincorpKept DEF HistoryInv, OwedConfigured
    <2>4. CASE t \notin owed[q]
        <3>1. unincorp' # unincorp /\ unincorp' # {} /\ interest[t][q] # "none"
            BY <2>4, OwedNext
        <3>. QED
            BY <2>1, <2>2, <3>1, UnincorpKept
    <2>. QED
        BY <2>3, <2>4
<1>. QED
    BY <1>1, <1>2 DEF OwedConfigured

(* An activation leaves Unincorp only when it is pending in the database.  *)
LEMMA NoActivationLostStep ==
    ASSUME Inv, HistoryInv, [Next]_vars, HistoryNext
    PROVE  NoActivationLost'
<1>. SUFFICES ASSUME NEW q \in Pkgs, NEW t \in owed'[q]
              PROVE  t \in disk'[q].trigpend \/ \E p \in Pkgs \cup {NoPkg} : <<t, p>> \in unincorp'
    BY DEF NoActivationLost
<1>1. disk'[q].status >= TRIGGERSAWAITED
    BY OwedNext
<1>2. CASE t \notin owed[q]
    BY <1>2, OwedNext
<1>3. CASE t \in owed[q] /\ t \in disk[q].trigpend
    BY <1>1, <1>3, PendingStays DEF HistoryInv, OwedConfigured
<1>4. CASE t \in owed[q] /\ t \notin disk[q].trigpend
    <2>1. PICK p \in Pkgs \cup {NoPkg} : <<t, p>> \in unincorp
        BY <1>4 DEF HistoryInv, NoActivationLost
    <2>2. ~IncorporateDone
        BY <1>4 DEF IncorporateDone, At, HistoryInv, OwedIsListed
    <2>. QED
        BY <2>1, <2>2, UnincorpKept
<1>. QED
    BY <1>2, <1>3, <1>4

(* While Unincorp is incorporated, every activation is on its way.         *)
LEMMA OwedIsListedStep ==
    ASSUME Inv, HistoryInv, [Next]_vars, HistoryNext
    PROVE  OwedIsListed'
<1>. SUFFICES ASSUME pc' = "incorporating", NEW q \in Pkgs, NEW t \in owed'[q]
              PROVE  t \in disk'[q].trigpend \/ \E r \in records' : r.pend = q /\ r.trig = t
    BY DEF OwedIsListed
<1>1. disk'[q].status >= TRIGGERSAWAITED
    BY OwedNext
<1>2. unincorp' = unincorp
    BY Incorporating DEF IncorporateStart, TransitionalActivate
<1>3. t \in owed[q]
    BY <1>2, OwedNext
<1>4. supported /\ disk[q].status >= TRIGGERSAWAITED /\ interest[t][q] # "none"
    BY <1>3 DEF HistoryInv, OwedConfigured
<1>5. CASE t \in disk[q].trigpend
    BY <1>1, <1>4, <1>5, PendingStays
<1>6. CASE t \notin disk[q].trigpend /\ IncorporateStart
    <2>1. PICK p \in Pkgs \cup {NoPkg} : <<t, p>> \in unincorp
        BY <1>3, <1>6 DEF HistoryInv, NoActivationLost
    <2>. DEFINE r == [pend |-> q, aw |-> IF interest[t][q] = "await" THEN p ELSE NoPkg, trig |-> t]
    <2>2. r \in RecordsFor(t, p)
        BY <1>4 DEF RecordsFor
    <2>3. RecordsFor(t, p) \subseteq records'
        <3>1. records' = UNION {RecordsFor(a[1], a[2]) : a \in unincorp}
            BY <1>6 DEF IncorporateStart
        <3>2. <<t, p>>[1] = t /\ <<t, p>>[2] = p
            OBVIOUS
        <3>. QED
            BY <2>1, <3>1, <3>2
    <2>4. r.pend = q /\ r.trig = t
        OBVIOUS
    <2>. QED
        BY <2>2, <2>3, <2>4
<1>7. CASE t \notin disk[q].trigpend /\ pc = "incorporating"
    <2>1. PICK r \in records : r.pend = q /\ r.trig = t
        BY <1>3, <1>7 DEF HistoryInv, OwedIsListed
    <2>2. CASE records' = records
        BY <2>1, <2>2
    <2>3. CASE \E x \in records : RecordPend(x)
        <3>1. PICK x \in records : RecordPend(x)
            BY <2>3
        <3>2. CASE x = r
            BY <3>1, <3>2, <2>1, <1>4, RecordedIsPending
        <3>3. CASE x # r
            BY <3>1, <3>3, <2>1 DEF RecordPend
        <3>. QED
            BY <3>2, <3>3
    <2>4. ~TransitionalActivate
        BY <1>4 DEF TransitionalActivate
    <2>. QED
        BY <1>7, <2>2, <2>3, <2>4, Incorporating
<1>8. ~TransitionalActivate
    BY <1>4 DEF TransitionalActivate
<1>. QED
    BY <1>5, <1>6, <1>7, <1>8, Incorporating

(* No activation is lost, whenever dpkg dies and however many packages and *)
(* triggers there are.                                                     *)
THEOREM ActivationsAreKept == HistorySpec => []NoActivationLost
<1>1. Init /\ HistoryInit => Inv /\ HistoryInv
    BY InitInv, HistoryInitInv
<1>2. Inv /\ HistoryInv /\ [Next /\ HistoryNext]_<<vars, owed>> => Inv' /\ HistoryInv'
    <2>. SUFFICES ASSUME Inv, HistoryInv, [Next /\ HistoryNext]_<<vars, owed>>
                  PROVE  Inv' /\ HistoryInv'
        OBVIOUS
    <2>1. CASE Next /\ HistoryNext
        BY <2>1, NextInv, OwedConfiguredStep, OwedIsListedStep, NoActivationLostStep DEF HistoryInv
    <2>2. CASE UNCHANGED <<vars, owed>>
        <3>1. Inv'
            BY <2>2, NextInv
        <3>2. HistoryInv'
            BY <2>2 DEF vars, HistoryInv, OwedConfigured, OwedIsListed, NoActivationLost
        <3>. QED
            BY <3>1, <3>2
    <2>. QED
        BY <2>1, <2>2
<1>3. HistoryInv => NoActivationLost
    BY DEF HistoryInv
<1>. QED
    BY <1>1, <1>2, <1>3, PTL DEF HistorySpec, OwedInit
=============================================================================
