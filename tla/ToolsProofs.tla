---------------------------- MODULE ToolsProofs ----------------------------
(***************************************************************************)
(* Proofs about the programs beside dpkg.  StartStop, for any processes,   *)
(* schedules and criteria: a success that start-stop-daemon reports is     *)
(* one.  Divert, for any paths and packages: no step of dpkg-divert takes  *)
(* away the last copy of a file, and no name is diverted twice.            *)
(* StatOverride, for any users: dpkg-statoverride changes one override.    *)
(* SplitQueue, for any archives and part sizes: what dpkg-split puts       *)
(* together is what was split.                                             *)
(***************************************************************************)
EXTENDS StartStop, Divert, StatOverride, SplitQueue, FiniteSetTheorems,
        SequenceTheorems, WellFoundedInduction, TLAPS

\* The least-number principle, for sets.
LEMMA SmallestOf ==
  ASSUME NEW S, S \subseteq Nat, S # {} PROVE \E n \in S : \A m \in S : n <= m
<1>. DEFINE R == {ss \in Nat \X Nat : ss[1] < ss[2]}
<1>1. IsWellFoundedOn(R, Nat)
    BY NatLessThanWellFounded DEF OpToRel
<1>2. PICK n \in S : \A m \in S : ~(<<m, n>> \in R)
    <2>. HIDE DEF R
    <2>. QED BY <1>1, WFMin, Zenon
<1>3. \A m \in S : n <= m
    <2>. TAKE m \in S
    <2>1. m \in Nat /\ n \in Nat
        OBVIOUS
    <2>2. <<m, n>> \in Nat \X Nat
        BY <2>1
    <2>3. ~(m < n)
        BY <1>2, <2>2
    <2>. QED BY <2>1, <2>3
<1>. QED BY <1>3

-----------------------------------------------------------------------------
(* dpkg-statoverride *)

StatTypeOK ==
  /\ overrides \in [Overridable -> Text]
  /\ passwd \in [Users -> {0} \cup Uids]

\* What is written for an override in the place of an entry of the file means the same user,
\* and is the same if there is no such user.
LEMMA PrintedMeansTheSame ==
  ASSUME StatTypeOK, NEW t \in Text
  PROVE  /\ statdb_node_print(t) \in Text
         /\ (t = None) = (statdb_node_print(t) = None)
         /\ statdb_parse_uid(t) = statdb_parse_uid(statdb_node_print(t))
         /\ statdb_parse_uid(t) = 0 => statdb_node_print(t) = t
<1>. DEFINE uid == statdb_parse_uid(t)
            n == CHOOSE u \in Users : passwd[u] = uid
<1>0. Loaded(t).uid = uid /\ (uid = 0 => Loaded(t).uname = t.name)
    BY DEF Loaded
<1>1. CASE t = None
    BY <1>1 DEF statdb_node_print, statdb_parse_uid, None
<1>2. CASE t # None /\ \E u \in Users : passwd[u] = uid /\ passwd[u] # 0
    <2>1. statdb_node_print(t) = ByName(n)
        BY <1>0, <1>2 DEF statdb_node_print
    <2>2. n \in Users /\ passwd[n] = uid /\ uid # 0
        BY <1>2
    <2>3. ByName(n) \in Text /\ ByName(n) # None /\ statdb_parse_uid(ByName(n)) = passwd[n]
        BY <2>2 DEF Text, ByName, None, statdb_parse_uid
    <2>. QED BY <1>2, <2>1, <2>2, <2>3
<1>3. CASE t # None /\ ~(\E u \in Users : passwd[u] = uid /\ passwd[u] # 0)
    <2>1. statdb_node_print(t) = IF uid = 0 THEN ByName(t.name) ELSE ByUid(uid)
        BY <1>0, <1>3 DEF statdb_node_print
    <2>2. CASE \E u \in Users : t = ByName(u)
        <3>1. PICK u \in Users : t = ByName(u)
            BY <2>2
        <3>2. t.name = u /\ uid = passwd[u]
            BY <3>1 DEF ByName, statdb_parse_uid
        <3>3. uid = 0
            BY <1>3, <3>2
        <3>. QED BY <1>3, <2>1, <3>1, <3>2, <3>3
    <2>3. CASE \E i \in Uids : t = ByUid(i)
        <3>1. PICK i \in Uids : t = ByUid(i)
            BY <2>3
        <3>2. uid = i /\ i # 0
            BY <3>1, UidsAssumption DEF ByUid, statdb_parse_uid
        <3>. QED BY <1>3, <2>1, <3>1, <3>2
    <2>. QED BY <1>3, <2>2, <2>3 DEF Text
<1>. QED BY <1>1, <1>2, <1>3

LEMMA StatTypeInit == StatInit => StatTypeOK
BY DEF StatInit, StatTypeOK, Text

LEMMA StatTypeStep == StatTypeOK /\ [StatNext]_statvars => StatTypeOK'
<1>. SUFFICES ASSUME StatTypeOK, [StatNext]_statvars PROVE StatTypeOK'
    OBVIOUS
<1>1. CASE statoverride_add
    <2>1. PICK p \in Overridable, t \in Text \ {None} :
              overrides' = [q \in Overridable |-> statdb_node_print([overrides EXCEPT ![p] = t][q])]
        BY <1>1 DEF statoverride_add, statdb_write
    <2>2. \A q \in Overridable : [overrides EXCEPT ![p] = t][q] \in Text
        BY DEF StatTypeOK
    <2>. QED BY <1>1, <2>1, <2>2, PrintedMeansTheSame DEF StatTypeOK, statoverride_add
<1>2. CASE statoverride_remove
    <2>1. PICK p \in Overridable :
              overrides' = [q \in Overridable |-> statdb_node_print([overrides EXCEPT ![p] = None][q])]
        BY <1>2 DEF statoverride_remove, statdb_write
    <2>2. \A q \in Overridable : [overrides EXCEPT ![p] = None][q] \in Text
        BY DEF StatTypeOK, Text
    <2>. QED BY <1>2, <2>1, <2>2, PrintedMeansTheSame DEF StatTypeOK, statoverride_remove
<1>3. CASE Administer
    BY <1>3 DEF Administer, StatTypeOK
<1>4. CASE Unpacks
    BY <1>4 DEF Unpacks, StatTypeOK
<1>5. CASE UNCHANGED statvars
    BY <1>5 DEF statvars, StatTypeOK
<1>. QED BY <1>1, <1>2, <1>3, <1>4, <1>5 DEF StatNext

\* An override of another path than the one that is written keeps its meaning.
LEMMA WrittenKeepsOthers ==
  ASSUME StatTypeOK, passwd' = passwd, NEW p \in Overridable, NEW t \in Text,
         statdb_write([overrides EXCEPT ![p] = t])
  PROVE  OthersKeepStep
<1>1. ASSUME NEW q \in Overridable \ {p}
      PROVE  overrides[q] \in Text /\ overrides'[q] = statdb_node_print(overrides[q])
    BY <1>1 DEF statdb_write, StatTypeOK
<1>. QED BY <1>1, PrintedMeansTheSame DEF OthersKeepStep

\* dpkg-statoverride changes the override of one path; what the file says about every other
\* one stays, for any users that come and go between the runs.
THEOREM OthersAlwaysKeep == StatSpec => OthersKeep
<1>1. ASSUME StatTypeOK, [StatNext]_statvars PROVE [OthersKeepStep]_statvars
    <2>1. CASE statoverride_add
        <3>1. PICK p \in Overridable, t \in Text \ {None} : statdb_write([overrides EXCEPT ![p] = t])
            BY <2>1 DEF statoverride_add
        <3>. QED BY <1>1, <2>1, <3>1, WrittenKeepsOthers DEF statoverride_add
    <2>2. CASE statoverride_remove
        <3>1. PICK p \in Overridable : statdb_write([overrides EXCEPT ![p] = None])
            BY <2>2 DEF statoverride_remove
        <3>2. None \in Text
            BY DEF Text
        <3>. QED BY <1>1, <2>2, <3>1, <3>2, WrittenKeepsOthers DEF statoverride_remove
    <2>3. CASE Administer
        BY <2>3 DEF Administer, OthersKeepStep
    <2>4. CASE Unpacks
        BY <2>4 DEF Unpacks, OthersKeepStep
    <2>. QED BY <1>1, <2>1, <2>2, <2>3, <2>4 DEF StatNext
<1>. QED BY <1>1, StatTypeInit, StatTypeStep, PTL DEF StatSpec, OthersKeep

-----------------------------------------------------------------------------
(* dpkg-divert *)

Diversion == [from : Paths, to : Paths, by : Owners]

\* A command knows where it is; an addition that is to be written still has its names for
\* itself, a file that is to be moved does not fall on another one, and while it is copied the
\* copy is the same.
DivertInv ==
  /\ place \in [Paths -> Copies]
  /\ diversions \subseteq Diversion /\ (\A d \in diversions : d.from # d.to)
  /\ dpc \in {"idle", "add", "remove", "write", "rename", "unlink"}
  /\ dpc # "idle" => run \in Commands
  /\ dpc \in {"add", "remove"} => run.do = dpc
  /\ dpc # "idle" /\ (run.do = "add" \/ dpc # "remove") => run.from # run.to
  /\ dpc = "write" /\ run.do = "add" => Clashes = {}
  /\ dpc \in {"write", "rename"} /\ run.do = "add" /\ run.rename => Exists(run.from)
  /\ dpc = "rename" => Exists(src)
  /\ dpc \in {"write", "rename"} /\ (run.do = "add" \/ dpc = "rename") /\ run.rename => ~RenameIsBad(src, dst)
  /\ dpc = "rename" => run.rename
  /\ dpc = "unlink" => place[dst] = place[src]
  /\ \A d, e \in diversions : {d.from, d.to} \cap {e.from, e.to} # {} => d = e

LEMMA DivertInvInit == DivertInit => DivertInv
BY DEF DivertInit, DivertInv

\* A command that ends leaves what it has done.
LEMMA DivertQuits == ASSUME DivertInv, Quit PROVE DivertInv'
BY DEF DivertInv, Quit, Done, Copies

LEMMA DivertInvStep == DivertInv /\ [DivertNext]_divertvars => DivertInv'
<1>. SUFFICES ASSUME DivertInv, [DivertNext]_divertvars PROVE DivertInv'
    OBVIOUS
<1>1. CASE Start
    BY <1>1 DEF Start, DivertInv, Commands
<1>2. CASE diversion_add
    <2>1. CASE Quit
        BY <2>1, DivertQuits
    <2>2. CASE /\ Clashes = {} /\ dpc' = "write"
               /\ ~(run.rename /\ RenameIsBad(run.from, run.to))
               /\ run' = [run EXCEPT !.rename = ToMove(run.from) /\ ~diversion_is_owned_by_self]
               /\ UNCHANGED <<diversions, place, owned, shared, runs>>
        <3>1. run \in Commands /\ run.do = "add" /\ run.from # run.to
            BY <1>2 DEF DivertInv, diversion_add
        <3>2. run' \in Commands /\ run'.do = "add" /\ run'.from = run.from /\ run'.to = run.to
              /\ (run'.rename => run.rename /\ Exists(run.from))
            BY <2>2, <3>1 DEF Commands, ToMove
        <3>3. Clashes' = Clashes /\ src' = run.from /\ dst' = run.to
            BY <2>2, <3>2 DEF Clashes, Diverted, Contest, AltName, src, dst
        <3>. QED BY <2>2, <3>1, <3>2, <3>3 DEF DivertInv, RenameIsBad, Exists
    <2>. QED BY <1>2, <2>1, <2>2 DEF diversion_add
<1>3. CASE diversion_remove
    <2>1. CASE Quit
        BY <2>1, DivertQuits
    <2>2. CASE /\ Contest(run.from) # {}
               /\ ~(run.rename /\ RenameIsBad(Found.to, Found.from))
               /\ run' = [run EXCEPT !.to = Found.to, !.by = Found.by, !.rename = ToMove(Found.to)]
               /\ dpc' = (IF run'.rename THEN "rename" ELSE "write")
               /\ UNCHANGED <<diversions, place, owned, shared, runs>>
        <3>1. run \in Commands /\ run.do = "remove"
            BY <1>3 DEF DivertInv, diversion_remove
        <3>2. Found \in diversions /\ Found.from = run.from
            BY <2>2 DEF Found, Contest
        <3>3. Found \in Diversion /\ Found.from # Found.to
            BY <3>2 DEF DivertInv
        <3>4. run' \in Commands /\ run'.do = "remove" /\ run'.from = run.from /\ run'.to = Found.to
              /\ (run'.rename => run.rename /\ Exists(Found.to))
            BY <2>2, <3>1, <3>3 DEF Commands, ToMove, Diversion
        <3>5. src' = Found.to /\ dst' = Found.from
            BY <3>2, <3>4 DEF src, dst
        <3>. QED BY <2>2, <3>1, <3>2, <3>3, <3>4, <3>5 DEF DivertInv, RenameIsBad, Exists
    <2>. QED BY <1>3, <2>1, <2>2 DEF diversion_remove
<1>4. CASE divertdb_write
    <2>1. run \in Commands /\ run.from # run.to /\ new \in Diversion
        BY <1>4 DEF divertdb_write, DivertInv, Commands, new, Diversion
    <2>2. diversions' \subseteq Diversion /\ (\A d \in diversions' : d.from # d.to)
        BY <1>4, <2>1 DEF divertdb_write, DivertInv, new
    <2>3. \A d, e \in diversions' : {d.from, d.to} \cap {e.from, e.to} # {} => d = e
        <3>1. CASE run.do = "add"
            <4>1. \A d \in diversions : {d.from, d.to} \cap {run.from, run.to} = {}
                BY <1>4, <3>1 DEF divertdb_write, DivertInv, Clashes, Diverted, Contest, AltName
            <4>. QED BY <1>4, <3>1, <4>1 DEF divertdb_write, DivertInv, new
        <3>2. CASE run.do # "add"
            BY <1>4, <3>2 DEF divertdb_write, DivertInv
        <3>. QED BY <3>1, <3>2
    <2>4. CASE run.do = "add" /\ run.rename
        <3>1. dpc' = "rename" /\ run' = run /\ place' = place
            BY <1>4, <2>4 DEF divertdb_write, Go
        <3>2. src = run.from /\ src' = src /\ dst' = dst
            BY <2>4, <3>1 DEF src, dst
        <3>. QED BY <1>4, <2>1, <2>2, <2>3, <2>4, <3>1, <3>2 DEF DivertInv, divertdb_write, RenameIsBad, Exists
    <2>5. CASE ~(run.do = "add" /\ run.rename)
        BY <1>4, <2>2, <2>3, <2>5 DEF DivertInv, divertdb_write, Go, Done
    <2>. QED BY <2>4, <2>5
<1>5. CASE file_rename \/ file_copy_done
    <2>1. place' \in [Paths -> Copies]
        BY <1>5 DEF file_rename, file_copy_done, DivertInv, Copies, Commands, src, dst
    <2>2. CASE Go("unlink")
        <3>1. dpc = "rename" /\ place' = [place EXCEPT ![dst] = place[src]] /\ dpc' = "unlink" /\ run' = run
            BY <1>5, <2>2 DEF file_rename, file_copy_done, Go, AfterRename, DivertInv, Done
        <3>2. src' = src /\ dst' = dst /\ src \in Paths /\ dst \in Paths /\ src # dst
            BY <3>1 DEF src, dst, DivertInv, Commands
        <3>3. place'[dst'] = place'[src']
            BY <3>1, <3>2 DEF DivertInv
        <3>4. UNCHANGED diversions
            BY <1>5 DEF file_rename, file_copy_done
        <3>. QED BY <2>1, <3>1, <3>3, <3>4 DEF DivertInv
    <2>3. CASE Go(AfterRename)
        <3>1. run \in Commands /\ run.do \in {"add", "remove"} /\ UNCHANGED diversions /\ run.from # run.to
            BY <1>5 DEF DivertInv, Commands, file_rename, file_copy_done
        <3>2. IF run.do = "add" THEN dpc' = "idle" ELSE dpc' = "write" /\ run' = run
            BY <2>3, <3>1 DEF Go, AfterRename, Done
        <3>. QED BY <2>1, <3>1, <3>2 DEF DivertInv
    <2>. QED BY <1>5, <2>2, <2>3 DEF file_rename, file_copy_done
<1>6. CASE DivertStops
    BY <1>6, DivertQuits DEF DivertStops
<1>7. CASE UNCHANGED divertvars
    BY <1>7 DEF divertvars, DivertInv, Clashes, Diverted, Contest, AltName, Exists, RenameIsBad, src, dst
<1>. QED BY <1>1, <1>2, <1>3, <1>4, <1>5, <1>6, <1>7 DEF DivertNext

\* No name is in two diversions, whatever is added and removed and wherever it is interrupted:
\* the clash is looked for in the same database that is written.
THEOREM NamesAlwaysDivertedOnce == DivertSpec => []NamesAreDivertedOnce
<1>1. ASSUME DivertInv PROVE NamesAreDivertedOnce
    <2>. SUFFICES ASSUME NEW p \in Paths PROVE Cardinality(Diverted(p)) <= 1
        BY DEF NamesAreDivertedOnce
    <2>1. CASE Diverted(p) = {}
        BY <2>1, FS_EmptySet
    <2>2. ASSUME NEW d \in Diverted(p) PROVE Cardinality(Diverted(p)) <= 1
        <3>1. Diverted(p) = {d}
            BY <1>1, <2>2 DEF Diverted, Contest, AltName, DivertInv
        <3>2. Cardinality({d}) = 1
            BY FS_Singleton, Zenon
        <3>. QED BY <3>1, <3>2
    <2>. QED BY <2>1, <2>2
<1>. QED BY <1>1, DivertInvInit, DivertInvStep, PTL DEF DivertSpec

\* No step of dpkg-divert takes away the last copy of a file: the file it moves does not fall on
\* a different one, and the original goes only after its copy is there.
THEOREM FilesAlwaysSurvive == DivertSpec => FilesSurvive
<1>1. ASSUME DivertInv, [DivertNext]_divertvars PROVE [FilesSurviveStep]_divertvars
    <2>1. CASE file_rename \/ file_copy_done
        <3>1. src \in Paths /\ dst \in Paths /\ src # dst
            BY <1>1, <2>1 DEF src, dst, DivertInv, Commands, file_rename, file_copy_done
        <3>2. CASE place' = [place EXCEPT ![src] = "nofile"] /\ place[src] = place[dst]
            BY <1>1, <3>1, <3>2 DEF FilesSurviveStep, DivertInv
        <3>3. CASE ~Exists(dst) /\ place' = [place EXCEPT ![dst] = place[src], ![src] = "nofile"]
            BY <1>1, <3>1, <3>3 DEF FilesSurviveStep, DivertInv, Exists
        <3>4. CASE ~Exists(dst) /\ place' = [place EXCEPT ![dst] = place[src]]
            BY <1>1, <3>1, <3>4 DEF FilesSurviveStep, DivertInv, Exists
        <3>5. Exists(dst) /\ file_rename => place[src] = place[dst]
            BY <1>1 DEF file_rename, DivertInv, RenameIsBad
        <3>. QED BY <1>1, <2>1, <3>2, <3>3, <3>4, <3>5 DEF file_rename, file_copy_done, DivertInv, RenameIsBad
    <2>2. CASE place' = place
        BY <2>2 DEF FilesSurviveStep
    <2>3. CASE UNCHANGED divertvars
        BY <2>3
    <2>. QED BY <1>1, <2>1, <2>2, <2>3
             DEF DivertNext, Start, diversion_add, diversion_remove, divertdb_write, DivertStops, Quit
<1>. QED BY <1>1, DivertInvInit, DivertInvStep, PTL DEF DivertSpec, FilesSurvive

\* Both together, which is what dpkg-divert promises: the diversions stay readable and no file
\* is lost, in either order of writing and renaming.
THEOREM DiversionsAlwaysSafe == DivertSpec => DiversionsAreSafe
<1>1. [FilesSurviveStep]_divertvars /\ NamesAreDivertedOnce' => [FilesSurviveStep /\ NamesAreDivertedOnce']_divertvars
    OBVIOUS
<1>. QED BY <1>1, NamesAlwaysDivertedOnce, FilesAlwaysSurvive, PTL DEF DiversionsAreSafe, FilesSurvive

-----------------------------------------------------------------------------
(* start-stop-daemon *)

NoteKinds == {"READY", "ERRNO", "EXTEND", "STATUS"}
Forking == {"wait_for_child", "wait_for_notify"}
Stopping == {"schedule", "kill", "timeout", "poll"}

SsdTypeOK ==
  /\ procs \in [Pids -> {"none"} \cup Kinds]
  /\ ssdpc \in {"idle", "foreground", "daemonize", "exit"} \cup Forking \cup Stopping
  /\ second \in {"none", "setsid", "failed", "parent", "exited"}
  /\ child \in [pid : {NoPid} \cup Pids, up : BOOLEAN]
  /\ notes \in Seq(NoteKinds) /\ sent \in Seq(NoteKinds)

\* Where the command and its second parent are.
SsdPlaces ==
  /\ ssdpc = "idle" => second = "none"
  /\ ssdpc = "foreground" => opts.action = "start" /\ ~opts.background /\ second = "none"
  /\ ssdpc = "daemonize" => Startable /\ second = "none"
  /\ ssdpc \in Forking => Startable /\ second # "none"
  /\ ssdpc = "wait_for_notify" => second = "exited"
  /\ ssdpc \in Stopping => opts.action = "stop" /\ second = "none"
  /\ opts.action = "stop" => second = "none"
  /\ ssdpc = "exit" /\ code = 0 /\ Startable => second = "exited"
  /\ second \in {"none", "setsid"} => child.pid = NoPid
  /\ second \in {"parent", "exited"} => child.pid \in Pids
  /\ second # "none" => ssdpc \in Forking \cup {"exit"} /\ Startable
  /\ second = "exited" /\ opts.mpidfile => pidfile = child.pid

\* A notification that is read was sent.
SsdNotes ==
  /\ \A n \in DOMAIN notes : \E m \in DOMAIN sent : sent[m] = notes[n]
  /\ ssdpc = "exit" /\ code = 0 /\ Startable /\ opts.notify => Ready \/ late

\* A daemon that runs when the processes are looked for is found; no other one is started then.
SsdStops ==
  opts.action = "stop" /\ ~opts.pidfile =>
    /\ ssdpc \in {"kill", "poll"} => \A p \in Pids : procs[p] = "daemon" => p \in found
    /\ ssdpc = "exit" /\ code = 0 /\ opts.retry # <<>> => \A p \in Pids : procs[p] # "daemon"

SsdInv == SsdTypeOK /\ SsdPlaces /\ SsdNotes /\ SsdStops

LEMMA SsdInvInit == SsdInit => SsdInv
BY DEF SsdInit, SsdInv, SsdTypeOK, SsdPlaces, SsdNotes, SsdStops, NoOptions, Forking, Stopping, Startable

\* The steps of --start.
LEMMA SsdStartStep ==
  ASSUME SsdInv,
         \/ do_start \/ daemonize \/ SecondParent \/ ChildExec \/ wait_for_child
         \/ \E p \in Pids : Foreground(p) \/ SecondFork(p)
  PROVE  SsdInv'
<1>. USE PidsAssumption DEF SsdInv, SsdTypeOK, SsdPlaces, SsdNotes, SsdStops, Forking, Stopping,
         Startable, Ready, Kinds, stopvars, forkvars, EXIT_NODO, EXIT_FAILURE, Exit
<1>1. CASE do_start
    BY <1>1 DEF do_start, Options
<1>2. CASE daemonize
    BY <1>2 DEF daemonize
<1>3. CASE SecondParent
    BY <1>3 DEF SecondParent
<1>4. CASE ChildExec
    <2>1. PICK k \in {"daemon", "none"} :
              /\ procs' = [procs EXCEPT ![child.pid] = k]
              /\ child' = [child EXCEPT !.up = (k = "daemon")]
        BY <1>4 DEF ChildExec
    <2>2. child' \in [pid : {NoPid} \cup Pids, up : BOOLEAN] /\ child'.pid = child.pid
        BY <2>1
    <2>3. procs' \in [Pids -> {"none"} \cup Kinds]
        BY <2>1
    <2>4. UNCHANGED <<pidfile, opts, ssdpc, code, found, pid, stopvars, second, notes, sent, late>>
        BY <1>4 DEF ChildExec
    <2>5. opts.action # "stop"
        BY <1>4 DEF ChildExec
    <2>. QED BY <2>2, <2>3, <2>4, <2>5
<1>5. CASE wait_for_child
    BY <1>5 DEF wait_for_child
<1>6. ASSUME NEW p \in Pids, Foreground(p) PROVE SsdInv'
    BY <1>6 DEF Foreground
<1>7. ASSUME NEW p \in Pids, SecondFork(p) PROVE SsdInv'
    <2>1. UNCHANGED <<pidfile, opts, ssdpc, code, found, pid, stopvars, notes, sent, late>>
        BY <1>7 DEF SecondFork
    <2>2. second = "setsid" /\ Startable /\ ssdpc \in Forking \cup {"exit"}
        BY <1>7 DEF SecondFork
    <2>3. CASE second' = "failed" /\ UNCHANGED <<child, procs>>
        BY <2>1, <2>2, <2>3
    <2>4. CASE /\ second' = "parent" /\ child' = [pid |-> p, up |-> FALSE]
               /\ procs' = [procs EXCEPT ![p] = "other"]
        <3>1. child' \in [pid : {NoPid} \cup Pids, up : BOOLEAN] /\ child'.pid = p
            BY <2>4
        <3>2. procs' \in [Pids -> {"none"} \cup Kinds]
            BY <2>4
        <3>. QED BY <2>1, <2>2, <2>4, <3>1, <3>2
    <2>. QED BY <1>7, <2>3, <2>4 DEF SecondFork
<1>. QED BY <1>1, <1>2, <1>3, <1>4, <1>5, <1>6, <1>7

\* The notifications.
LEMMA SsdNoteStep ==
  ASSUME SsdInv, SendNote \/ wait_for_notify PROVE SsdInv'
<1>. USE PidsAssumption DEF SsdInv, SsdTypeOK, SsdPlaces, SsdNotes, SsdStops, Forking, Stopping,
         Startable, Ready, stopvars, forkvars, EXIT_FAILURE, Exit
<1>1. CASE SendNote
    <2>1. PICK k \in NoteKinds : notes' = Append(notes, k) /\ sent' = Append(sent, k)
        BY <1>1 DEF SendNote, NoteKinds
    <2>2. notes' \in Seq(NoteKinds) /\ sent' \in Seq(NoteKinds)
        BY <2>1
    <2>3. \A n \in DOMAIN notes' : \E m \in DOMAIN sent' : sent'[m] = notes'[n]
        <3>1. sent'[Len(sent) + 1] = k /\ DOMAIN sent' = 1..(Len(sent) + 1)
              /\ DOMAIN notes' = 1..(Len(notes) + 1) /\ notes'[Len(notes) + 1] = k
            BY <2>1
        <3>2. \A n \in 1..Len(notes) : notes'[n] = notes[n] /\ n \in DOMAIN notes
            BY <2>1
        <3>3. \A m \in DOMAIN sent : sent'[m] = sent[m] /\ m \in DOMAIN sent'
            BY <2>1
        <3>4. \A n \in DOMAIN notes' : n = Len(notes) + 1 \/ n \in 1..Len(notes)
            BY <3>1
        <3>5. Len(sent) + 1 \in DOMAIN sent'
            BY <3>1
        <3>. QED BY <3>1, <3>2, <3>3, <3>4, <3>5
    <2>4. Ready => Ready'
        <3>1. \A m \in DOMAIN sent : sent'[m] = sent[m] /\ m \in DOMAIN sent'
            BY <2>1
        <3>. QED BY <3>1
    <2>5. UNCHANGED <<procs, pidfile, opts, ssdpc, code, found, pid, stopvars, forkvars, late>>
        BY <1>1 DEF SendNote
    <2>. QED BY <2>2, <2>3, <2>4, <2>5
<1>2. CASE wait_for_notify
    <2>1. UNCHANGED <<procs, pidfile, opts, found, pid, stopvars, forkvars, sent>>
        BY <1>2 DEF wait_for_notify
    <2>2. notes' \in Seq(NoteKinds) /\ (notes' = notes \/ notes' = <<>>)
        <3>1. notes' = notes \/ notes' = <<>>
            BY <1>2 DEF wait_for_notify
        <3>2. <<>> \in Seq(NoteKinds) /\ notes \in Seq(NoteKinds)
            OBVIOUS
        <3>3. CASE notes' = notes
            BY <3>2, <3>3, Zenon
        <3>4. CASE notes' = <<>>
            BY <3>2, <3>4, Zenon
        <3>. QED BY <3>1, <3>3, <3>4
    <2>3. ssdpc' \in {ssdpc, "exit"} /\ (ssdpc' # "exit" => code' = code)
        BY <1>2 DEF wait_for_notify, LoopEnds
    <2>4. ssdpc' = "exit" /\ code' = 0 => Ready \/ late'
        <3>1. CASE late /\ late' = late
            BY <3>1
        <3>. DEFINE ends == {n \in DOMAIN notes : notes[n] \in {"READY", "ERRNO"}}
                    first == CHOOSE n \in ends : \A m \in ends : n <= m
        <3>2. CASE notes # <<>> /\ ends # {} /\ Exit(IF notes[first] = "READY" THEN 0 ELSE EXIT_FAILURE)
            <4>1. PICK l \in ends : \A m \in ends : l <= m
                <5>1. ends \subseteq Nat
                    OBVIOUS
                <5>. QED BY <3>2, <5>1, SmallestOf
            <4>2. first \in ends
                BY <4>1
            <4>. QED BY <3>2, <4>2
        <3>. QED BY <1>2, <3>1, <3>2 DEF wait_for_notify, LoopEnds
    <2>5. ssdpc = "wait_for_notify" /\ Startable /\ second = "exited" /\ opts.action # "stop"
        BY <1>2 DEF wait_for_notify
    <2>6. SsdPlaces' /\ SsdTypeOK' /\ SsdStops'
        BY <2>1, <2>2, <2>3, <2>5
    <2>7. SsdNotes'
        BY <2>1, <2>2, <2>3, <2>4, <2>5
    <2>. QED BY <2>6, <2>7
<1>. QED BY <1>1, <1>2

\* The steps of --stop, the clock and the processes that end.
LEMMA SsdStopStep ==
  ASSUME SsdInv,
         \/ BeginStop \/ FindForStop \/ do_stop \/ BeginTimeout \/ do_stop_timeout
         \/ TimedOut \/ run_stop_schedule \/ Clock \/ \E p \in Pids : Die(p)
  PROVE  SsdInv'
<1>. USE PidsAssumption DEF SsdInv, SsdTypeOK, SsdPlaces, SsdNotes, SsdStops, Forking, Stopping,
         Startable, Ready, Kinds, stopvars, forkvars, EXIT_NODO, EXIT_FAILURE, Exit
<1>1. CASE BeginStop
    BY <1>1 DEF BeginStop
<1>2. CASE FindForStop
    BY <1>2 DEF FindForStop, do_findprocs, do_procinit, do_pidfile, pid_check, pid_is_exec, pid_is_user,
                pid_is_cmd, pid_is_running
<1>3. CASE do_stop
    BY <1>3 DEF do_stop, Killable, finish_stop_schedule
<1>4. CASE BeginTimeout
    BY <1>4 DEF BeginTimeout
<1>5. CASE do_stop_timeout
    BY <1>5 DEF do_stop_timeout, Killable, finish_stop_schedule
<1>6. CASE run_stop_schedule
    BY <1>6 DEF run_stop_schedule
<1>7. CASE Clock
    BY <1>7 DEF Clock
<1>8. ASSUME NEW p \in Pids, Die(p) PROVE SsdInv'
    BY <1>8 DEF Die
<1>9. CASE TimedOut
    BY <1>9 DEF TimedOut
<1>. QED BY <1>1, <1>2, <1>3, <1>4, <1>5, <1>6, <1>7, <1>8, <1>9

\* What start-stop-daemon reports as a success is one, for any schedule and criteria, however
\* the notifications, the clock and the processes interleave with it.
THEOREM SuccessIsAlwaysTrue == SsdSpec => []SuccessIsTrue
<1>1. ASSUME SsdInv, [SsdNext]_ssdvars PROVE SsdInv'
    <2>1. CASE UNCHANGED ssdvars
        BY <1>1, <2>1 DEF ssdvars, SsdInv, SsdTypeOK, SsdPlaces, SsdNotes, SsdStops, Startable, Ready
    <2>. QED BY <1>1, <2>1, SsdStartStep, SsdNoteStep, SsdStopStep DEF SsdNext, SsdSteps
<1>2. ASSUME SsdInv PROVE SuccessIsTrue
    BY <1>2, PidsAssumption DEF SsdInv, SsdTypeOK, SsdPlaces, SsdNotes, SsdStops, SuccessIsTrue, Startable
<1>. QED BY <1>1, <1>2, SsdInvInit, PTL DEF SsdSpec

-----------------------------------------------------------------------------
(* dpkg-split *)

\* The first bytes of an archive.
Prefix(a, m) == [i \in 1..m |-> <<a, i>>]

\* A file that mksplit() made, whole or cut short.
IsPart(p) ==
  /\ p.md5sum \in DOMAIN Archives /\ p.orglength = Archives[p.md5sum]
  /\ p.maxpartlen \in PartSizes
  /\ p.maxpartn = Pieces(p.md5sum, p.maxpartlen) /\ p.thispartn \in 1..p.maxpartn
  /\ p.whole => p.data = Part(p.md5sum, p.maxpartlen, p.thispartn).data

\* Where part k begins, or the end of the archive after the last one.
Offset(p, k) == IF k <= p.maxpartn THEN (k - 1) * p.maxpartlen ELSE p.orglength

\* The parts in the list are good and complete, and those before the next one are written.
Assembling ==
  /\ \A p \in list : IsPart(p) /\ read_info(p) /\ SameFile(p, part)
  /\ \A i \in 1..part.maxpartn : \E p \in list : p.thispartn = i
  /\ output.of = part.md5sum /\ output.next \in 1..(part.maxpartn + 1)
  /\ output = [of |-> output.of, data |-> Prefix(part.md5sum, Offset(part, output.next)),
               next |-> output.next, done |-> FALSE]

SplitInv ==
  /\ spc \in {"idle", "copy", "rename", "reassemble", "join", "delete"}
  /\ \A p \in parts : IsPart(p)
  /\ \A f \in depot : IsPart(f.part)
  /\ spc \in {"copy", "rename", "reassemble", "join"} => IsPart(part)
  /\ spc \in {"reassemble", "join"} => Assembling
  /\ JoinRestores

LEMMA Multiples ==
  ASSUME NEW j \in Nat, NEW k \in Nat, NEW m \in Nat, j <= k PROVE j * m <= k * m
BY SMT

\* The parts but the last one are inside of the archive.
LEMMA PartsFit ==
  ASSUME NEW N \in Nat, NEW L \in Nat \ {0}, NEW n \in Nat, n = (N + L - 1) \div L,
         NEW k \in 1..n
  PROVE  /\ (k - 1) * L \in Nat /\ (k - 1) * L <= N /\ k * L = (k - 1) * L + L
         /\ k < n => k * L <= N
<1>1. n * L <= N + L - 1
    BY SMT
<1>2. (n - 1) * L = n * L - L
    BY SMT
<1>3. (k - 1) * L \in Nat /\ k * L = (k - 1) * L + L
    BY SMT
<1>4. (k - 1) * L <= (n - 1) * L
    <2>1. k - 1 \in Nat /\ n - 1 \in Nat /\ k - 1 <= n - 1
        OBVIOUS
    <2>. QED BY <2>1, Multiples
<1>5. k < n => k * L <= (n - 1) * L
    <2>. HAVE k < n
    <2>1. k \in Nat /\ n - 1 \in Nat /\ k <= n - 1
        OBVIOUS
    <2>. QED BY <2>1, Multiples
<1>6. n * L \in Nat /\ k * L \in Nat
    BY SMT
<1>. QED BY <1>1, <1>2, <1>3, <1>4, <1>5, <1>6

\* Appending the bytes that follow makes a longer beginning.
LEMMA PrefixGrows ==
  ASSUME NEW a, NEW N \in Nat, NEW m \in Nat, NEW n \in Nat, m + n <= N
  PROVE  /\ Len(SubSeq(Prefix(a, N), m + 1, m + n)) = n
         /\ Prefix(a, m) \o SubSeq(Prefix(a, N), m + 1, m + n) = Prefix(a, m + n)
<1>. DEFINE piece == [i \in 1..n |-> <<a, m + i>>]
            S == {<<a, i>> : i \in Nat}
<1>1. Prefix(a, N) \in Seq(S) /\ Prefix(a, m) \in Seq(S) /\ Prefix(a, m + n) \in Seq(S) /\ piece \in Seq(S)
      /\ Len(Prefix(a, N)) = N /\ Len(Prefix(a, m)) = m /\ Len(Prefix(a, m + n)) = m + n
      /\ Len(piece) = n
    BY DEF Prefix
<1>2. SubSeq(Prefix(a, N), m + 1, m + n) = piece
    BY <1>1 DEF Prefix
<1>3. Prefix(a, m) \o piece = Prefix(a, m + n)
    BY <1>1 DEF Prefix
<1>. QED BY <1>1, <1>2, <1>3

\* The last part is what is left.
LEMMA LastFits ==
  ASSUME NEW N \in Nat, NEW L \in Nat \ {0}, NEW n \in Nat \ {0}, n = (N + L - 1) \div L
  PROVE  (IF N % L = 0 THEN L ELSE N % L) = N - (n - 1) * L
<1>. DEFINE q == N \div L
            r == N % L
<1>1. q \in Nat /\ r \in Nat /\ r < L /\ N = L * q + r
    BY SMT
<1>2. CASE r = 0
    <2>1. N + L - 1 = L * q + (L - 1)
        BY <1>1, <1>2
    <2>2. (N + L - 1) \div L = q
        BY <1>1, <2>1, SMT
    <2>3. (n - 1) * L = L * q - L
        BY <1>1, <2>2, SMT
    <2>. QED BY <1>1, <1>2, <2>3
<1>3. CASE r # 0
    <2>1. N + L - 1 = L * (q + 1) + (r - 1)
        BY <1>1, SMT
    <2>2. (N + L - 1) \div L = q + 1
        BY <1>1, <1>3, <2>1, SMT
    <2>3. (n - 1) * L = L * q
        BY <1>1, <2>2, SMT
    <2>. QED BY <1>1, <1>3, <2>3
<1>. QED BY <1>2, <1>3

LEMMA SplitInvInit == SplitInit => SplitInv
BY DEF SplitInit, SplitInv, JoinRestores, NoOutput

\* What mksplit() writes are parts.
LEMMA MadeIsPart ==
  ASSUME NEW a \in DOMAIN Archives, NEW s \in PartSizes, NEW n \in 1..Pieces(a, s)
  PROVE  /\ IsPart(Part(a, s, n))
         /\ \A whole \in BOOLEAN :
              IsPart([Part(a, s, n) EXCEPT !.whole = whole, !.data = IF whole THEN @ ELSE <<>>])
<1>1. /\ Part(a, s, n).md5sum = a /\ Part(a, s, n).orglength = Archives[a]
      /\ Part(a, s, n).maxpartlen = s /\ Part(a, s, n).maxpartn = Pieces(a, s)
      /\ Part(a, s, n).thispartn = n
    BY DEF Part
<1>2. IsPart(Part(a, s, n))
    BY <1>1 DEF IsPart
<1>3. ASSUME NEW whole \in BOOLEAN, NEW p,
             p = [Part(a, s, n) EXCEPT !.whole = whole, !.data = IF whole THEN @ ELSE <<>>]
      PROVE  IsPart(p)
    <2>1. /\ p.md5sum = a /\ p.orglength = Archives[a] /\ p.maxpartlen = s
          /\ p.maxpartn = Pieces(a, s) /\ p.thispartn = n /\ p.whole = whole
          /\ p.data = IF whole THEN Part(a, s, n).data ELSE <<>>
        BY <1>3 DEF Part
    <2>. QED BY <2>1 DEF IsPart
<1>. QED BY <1>2, <1>3

\* A part of the list is the bytes that follow those that are written.
LEMMA PartFollows ==
  ASSUME SplitAssumption, IsPart(part), Assembling, NEW p \in list, NEW k \in 1..part.maxpartn, p.thispartn = k
  PROVE  Prefix(part.md5sum, Offset(part, k)) \o p.data = Prefix(part.md5sum, Offset(part, k + 1))
<1>. DEFINE a == part.md5sum
            N == Archives[a]
            L == part.maxpartlen
            n == part.maxpartn
            m == (k - 1) * L
            size == IF k = n THEN N - m ELSE L
<1>1. /\ IsPart(p) /\ read_info(p) /\ p.md5sum = a /\ p.orglength = N /\ p.maxpartlen = L /\ p.maxpartn = n
    BY DEF Assembling, SameFile, IsPart
<1>2. N \in Nat /\ L \in Nat \ {0} /\ n = (N + L - 1) \div L /\ part.orglength = N
    BY DEF IsPart, Pieces, SplitAssumption
<1>3. n \in Nat \ {0}
    <2>1. (N + L - 1) \div L \in Int
        BY <1>2, SMT
    <2>2. n \in Int /\ k \in Int /\ 1 <= k /\ k <= n
        BY <1>2, <2>1
    <2>. QED BY <2>2
<1>4. /\ m \in Nat /\ m <= N /\ k * L = m + L
      /\ k < n => k * L <= N
    <2>1. k \in 1..n
        OBVIOUS
    <2>. HIDE DEF N, L, n
    <2>. QED BY <1>2, <1>3, <2>1, PartsFit
<1>5. p.data = SubSeq(Bytes(a), m + 1, m + (IF k = n THEN last_partsize(a, L) ELSE L))
    <2>1. p.whole /\ p.data = Part(a, L, k).data
        BY <1>1 DEF IsPart, read_info
    <2>2. Pieces(a, L) = n
        BY <1>2 DEF Pieces
    <2>. QED BY <2>1, <2>2 DEF Part
<1>6. k = n => last_partsize(a, L) = N - m
    <2>. HIDE DEF N, L, n
    <2>1. (IF N % L = 0 THEN L ELSE N % L) = N - (n - 1) * L
        BY <1>2, <1>3, LastFits
    <2>. QED BY <2>1 DEF last_partsize, N, L
<1>7. size \in Nat /\ m + size <= N
    <2>1. k \in Nat /\ k <= n
        BY <1>3
    <2>. HIDE DEF N, L, n, m
    <2>2. CASE k = n
        BY <1>2, <1>4, <2>2
    <2>3. CASE k # n
        <3>1. k < n
            BY <1>3, <2>1, <2>3
        <3>. QED BY <1>2, <1>4, <2>3, <3>1
    <2>. QED BY <2>2, <2>3
<1>8. p.data = SubSeq(Prefix(a, N), m + 1, m + size)
    BY <1>5, <1>6 DEF Bytes, Prefix
<1>9. Offset(part, k) = m /\ Offset(part, k + 1) = m + size
    <2>1. k <= n /\ (k + 1 <= n <=> k # n) /\ (k + 1) - 1 = k
        BY <1>3
    <2>. HIDE DEF N, n
    <2>. QED BY <1>2, <1>4, <2>1 DEF Offset, n
<1>10. Prefix(a, m) \o SubSeq(Prefix(a, N), m + 1, m + size) = Prefix(a, m + size)
    <2>1. m \in Nat /\ N \in Nat /\ size \in Nat /\ m + size <= N
        BY <1>2, <1>4, <1>7
    <2>. HIDE DEF N, L, n, m, size, a
    <2>. QED BY <2>1, PrefixGrows, Zenon
<1>. QED BY <1>8, <1>9, <1>10

\* When the list is complete nothing is written yet.
LEMMA BeginsEmpty ==
  ASSUME SplitAssumption, NEW refi, IsPart(refi)
  PROVE  /\ Created(refi) = [of |-> refi.md5sum, data |-> Prefix(refi.md5sum, Offset(refi, 1)),
                             next |-> 1, done |-> FALSE]
         /\ 1 \in 1..(refi.maxpartn + 1)
<1>1. refi.maxpartn \in Int /\ refi.maxpartn >= 1 /\ refi.maxpartlen \in Nat
    <2>1. Archives[refi.md5sum] \in Nat /\ refi.maxpartlen \in Nat \ {0}
        BY DEF IsPart, SplitAssumption
    <2>2. (Archives[refi.md5sum] + refi.maxpartlen - 1) \div refi.maxpartlen \in Int
        BY <2>1, SMT
    <2>. QED BY <2>1, <2>2 DEF IsPart, Pieces
<1>2. Offset(refi, 1) = 0
    BY <1>1 DEF Offset
<1>3. Prefix(refi.md5sum, 0) = <<>>
    BY DEF Prefix
<1>4. Prefix(refi.md5sum, Offset(refi, 1)) = <<>>
    BY <1>2, <1>3
<1>5. 1 \in 1..(refi.maxpartn + 1)
    BY <1>1
<1>. QED BY <1>4, <1>5 DEF Created

\* The whole beginning is the archive.
LEMMA PrefixIsAll ==
  ASSUME SplitAssumption, IsPart(part)
  PROVE  Prefix(part.md5sum, Offset(part, part.maxpartn + 1)) = Bytes(part.md5sum)
<1>1. part.maxpartn \in Int
    <2>1. Archives[part.md5sum] \in Nat /\ part.maxpartlen \in Nat \ {0}
        BY DEF IsPart, SplitAssumption
    <2>. QED BY <2>1, SMT DEF IsPart, Pieces
<1>2. Offset(part, part.maxpartn + 1) = Archives[part.md5sum]
    BY <1>1 DEF Offset, IsPart
<1>. QED BY <1>2 DEF Prefix, Bytes

LEMMA SplitInvStep == SplitInv /\ [SplitNext]_splitvars => SplitInv'
<1>. SUFFICES ASSUME SplitInv, [SplitNext]_splitvars PROVE SplitInv'
    OBVIOUS
<1>. USE SplitAssumption
<1>1. CASE mksplit
    <2>1. \A p \in parts' : IsPart(p)
        <3>1. PICK a \in DOMAIN Archives, s \in PartSizes : \E n \in 1..Pieces(a, s) : \E whole \in BOOLEAN :
                 parts' = parts \cup {Part(a, s, i) : i \in 1..n - 1}
                   \cup {[Part(a, s, n) EXCEPT !.whole = whole, !.data = IF whole THEN @ ELSE <<>>]}
            BY <1>1 DEF mksplit
        <3>2. PICK n \in 1..Pieces(a, s), whole \in BOOLEAN :
                 parts' = parts \cup {Part(a, s, i) : i \in 1..n - 1}
                   \cup {[Part(a, s, n) EXCEPT !.whole = whole, !.data = IF whole THEN @ ELSE <<>>]}
            BY <3>1
        <3>3. Pieces(a, s) \in Int
            <4>1. Archives[a] \in Nat /\ s \in Nat \ {0}
                BY DEF SplitAssumption
            <4>. QED BY <4>1, SMT DEF Pieces
        <3>4. \A i \in 1..n - 1 : i \in 1..Pieces(a, s)
            BY <3>3
        <3>5. \A i \in 1..n - 1 : IsPart(Part(a, s, i))
            BY <3>4, MadeIsPart
        <3>6. IsPart([Part(a, s, n) EXCEPT !.whole = whole, !.data = IF whole THEN @ ELSE <<>>])
            BY MadeIsPart
        <3>. QED BY <3>2, <3>5, <3>6 DEF SplitInv
    <2>. QED BY <1>1, <2>1 DEF SplitInv, mksplit, JoinRestores
<1>2. CASE do_auto
    <2>1. PICK p \in parts :
            LET have == {f.part : f \in {g \in scandepot : partmatches(g, p)}}
                others == {q \in have : q.thispartn # p.thispartn}
            IN  /\ read_info(p) /\ addtopartlist(have, p)
                /\ part' = p /\ list' = others \cup {p}
                /\ IF {q.thispartn : q \in list'} = 1..p.maxpartn
                   THEN spc' = "reassemble" /\ output' = Created(p)
                   ELSE spc' = "copy" /\ output' = output
        BY <1>2 DEF do_auto
    <2>2. UNCHANGED <<parts, depot>>
        BY <1>2 DEF do_auto
    <2>3. IsPart(p) /\ IsPart(part')
        BY <2>1 DEF SplitInv
    <2>4. CASE spc' = "copy" /\ output' = output
        BY <2>2, <2>3, <2>4 DEF SplitInv, JoinRestores
    <2>5. CASE {q.thispartn : q \in list'} = 1..p.maxpartn /\ spc' = "reassemble" /\ output' = Created(p)
        <3>1. \A q \in list' : IsPart(q) /\ read_info(q) /\ SameFile(q, part')
            BY <2>1, <2>3 DEF addtopartlist, SameFile, SplitInv, scandepot
        <3>2. \A k \in 1..part'.maxpartn : \E q \in list' : q.thispartn = k
            BY <2>1, <2>5
        <3>3. Assembling'
            BY <2>1, <2>3, <2>5, <3>1, <3>2, BeginsEmpty DEF Assembling
        <3>4. JoinRestores'
            BY <2>5 DEF JoinRestores, Created
        <3>. QED BY <2>2, <2>3, <2>5, <3>3, <3>4 DEF SplitInv
    <2>. QED BY <2>1, <2>4, <2>5
<1>3. CASE do_join
    <2>1. PICK ps \in SUBSET parts, refi \in parts :
            /\ refi \in ps
            /\ addtopartlist(ps, refi) /\ {p.thispartn : p \in ps} = 1..refi.maxpartn
            /\ part' = refi /\ list' = ps /\ output' = Created(refi)
        BY <1>3 DEF do_join
    <2>2. UNCHANGED <<parts, depot>> /\ spc' = "join"
        BY <1>3 DEF do_join
    <2>3. IsPart(refi) /\ IsPart(part')
        BY <2>1 DEF SplitInv
    <2>4. \A q \in list' : IsPart(q) /\ read_info(q) /\ SameFile(q, part')
        BY <2>1 DEF addtopartlist, SplitInv
    <2>5. \A k \in 1..part'.maxpartn : \E q \in list' : q.thispartn = k
        BY <2>1
    <2>6. Assembling'
        BY <2>1, <2>3, <2>4, <2>5, BeginsEmpty DEF Assembling
    <2>7. JoinRestores'
        BY <2>1 DEF JoinRestores, Created
    <2>. QED BY <2>2, <2>3, <2>6, <2>7 DEF SplitInv
<1>4. CASE reassemble
    <2>. DEFINE p == CHOOSE q \in list : q.thispartn = output.next
    <2>1. spc \in {"reassemble", "join"} /\ IsPart(part) /\ Assembling /\ UNCHANGED <<parts, depot, part, list>>
        BY <1>4 DEF reassemble, SplitInv
    <2>2. part.maxpartn \in Int /\ part.maxpartn >= 1
        <3>1. Archives[part.md5sum] \in Nat /\ part.maxpartlen \in Nat \ {0}
            BY <2>1 DEF IsPart, SplitAssumption
        <3>2. (Archives[part.md5sum] + part.maxpartlen - 1) \div part.maxpartlen \in Int
            BY <3>1, SMT
        <3>. QED BY <2>1, <3>2 DEF IsPart, Pieces
    <2>3. output.next \in Int /\ output.next >= 1 /\ output.next <= part.maxpartn + 1
        BY <2>1, <2>2 DEF Assembling
    <2>4. CASE output.next <= part.maxpartn
        <3>1. output' = [output EXCEPT !.data = @ \o p.data, !.next = @ + 1] /\ spc' = spc
            BY <1>4, <2>4 DEF reassemble
        <3>2. output.next \in 1..part.maxpartn
            BY <2>2, <2>3, <2>4
        <3>3. p \in list /\ p.thispartn = output.next
            BY <2>1, <3>2 DEF Assembling
        <3>4. output.data \o p.data = Prefix(part.md5sum, Offset(part, output.next + 1))
            <4>1. output.data = Prefix(part.md5sum, Offset(part, output.next))
                BY <2>1 DEF Assembling
            <4>. HIDE DEF p
            <4>. QED BY <2>1, <3>2, <3>3, <4>1, PartFollows
        <3>5. output' = [of |-> output.of, data |-> Prefix(part.md5sum, Offset(part, output.next + 1)),
                         next |-> output.next + 1, done |-> FALSE]
            <4>. DEFINE o == output.of
                        k == output.next
                        d == Prefix(part.md5sum, Offset(part, output.next))
            <4>1. output = [of |-> o, data |-> d, next |-> k, done |-> FALSE]
                BY <2>1 DEF Assembling
            <4>2. output.data = d
                BY <4>1
            <4>. HIDE DEF p, o, k, d
            <4>3. output' = [of |-> o, data |-> d \o p.data, next |-> k + 1, done |-> FALSE]
                BY <3>1, <4>1
            <4>. QED BY <3>4, <4>2, <4>3 DEF o, k
        <3>6. output'.next \in 1..(part.maxpartn + 1) /\ output'.of = part.md5sum /\ output'.done = FALSE
              /\ output'.next = output.next + 1
            BY <2>1, <2>2, <3>2, <3>5 DEF Assembling
        <3>7. Assembling'
            <4>1. Offset(part', output'.next) = Offset(part, output.next + 1) /\ part'.md5sum = part.md5sum
                BY <2>1, <3>6
            <4>2. output' = [of |-> output'.of, data |-> Prefix(part'.md5sum, Offset(part', output'.next)),
                             next |-> output'.next, done |-> FALSE]
                BY <2>1, <3>5, <3>6, <4>1 DEF Assembling
            <4>. QED BY <2>1, <3>6, <4>2 DEF Assembling
        <3>. QED BY <2>1, <3>1, <3>6, <3>7 DEF SplitInv, JoinRestores
    <2>5. CASE ~(output.next <= part.maxpartn)
        <3>1. output' = [output EXCEPT !.done = TRUE] /\ spc' \in {"idle", "delete"}
            BY <1>4, <2>5 DEF reassemble
        <3>2. output.next = part.maxpartn + 1
            BY <2>2, <2>3, <2>5
        <3>3. output.data = Bytes(output.of)
            <4>1. output.data = Prefix(part.md5sum, Offset(part, output.next)) /\ output.of = part.md5sum
                BY <2>1 DEF Assembling
            <4>. QED BY <2>1, <3>2, <4>1, PrefixIsAll
        <3>4. output'.data = output.data /\ output'.of = output.of
            BY <2>1, <3>1 DEF Assembling
        <3>. QED BY <2>1, <3>1, <3>3, <3>4 DEF SplitInv, JoinRestores
    <2>. QED BY <2>4, <2>5
<1>5. CASE CopyPart \/ RenamePart
    BY <1>5 DEF SplitInv, CopyPart, RenamePart, JoinRestores
<1>6. CASE DeleteUsed \/ do_discard
    BY <1>6 DEF SplitInv, DeleteUsed, do_discard, JoinRestores, UsedUp, scandepot
<1>7. CASE SplitDies
    BY <1>7 DEF SplitInv, SplitDies, JoinRestores
<1>8. CASE UNCHANGED splitvars
    BY <1>8 DEF SplitInv, splitvars, JoinRestores, Assembling
<1>. QED BY <1>1, <1>2, <1>3, <1>4, <1>5, <1>6, <1>7, <1>8 DEF SplitNext

\* Whatever parts there are, of whatever sizes, in whatever order and how often they come, and
\* wherever dpkg-split was killed: a file that was put together is the archive that was split.
THEOREM JoinAlwaysRestores == SplitSpec => []JoinRestores
<1>1. SplitInv => JoinRestores
    BY DEF SplitInv
<1>. QED BY <1>1, SplitInvInit, SplitInvStep, PTL DEF SplitSpec
=============================================================================
