------------------------------- MODULE Divert -------------------------------
(***************************************************************************)
(* dpkg-divert (src/divert/main.c): a diversion is three lines of the      *)
(* diversions file, and --rename moves the diverted file.  Adding writes   *)
(* the file first and moves then, removing moves first; it may be killed   *)
(* between any two steps and run again.  The database is read when a run   *)
(* starts and written as a whole when it ends (atomic-file.c).             *)
(***************************************************************************)
EXTENDS Naturals, FiniteSets

CONSTANTS Paths,      \* file names
          Owners,     \* packages that divert; "local" is a local diversion
          MaxRuns     \* bound: how often the program is run

VARIABLES diversions,  \* the diversions file: who diverts what to where
          place,       \* the file at each path, "nofile" without one
          owned,       \* which paths the diverting packages own themselves
          shared,      \* which paths another instance of the package has
          run,         \* the command that is running
          dpc, runs

divertvars == <<diversions, place, owned, shared, run, dpc, runs>>

Copies == {"nofile", "one", "two"}
Exists(p) == place[p] # "nofile"

Commands == [do : {"add", "remove"}, from : Paths, to : Paths, by : Owners,
             any : BOOLEAN, rename : BOOLEAN, test : BOOLEAN]

\* The entry of a name, on either side of a diversion.
Contest(p) == {d \in diversions : d.from = p}
AltName(p) == {d \in diversions : d.to = p}
Diverted(p) == Contest(p) \cup AltName(p)

\* Between two runs there is no command.
NoRun == [do |-> "none", from |-> "", to |-> "", by |-> "local", any |-> FALSE, rename |-> FALSE, test |-> FALSE]
Done == dpc' = "idle" /\ run' = NoRun
Quit == Done /\ UNCHANGED <<diversions, place, owned, shared, runs>>
Go(pc) == IF pc = "idle" THEN Done ELSE dpc' = pc /\ UNCHANGED run

\* check_rename(): a different file at the destination stops everything.
RenameIsBad_fault(src, dst) == FALSE
RenameIsBad(src, dst) == Exists(src) /\ Exists(dst) /\ place[src] # place[dst]

Start ==
  /\ dpc = "idle" /\ runs < MaxRuns
  /\ \E c \in Commands : (c.do = "add" => c.from # c.to) /\ run' = c /\ dpc' = c.do
  /\ runs' = runs + 1 /\ UNCHANGED <<diversions, place, owned, shared>>

\* diversion_add(): an existing diversion is left alone, a clash is an error, and a
\* file of the diverting package itself is not moved.
diversion_is_owned_by_self == <<run.by, run.from>> \in owned
new == [from |-> run.from, to |-> run.to, by |-> run.by]
ToMove(src) == run.rename /\ Exists(src)

\* An entry of either name, which makes a new one a clash.
Clashes_fault == Contest(run.from)
Clashes == Diverted(run.from) \cup Diverted(run.to)

diversion_add ==
  /\ dpc = "add"
  /\ \/ new \in diversions /\ Quit
     \/ new \notin diversions /\ Clashes # {} /\ Quit
     \/ /\ Clashes = {}
        /\ IF (run.rename /\ RenameIsBad(run.from, run.to)) \/ run.test THEN Quit
           ELSE /\ dpc' = "write" /\ run' = [run EXCEPT !.rename = ToMove(run.from) /\ ~diversion_is_owned_by_self]
                /\ UNCHANGED <<diversions, place, owned, shared, runs>>

\* diversion_remove(): the package and the destination must match when they are given (no
\* destination is the name itself).  It is left alone while an instance of the same package for
\* another architecture still has the file.
diversion_is_shared == run.by # "local" /\ <<run.by, run.from>> \in shared
Found == CHOOSE d \in Contest(run.from) : TRUE
diversion_remove ==
  /\ dpc = "remove"
  /\ IF \/ Contest(run.from) = {}
        \/ run.to \notin {run.from, Found.to}
        \/ ~run.any /\ run.by # Found.by
        \/ diversion_is_shared
        \/ run.rename /\ RenameIsBad(Found.to, Found.from)
        \/ run.test
     THEN Quit
     ELSE /\ run' = [run EXCEPT !.to = Found.to, !.by = Found.by, !.rename = ToMove(Found.to)]
          /\ dpc' = (IF run'.rename THEN "rename" ELSE "write")
          /\ UNCHANGED <<diversions, place, owned, shared, runs>>

\* divertdb_write(): the new file replaces the old one.
divertdb_write ==
  /\ dpc = "write"
  /\ diversions' = IF run.do = "add" THEN diversions \cup {new} ELSE diversions \ {new}
  /\ Go(IF run.do = "add" /\ run.rename THEN "rename" ELSE "idle")
  /\ UNCHANGED <<place, owned, shared, runs>>

src == IF run.do = "add" THEN run.from ELSE run.to
dst == IF run.do = "add" THEN run.to ELSE run.from
AfterRename == IF run.do = "add" THEN "idle" ELSE "write"

\* file_rename() and file_copy(): a link to the same file is just removed; across file
\* systems the file is copied, and then the original is removed.
file_rename ==
  /\ dpc = "rename"
  /\ \/ Exists(dst) /\ place' = [place EXCEPT ![src] = "nofile"] /\ Go(AfterRename)
     \/ ~Exists(dst) /\ place' = [place EXCEPT ![dst] = place[src], ![src] = "nofile"] /\ Go(AfterRename)
     \/ ~Exists(dst) /\ place' = [place EXCEPT ![dst] = place[src]] /\ Go("unlink")
  /\ UNCHANGED <<diversions, owned, shared, runs>>
file_copy_done ==
  /\ dpc = "unlink" /\ place' = [place EXCEPT ![src] = "nofile"] /\ Go(AfterRename)
  /\ UNCHANGED <<diversions, owned, shared, runs>>

\* It is killed, or a system call fails.
DivertStops == dpc # "idle" /\ Quit

DivertInit ==
  /\ diversions = {} /\ dpc = "idle" /\ runs = 0
  /\ place \in [Paths -> Copies]
  /\ owned \in SUBSET ((Owners \ {"local"}) \X Paths) /\ Cardinality(owned) <= 1
  /\ shared \in SUBSET owned
  /\ run = NoRun

DivertNext == \/ Start \/ diversion_add \/ diversion_remove \/ divertdb_write
              \/ file_rename \/ file_copy_done \/ DivertStops
DivertSpec == DivertInit /\ [][DivertNext]_divertvars

\* Whatever is added, removed or interrupted, and wherever between the writing of the
\* diversions and the renaming: no step takes away the last copy of a file (check_rename(),
\* file_rename(), file_copy()).
FilesSurviveStep ==
  \A p \in Paths : Exists(p) => \E q \in Paths : place'[q] = place[p]
FilesSurvive == [][FilesSurviveStep]_divertvars

\* The diversions can be read again: no name is in two of them, which ensure_diversions()
\* refuses as "conflicting diversions" (diversion_add(), divertdb_write()).
NamesAreDivertedOnce ==
  \A p \in Paths : Cardinality(Diverted(p)) <= 1

\* What dpkg-divert is for: the diversions can be read again after every step, and none
\* loses a file (diversion_add(), diversion_remove()).
DiversionsAreSafe == [][FilesSurviveStep /\ NamesAreDivertedOnce']_divertvars
=============================================================================
