----------------------------- MODULE SplitQueue -----------------------------
(***************************************************************************)
(* dpkg-split (src/split/): an archive is split into parts, and the parts, *)
(* arriving in any order and more than once, wait in the depot until       *)
(* --auto has all of them and puts the archive together; --join does it    *)
(* from the parts it is given.  The program may be killed at any step.     *)
(* The data of an archive are its bytes, each one told from the others.    *)
(***************************************************************************)
EXTENDS Naturals, Sequences

CONSTANTS Archives,      \* the archives: the length of each
          PartSizes,     \* bytes of data that fit in a part
          MaxSplitRuns   \* bound: how often the program is run

VARIABLES parts,     \* the part files that were made
          depot,     \* the files in the depot
          output,    \* the file that is put together, from which archive, the next part
          part, list, \* the part given to --auto, and the parts collected
          spc, splits

splitvars == <<parts, depot, output, part, list, spc, splits>>

Bytes(a) == [i \in 1..Archives[a] |-> <<a, i>>]
NoOutput == [of |-> "none", data |-> <<>>, next |-> 0, done |-> FALSE]

ASSUME SplitAssumption ==
  /\ Archives \in [DOMAIN Archives -> Nat]
  /\ PartSizes \subseteq Nat \ {0}

-----------------------------------------------------------------------------
(* mksplit(): all parts are as long as the first but the last one.         *)

Pieces(a, partsize) == (Archives[a] + partsize - 1) \div partsize
last_partsize(a, partsize) ==
  IF Archives[a] % partsize = 0 THEN partsize ELSE Archives[a] % partsize
Part(a, partsize, n) ==
  LET nparts == Pieces(a, partsize)
      size == IF n = nparts THEN last_partsize(a, partsize) ELSE partsize
      from == (n - 1) * partsize
  IN  [md5sum |-> a, orglength |-> Archives[a], maxpartlen |-> partsize, thispartn |-> n,
       maxpartn |-> nparts, data |-> SubSeq(Bytes(a), from + 1, from + size), whole |-> TRUE]

\* read_info(): the numbers of a part must agree with each other and with its length.
read_info_fault(p) == p.maxpartn = (p.orglength + p.maxpartlen - 1) \div p.maxpartlen
read_info(p) ==
  /\ p.whole
  /\ p.maxpartn = (p.orglength + p.maxpartlen - 1) \div p.maxpartlen
  /\ Len(p.data) = IF p.thispartn = p.maxpartn THEN p.orglength - (p.thispartn - 1) * p.maxpartlen
                   ELSE p.maxpartlen

mksplit ==
  /\ spc = "idle" /\ splits < MaxSplitRuns /\ splits' = splits + 1
  /\ \E a \in DOMAIN Archives, s \in PartSizes : \E n \in 1..Pieces(a, s) :
       \* n is the part that is written last; it may be killed while it writes
          \E whole \in BOOLEAN :
            parts' = parts \cup {Part(a, s, i) : i \in 1..n - 1}
                           \cup {[Part(a, s, n) EXCEPT !.whole = whole, !.data = IF whole THEN @ ELSE <<>>]}
  /\ UNCHANGED <<depot, output, part, list, spc>>

-----------------------------------------------------------------------------
(* The depot: the name of a file says which part it is; "t.<pid>" is junk. *)

Name(p) == <<p.md5sum, p.maxpartlen, p.thispartn, p.maxpartn>>
scandepot == {f \in depot : f.name # <<"t">>}
partmatches(f, refi) == f.name[1] = refi.md5sum /\ f.name[4] = refi.maxpartn /\ f.name[2] = refi.maxpartlen

\* addtopartlist(): parts of one file, each of them once.
SameFile(p, refi) ==
  /\ p.md5sum = refi.md5sum /\ p.orglength = refi.orglength
  /\ p.maxpartn = refi.maxpartn /\ p.maxpartlen = refi.maxpartlen
addtopartlist(ps, refi) ==
  /\ \A p \in ps : read_info(p) /\ SameFile(p, refi)
  /\ \A p, q \in ps : p.thispartn = q.thispartn => p = q

\* creat() of the output file.
Created(refi) == [of |-> refi.md5sum, data |-> <<>>, next |-> 1, done |-> FALSE]

\* do_auto() with a part: it takes the place of its copy in the depot.
do_auto ==
  /\ spc = "idle" /\ splits < MaxSplitRuns /\ splits' = splits + 1
  /\ \E p \in parts :
       LET found == {f.part : f \in {g \in scandepot : partmatches(g, p)}}
           others == {q \in found : q.thispartn # p.thispartn}
       IN  /\ read_info(p) /\ addtopartlist(found, p)
           /\ part' = p /\ list' = others \cup {p}
           /\ IF {q.thispartn : q \in list'} = 1..p.maxpartn
              THEN spc' = "reassemble" /\ output' = Created(p)
              ELSE spc' = "copy" /\ output' = output
  /\ UNCHANGED <<parts, depot>>

\* The part is copied to a temporary name, synced, and renamed.
CopyPart ==
  /\ spc = "copy" /\ spc' = "rename"
  /\ depot' = depot \cup {[name |-> <<"t">>, part |-> part]}
  /\ UNCHANGED <<parts, output, part, list, splits>>
RenamePart ==
  /\ spc = "rename" /\ spc' = "idle"
  /\ depot' = {f \in depot : f.name \notin {<<"t">>, Name(part)}} \cup {[name |-> Name(part), part |-> part]}
  /\ UNCHANGED <<parts, output, part, list, splits>>

\* do_join() with the parts it is given; the first one is the reference.
do_join ==
  /\ spc = "idle" /\ splits < MaxSplitRuns /\ splits' = splits + 1
  /\ \E ps \in SUBSET parts : \E refi \in ps :
       /\ \A p \in ps : refi.thispartn <= p.thispartn
       /\ addtopartlist(ps, refi) /\ {p.thispartn : p \in ps} = 1..refi.maxpartn
       /\ part' = refi /\ list' = ps /\ output' = Created(refi)
  /\ spc' = "join" /\ UNCHANGED <<parts, depot>>

\* reassemble(): the data of the parts are appended in their order, one part after the other.
reassemble ==
  /\ spc \in {"reassemble", "join"}
  /\ LET nth(i) == CHOOSE p \in list : p.thispartn = i
     IN  IF output.next <= part.maxpartn
         THEN /\ output' = [output EXCEPT !.data = @ \o nth(output.next).data, !.next = @ + 1]
              /\ spc' = spc
         ELSE /\ output' = [output EXCEPT !.done = TRUE]
              /\ spc' = IF spc = "join" THEN "idle" ELSE "delete"
  /\ UNCHANGED <<parts, depot, part, list, splits>>

\* --auto deletes the files of the depot that were used up, one by one.
UsedUp == {f \in scandepot : partmatches(f, part)}
DeleteUsed ==
  /\ spc = "delete"
  /\ IF UsedUp = {} THEN spc' = "idle" /\ UNCHANGED depot
     ELSE UNCHANGED spc /\ \E f \in UsedUp : depot' = depot \ {f}
  /\ UNCHANGED <<parts, output, part, list, splits>>

do_discard ==
  /\ spc = "idle" /\ splits < MaxSplitRuns /\ splits' = splits + 1
  /\ \/ depot' = {}
     \/ \E a \in DOMAIN Archives : depot' = {f \in scandepot : f.part.md5sum # a}
  /\ UNCHANGED <<parts, output, part, list, spc>>

SplitDies ==
  /\ spc # "idle" /\ spc' = "idle"
  /\ UNCHANGED <<parts, depot, output, part, list, splits>>

SplitInit == /\ parts = {} /\ depot = {} /\ output = NoOutput /\ part = NoOutput /\ list = {}
             /\ spc = "idle" /\ splits = 0
SplitNext == \/ mksplit \/ do_auto \/ CopyPart \/ RenamePart \/ do_join \/ reassemble \/ DeleteUsed
             \/ do_discard \/ SplitDies
SplitSpec == SplitInit /\ [][SplitNext]_splitvars

\* Whatever parts there are, in whatever order and how often they come, and wherever the
\* program was killed: a file that was put together is the archive that was split.
JoinRestores == output.done => output.data = Bytes(output.of)
=============================================================================
