---------------------------- MODULE TrigDeferred ----------------------------
(***************************************************************************)
(* The trigger files under triggers/ (lib/dpkg/trigdeferred.c, triglib.c): *)
(* Unincorp, to which dpkg-trigger (src/trigger/main.c) adds activations   *)
(* and which dpkg empties when it incorporates them, both under the lock   *)
(* of the directory; and the interests of the packages, one file for each  *)
(* explicit trigger and the file File for all file triggers.  Every        *)
(* program may be killed at every step.  What dpkg does with an activation *)
(* that it has read is in Triggers.                                        *)
(***************************************************************************)
EXTENDS Naturals, FiniteSets

CONSTANTS Callers,      \* dpkg-trigger processes that may run at a time
          Awaiters,     \* who may wait; "-" is nobody
          TrigNames,    \* the triggers
          FileTrigs,    \* those that are paths
          TrigPkgs,     \* packages with interests
          MaxTrigs      \* bound: runs of dpkg-trigger and dpkg

\* The lock is held by one of them, by "dpkg" or by "nobody".
ASSUME CallersAssumption == Callers \cap {"dpkg", "nobody"} = {}

VARIABLES unincorp,   \* the lines of Unincorp
          exists,     \* Unincorp is there
          newfile,    \* Unincorp.new: a file that whoever has the lock writes
          locked,     \* who has the lock
          caller,     \* the dpkg-trigger processes
          accepted,   \* activations for which dpkg-trigger ended well
          taken,      \* those that dpkg has noted in its database since
          recorded,   \* the interests in the files
          inmemory,   \* File as dpkg has it, and whether it was edited
          edited,
          ci,         \* the triggers file of each package in info/
          unpacked,   \* packages whose unpacking was not cut short
          dpkg, upgrade, trigs

trigdefvars == <<unincorp, exists, newfile, locked, caller, accepted, taken, recorded, inmemory,
                 edited, ci, unpacked, dpkg, upgrade, trigs>>

Files == <<unincorp, exists, newfile, locked, caller, accepted>>
Interests == <<recorded, inmemory, edited, ci, unpacked, upgrade>>
Line == TrigNames \X Awaiters
Idle == [pc |-> "idle", line |-> <<>>]
NoUpgrade == [pkg |-> "none", ci |-> {}, del |-> {}, add |-> {}]

\* file_lock() waits.
LockFree_fault == TRUE
LockFree == locked = "nobody"

-----------------------------------------------------------------------------
(* dpkg-trigger: do_trigger().                                             *)

do_trigger(c) ==
  /\ caller[c].pc = "idle" /\ trigs < MaxTrigs /\ trigs' = trigs + 1
  /\ \E l \in Line : caller' = [caller EXCEPT ![c] = [pc |-> "lock", line |-> l]]
  /\ UNCHANGED <<unincorp, exists, newfile, locked, accepted, taken, dpkg>> /\ UNCHANGED Interests

\* trigdef_update_start(): without an Unincorp nothing is written.
trigdef_update_start(c) ==
  /\ caller[c].pc = "lock" /\ LockFree
  /\ IF exists
     THEN /\ locked' = c /\ newfile' = {}
          /\ caller' = [caller EXCEPT ![c].pc = "write"]
     ELSE caller' = [caller EXCEPT ![c] = Idle] /\ UNCHANGED <<locked, newfile>>
  /\ UNCHANGED <<unincorp, exists, accepted, taken, dpkg, trigs>> /\ UNCHANGED Interests

\* trigdef_parse() with tdm_add: the old lines and the new one.
tdm_add(c) ==
  /\ caller[c].pc = "write" /\ caller' = [caller EXCEPT ![c].pc = "rename"]
  /\ newfile' = unincorp \cup {caller[c].line}
  /\ UNCHANGED <<unincorp, exists, locked, accepted, taken, dpkg, trigs>> /\ UNCHANGED Interests
trigdef_process_done(c) ==
  /\ caller[c].pc = "rename" /\ caller' = [caller EXCEPT ![c] = Idle]
  /\ unincorp' = newfile /\ newfile' = {} /\ locked' = "nobody"
  /\ accepted' = accepted \cup {caller[c].line} /\ taken' = taken \ {caller[c].line}
  /\ UNCHANGED <<exists, dpkg, trigs>> /\ UNCHANGED Interests

CallerKilled(c) ==
  /\ caller[c].pc # "idle" /\ caller' = [caller EXCEPT ![c] = Idle]
  /\ locked' = IF locked = c THEN "nobody" ELSE locked
  /\ UNCHANGED <<unincorp, exists, newfile, accepted, taken, dpkg, trigs>> /\ UNCHANGED Interests

-----------------------------------------------------------------------------
(* dpkg: trig_incorporate() when the database is opened for writing.       *)

\* trig_transitional_activate(): without an Unincorp all interests are written again.
Declared == {i \in TrigPkgs \X TrigNames : i[2] \in ci[i[1]]}

\* trig_file_interests_ensure() and the lock; an Unincorp that is missing is made.
trig_incorporate ==
  /\ dpkg = "idle" /\ trigs < MaxTrigs /\ trigs' = trigs + 1 /\ LockFree
  /\ recorded' = IF exists THEN recorded ELSE recorded \cup Declared
  /\ inmemory' = recorded' \cap (TrigPkgs \X FileTrigs) /\ edited' = FALSE
  /\ IF exists /\ unincorp = {} THEN dpkg' = "open" /\ UNCHANGED <<locked, newfile>>
     ELSE dpkg' = "incorporate" /\ locked' = "dpkg" /\ newfile' = {}
  /\ UNCHANGED <<unincorp, exists, caller, accepted, taken, ci, unpacked, upgrade>>

\* trigdef_parse() with tdm_incorp: line by line, each noted in the database.
tdm_incorp ==
  /\ dpkg = "incorporate" /\ \E l \in unincorp \ taken : taken' = taken \cup {l}
  /\ UNCHANGED <<dpkg, trigs>> /\ UNCHANGED Files /\ UNCHANGED Interests
IncorporateDone ==
  /\ dpkg = "incorporate" /\ unincorp \subseteq taken
  /\ unincorp' = newfile /\ exists' = TRUE /\ newfile' = {} /\ locked' = "nobody" /\ dpkg' = "open"
  /\ UNCHANGED <<caller, accepted, taken, trigs>> /\ UNCHANGED Interests

\* A package is unpacked or removed: the interests that its old triggers file names go, those
\* of the new one come.
InterestStart ==
  /\ dpkg = "open" /\ dpkg' = "change"
  /\ \E p \in TrigPkgs, new \in SUBSET TrigNames :
       /\ upgrade' = [pkg |-> p, ci |-> new, del |-> ci[p], add |-> new]
       /\ unpacked' = unpacked \ {p}
  /\ UNCHANGED <<taken, trigs, recorded, inmemory, edited, ci>> /\ UNCHANGED Files

\* trk_explicit_interest_change() replaces a file, trk_file_interest_change() the list in memory.
Change(t, p, delete) ==
  IF t \in FileTrigs
  THEN /\ inmemory' = IF delete THEN inmemory \ {<<p, t>>} ELSE inmemory \cup {<<p, t>>}
       /\ edited' = (edited \/ inmemory' # inmemory) /\ UNCHANGED recorded
  ELSE /\ recorded' = IF delete THEN recorded \ {<<p, t>>} ELSE recorded \cup {<<p, t>>}
       /\ UNCHANGED <<inmemory, edited>>

trig_cicb_interest_delete ==
  /\ dpkg = "change" /\ \E t \in upgrade.del :
       Change(t, upgrade.pkg, TRUE) /\ upgrade' = [upgrade EXCEPT !.del = @ \ {t}]
  /\ UNCHANGED <<dpkg, taken, trigs, ci, unpacked>> /\ UNCHANGED Files
trig_cicb_interest_add ==
  /\ dpkg = "change" /\ upgrade.del = {} /\ \E t \in upgrade.add :
       Change(t, upgrade.pkg, FALSE) /\ upgrade' = [upgrade EXCEPT !.add = @ \ {t}]
  /\ UNCHANGED <<dpkg, taken, trigs, ci, unpacked>> /\ UNCHANGED Files

Saved_fault == {i \in inmemory : i[1] = upgrade.pkg}
Saved == inmemory
trig_file_interests_save ==
  /\ dpkg = "change" /\ upgrade.del = {} /\ upgrade.add = {} /\ dpkg' = "info"
  /\ recorded' = IF edited THEN (recorded \cap (TrigPkgs \X (TrigNames \ FileTrigs))) \cup Saved ELSE recorded
  /\ edited' = FALSE
  /\ UNCHANGED <<taken, trigs, inmemory, ci, unpacked, upgrade>> /\ UNCHANGED Files

\* The information files and the status follow.
InfoDone ==
  /\ dpkg = "info" /\ dpkg' = "open"
  /\ ci' = [ci EXCEPT ![upgrade.pkg] = upgrade.ci] /\ unpacked' = unpacked \cup {upgrade.pkg}
  /\ upgrade' = NoUpgrade
  /\ UNCHANGED <<taken, trigs, recorded, inmemory, edited>> /\ UNCHANGED Files

DpkgEnds ==
  /\ dpkg # "idle" /\ dpkg' = "idle" /\ upgrade' = NoUpgrade
  /\ locked' = (IF locked = "dpkg" THEN "nobody" ELSE locked)
  /\ inmemory' = {} /\ edited' = FALSE
  /\ UNCHANGED <<unincorp, exists, newfile, caller, accepted, taken, recorded, ci, unpacked, trigs>>

TrigDefInit ==
  /\ unincorp = {} /\ exists \in BOOLEAN /\ newfile = {} /\ locked = "nobody" /\ dpkg = "idle"
  /\ caller = [c \in Callers |-> Idle] /\ accepted = {} /\ taken = {}
  /\ ci \in [TrigPkgs -> SUBSET TrigNames] /\ unpacked = TrigPkgs
  /\ recorded = Declared
  /\ inmemory = {} /\ edited = FALSE /\ upgrade = NoUpgrade /\ trigs = 0

TrigDefNext ==
  \/ \E c \in Callers : \/ do_trigger(c) \/ trigdef_update_start(c) \/ tdm_add(c)
                        \/ trigdef_process_done(c) \/ CallerKilled(c)
  \/ trig_incorporate \/ tdm_incorp \/ IncorporateDone
  \/ InterestStart \/ trig_cicb_interest_delete \/ trig_cicb_interest_add
  \/ trig_file_interests_save \/ InfoDone \/ DpkgEnds
TrigDefSpec == TrigDefInit /\ [][TrigDefNext]_trigdefvars

\* An activation that dpkg-trigger has accepted is in Unincorp or in the database, whoever else
\* activates, incorporates or is killed at the same time.
ActivationsArrive == accepted \subseteq unincorp \cup taken

\* A package that is unpacked has all the interests it declares, whatever was cut short before.
InterestsKept == \A p \in unpacked, t \in TrigNames : t \in ci[p] => <<p, t>> \in recorded
=============================================================================
