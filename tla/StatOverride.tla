---------------------------- MODULE StatOverride ----------------------------
(***************************************************************************)
(* dpkg-statoverride (src/statoverride/main.c) and the file it shares with *)
(* dpkg (lib/dpkg/db-fsys-override.c).  An override names a user, who may  *)
(* have been given as #uid; users come and go between the runs.  Reading   *)
(* turns a name into a uid, writing turns the uid into a name again, and   *)
(* the whole file is written by every change.  Groups are as users.        *)
(***************************************************************************)
EXTENDS Naturals

CONSTANTS Overridable,   \* paths
          Users,         \* user names
          Uids,
          MaxChanges     \* bound: changes to users and overrides

VARIABLES overrides,   \* the file: path -> what is written for its owner, or nothing
          passwd,      \* name -> uid; 0 is no such user
          owner,       \* who owns the file on the disk
          changes

ASSUME UidsAssumption == 0 \notin Uids

statvars == <<overrides, passwd, owner, changes>>

None == [by |-> "nobody", name |-> "none", uid |-> 0]
ByName(u) == [by |-> "name", name |-> u, uid |-> 0]
ByUid(i) == [by |-> "uid", name |-> "none", uid |-> i]
Text == {None} \cup {ByName(u) : u \in Users} \cup {ByUid(i) : i \in Uids}

\* statdb_parse_uid(): 0 stands for (uid_t)-1.
statdb_parse_uid(t) == IF t.by = "uid" THEN t.uid ELSE IF t.by = "name" THEN passwd[t.name] ELSE 0

\* A line as ensure_statoverrides() has it in memory; dpkg itself refuses a name that is
\* not known, dpkg-statoverride keeps it.
Loaded(t) == [uid |-> statdb_parse_uid(t), uname |-> IF statdb_parse_uid(t) = 0 THEN t.name ELSE "none"]
Refuses == \E p \in Overridable : overrides[p] # None /\ statdb_parse_uid(overrides[p]) = 0

\* statdb_node_print().
statdb_node_print_fault(t) ==
  IF \E u \in Users : passwd[u] = Loaded(t).uid /\ passwd[u] # 0
  THEN ByName(CHOOSE u \in Users : passwd[u] = Loaded(t).uid)
  ELSE IF Loaded(t).uid = 0 THEN None ELSE ByUid(Loaded(t).uid)
statdb_node_print(t) ==
  IF t = None THEN None
  ELSE IF \E u \in Users : passwd[u] = Loaded(t).uid /\ passwd[u] # 0
  THEN ByName(CHOOSE u \in Users : passwd[u] = Loaded(t).uid)
  ELSE IF Loaded(t).uid = 0 THEN ByName(Loaded(t).uname) ELSE ByUid(Loaded(t).uid)

statdb_write(db) == overrides' = [p \in Overridable |-> statdb_node_print(db[p])]

Changing == changes < MaxChanges /\ changes' = changes + 1

\* statoverride_add() with and without --force-statoverride-add and --update.
statoverride_add ==
  /\ Changing
  /\ \E p \in Overridable, t \in Text \ {None}, force \in BOOLEAN, update \in BOOLEAN :
       /\ overrides[p] = None \/ force
       /\ statdb_parse_uid(t) # 0
       /\ statdb_write([overrides EXCEPT ![p] = t])
       /\ owner' = IF update THEN [owner EXCEPT ![p] = statdb_parse_uid(t)] ELSE owner
  /\ UNCHANGED passwd

statoverride_remove ==
  /\ Changing
  /\ \E p \in Overridable : overrides[p] # None /\ statdb_write([overrides EXCEPT ![p] = None])
  /\ UNCHANGED <<passwd, owner>>

\* A user is created or deleted.
Administer ==
  /\ Changing
  /\ \E u \in Users : \/ passwd[u] # 0 /\ passwd' = [passwd EXCEPT ![u] = 0]
                      \/ \E i \in Uids : passwd[u] = 0 /\ passwd' = [passwd EXCEPT ![u] = i]
  /\ UNCHANGED <<overrides, owner>>

\* dpkg unpacks the file and gives it the owner of its override.
Unpacks ==
  /\ Changing /\ ~Refuses
  /\ \E p \in Overridable :
       owner' = [owner EXCEPT ![p] = IF overrides[p] = None THEN 1 ELSE statdb_parse_uid(overrides[p])]
  /\ UNCHANGED <<overrides, passwd>>

StatInit == /\ overrides = [p \in Overridable |-> None] /\ changes = 0
            /\ passwd \in [Users -> {0} \cup Uids]
            /\ owner = [p \in Overridable |-> 1]
StatNext == statoverride_add \/ statoverride_remove \/ Administer \/ Unpacks
StatSpec == StatInit /\ [][StatNext]_statvars

\* dpkg-statoverride changes the override of the path it is given and of no other, although it
\* writes the whole file from what it could read of it: another path's override is still there,
\* it means the same user, and one whose user is gone keeps the name (statdb_node_print(),
\* statdb_write()).
OthersKeepStep ==
  passwd' = passwd /\ overrides' # overrides =>
    \E p \in Overridable : \A q \in Overridable \ {p} :
      /\ (overrides[q] = None) = (overrides'[q] = None)
      /\ statdb_parse_uid(overrides[q]) = statdb_parse_uid(overrides'[q])
      /\ statdb_parse_uid(overrides[q]) = 0 => overrides'[q] = overrides[q]
OthersKeep == [][OthersKeepStep]_statvars
=============================================================================
