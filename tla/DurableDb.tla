----------------------------- MODULE DurableDb -----------------------------
(***************************************************************************)
(* What the status database promises, with no journal and no files: one    *)
(* durable register per package.  held[q] is the set of values that a      *)
(* crash may leave for package q; it has one element except while a write  *)
(* of q is on its way to the disk, or was when a process died.             *)
(***************************************************************************)
CONSTANTS Pkgs, Vals, Blank, NoSession

Db == [Pkgs -> Vals]

VARIABLES held,     \* for each package, the values a crash may leave
          session   \* the packages as the open writer has them in memory

vars == <<held, session>>

Init == /\ held = [q \in Pkgs |-> {Blank}]
        /\ session = NoSession

(* The disk decides between possibilities, it never invents one.           *)
Resolves == \A q \in Pkgs : held'[q] # {} /\ held'[q] \subseteq held[q]

(* A writer opens: it finds, for each package, something that was held.    *)
Open == /\ session = NoSession
        /\ session' \in {m \in Db : \A q \in Pkgs : m[q] \in held[q]}
        /\ UNCHANGED held

(* The writer changes a package in memory.                                 *)
Set == /\ session # NoSession
       /\ \E q \in Pkgs, v \in Vals : session' = [session EXCEPT ![q] = v]
       /\ UNCHANGED held

(* The writer's values, and nothing else, reach the disk.                  *)
Save == /\ session # NoSession
        /\ \A q \in Pkgs : /\ held'[q] # {}
                           /\ held'[q] \subseteq held[q] \cup {session[q]}
        /\ UNCHANGED session

(* An orderly end of the session: every one of its values is on the disk.  *)
Close == /\ session # NoSession
         /\ \A q \in Pkgs : held[q] = {session[q]}
         /\ session' = NoSession
         /\ UNCHANGED held

(* The process dies or the power fails.                                    *)
Crash == session' = NoSession /\ Resolves

Next == /\ held' \in [Pkgs -> SUBSET Vals]
        /\ Open \/ Set \/ Save \/ Close \/ Crash

Spec == Init /\ [][Next]_vars
=============================================================================
