------------------------------ MODULE DepGraph ------------------------------
(***************************************************************************)
(* Dependencies between packages, as struct deppossi links them.  A        *)
(* possibility <<p, n>> is an alternative n in a Depends or Pre-Depends    *)
(* field of p; n is the name of a package or a virtual package, and leads  *)
(* to the package of that name and to the packages that provide it.        *)
(***************************************************************************)
CONSTANTS
    Pkgs,    \* packages
    Names    \* what a dependency can be on: packages and virtual packages

ASSUME NamesAssumption == Pkgs \subseteq Names

Possis == Pkgs \X Names

(* An edge of the graph is a possibility and a package it leads to.        *)
Edges(possis, leads) == {e \in possis \X Pkgs : e[2] \in leads[e[1][2]]}

From(e) == e[1][1]
To(e)   == e[2]

(* Closed sets of packages contain what their members depend on.           *)
Closed(E, S) == \A e \in E : From(e) \in S => To(e) \in S

Reachable(E, p) == {q \in Pkgs : \A S \in SUBSET Pkgs : p \in S /\ Closed(E, S) => q \in S}

(* The edges on cycles that p depends on.                                  *)
OnCycle(E, p) ==
    LET reached == Reachable(E, p) IN
    {e \in E : From(e) \in reached /\ From(e) \in Reachable(E, To(e))}

=============================================================================
