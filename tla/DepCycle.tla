------------------------------ MODULE DepCycle ------------------------------
(***************************************************************************)
(* findbreakcycle() of src/main/depcon.c: a depth-first search for a cycle *)
(* in the dependencies of a package, that marks one possibility of the     *)
(* first cycle it meets as broken.  dpkg calls it again and again while it *)
(* makes no progress; the marks stay.                                      *)
(*                                                                         *)
(* The recursion is a stack of calls; the order in which a call goes       *)
(* through its dependencies is left open.                                  *)
(***************************************************************************)
EXTENDS DepGraph, Naturals, Sequences

CONSTANTS
    MayDepend,    \* the possibilities that packages may have
    MayProvide,   \* the names that packages may provide
    MayBeNormal,  \* the packages that may be in no queue
    NoName        \* no possibility has been followed yet

ASSUME MayDependAssumption == MayDepend \subseteq Possis
ASSUME MayProvideAssumption == MayProvide \subseteq Possis
ASSUME MayBeNormalAssumption == MayBeNormal \subseteq Pkgs
ASSUME NoNameAssumption == NoName \notin Names

VARIABLES
    depends,     \* the possibilities of the installed packages
    provides,    \* which packages provide which names
    normal,      \* packages with istobe PKG_ISTOBE_NORMAL
    postinst,    \* packages that have a postinst
    cyclebreak,  \* the possibilities that are marked as broken
    color,       \* what the search knows of a package
    stack,       \* the calls of findbreakcyclerecursive(), innermost last
    start,       \* the package that the search started from
    result       \* what findbreakcycle() returned

vars  == <<depends, provides, normal, postinst, cyclebreak, color, stack, start, result>>

(* Where a possibility on n leads: providers that nobody is going to       *)
(* touch are passed over.                                                  *)
Leads ==
    [n \in Names |-> {q \in Pkgs : q = n \/ (<<q, n>> \in provides /\ q \notin normal)}]

Unbroken == Edges(depends \ cyclebreak, Leads)

EdgesOf(p)    == {e \in Unbroken : From(e) = p}
Frame(p)      == [pkg |-> p, possi |-> NoName, todo |-> EdgesOf(p)]

Init ==
    /\ depends \in SUBSET MayDepend
    /\ provides \in SUBSET MayProvide
    /\ normal \in SUBSET MayBeNormal
    /\ postinst \in SUBSET Pkgs
    /\ cyclebreak = {}
    /\ color = [p \in Pkgs |-> "white"]
    /\ stack = <<>>
    /\ start \in Pkgs
    /\ result = "none"

-----------------------------------------------------------------------------
Call(p) ==
    /\ stack = <<>>
    /\ color' = [q \in Pkgs |-> IF q = p THEN "gray" ELSE "white"]
    /\ stack' = <<Frame(p)>>
    /\ start' = p
    /\ result' = "none"
    /\ UNCHANGED <<depends, provides, normal, postinst, cyclebreak>>

Depth == Len(stack)
Top   == stack[Depth]

(* The callers: the list sofar, without the current call.                  *)
Sofar == {stack[i].pkg : i \in 1 .. Depth - 1}

(* The current call after it has followed e.                               *)
FollowedAgain(e) ==    \* fault: the link stays to be followed
    [stack EXCEPT ![Depth] = [pkg |-> Top.pkg, possi |-> e[1][2], todo |-> Top.todo]]

Followed(e) ==
    [stack EXCEPT ![Depth] = [pkg |-> Top.pkg, possi |-> e[1][2], todo |-> Top.todo \ {e}]]

DescendBlackens(e) ==    \* fault: a package is black as soon as it is met
    /\ e \in Top.todo
    /\ To(e) \notin Sofar
    /\ IF color[To(e)] # "white"
       THEN stack' = Followed(e) /\ UNCHANGED color
       ELSE /\ stack' = Append(Followed(e), Frame(To(e)))
            /\ color' = [color EXCEPT ![To(e)] = "black"]
    /\ UNCHANGED <<depends, provides, normal, postinst, cyclebreak, start, result>>

Descend(e) ==
    /\ e \in Top.todo
    /\ To(e) \notin Sofar
    /\ IF color[To(e)] = "black"
       THEN stack' = Followed(e) /\ UNCHANGED color
       ELSE /\ stack' = Append(Followed(e), Frame(To(e)))
            /\ color' = [color EXCEPT ![To(e)] = "gray"]
    /\ UNCHANGED <<depends, provides, normal, postinst, cyclebreak, start, result>>

(* foundcyclebroken(): the cycle reaches back to the last earlier call for *)
(* the package; the link to break is that of the innermost call without a  *)
(* postinst, or else of that earlier call.                                 *)
Earlier(q) ==
    CHOOSE i \in 1 .. Depth - 1 :
        stack[i].pkg = q /\ \A j \in i + 1 .. Depth - 1 : stack[j].pkg # q

NoPostinst(q) == {i \in Earlier(q) + 1 .. Depth : stack[i].pkg \notin postinst}

BreakAtBottom(q) == 1    \* fault: the first link of the search

BreakAt(q) ==
    IF NoPostinst(q) = {} THEN Earlier(q)
    ELSE CHOOSE i \in NoPostinst(q) : \A j \in NoPostinst(q) : j <= i

BreakCycle(e) ==
    LET links == Followed(e)
        sol   == links[BreakAt(To(e))]
    IN
    /\ e \in Top.todo
    /\ To(e) \in Sofar
    /\ cyclebreak' = cyclebreak \cup {<<sol.pkg, sol.possi>>}
    /\ stack' = <<>>
    /\ result' = "true"
    /\ UNCHANGED <<depends, provides, normal, postinst, color, start>>

(* A call that found nothing.                                              *)
ReturnFalse ==
    /\ stack # <<>>
    /\ Top.todo = {}
    /\ color' = [color EXCEPT ![Top.pkg] = "black"]
    /\ stack' = SubSeq(stack, 1, Depth - 1)
    /\ result' = IF Depth = 1 THEN "false" ELSE result
    /\ UNCHANGED <<depends, provides, normal, postinst, cyclebreak, start>>

Search ==
    \/ stack # <<>> /\ \E e \in Top.todo : Descend(e) \/ BreakCycle(e)
    \/ ReturnFalse

Next == Search \/ \E p \in Pkgs : Call(p)

Spec     == Init /\ [][Next]_vars
FairSpec == Spec /\ WF_vars(Search)
-----------------------------------------------------------------------------
(* The types of the variables.                                             *)
TypeOK ==
    /\ depends \in SUBSET Possis
    /\ provides \in SUBSET Possis
    /\ normal \in SUBSET Pkgs
    /\ postinst \in SUBSET Pkgs
    /\ cyclebreak \in SUBSET Possis
    /\ color \in [Pkgs -> {"white", "gray", "black"}]
    /\ stack \in Seq([pkg : Pkgs, possi : Names \cup {NoName}, todo : SUBSET (Possis \X Pkgs)])
    /\ start \in Pkgs
    /\ result \in {"none", "true", "false"}

(***************************************************************************)
(* findbreakcycle() returns false only if there is no cycle left among all *)
(* that the package depends on: the search does not give up on a package   *)
(* that it has met before without reason.                                  *)
(***************************************************************************)
FalseMeansAcyclic == result = "false" => OnCycle(Unbroken, start) = {}

(***************************************************************************)
(* A possibility is marked as broken only where a cycle runs through it:   *)
(* no package is configured before something it depends on for nothing.    *)
(***************************************************************************)
OnlyCyclesAreBroken ==
    [][\A l \in cyclebreak' \ cyclebreak :
          \E e \in OnCycle(Unbroken, start) : e[1] = l]_vars

(***************************************************************************)
(* Every cycle that is found is also broken, so that dpkg makes progress   *)
(* each time findbreakcycle() returns true.                                *)
(***************************************************************************)
TrueMeansProgress == [][result' = "true" /\ result # "true" => cyclebreak' # cyclebreak]_vars

=============================================================================
