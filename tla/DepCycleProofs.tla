--------------------------- MODULE DepCycleProofs ---------------------------
(***************************************************************************)
(* Proofs about findbreakcycle(), for every dependency graph.              *)
(***************************************************************************)
EXTENDS DepCycle, SequenceTheorems, WellFoundedInduction, TLAPS

-----------------------------------------------------------------------------
(* A package reaches itself, ...                                           *)
LEMMA ReachesItself ==
    ASSUME NEW E, NEW p \in Pkgs
    PROVE  p \in Reachable(E, p)
BY DEF Reachable

(* ... what its dependencies lead to, ...                                  *)
LEMMA ReachesNext ==
    ASSUME NEW E, NEW p, NEW e \in E, From(e) \in Reachable(E, p), To(e) \in Pkgs
    PROVE  To(e) \in Reachable(E, p)
BY DEF Reachable, Closed

(* ... and what these reach, ...                                           *)
LEMMA ReachesOn ==
    ASSUME NEW E, NEW p, NEW q \in Reachable(E, p), NEW r \in Reachable(E, q)
    PROVE  r \in Reachable(E, p)
BY DEF Reachable

(* ... but nothing outside of a closed set that it belongs to.             *)
LEMMA ReachesWithin ==
    ASSUME NEW E, NEW S \in SUBSET Pkgs, Closed(E, S), NEW p \in S
    PROVE  Reachable(E, p) \subseteq S
BY DEF Reachable

(* A set of positions in a sequence has a last one.                        *)
LEMMA HasLast ==
    ASSUME NEW n \in Nat, NEW S \in SUBSET (1 .. n), S # {}
    PROVE  \E i \in S : \A j \in S : j <= i
<1> DEFINE R == {ss \in Nat \X Nat : ss[1] < ss[2]}
           T == {n - i : i \in S}
<1>1. IsWellFoundedOn(R, Nat)
  BY NatLessThanWellFounded DEF OpToRel
<1>2. T \subseteq Nat /\ T # {}
  <2>1. ASSUME NEW i \in S PROVE n - i \in Nat
    OBVIOUS
  <2> QED BY <2>1
<1>3. PICK t \in T : \A j \in T : ~(<<j, t>> \in R)
  <2> HIDE DEF R, T
  <2> QED BY <1>1, <1>2, WFMin, Zenon
<1>4. PICK i \in S : t = n - i
  BY <1>3
<1>5. ASSUME NEW j \in S
      PROVE  j <= i
  <2>1. i \in Nat /\ j \in Nat /\ n - j \in T /\ n - j \in Nat /\ t \in Nat
    BY <1>2, <1>3
  <2>2. ~(n - j < t)
    <3> SUFFICES ASSUME n - j < t PROVE <<n - j, t>> \in R
      BY <1>3, <2>1
    <3> QED BY <2>1
  <2> QED BY <1>4, <2>1, <2>2
<1> QED BY <1>5

-----------------------------------------------------------------------------
(***************************************************************************)
(* The inductive invariant.  The stack is a path: each call was made for   *)
(* the link that its caller has noted, and so a call reaches all the later *)
(* ones.                                                                   *)
(***************************************************************************)
PathLinks ==
    \A i \in 1 .. Depth - 1 :
        \E e \in Unbroken : /\ e[1] = <<stack[i].pkg, stack[i].possi>>
                            /\ To(e) = stack[i + 1].pkg

PathReaches ==
    \A i, j \in 1 .. Depth : i <= j => stack[j].pkg \in Reachable(Unbroken, stack[i].pkg)

(* A link that a call has dealt with led to a black package, or leads to   *)
(* the next call.                                                          *)
TodoIsOwn == \A i \in 1 .. Depth : stack[i].todo \subseteq EdgesOf(stack[i].pkg)

DoneIsBlack ==
    \A i \in 1 .. Depth : \A e \in EdgesOf(stack[i].pkg) :
        \/ e \in stack[i].todo
        \/ color[To(e)] = "black"
        \/ i < Depth /\ To(e) = stack[i + 1].pkg

(* A package that depends on itself may be searched a second time, inside  *)
(* its own search; that call cannot return before it finds the cycle.      *)
AgainFindsItself ==
    \A i, j \in 1 .. Depth : i < j /\ stack[i].pkg = stack[j].pkg =>
        \E e \in stack[j].todo : To(e) = stack[j].pkg

OpenIsNotBlack == \A i \in 1 .. Depth : color[stack[i].pkg] # "black"

(* Black packages depend on black ones only, and not on themselves.        *)
Black == {p \in Pkgs : color[p] = "black"}

BlackIsAcyclic ==
    result # "true" =>
        /\ Closed(Unbroken, Black)
        /\ \A e \in Unbroken : From(e) \in Black => From(e) \notin Reachable(Unbroken, To(e))

Searching ==
    /\ stack # <<>> => result = "none" /\ stack[1].pkg = start
    /\ result = "false" => start \in Black

SearchInv ==
    /\ TypeOK /\ PathLinks /\ PathReaches /\ TodoIsOwn /\ DoneIsBlack
    /\ AgainFindsItself /\ OpenIsNotBlack /\ BlackIsAcyclic /\ Searching

-----------------------------------------------------------------------------
Frames == [pkg : Pkgs, possi : Names \cup {NoName}, todo : SUBSET (Possis \X Pkgs)]

(* What an unbroken link is.                                               *)
LEMMA UnbrokenLinks ==
    ASSUME TypeOK, NEW e \in Unbroken
    PROVE  /\ e[1] \in depends \ cyclebreak
           /\ e \in Possis \X Pkgs
           /\ From(e) \in Pkgs /\ To(e) \in Pkgs /\ e[1] = <<From(e), e[1][2]>> /\ e[1][2] \in Names
BY DEF TypeOK, Unbroken, Edges, From, To, Possis

(* A new call has all its links to follow.                                 *)
LEMMA FrameType ==
    ASSUME TypeOK, NEW p \in Pkgs
    PROVE  Frame(p) \in Frames
BY UnbrokenLinks DEF Frame, EdgesOf, Frames

(* At first nothing is known.                                              *)
LEMMA InitSearch == Init => SearchInv
<1> SUFFICES ASSUME Init PROVE SearchInv
  OBVIOUS
<1>1. TypeOK
  BY MayDependAssumption, MayProvideAssumption, MayBeNormalAssumption DEF Init, TypeOK
<1>2. Depth = 0 /\ Black = {}
  BY DEF Init, Depth, Black
<1>3. Closed(Unbroken, Black)
  BY <1>2 DEF Closed
<1> QED
  BY <1>1, <1>2, <1>3 DEF Init, SearchInv, PathLinks, PathReaches, TodoIsOwn, DoneIsBlack,
     AgainFindsItself, OpenIsNotBlack, BlackIsAcyclic, Searching

-----------------------------------------------------------------------------
(* findbreakcycle() begins: all packages but one are white again.          *)
LEMMA CallStep == ASSUME SearchInv, NEW p \in Pkgs, Call(p) PROVE SearchInv'
<1> USE DEF Call
<1>1. Frame(p) \in Frames /\ Frame(p).pkg = p /\ Frame(p).todo = EdgesOf(p)
  BY FrameType DEF SearchInv, Frame
<1>2. /\ stack' = <<Frame(p)>>
      /\ Depth' = 1
      /\ Unbroken' = Unbroken
      /\ EdgesOf(p)' = EdgesOf(p)
      /\ Black' = {}
  BY DEF Depth, Unbroken, Leads, EdgesOf, Black
<1>3. stack'[1] = Frame(p)
  BY <1>2
<1>4. TypeOK'
  <2>1. stack' \in Seq(Frames)
    BY <1>1, <1>2
  <2> QED BY <2>1 DEF SearchInv, TypeOK, Frames
<1>5. PathReaches'
  <2>1. p \in Reachable(Unbroken, p)
    BY ReachesItself
  <2> QED BY <1>1, <1>2, <1>3, <2>1 DEF PathReaches
<1>6. PathLinks' /\ TodoIsOwn' /\ DoneIsBlack' /\ AgainFindsItself'
  BY <1>1, <1>2, <1>3 DEF PathLinks, TodoIsOwn, DoneIsBlack, AgainFindsItself, EdgesOf
<1>7. OpenIsNotBlack'
  BY <1>1, <1>2, <1>3 DEF OpenIsNotBlack
<1>8. BlackIsAcyclic'
  BY <1>2 DEF BlackIsAcyclic, Closed
<1>9. Searching'
  BY <1>1, <1>3 DEF Searching
<1> QED BY <1>4, <1>5, <1>6, <1>7, <1>8, <1>9 DEF SearchInv

(* What Followed(e) leaves of the stack.                                   *)
LEMMA FollowedStack ==
    ASSUME SearchInv, stack # <<>>, NEW e \in Top.todo
    PROVE  /\ Depth \in Nat \ {0}
           /\ e \in EdgesOf(Top.pkg) /\ e \in Unbroken /\ From(e) = Top.pkg
           /\ Followed(e) \in Seq(Frames)
           /\ Len(Followed(e)) = Depth
           /\ \A i \in 1 .. Depth - 1 : Followed(e)[i] = stack[i]
           /\ \A i \in 1 .. Depth : Followed(e)[i].pkg = stack[i].pkg
           /\ Followed(e)[Depth] = [pkg |-> Top.pkg, possi |-> e[1][2], todo |-> Top.todo \ {e}]
<1>1. stack \in Seq(Frames)
  BY DEF SearchInv, TypeOK, Frames
<1>2. Depth \in Nat \ {0} /\ Depth \in 1 .. Len(stack)
  BY <1>1, EmptySeq DEF Depth
<1>3. Top \in Frames
  BY <1>1, <1>2, ElementOfSeq DEF Top
<1>4. e \in EdgesOf(Top.pkg)
  BY <1>2 DEF SearchInv, TodoIsOwn, Top, Depth
<1>5. e \in Unbroken /\ From(e) = Top.pkg
  BY <1>4 DEF EdgesOf
<1>6. e[1][2] \in Names
  BY <1>5, UnbrokenLinks DEF SearchInv
<1> DEFINE f == [pkg |-> Top.pkg, possi |-> e[1][2], todo |-> Top.todo \ {e}]
<1>7. f \in Frames
  BY <1>3, <1>6 DEF Frames
<1>8. Followed(e) = [stack EXCEPT ![Depth] = f]
  BY DEF Followed
<1>9. Followed(e) \in Seq(Frames) /\ Len(Followed(e)) = Depth
  <2> HIDE DEF f
  <2> QED BY <1>1, <1>2, <1>7, <1>8, ExceptSeq DEF Depth
<1>10. (\A i \in 1 .. Depth - 1 : Followed(e)[i] = stack[i]) /\ Followed(e)[Depth] = f
  <2> HIDE DEF f
  <2> QED BY <1>1, <1>2, <1>8 DEF Depth
<1>11. ASSUME NEW i \in 1 .. Depth PROVE Followed(e)[i].pkg = stack[i].pkg
  <2>1. i \in 1 .. Depth - 1 \/ i = Depth
    BY <1>2
  <2> QED BY <1>10, <2>1 DEF Top
<1> QED BY <1>2, <1>4, <1>5, <1>9, <1>10, <1>11

(* A link that leads to a black package is passed over.                    *)
LEMMA PassOverStep ==
    ASSUME SearchInv, stack # <<>>, NEW e \in Top.todo, Descend(e), color[To(e)] = "black"
    PROVE  SearchInv'
<1> DEFINE F == Followed(e)
<1>1. /\ Depth \in Nat \ {0}
      /\ e \in Unbroken /\ From(e) = Top.pkg
      /\ F \in Seq(Frames) /\ Len(F) = Depth
      /\ \A i \in 1 .. Depth - 1 : F[i] = stack[i]
      /\ \A i \in 1 .. Depth : F[i].pkg = stack[i].pkg
      /\ F[Depth] = [pkg |-> Top.pkg, possi |-> e[1][2], todo |-> Top.todo \ {e}]
  BY FollowedStack
<1> HIDE DEF F
<1>2. /\ stack' = F /\ Depth' = Depth
      /\ color' = color /\ result' = result /\ start' = start
      /\ Unbroken' = Unbroken /\ Black' = Black
      /\ \A p : EdgesOf(p)' = EdgesOf(p)
      /\ To(e) \notin Sofar
  BY <1>1 DEF Descend, F, Depth, Unbroken, Leads, Black, EdgesOf
<1>3. TypeOK'
  BY <1>1, <1>2 DEF Descend, SearchInv, TypeOK, Frames
<1>4. PathLinks'
  <2> SUFFICES ASSUME NEW i \in 1 .. Depth - 1
               PROVE  \E d \in Unbroken : d[1] = <<F[i].pkg, F[i].possi>> /\ To(d) = F[i + 1].pkg
    BY <1>2 DEF PathLinks
  <2>1. i + 1 \in 1 .. Depth
    BY <1>1
  <2> QED BY <1>1, <2>1 DEF SearchInv, PathLinks
<1>5. PathReaches'
  BY <1>1, <1>2 DEF SearchInv, PathReaches
<1>6. ASSUME NEW i \in 1 .. Depth
      PROVE  F[i].todo = IF i = Depth THEN stack[i].todo \ {e} ELSE stack[i].todo
  <2>1. CASE i = Depth
    <3>1. F[i].todo = Top.todo \ {e}
      BY <1>1, <2>1
    <3> QED BY <2>1, <3>1 DEF Top
  <2>2. CASE i # Depth
    <3>1. i \in 1 .. Depth - 1
      BY <1>1, <2>2
    <3> QED BY <1>1, <2>2, <3>1
  <2> QED BY <2>1, <2>2
<1>7. TodoIsOwn'
  BY <1>1, <1>2, <1>6 DEF SearchInv, TodoIsOwn
<1>8. DoneIsBlack'
  <2> SUFFICES ASSUME NEW i \in 1 .. Depth, NEW d \in EdgesOf(stack[i].pkg)
               PROVE  d \in F[i].todo \/ color[To(d)] = "black" \/ (i < Depth /\ To(d) = F[i + 1].pkg)
    BY <1>1, <1>2 DEF DoneIsBlack
  <2>1. i < Depth => i + 1 \in 1 .. Depth
    BY <1>1
  <2> QED BY <1>1, <1>6, <2>1 DEF SearchInv, DoneIsBlack
<1>9. AgainFindsItself'
  <2> SUFFICES ASSUME NEW i \in 1 .. Depth, NEW j \in 1 .. Depth, i < j, stack[i].pkg = stack[j].pkg
               PROVE  \E d \in F[j].todo : To(d) = stack[j].pkg
    BY <1>1, <1>2 DEF AgainFindsItself
  <2>1. PICK d \in stack[j].todo : To(d) = stack[j].pkg
    BY DEF SearchInv, AgainFindsItself
  <2>2. i \in 1 .. Depth - 1
    BY <1>1
  <2>3. d # e
    BY <1>2, <2>1, <2>2 DEF Sofar
  <2> QED BY <1>6, <2>1, <2>3
<1>10. OpenIsNotBlack'
  BY <1>1, <1>2 DEF SearchInv, OpenIsNotBlack
<1>11. BlackIsAcyclic'
  BY <1>2 DEF SearchInv, BlackIsAcyclic
<1>12. Searching'
  <2>1. 1 \in 1 .. Depth
    BY <1>1
  <2> QED BY <1>1, <1>2, <2>1 DEF SearchInv, Searching
<1> QED BY <1>3, <1>4, <1>5, <1>7, <1>8, <1>9, <1>10, <1>11, <1>12 DEF SearchInv

(* A link that leads to another package is followed.                       *)
LEMMA FollowStep ==
    ASSUME SearchInv, stack # <<>>, NEW e \in Top.todo, Descend(e), color[To(e)] # "black"
    PROVE  SearchInv'
<1> DEFINE F == Followed(e)
           N == Frame(To(e))
<1>1. /\ Depth \in Nat \ {0}
      /\ e \in Unbroken /\ From(e) = Top.pkg
      /\ F \in Seq(Frames) /\ Len(F) = Depth
      /\ \A i \in 1 .. Depth - 1 : F[i] = stack[i]
      /\ \A i \in 1 .. Depth : F[i].pkg = stack[i].pkg
      /\ F[Depth] = [pkg |-> Top.pkg, possi |-> e[1][2], todo |-> Top.todo \ {e}]
  BY FollowedStack
<1>2. /\ To(e) \in Pkgs /\ e[1] = <<Top.pkg, e[1][2]>>
      /\ N \in Frames /\ N.pkg = To(e) /\ N.todo = EdgesOf(To(e))
  <2>1. To(e) \in Pkgs /\ e[1] = <<Top.pkg, e[1][2]>>
    BY <1>1, UnbrokenLinks DEF SearchInv
  <2>2. N \in Frames
    BY <2>1, FrameType DEF SearchInv
  <2> QED BY <2>1, <2>2 DEF Frame
<1>3. stack' = Append(F, N)
  BY DEF Descend
<1> HIDE DEF F, N
<1>4. /\ stack' \in Seq(Frames) /\ Depth' = Depth + 1
      /\ \A i \in 1 .. Depth : stack'[i] = F[i]
      /\ stack'[Depth + 1] = N
  BY <1>1, <1>2, <1>3, AppendProperties DEF Depth
<1>5. /\ color' = [color EXCEPT ![To(e)] = "gray"] /\ result' = result /\ start' = start
      /\ Unbroken' = Unbroken
      /\ \A p : EdgesOf(p)' = EdgesOf(p)
      /\ To(e) \notin Sofar
  BY DEF Descend, Unbroken, Leads, EdgesOf
<1>6. /\ color \in [Pkgs -> {"white", "gray", "black"}]
      /\ \A p \in Pkgs : color'[p] = "black" <=> color[p] = "black"
      /\ Black' = Black
  BY <1>2, <1>5 DEF SearchInv, TypeOK, Black
<1>7. /\ \A i \in 1 .. Depth : stack'[i].pkg = stack[i].pkg
      /\ stack'[Depth + 1].pkg = To(e)
      /\ stack'[Depth + 1].todo = EdgesOf(To(e))
      /\ \A i \in 1 .. Depth : i # Depth => stack'[i] = stack[i]
      /\ stack'[Depth].todo = Top.todo \ {e}
  <2>1. Depth \in 1 .. Depth
    BY <1>1
  <2>2. ASSUME NEW i \in 1 .. Depth, i # Depth PROVE i \in 1 .. Depth - 1
    BY <1>1, <2>2
  <2> QED BY <1>1, <1>2, <1>4, <2>1, <2>2
<1>8. \A i \in 1 .. Depth' : i \in 1 .. Depth \/ i = Depth + 1
  BY <1>1, <1>4
<1>9. \A i \in 1 .. Depth : stack[i].pkg \in Pkgs
  <2>1. stack \in Seq(Frames)
    BY DEF SearchInv, TypeOK, Frames
  <2>2. ASSUME NEW i \in 1 .. Depth PROVE stack[i] \in Frames
    BY <2>1, ElementOfSeq DEF Depth
  <2> QED BY <2>2 DEF Frames
<1>10. TypeOK'
  BY <1>2, <1>4, <1>5 DEF Descend, SearchInv, TypeOK, Frames
<1>11. PathLinks'
  <2> SUFFICES ASSUME NEW i \in 1 .. Depth
               PROVE  \E d \in Unbroken : /\ d[1] = <<stack'[i].pkg, stack'[i].possi>>
                                          /\ To(d) = stack'[i + 1].pkg
    <3>1. Depth' - 1 = Depth
      BY <1>1, <1>4
    <3> QED BY <1>5, <3>1 DEF PathLinks
  <2>1. CASE i = Depth
    <3>1. stack'[i].pkg = Top.pkg /\ stack'[i].possi = e[1][2]
      BY <1>1, <1>4, <2>1
    <3> QED BY <1>1, <1>2, <1>7, <2>1, <3>1
  <2>2. CASE i # Depth
    <3>1. i \in 1 .. Depth - 1 /\ i + 1 \in 1 .. Depth
      BY <1>1, <2>2
    <3> QED BY <1>7, <2>2, <3>1 DEF SearchInv, PathLinks
  <2> QED BY <2>1, <2>2
<1>12. PathReaches'
  <2> SUFFICES ASSUME NEW i \in 1 .. Depth', NEW j \in 1 .. Depth', i <= j
               PROVE  stack'[j].pkg \in Reachable(Unbroken, stack'[i].pkg)
    BY <1>5 DEF PathReaches
  <2>1. CASE j \in 1 .. Depth
    <3>1. i \in 1 .. Depth
      BY <1>1, <1>8, <2>1
    <3> QED BY <1>7, <2>1, <3>1 DEF SearchInv, PathReaches
  <2>2. CASE j = Depth + 1 /\ i \in 1 .. Depth
    <3>1. Top.pkg \in Reachable(Unbroken, stack[i].pkg)
      BY <1>1, <2>2 DEF SearchInv, PathReaches, Top
    <3>2. To(e) \in Reachable(Unbroken, stack[i].pkg)
      BY <1>1, <1>2, <3>1, ReachesNext
    <3> QED BY <1>7, <2>2, <3>2
  <2>3. CASE j = Depth + 1 /\ i = Depth + 1
    BY <1>2, <1>7, <2>3, ReachesItself
  <2> QED BY <1>8, <2>1, <2>2, <2>3
<1>13. TodoIsOwn'
  <2> SUFFICES ASSUME NEW i \in 1 .. Depth'
               PROVE  stack'[i].todo \subseteq EdgesOf(stack'[i].pkg)
    BY <1>5 DEF TodoIsOwn
  <2> QED BY <1>7, <1>8 DEF SearchInv, TodoIsOwn, Top
<1>14. DoneIsBlack'
  <2> SUFFICES ASSUME NEW i \in 1 .. Depth', NEW d \in EdgesOf(stack'[i].pkg)
               PROVE  \/ d \in stack'[i].todo
                      \/ color'[To(d)] = "black"
                      \/ i < Depth + 1 /\ To(d) = stack'[i + 1].pkg
    BY <1>4, <1>5 DEF DoneIsBlack
  <2>1. To(d) \in Pkgs
    BY UnbrokenLinks DEF SearchInv, EdgesOf
  <2>2. CASE i = Depth + 1
    BY <1>7, <2>2
  <2>3. CASE i = Depth
    <3>1. d \in Top.todo \/ color[To(d)] = "black"
      BY <1>1, <1>7, <2>3 DEF SearchInv, DoneIsBlack, Top
    <3> QED BY <1>1, <1>6, <1>7, <2>1, <2>3, <3>1
  <2>4. CASE i \in 1 .. Depth /\ i # Depth
    <3>1. i + 1 \in 1 .. Depth /\ i < Depth
      BY <1>1, <2>4
    <3> QED BY <1>1, <1>6, <1>7, <2>1, <2>4, <3>1 DEF SearchInv, DoneIsBlack
  <2> QED BY <1>8, <2>2, <2>3, <2>4
<1>15. AgainFindsItself'
  <2> SUFFICES ASSUME NEW i \in 1 .. Depth', NEW j \in 1 .. Depth', i < j,
                      stack'[i].pkg = stack'[j].pkg
               PROVE  \E d \in stack'[j].todo : To(d) = stack'[j].pkg
    BY DEF AgainFindsItself
  <2>1. i \in 1 .. Depth /\ i < Depth + 1
    BY <1>1, <1>8
  <2>2. CASE j = Depth + 1
    <3>1. i \notin 1 .. Depth - 1
      BY <1>5, <1>7, <2>1, <2>2 DEF Sofar
    <3>2. i = Depth
      BY <1>1, <2>1, <3>1
    <3>3. Top.pkg = To(e)
      BY <1>7, <2>1, <2>2, <3>2 DEF Top
    <3>4. e \in EdgesOf(To(e))
      BY <1>1, <3>3 DEF EdgesOf
    <3> QED BY <1>7, <2>2, <3>4
  <2>3. CASE j \in 1 .. Depth
    <3>1. PICK d \in stack[j].todo : To(d) = stack[j].pkg
      BY <1>7, <2>1, <2>3 DEF SearchInv, AgainFindsItself
    <3>2. i \in 1 .. Depth - 1
      BY <1>1, <2>1, <2>3
    <3>3. d # e
      BY <1>5, <1>7, <2>1, <2>3, <3>1, <3>2 DEF Sofar
    <3> QED BY <1>7, <2>3, <3>1, <3>3 DEF Top
  <2> QED BY <1>8, <2>2, <2>3
<1>16. OpenIsNotBlack'
  BY <1>2, <1>6, <1>7, <1>8, <1>9 DEF SearchInv, OpenIsNotBlack
<1>17. BlackIsAcyclic'
  BY <1>5, <1>6 DEF SearchInv, BlackIsAcyclic
<1>18. Searching'
  <2>1. 1 \in 1 .. Depth
    BY <1>1
  <2> QED BY <1>5, <1>6, <1>7, <2>1 DEF SearchInv, Searching
<1> QED BY <1>10, <1>11, <1>12, <1>13, <1>14, <1>15, <1>16, <1>17, <1>18 DEF SearchInv

(* A call returns false: all its links have led to black packages, none of *)
(* which leads back to the package, for that is not black.                 *)
LEMMA ReturnStep == ASSUME SearchInv, ReturnFalse PROVE SearchInv'
<1>1. stack \in Seq(Frames) /\ stack # <<>>
  BY DEF SearchInv, TypeOK, Frames, ReturnFalse
<1>2. Depth \in Nat \ {0} /\ Depth \in 1 .. Depth /\ 1 \in 1 .. Depth
  BY <1>1, EmptySeq DEF Depth
<1>3. \A i \in 1 .. Depth : stack[i] \in Frames
  BY <1>1, ElementOfSeq DEF Depth
<1>4. /\ stack' = SubSeq(stack, 1, Depth - 1)
      /\ Top.todo = {} /\ Top.pkg \in Pkgs
      /\ color' = [color EXCEPT ![Top.pkg] = "black"]
      /\ result' = IF Depth = 1 THEN "false" ELSE result
      /\ start' = start /\ Unbroken' = Unbroken
      /\ \A p : EdgesOf(p)' = EdgesOf(p)
  BY <1>2, <1>3 DEF ReturnFalse, Unbroken, Leads, EdgesOf, Top, Frames
<1>5. /\ stack' \in Seq(Frames) /\ Len(stack') = Depth - 1
      /\ \A i \in 1 .. Depth - 1 : stack'[i] = stack[i]
  <2>1. \A i \in 1 .. Depth - 1 : stack[i] \in Frames
    BY <1>2, <1>3
  <2>2. Depth - 1 \in Int /\ 1 \in Int
    BY <1>2
  <2>3. /\ SubSeq(stack, 1, Depth - 1) \in Seq(Frames)
        /\ Len(SubSeq(stack, 1, Depth - 1)) = IF 1 <= Depth - 1 THEN Depth - 1 - 1 + 1 ELSE 0
        /\ \A i \in 1 .. Depth - 1 - 1 + 1 : SubSeq(stack, 1, Depth - 1)[i] = stack[1 + i - 1]
    BY <2>1, <2>2, SubSeqProperties
  <2> QED BY <1>2, <1>4, <2>3
<1>6. Depth' = Depth - 1
  BY <1>5 DEF Depth
<1>7. /\ color \in [Pkgs -> {"white", "gray", "black"}]
      /\ Black' = Black \cup {Top.pkg}
      /\ \A p \in Pkgs : color'[p] = "black" <=> color[p] = "black" \/ p = Top.pkg
  BY <1>4 DEF SearchInv, TypeOK, Black
<1>8. \A i \in 1 .. Depth - 1 : stack[i].pkg # Top.pkg
  <2> SUFFICES ASSUME NEW i \in 1 .. Depth - 1, stack[i].pkg = stack[Depth].pkg PROVE FALSE
    BY DEF Top
  <2>1. \E e \in stack[Depth].todo : To(e) = stack[Depth].pkg
    BY <1>2 DEF SearchInv, AgainFindsItself
  <2> QED BY <1>4, <2>1 DEF Top
<1>9. \A e \in Unbroken : From(e) = Top.pkg => To(e) \in Black
  <2> SUFFICES ASSUME NEW e \in Unbroken, From(e) = Top.pkg PROVE To(e) \in Black
    OBVIOUS
  <2>1. e \in EdgesOf(stack[Depth].pkg) /\ e \notin stack[Depth].todo
    BY <1>4 DEF EdgesOf, Top
  <2>2. color[To(e)] = "black"
    BY <1>2, <2>1 DEF SearchInv, DoneIsBlack
  <2> QED BY <2>2, UnbrokenLinks DEF SearchInv, Black
<1>10. TypeOK'
  <2>1. result' \in {"none", "true", "false"}
    BY <1>4 DEF SearchInv, TypeOK
  <2> QED BY <1>4, <1>5, <2>1 DEF ReturnFalse, SearchInv, TypeOK, Frames
<1>11. PathLinks'
  <2> SUFFICES ASSUME NEW i \in 1 .. Depth - 1 - 1
               PROVE  \E d \in Unbroken : /\ d[1] = <<stack'[i].pkg, stack'[i].possi>>
                                          /\ To(d) = stack'[i + 1].pkg
    BY <1>4, <1>6 DEF PathLinks
  <2>1. i \in 1 .. Depth - 1 /\ i + 1 \in 1 .. Depth - 1
    BY <1>2
  <2> QED BY <1>5, <2>1 DEF SearchInv, PathLinks
<1>12. PathReaches' /\ TodoIsOwn' /\ AgainFindsItself'
  <2>1. \A i \in 1 .. Depth - 1 : i \in 1 .. Depth
    BY <1>2
  <2>2. PathReaches'
    BY <1>4, <1>5, <1>6, <2>1 DEF SearchInv, PathReaches
  <2>3. TodoIsOwn'
    BY <1>4, <1>5, <1>6, <2>1 DEF SearchInv, TodoIsOwn
  <2>4. AgainFindsItself'
    BY <1>5, <1>6, <2>1 DEF SearchInv, AgainFindsItself
  <2> QED BY <2>2, <2>3, <2>4
<1>13. DoneIsBlack'
  <2> SUFFICES ASSUME NEW i \in 1 .. Depth - 1, NEW d \in EdgesOf(stack[i].pkg)
               PROVE  \/ d \in stack[i].todo
                      \/ color'[To(d)] = "black"
                      \/ i < Depth - 1 /\ To(d) = stack'[i + 1].pkg
    BY <1>4, <1>5, <1>6 DEF DoneIsBlack
  <2>1. To(d) \in Pkgs
    BY UnbrokenLinks DEF SearchInv, EdgesOf
  <2>2. i \in 1 .. Depth
    BY <1>2
  <2>3. d \in stack[i].todo \/ color[To(d)] = "black" \/ To(d) = stack[i + 1].pkg
    BY <2>2 DEF SearchInv, DoneIsBlack
  <2>4. CASE i = Depth - 1
    <3>1. i + 1 = Depth
      BY <1>2, <2>4
    <3> QED BY <1>7, <2>1, <2>3, <3>1 DEF Top
  <2>5. CASE i # Depth - 1
    <3>1. i < Depth - 1 /\ i + 1 \in 1 .. Depth - 1
      BY <1>2, <2>5
    <3> QED BY <1>5, <1>7, <2>1, <2>3, <3>1
  <2> QED BY <2>4, <2>5
<1>14. OpenIsNotBlack'
  <2> SUFFICES ASSUME NEW i \in 1 .. Depth - 1 PROVE color'[stack[i].pkg] # "black"
    BY <1>5, <1>6 DEF OpenIsNotBlack
  <2>1. i \in 1 .. Depth
    BY <1>2
  <2>2. stack[i].pkg \in Pkgs /\ color[stack[i].pkg] # "black"
    BY <1>3, <2>1 DEF SearchInv, OpenIsNotBlack, Frames
  <2> QED BY <1>7, <1>8, <2>2
<1>15. BlackIsAcyclic'
  <2>1. result = "none"
    BY <1>1 DEF SearchInv, Searching
  <2>2. /\ Closed(Unbroken, Black)
        /\ \A e \in Unbroken : From(e) \in Black => From(e) \notin Reachable(Unbroken, To(e))
    BY <2>1 DEF SearchInv, BlackIsAcyclic
  <2>3. Closed(Unbroken, Black')
    BY <1>7, <1>9, <2>2 DEF Closed
  <2>4. Top.pkg \notin Black
    BY <1>2 DEF SearchInv, OpenIsNotBlack, Top, Black
  <2>5. ASSUME NEW e \in Unbroken, From(e) = Top.pkg
        PROVE  From(e) \notin Reachable(Unbroken, To(e))
    <3>1. Black \in SUBSET Pkgs /\ To(e) \in Black
      BY <1>9, <2>5 DEF Black
    <3>2. Reachable(Unbroken, To(e)) \subseteq Black
      BY <2>2, <3>1, ReachesWithin
    <3> QED BY <2>4, <2>5, <3>2
  <2> QED BY <1>4, <1>7, <2>2, <2>3, <2>5 DEF BlackIsAcyclic
<1>16. Searching'
  <2>1. stack[1].pkg = start /\ result = "none"
    BY <1>1 DEF SearchInv, Searching
  <2>2. CASE Depth = 1
    <3>1. Top.pkg = start
      BY <2>1, <2>2 DEF Top
    <3>2. stack' = <<>>
      BY <1>5, <2>2
    <3> QED BY <1>4, <1>7, <3>1, <3>2 DEF Searching
  <2>3. CASE Depth # 1
    <3>1. 1 \in 1 .. Depth - 1
      BY <1>2, <2>3
    <3> QED BY <1>4, <1>5, <2>1, <2>3, <3>1 DEF Searching
  <2> QED BY <2>2, <2>3
<1> QED BY <1>10, <1>11, <1>12, <1>13, <1>14, <1>15, <1>16 DEF SearchInv

-----------------------------------------------------------------------------
(* The link that foundcyclebroken() chooses belongs to a call from the     *)
(* last earlier one for the package on.                                    *)
LEMMA WhereToBreak ==
    ASSUME SearchInv, stack # <<>>, NEW q \in Sofar
    PROVE  /\ Earlier(q) \in 1 .. Depth - 1 /\ stack[Earlier(q)].pkg = q
           /\ BreakAt(q) \in Earlier(q) .. Depth
<1>1. Depth \in Nat \ {0}
  <2>1. stack \in Seq(Frames)
    BY DEF SearchInv, TypeOK, Frames
  <2> QED BY <2>1, EmptySeq DEF Depth
<1> DEFINE S == {i \in 1 .. Depth - 1 : stack[i].pkg = q}
<1>2. PICK i \in S : \A j \in S : j <= i
  <2>1. Depth - 1 \in Nat /\ S \in SUBSET (1 .. Depth - 1) /\ S # {}
    BY <1>1 DEF Sofar
  <2> HIDE DEF S
  <2> QED BY <2>1, HasLast
<1>3. i \in 1 .. Depth - 1 /\ stack[i].pkg = q /\ \A j \in i + 1 .. Depth - 1 : stack[j].pkg # q
  <2>1. ASSUME NEW j \in i + 1 .. Depth - 1 PROVE j \notin S
    BY <1>1, <1>2
  <2>2. ASSUME NEW j \in i + 1 .. Depth - 1 PROVE j \in 1 .. Depth - 1
    BY <1>1, <1>2
  <2> QED BY <1>2, <2>1, <2>2
<1>4. Earlier(q) \in 1 .. Depth - 1 /\ stack[Earlier(q)].pkg = q
  BY <1>3 DEF Earlier
<1>5. CASE NoPostinst(q) = {}
  BY <1>1, <1>4, <1>5 DEF BreakAt
<1>6. CASE NoPostinst(q) # {}
  <2>1. NoPostinst(q) \in SUBSET (1 .. Depth)
    BY <1>1, <1>4 DEF NoPostinst
  <2>2. \E k \in NoPostinst(q) : \A j \in NoPostinst(q) : j <= k
    BY <1>1, <1>6, <2>1, HasLast
  <2>3. BreakAt(q) \in NoPostinst(q)
    BY <1>6, <2>2 DEF BreakAt
  <2> QED BY <1>1, <1>4, <2>3 DEF NoPostinst
<1> QED BY <1>4, <1>5, <1>6

(* That link lies on a cycle that the search has found, and was not broken *)
(* before.                                                                 *)
LEMMA BrokenLink ==
    ASSUME SearchInv, stack # <<>>, NEW e \in Top.todo, BreakCycle(e)
    PROVE  \E d \in OnCycle(Unbroken, start) : cyclebreak' = cyclebreak \cup {d[1]}
<1> DEFINE F == Followed(e)
           k == BreakAt(To(e))
           i0 == Earlier(To(e))
<1>1. /\ Depth \in Nat \ {0}
      /\ e \in Unbroken /\ From(e) = Top.pkg
      /\ \A i \in 1 .. Depth - 1 : F[i] = stack[i]
      /\ F[Depth] = [pkg |-> Top.pkg, possi |-> e[1][2], todo |-> Top.todo \ {e}]
  BY FollowedStack
<1>2. i0 \in 1 .. Depth - 1 /\ stack[i0].pkg = To(e) /\ k \in i0 .. Depth
  BY WhereToBreak DEF BreakCycle
<1>3. cyclebreak' = cyclebreak \cup {<<F[k].pkg, F[k].possi>>}
  BY DEF BreakCycle
<1>4. stack[1].pkg = start /\ To(e) \in Pkgs /\ e[1] = <<Top.pkg, e[1][2]>>
  BY <1>1, UnbrokenLinks DEF SearchInv, Searching
<1> HIDE DEF F, k, i0
<1>5. /\ 1 \in 1 .. Depth /\ Depth \in 1 .. Depth /\ i0 \in 1 .. Depth /\ k \in 1 .. Depth
      /\ i0 <= Depth /\ i0 <= k /\ 1 <= k
  BY <1>1, <1>2
<1>6. Top.pkg \in Reachable(Unbroken, To(e)) /\ Top.pkg \in Reachable(Unbroken, start)
  <2>1. stack[Depth].pkg \in Reachable(Unbroken, stack[i0].pkg)
    BY <1>5 DEF SearchInv, PathReaches
  <2>2. stack[Depth].pkg \in Reachable(Unbroken, stack[1].pkg)
    BY <1>5 DEF SearchInv, PathReaches
  <2> QED BY <1>2, <1>4, <2>1, <2>2 DEF Top
<1>7. CASE k = Depth
  <2>1. e \in OnCycle(Unbroken, start)
    BY <1>1, <1>6 DEF OnCycle
  <2>2. <<F[k].pkg, F[k].possi>> = e[1]
    BY <1>1, <1>4, <1>7
  <2> QED BY <1>3, <2>1, <2>2
<1>8. CASE k # Depth
  <2>1. k \in 1 .. Depth - 1 /\ k + 1 \in 1 .. Depth /\ k + 1 <= Depth
    BY <1>1, <1>5, <1>8
  <2>2. PICK d \in Unbroken : d[1] = <<stack[k].pkg, stack[k].possi>> /\ To(d) = stack[k + 1].pkg
    BY <2>1 DEF SearchInv, PathLinks
  <2>3. From(d) = stack[k].pkg
    BY <2>2 DEF From
  <2>4. From(d) \in Reachable(Unbroken, start)
    BY <1>4, <1>5, <2>3 DEF SearchInv, PathReaches
  <2>5. Top.pkg \in Reachable(Unbroken, To(d))
    BY <1>5, <2>1, <2>2 DEF SearchInv, PathReaches, Top
  <2>6. To(e) \in Reachable(Unbroken, To(d))
    BY <1>1, <1>4, <2>5, ReachesNext
  <2>7. From(d) \in Reachable(Unbroken, To(e))
    BY <1>2, <1>5, <2>3 DEF SearchInv, PathReaches
  <2>8. From(d) \in Reachable(Unbroken, To(d))
    BY <2>6, <2>7, ReachesOn
  <2>9. d \in OnCycle(Unbroken, start)
    BY <2>4, <2>8 DEF OnCycle
  <2> QED BY <1>1, <1>3, <2>1, <2>2, <2>9
<1> QED BY <1>7, <1>8

(* After it the search is over.                                            *)
LEMMA BreakStep ==
    ASSUME SearchInv, stack # <<>>, NEW e \in Top.todo, BreakCycle(e)
    PROVE  SearchInv'
<1>1. cyclebreak' \in SUBSET Possis
  <2>1. PICK d \in Unbroken : cyclebreak' = cyclebreak \cup {d[1]}
    BY BrokenLink DEF OnCycle
  <2> QED BY <2>1, UnbrokenLinks DEF SearchInv, TypeOK
<1>2. stack' = <<>> /\ result' = "true"
  BY DEF BreakCycle
<1>3. TypeOK'
  BY <1>1, <1>2 DEF BreakCycle, SearchInv, TypeOK
<1>4. Depth' = 0
  BY <1>2 DEF Depth
<1> QED
  BY <1>2, <1>3, <1>4 DEF SearchInv, PathLinks, PathReaches, TodoIsOwn, DoneIsBlack,
     AgainFindsItself, OpenIsNotBlack, BlackIsAcyclic, Searching

(* Every step keeps the invariant.                                         *)
LEMMA NextSearch == SearchInv /\ [Next]_vars => SearchInv'
<1> SUFFICES ASSUME SearchInv, [Next]_vars PROVE SearchInv'
  OBVIOUS
<1>1. CASE stack # <<>> /\ \E e \in Top.todo : Descend(e) \/ BreakCycle(e)
  BY <1>1, PassOverStep, FollowStep, BreakStep
<1>2. CASE ReturnFalse
  BY <1>2, ReturnStep
<1>3. CASE \E p \in Pkgs : Call(p)
  BY <1>3, CallStep
<1>4. CASE UNCHANGED vars
  <2>1. /\ Unbroken' = Unbroken /\ Depth' = Depth /\ Black' = Black
        /\ stack' = stack /\ color' = color /\ start' = start /\ result' = result
    BY <1>4 DEF vars, Depth, Unbroken, Leads, Black
  <2>2. \A p : EdgesOf(p)' = EdgesOf(p)
    BY <2>1 DEF EdgesOf
  <2>3. TypeOK'
    BY <1>4 DEF vars, SearchInv, TypeOK
  <2>4. PathLinks' /\ PathReaches' /\ TodoIsOwn' /\ DoneIsBlack'
    BY <2>1, <2>2 DEF SearchInv, PathLinks, PathReaches, TodoIsOwn, DoneIsBlack
  <2>5. AgainFindsItself' /\ OpenIsNotBlack' /\ BlackIsAcyclic' /\ Searching'
    BY <2>1 DEF SearchInv, AgainFindsItself, OpenIsNotBlack, BlackIsAcyclic, Searching
  <2> QED BY <2>3, <2>4, <2>5 DEF SearchInv
<1> QED BY <1>1, <1>2, <1>3, <1>4 DEF Next, Search

(* The invariant holds throughout.                                         *)
THEOREM Invariance == Spec => []SearchInv
BY InitSearch, NextSearch, PTL DEF Spec

-----------------------------------------------------------------------------
(***************************************************************************)
(* The variables of the search keep their types; above all, what is marked *)
(* as broken is always a possibility that some package has.                *)
(***************************************************************************)
THEOREM TypeCorrect == Spec => []TypeOK
<1>1. SearchInv => TypeOK
  BY DEF SearchInv
<1> QED BY <1>1, Invariance, PTL

(***************************************************************************)
(* When findbreakcycle() returns false, there is no cycle among all that   *)
(* the package depends on, however large the graph is and in whatever      *)
(* order the search goes through it.                                       *)
(***************************************************************************)
THEOREM FalseIsRight == Spec => []FalseMeansAcyclic
<1>1. SearchInv => FalseMeansAcyclic
  <2> SUFFICES ASSUME SearchInv, result = "false", NEW e \in OnCycle(Unbroken, start) PROVE FALSE
    BY DEF FalseMeansAcyclic
  <2>1. start \in Black /\ Black \in SUBSET Pkgs
    BY DEF SearchInv, Searching, Black
  <2>2. Closed(Unbroken, Black)
    BY DEF SearchInv, BlackIsAcyclic
  <2>3. Reachable(Unbroken, start) \subseteq Black
    BY <2>1, <2>2, ReachesWithin
  <2> QED BY <2>3 DEF SearchInv, BlackIsAcyclic, OnCycle
<1> QED BY <1>1, Invariance, PTL

(***************************************************************************)
(* findbreakcycle() marks only links of cycles that it can really reach.   *)
(***************************************************************************)
THEOREM BreaksOnlyCycles == Spec => OnlyCyclesAreBroken
<1>1. SearchInv /\ [Next]_vars =>
        [\A l \in cyclebreak' \ cyclebreak : \E e \in OnCycle(Unbroken, start) : e[1] = l]_vars
  <2> SUFFICES ASSUME SearchInv, Next, NEW l \in cyclebreak' \ cyclebreak
               PROVE  \E e \in OnCycle(Unbroken, start) : e[1] = l
    OBVIOUS
  <2>1. PICK e \in Top.todo : stack # <<>> /\ BreakCycle(e)
    BY DEF Next, Search, Descend, ReturnFalse, Call
  <2> QED BY <2>1, BrokenLink
<1> QED BY <1>1, Invariance, PTL DEF Spec, OnlyCyclesAreBroken

(***************************************************************************)
(* Each time findbreakcycle() returns true, it has marked a link that was  *)
(* not marked before: process_queue() cannot go round for ever because of  *)
(* it.                                                                     *)
(***************************************************************************)
THEOREM TrueIsProgress == Spec => TrueMeansProgress
<1>1. SearchInv /\ [Next]_vars =>
        [result' = "true" /\ result # "true" => cyclebreak' # cyclebreak]_vars
  <2> SUFFICES ASSUME SearchInv, Next, result' = "true", result # "true"
               PROVE  cyclebreak' # cyclebreak
    OBVIOUS
  <2>1. PICK e \in Top.todo : stack # <<>> /\ BreakCycle(e)
    BY DEF Next, Search, Descend, ReturnFalse, Call
  <2>2. PICK d \in Unbroken : cyclebreak' = cyclebreak \cup {d[1]}
    BY <2>1, BrokenLink DEF OnCycle
  <2> QED BY <2>2, UnbrokenLinks DEF SearchInv
<1> QED BY <1>1, Invariance, PTL DEF Spec, TrueMeansProgress

=============================================================================
