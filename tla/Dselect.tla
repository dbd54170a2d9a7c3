------------------------------- MODULE Dselect -------------------------------
(***************************************************************************)
(* The package list of dselect and its dependency resolution               *)
(* (dselect/pkgdepcon.cc, pkgsublist.cc, pkgcmds.cc, pkglist.cc).  Every   *)
(* change of a selection opens a recursive list of the packages concerned, *)
(* resolvesuggest() goes around that list until nothing changes, the user  *)
(* looks at the result and may change it, and so on until nothing is left  *)
(* to complain about or the user insists.                                  *)
(*                                                                         *)
(* A world gives each package its status, its installed and available      *)
(* versions (0: none) and its priority, and the relations: a relation      *)
(* belongs to the installed ("old") or the available ("new") package.      *)
(***************************************************************************)
EXTENDS Naturals, Integers, Sequences, FiniteSets, SequencesExt

CONSTANTS
    DsWorlds,   \* the databases
    MaxKeys     \* keys the user presses

VARIABLES
    w,          \* the database
    top,        \* package -> selected in the main list
    sub,        \* the recursive list
    loop,       \* resolvesuggest(): index, what is left to resolve there,
                \* changemade, maxchangemade
    dspc,       \* "top", "resolve", "shown", "saved"
    asked,      \* the least priority shown, first call?, manual_install, after
    insisted,   \* the user has left a list without the check
    keys        \* keys pressed

dsvars == <<w, top, sub, loop, dspc, asked, insisted, keys>>

\* Clientdata: a pure virtual package has none.
Real(p) == p \in DOMAIN w.status
Reals == DOMAIN w.status

\* enum selpriority and showpriority
sp_inherit == 0
sp_selecting == 1
sp_deselecting == 2
sp_fixed == 3
dp_none == 0
dp_may == 1
dp_should == 2
dp_must == 3

Larger(a, b) == IF a > b THEN a ELSE b

-----------------------------------------------------------------------------
(* Questions about the current selections s (package -> its entry). *)

would_like_to_install(want, p) ==
    CASE want = "install" -> 1
      [] want # "install" /\ want # "hold" -> 0
      [] want = "hold" /\ w.status[p] = "installed" -> 1
      [] want = "hold" /\ w.status[p] \in {"notinstalled", "configfiles"} -> 0
      [] OTHER -> -1

Would(s, p) == IF Real(p) THEN would_like_to_install(s[p].selected, p) ELSE 0

useavailable(s, p) ==
    /\ Real(p) /\ s[p].selected = "install" /\ w.new[p] > 0
    /\ w.status[p] # "installed" \/ w.new[p] > w.old[p]

find_pkgbin(s, p) == IF useavailable(s, p) THEN "new" ELSE "old"

Relations(p, bin) == SelectSeq(w.deps, LAMBDA d : d.up = p /\ d.bin = bin)
Current(s, p) == Relations(p, find_pkgbin(s, p))
\* depended.available and depended.installed of a name.
Depended(name, bin) ==
    SelectSeq(w.deps, LAMBDA d : /\ d.bin = bin
                                 /\ \E i \in DOMAIN d.list : d.list[i].ed = name)
Providers(name, bin) == SelectSeq(Depended(name, bin), LAMBDA d : d.type = "provides")

Negative(d) == d.type \in {"conflicts", "breaks"}
versionsatisfied(v, possi) == v >= possi.need
\* pkg_virtual_deppossi_satisfied(): the provides here have no version.
VirtualSatisfied(possi) == possi.need = 0

\* deppossatisfied().  For a conflict, satisfied means violated.
Self(d, possi) == Negative(d) /\ d.up = possi.ed
Decided(s, d, possi) ==
    /\ Real(possi.ed)
    /\ IF Negative(d) THEN ~Self(d, possi) /\ Would(s, possi.ed) # 0
                      ELSE Would(s, possi.ed) > 0
ProvidesIt(s, d, possi, bin) ==
    \E i \in DOMAIN Providers(possi.ed, bin) :
        LET p == Providers(possi.ed, bin)[i].up
        IN /\ ~(Negative(d) /\ p = d.up)
           /\ Would(s, p) # 0 /\ VirtualSatisfied(possi)
           /\ (bin = "new") = useavailable(s, p)

deppossatisfied(s, d, possi) ==
    IF Decided(s, d, possi)
      THEN versionsatisfied(IF useavailable(s, possi.ed) THEN w.new[possi.ed]
                            ELSE w.old[possi.ed], possi)
      ELSE \E bin \in {"old", "new"} : ProvidesIt(s, d, possi, bin)

\* A package on hold whose available version would do; the code compares the
\* versions with "> 1", which is not every later version: jump says which.
Upgradable(s, d, possi) ==
    IF Decided(s, d, possi)
      THEN IF /\ s[possi.ed].selected = "hold" /\ possi.ed \in w.jump
              /\ versionsatisfied(w.new[possi.ed], possi)
             THEN <<possi.ed>> ELSE <<>>
      ELSE SelectSeq([j \in DOMAIN Providers(possi.ed, "new") |->
                         Providers(possi.ed, "new")[j].up],
                     LAMBDA p : /\ Would(s, p) # 0 /\ VirtualSatisfied(possi)
                                /\ ~useavailable(s, p)
                                /\ w.status[p] # "installed" \/ p \in w.jump)
fixbyupgrade(s, d) ==
    FlattenSeq([i \in DOMAIN d.list |-> Upgradable(s, d, d.list[i])])

Satisfied(s, d) == \E i \in DOMAIN d.list : deppossatisfied(s, d, d.list[i])

-----------------------------------------------------------------------------
(* pkgsublist.cc: the recursive list grows.  A list is [tab, st, done]:    *)
(* its packages in order, the entries of all packages, depsdone.           *)

Entry(want) == [original |-> want, direct |-> want, suggested |-> want,
                selected |-> want, sp |-> sp_inherit, dp |-> dp_none,
                inlist |-> TRUE]
TopEntry(want) == [Entry(want) EXCEPT !.sp = sp_fixed, !.dp = dp_must,
                                      !.inlist = FALSE]
NewList == [tab |-> <<>>, st |-> [p \in Reals |-> TopEntry(top[p])], done |-> {}]

add(l, p) ==
    IF ~Real(p) \/ (Real(p) /\ l.st[p].inlist) THEN l
    ELSE [l EXCEPT !.tab = Append(@, p), !.st[p] = Entry(@.selected)]

add_want(l, p, nw) ==
    LET added == add(l, p)
        np == IF would_like_to_install(nw, p) # 0 THEN sp_selecting ELSE sp_deselecting
    IN IF added.st[p].sp > np THEN [added EXCEPT !.st[p].direct = nw]
       ELSE [added EXCEPT !.st[p].direct = nw, !.st[p].suggested = nw,
                      !.st[p].selected = nw, !.st[p].sp = np]

\* add(dependency): everyone it concerns joins the list, in this order, those
\* who provide what it names too; a dependency and its provides are listed
\* once.
Concerned(d) ==
    <<d.up>> \o FlattenSeq([i \in DOMAIN d.list |->
        <<d.list[i].ed>> \o [j \in DOMAIN Providers(d.list[i].ed, "new") |->
                              Providers(d.list[i].ed, "new")[j].up]])
Listed(tab, l, c) ==
    FoldLeft(LAMBDA t, p : IF Real(p) /\ ~l.st[p].inlist /\ ~Contains(t, p)
                             THEN Append(t, p) ELSE t, tab, c)
Raised(l, c, imp) ==
    [p \in Reals |->
       IF ~Contains(c, p) THEN l.st[p]
       ELSE [(IF l.st[p].inlist THEN l.st[p] ELSE Entry(l.st[p].selected))
               EXCEPT !.dp = Larger(@, imp)]]
add_dep(l, d, imp) ==
    IF d \in l.done THEN [l |-> l, rc |-> 0]
    ELSE [l |-> [tab |-> Listed(l.tab, l, Concerned(d)),
                 st |-> Raised(l, Concerned(d), imp),
                 done |-> l.done \cup {d} \cup
                    UNION {ToSet(Providers(d.list[i].ed, "new")) : i \in DOMAIN d.list}],
          rc |-> 1]

-----------------------------------------------------------------------------
(* pkgdepcon.cc *)

Choose(l, p, want, sp) ==
    [l EXCEPT !.st[p].suggested = want, !.st[p].selected = want, !.st[p].sp = sp]
Off(p) == IF w.status[p] = "notinstalled" THEN "purge" ELSE "deinstall"

\* dep_update_best_to_change_stop() over the candidates, in order.
Nobody == "(nobody)"
Better(l, p, b) ==
    \/ b = Nobody
    \/ b # Nobody /\ w.new[p] > 0 /\ w.new[b] = 0
    \/ /\ b # Nobody /\ ~(w.new[p] = 0 /\ w.new[b] > 0)
       /\ \/ l.st[p].sp < l.st[b].sp
          \/ l.st[p].sp = l.st[b].sp /\ w.prio[p] < w.prio[b]
Candidates(d) == Tail(Concerned(d))
dep_update_best_to_change_stop(l, d) ==
    FoldLeft(LAMBDA acc, p :
               IF acc.stop \/ ~Real(p) THEN acc
               ELSE IF l.st[p].sp = sp_deselecting THEN [acc EXCEPT !.stop = TRUE]
               ELSE IF Better(l, p, acc.best) THEN [acc EXCEPT !.best = p]
               ELSE acc,
             [best |-> Nobody, stop |-> FALSE], Candidates(d))

\* The package is to be selected, unless that was settled already.
select_best_fault(l, d, best, rc) ==
    IF d.type = "recommends" /\ ~asked.manual
      THEN [l |-> l, rc |-> IF rc = 1 THEN 2 ELSE 0]
      ELSE [l |-> Choose(l, best, "install", sp_selecting), rc |-> 2]

select_best(l, d, best, rc) ==
    IF l.st[best].sp >= sp_selecting THEN [l |-> l, rc |-> rc]
    ELSE [l |-> IF d.type # "recommends" \/ asked.manual
                  THEN Choose(l, best, "install", sp_selecting) ELSE l,
          rc |-> IF rc = 1 THEN 2 ELSE 0]

mustdeselect(l, d, rc) ==
    IF l.st[d.up].sp >= sp_deselecting THEN [l |-> l, rc |-> rc]
    ELSE [l |-> IF d.type # "recommends"
                  THEN Choose(l, d.up, Off(d.up), sp_deselecting) ELSE l,
          rc |-> IF rc = 1 THEN 2 ELSE 0]

deselect_one_of(l, er, ed, d) ==
    IF Would(l.st, er) = 0 \/ Would(l.st, ed) = 0 THEN [l |-> l, rc |-> 0]
    ELSE LET added == add_dep(l, d, dp_must).l
             best == CASE er \in w.reinstreq -> ed
                       [] er \notin w.reinstreq /\ ed \in w.reinstreq -> er
                       [] OTHER ->
                            IF added.st[er].sp # added.st[ed].sp
                              THEN IF added.st[er].sp > added.st[ed].sp THEN ed ELSE er
                              ELSE IF w.prio[er] > w.prio[ed] THEN er ELSE ed
         IN IF added.st[best].sp >= sp_deselecting THEN [l |-> added, rc |-> 0]
            ELSE [l |-> Choose(added, best, Off(best), sp_deselecting), rc |-> 2]

importance(d) == CASE d.type \in {"suggests", "enhances"} -> dp_may
                   [] d.type = "recommends" -> dp_should
                   [] OTHER -> dp_must

\* What follows once the dependency is in the list.
ActOn(added, d, fix) ==
    LET cand == dep_update_best_to_change_stop(added.l, d)
    IN CASE importance(d) = dp_may -> added
         [] importance(d) # dp_may /\ fix # <<>> ->
              select_best(added.l, d, Head(fix), added.rc)
         [] importance(d) # dp_may /\ fix = <<>> ->
              IF cand.stop THEN mustdeselect(added.l, d, added.rc)
              ELSE IF cand.best = Nobody THEN added
              ELSE select_best(added.l, d, cand.best, added.rc)

resolve_positive(l, d) ==
    IF Would(l.st, d.up) <= 0 \/ Satisfied(l.st, d) THEN [l |-> l, rc |-> 0]
    ELSE ActOn(add_dep(l, d, importance(d)), d, fixbyupgrade(l.st, d))

\* The conflictor itself, then those who provide it, until one gives way.
resolve_negative(l, d) ==
    LET name == d.list[1].ed
        others == SelectSeq(<<name>> \o [j \in DOMAIN Providers(name, "new") |->
                                            Providers(name, "new")[j].up],
                            LAMBDA p : p # d.up /\ Real(p))
    IN IF Would(l.st, d.up) = 0 \/ ~deppossatisfied(l.st, d, d.list[1])
         THEN [l |-> l, rc |-> 0]
         ELSE FoldLeft(LAMBDA acc, p : IF acc.rc # 0 THEN acc
                                       ELSE deselect_one_of(acc.l, d.up, p, d),
                       [l |-> l, rc |-> 0], others)

resolvedepcon(l, d) ==
    CASE ~Real(d.up) \/ d.type \in {"provides", "replaces"} -> [l |-> l, rc |-> 0]
      [] Real(d.up) /\ Negative(d) -> resolve_negative(l, d)
      [] OTHER -> resolve_positive(l, d)

\* checkdependers(): who depends on a name, the available packages first; each
\* counts if that is the version in use when its turn comes.
Dependers(name) ==
    [i \in DOMAIN Depended(name, "new") |->
        [dep |-> Depended(name, "new")[i], use |-> {TRUE}]] \o
    [i \in DOMAIN Depended(name, "old") |->
        [dep |-> Depended(name, "old")[i], use |-> {FALSE}]]

\* The loop of resolvesuggest() at one entry: its own relations, those who
\* depend on it, those who depend on what it then provides.
Visiting == dspc = "resolve" /\ loop.index <= Len(sub.tab)

checkdependers ==
    /\ Visiting /\ loop.todo = <<>> /\ loop.stage = 1
    /\ LET p == sub.tab[loop.index]
           own == Current(sub.st, p)
       IN loop' = [loop EXCEPT !.stage = 2, !.todo =
             [i \in DOMAIN own |-> [dep |-> own[i], use |-> BOOLEAN]] \o Dependers(p)]
    /\ UNCHANGED <<w, top, sub, dspc, asked, insisted, keys>>

checkdependers_provided ==
    /\ Visiting /\ loop.todo = <<>> /\ loop.stage = 2
    /\ LET provs == SelectSeq(Current(sub.st, sub.tab[loop.index]),
                              LAMBDA d : d.type = "provides")
       IN loop' = [loop EXCEPT !.stage = 3, !.todo =
             FlattenSeq([i \in DOMAIN provs |-> Dependers(provs[i].list[1].ed)])]
    /\ UNCHANGED <<w, top, sub, dspc, asked, insisted, keys>>

resolvesuggest ==
    /\ Visiting /\ loop.todo # <<>>
    /\ LET now == Head(loop.todo)
       IN \E r \in {IF useavailable(sub.st, now.dep.up) \in now.use
                      THEN resolvedepcon(sub, now.dep) ELSE [l |-> sub, rc |-> 0]} :
             /\ sub' = r.l
             /\ loop' = [loop EXCEPT !.todo = Tail(@), !.change = Larger(@, r.rc)]
    /\ UNCHANGED <<w, top, dspc, asked, insisted, keys>>

resolvesuggest_next ==
    /\ Visiting /\ loop.todo = <<>> /\ loop.stage = 3
    /\ loop' = [loop EXCEPT !.index = @ + 1, !.stage = 1]
    /\ UNCHANGED <<w, top, sub, dspc, asked, insisted, keys>>

FreshLoop == [index |-> 1, stage |-> 1, todo |-> <<>>, change |-> 0, max |-> 0]

resolvesuggest_again ==
    /\ dspc = "resolve" /\ loop.index > Len(sub.tab) /\ loop.change # 0
    /\ loop' = [FreshLoop EXCEPT !.max = Larger(loop.max, loop.change)]
    /\ UNCHANGED <<w, top, sub, dspc, asked, insisted, keys>>

-----------------------------------------------------------------------------
(* repeatedlydisplay() *)

\* perpackagestate::free(): an entry's selection goes to the list above.
Freed(l, S) == [p \in Reals |-> IF p \in S /\ l.st[p].inlist
                                  THEN l.st[p].selected ELSE top[p]]
StartLoop == loop' = FreshLoop

\* The sublist is deleted.
Close ==
    /\ top' = Freed(sub, ToSet(sub.tab))
    /\ sub' = [sub EXCEPT !.tab = <<>>]
    /\ dspc' = asked.after

\* deletelessimp_anyleft()
Left(than) == SelectSeq(sub.tab, LAMBDA p : sub.st[p].dp >= than)

resolvesuggest_done ==
    /\ dspc = "resolve" /\ loop.index > Len(sub.tab) /\ loop.change = 0
    /\ LET show == loop.max > (IF asked.first THEN 0 ELSE 1)
           left == Left(asked.than)
       IN IF show /\ left # <<>>
            THEN /\ top' = Freed(sub, ToSet(sub.tab) \ ToSet(left))
                 /\ sub' = [sub EXCEPT !.tab = left]
                 /\ dspc' = "shown" /\ asked' = [asked EXCEPT !.manual = FALSE]
            ELSE Close /\ asked' = [asked EXCEPT !.manual = FALSE]
    /\ UNCHANGED <<w, loop, insisted, keys>>

\* The user's own changes in the list are taken as they are.
quit_check_fault ==
    /\ dspc = "shown"
    /\ Close
    /\ UNCHANGED <<w, loop, asked, insisted, keys>>

\* Return: the packages of the list are checked once more in a new one.
quit_check ==
    /\ dspc = "shown"
    /\ LET sel == Freed(sub, ToSet(sub.tab))
           clean == [tab |-> <<>>, st |-> [p \in Reals |-> TopEntry(sel[p])], done |-> {}]
       IN /\ top' = sel
          /\ sub' = FoldLeft(add, clean, sub.tab)
    /\ asked' = [asked EXCEPT !.than = dp_must, !.first = FALSE]
    /\ dspc' = "resolve" /\ StartLoop
    /\ UNCHANGED <<w, insisted, keys>>

\* The user insists, or takes everything back and leaves.
quit_nocheck ==
    /\ dspc = "shown"
    /\ Close /\ insisted' = TRUE
    /\ UNCHANGED <<w, loop, asked, keys>>

quit_nocheck_top ==
    /\ dspc = "top"
    /\ dspc' = "saved" /\ insisted' = TRUE
    /\ UNCHANGED <<w, top, sub, loop, asked, keys>>

quit_reverted(field) ==
    /\ dspc = "shown"
    /\ top' = [p \in Reals |-> IF Contains(sub.tab, p) THEN sub.st[p][field] ELSE top[p]]
    /\ sub' = [sub EXCEPT !.tab = <<>>] /\ dspc' = asked.after
    /\ insisted' = TRUE
    /\ UNCHANGED <<w, loop, asked, keys>>

-----------------------------------------------------------------------------
(* Keys. *)

reallywant(nw, p) ==
    IF nw # "unhold" THEN nw
    ELSE CASE w.status[p] = "notinstalled" -> "purge"
           [] w.status[p] = "configfiles" -> "deinstall"
           [] OTHER -> "install"

Key == keys < MaxKeys /\ keys' = keys + 1

\* setwant() in the main list; kd_select() sets manual_install around it.
setwant(p, nwarg) ==
    /\ dspc = "top" /\ Key
    /\ LET nw == reallywant(nwarg, p)
       IN /\ top[p] # nw /\ ~(top[p] = "purge" /\ nw = "deinstall")
          /\ sub' = add_want(NewList, p, nw)
    /\ asked' = [than |-> dp_may, first |-> TRUE, manual |-> nwarg = "install",
                 after |-> "top"]
    /\ dspc' = "resolve" /\ StartLoop
    /\ UNCHANGED <<w, top, insisted>>

\* setwant() and kd_revert...() in a recursive list.
setwant_recursive(p, nwarg) ==
    /\ dspc = "shown" /\ Key
    /\ Contains(sub.tab, p)
    /\ sub' = [sub EXCEPT !.st[p].selected = reallywant(nwarg, p)]
    /\ UNCHANGED <<w, top, loop, dspc, asked, insisted>>

kd_revert(field) ==
    /\ dspc = "shown" /\ Key
    /\ sub' = [sub EXCEPT !.st = [p \in Reals |->
                 IF Contains(sub.tab, p) THEN [@[p] EXCEPT !.selected = sub.st[p][field]]
                 ELSE @[p]]]
    /\ UNCHANGED <<w, top, loop, dspc, asked, insisted>>

kd_revertinstalled ==
    /\ dspc = "shown" /\ Key
    /\ sub' = [sub EXCEPT !.st = [p \in Reals |->
                 IF Contains(sub.tab, p) THEN [@[p] EXCEPT !.selected = reallywant("unhold", p)]
                 ELSE @[p]]]
    /\ UNCHANGED <<w, top, loop, dspc, asked, insisted>>

\* In the main list every entry goes back to what the database said.
kd_revert_top ==
    /\ dspc = "top" /\ Key
    /\ \/ top' = w.want
       \/ top' = [p \in Reals |-> reallywant("unhold", p)]
    /\ UNCHANGED <<w, sub, loop, dspc, asked, insisted>>

\* Return in the main list: everything is checked.
display_quit ==
    /\ dspc = "top"
    /\ sub' = FoldLeft(add, NewList, SetToSeq(Reals))
    /\ asked' = [than |-> dp_must, first |-> TRUE, manual |-> FALSE, after |-> "saved"]
    /\ insisted' = FALSE
    /\ dspc' = "resolve" /\ StartLoop
    /\ UNCHANGED <<w, top, keys>>

-----------------------------------------------------------------------------
DsInit ==
    /\ w \in DsWorlds
    /\ top = w.want
    /\ sub = [tab |-> <<>>, st |-> [p \in Reals |-> TopEntry(w.want[p])], done |-> {}]
    /\ loop = FreshLoop
    /\ dspc = "top" /\ insisted = FALSE /\ keys = 0
    /\ asked = [than |-> dp_may, first |-> TRUE, manual |-> FALSE, after |-> "top"]

Resolver == \/ checkdependers \/ checkdependers_provided \/ resolvesuggest
            \/ resolvesuggest_next \/ resolvesuggest_again \/ resolvesuggest_done

DsNext ==
    \/ Resolver
    \/ quit_check \/ quit_nocheck \/ quit_nocheck_top \/ display_quit
    \/ \E p \in Reals, nw \in {"install", "hold", "deinstall", "purge", "unhold"} :
          setwant(p, nw) \/ setwant_recursive(p, nw)
    \/ \E f \in {"original", "direct"} : quit_reverted(f)
    \/ \E f \in {"original", "direct", "suggested"} : kd_revert(f)
    \/ kd_revertinstalled \/ kd_revert_top

DsFairness == WF_dsvars(Resolver)
DsSpec == DsInit /\ [][DsNext]_dsvars /\ DsFairness

-----------------------------------------------------------------------------
\* dselect leaves its main list with a selection whose dependencies hold
\* (pkgsublist.cc:210-245, pkglist.cc:697-709), unless the user insisted:
\* what a package to be installed depends on will be there or is nowhere to
\* be had, and no two packages that conflict are both wanted.  The last
\* check is of the packages of the last list only, and a result of 1 is
\* taken for "nothing but suggestions".
SavedIsConsistent ==
    (dspc = "saved" /\ ~insisted) =>
        LET s == [p \in Reals |-> TopEntry(top[p])]
        IN \A i \in DOMAIN w.deps :
             LET d == w.deps[i]
             IN Real(d.up) /\ d.bin = find_pkgbin(s, d.up) =>
                 /\ (d.type = "depends" /\ Would(s, d.up) > 0) =>
                       \/ Satisfied(s, d)
                       \/ \A j \in DOMAIN Candidates(d) :
                             ~Real(Candidates(d)[j])
                 /\ (Negative(d) /\ Would(s, d.up) > 0) => ~Satisfied(s, d)

=============================================================================
