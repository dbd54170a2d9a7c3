-------------------------- MODULE MC_ProcessQueue --------------------------
EXTENDS ProcessQueue

CONSTANTS a, b, c, v, t, u

MCPkgs  == {a, b, c}
MCNames == {a, b, c, v}
MCRank  == (a :> 1) @@ (b :> 2) @@ (c :> 3)

Nothing == [p \in MCPkgs |-> {}]
Plain(s) == [status |-> s, trigpend |-> {}, trigaw |-> {}]

Base ==
    [action |-> "configure", args |-> <<a, b, c>>, force |-> {}, ignore |-> {}, triggers |-> TRUE,
     depends |-> [p \in MCPkgs |-> <<>>], provides |-> {}, wrong |-> {}, breaks |-> {},
     held |-> {}, reinstreq |-> {}, conffiles |-> MCPkgs, essential |-> {},
     interest |-> [x \in Trigs |-> {}], noawait |-> {}, activates |-> Nothing, scripts |-> Nothing]

(* No dependency, one, one of two, two.                                    *)
Fields(x, y) == {<<>>, <<<<x>>>>, <<<<y>>>>, <<<<x, y>>>>, <<<<x>>, <<y>>>>}

DependsOf(A, B, C) ==
    {(a :> A1) @@ (b :> B1) @@ (c :> C1) : A1 \in A, B1 \in B, C1 \in C}

(* dpkg --configure of packages with any dependencies on one another, one  *)
(* of which may be configured already, missing, or not mentioned.          *)
Command == [args |-> <<a, b>>, force |-> {}, wrong |-> {}, c |-> INSTALLED]

Commands ==
    {[Command EXCEPT !.args = <<a, b, c>>, !.c = UNPACKED],
     [Command EXCEPT !.args = <<a, b, c>>],
     [Command EXCEPT !.c = NOTINSTALLED],
     Command,
     [Command EXCEPT !.c = UNPACKED],
     [Command EXCEPT !.c = UNPACKED, !.force = {"configure-any"}],
     [Command EXCEPT !.c = NOTINSTALLED, !.force = {"depends"}],
     [Command EXCEPT !.wrong = {<<a, b, b>>, <<b, c, c>>}, !.force = {"depends-version"}]}

ConfigureWorlds ==
    {[sys |-> [Base EXCEPT !.depends = d, !.args = x.args, !.force = x.force, !.wrong = x.wrong,
                           !.provides = pr],
      db  |-> (a :> Plain(UNPACKED)) @@ (b :> Plain(UNPACKED)) @@ (c :> Plain(x.c))] :
        d \in DependsOf(Fields(b, v), Fields(a, c), Fields(a, b)),
        x \in Commands,
        pr \in {{}, {<<c, v>>}}}

(* Packages that are held, ignored, broken, to be reinstalled or gone.     *)
OddWorlds ==
    {[sys |-> [Base EXCEPT !.depends = d, !.args = <<a, b>>, !.action = x[1], !.force = x[2],
                           !.held = x[3], !.ignore = x[4], !.breaks = x[5], !.reinstreq = x[6]],
      db  |-> (a :> Plain(UNPACKED)) @@ (b :> Plain(y[1])) @@ (c :> Plain(y[2]))] :
        d \in DependsOf(Fields(b, c), Fields(a, c), {<<>>, <<<<a>>>>}),
        x \in {<<"configure", {"configure-any"}, {c}, {}, {}, {}>>,
               <<"configure", {}, {}, {c}, {}, {}>>,
               <<"configure", {}, {}, {}, {<<b, a>>, <<c, b>>}, {}>>,
               <<"install", {}, {}, {}, {}, {b}>>},
        y \in {<<UNPACKED, UNPACKED>>, <<NOTINSTALLED, INSTALLED>>, <<HALFCONFIGURED, UNPACKED>>}}

AllConfigureWorlds == ConfigureWorlds \cup OddWorlds

(* dpkg --configure and --triggers-only when b is interested in trigger t  *)
(* and c in trigger u, and maintainer scripts activate them.  Unless told  *)
(* otherwise --triggers-only does not process what it makes pending.       *)
TriggerSys ==
    {[Base EXCEPT !.action = x.action, !.args = x.args, !.triggers = (x.action = "configure"),
                  !.depends = d,
                  !.interest = (t :> {b}) @@ (u :> {c}),
                  !.scripts = (a :> {t}) @@ (b :> sb) @@ (c :> sc)] :
        x \in {[action |-> "configure", args |-> <<a>>],
               [action |-> "configure", args |-> <<a, b, c>>],
               [action |-> "triggers", args |-> <<b, c>>]},
        d \in DependsOf({<<>>, <<<<b>>>>}, {<<>>, <<<<a>>>>, <<<<c>>>>}, {<<>>, <<<<a>>>>, <<<<b>>>>}),
        sb \in {{}, {u}},
        sc \in {{}, {t}}}

TriggerDb ==
    {d \in [MCPkgs -> [status : {UNPACKED, TRIGGERSAWAITED, TRIGGERSPENDING, INSTALLED},
                       trigpend : SUBSET {t, u}, trigaw : {{}, {b}, {c}}]] :
        /\ \A p \in MCPkgs :
              /\ d[p].trigpend \subseteq (IF p = b THEN {t} ELSE IF p = c THEN {u} ELSE {})
              /\ d[p].status = UNPACKED => d[p].trigpend = {} /\ d[p].trigaw = {}
              /\ d[p].status > UNPACKED =>
                    d[p].status = IF d[p].trigaw # {} THEN TRIGGERSAWAITED
                                  ELSE IF d[p].trigpend # {} THEN TRIGGERSPENDING
                                  ELSE INSTALLED
              /\ \A q \in d[p].trigaw : d[q].trigpend # {}}

TriggerWorlds == [sys : TriggerSys, db : TriggerDb]

(* dpkg --remove and --purge.                                              *)
RemoveWorlds ==
    {[sys |-> [Base EXCEPT !.depends = d, !.action = x[1], !.args = x[2], !.essential = x[3],
                           !.conffiles = x[4], !.reinstreq = x[5], !.provides = x[6],
                           !.interest = (t :> {c}) @@ (u :> {}), !.activates = (a :> {t}) @@ (b :> {}) @@ (c :> {})],
      db  |-> (a :> Plain(INSTALLED)) @@ (b :> Plain(x[7])) @@ (c :> Plain(INSTALLED))] :
        d \in DependsOf(Fields(b, v), Fields(a, c), Fields(a, b)),
        x \in {<<"remove", <<a>>, {}, {a}, {}, {<<c, v>>}, INSTALLED>>,
               <<"remove", <<a, b>>, {}, {a}, {}, {<<c, v>>}, INSTALLED>>,
               <<"remove", <<a, b, c>>, {}, {}, {}, {<<c, v>>, <<b, v>>}, INSTALLED>>,
               <<"purge", <<a, b>>, {}, {a, b}, {}, {}, CONFIGFILES>>,
               <<"remove", <<a, b>>, {a}, {}, {b}, {<<c, v>>}, HALFCONFIGURED>>,
               <<"remove", <<b, a>>, {}, {}, {}, {<<b, v>>}, CONFIGFILES>>}}

(* All of these commands.                                                  *)
AllWorlds == AllConfigureWorlds \cup TriggerWorlds \cup RemoveWorlds

(* Of all these, commands on packages that depend on one another or whose  *)
(* scripts activate triggers of one another, where a run could go on and   *)
(* on.                                                                     *)
LoopWorlds ==
    {w \in ConfigureWorlds :
        w.sys.depends[a] # <<>> /\ w.sys.depends[b] = <<<<a>>, <<c>>>> /\ w.sys.depends[c] = <<<<a>>>>}
    \cup {w \in TriggerWorlds :
            /\ w.sys.scripts[b] = {u} /\ w.sys.scripts[c] = {t} /\ w.db[a].status = UNPACKED
            /\ w.sys.depends[a] = <<>> /\ w.sys.depends[b] = <<>>}
    \cup {w \in RemoveWorlds : w.sys.depends[a] = <<<<b>>>> /\ w.sys.depends[b] = <<<<a>>, <<c>>>>}

=============================================================================
