--------------------------- MODULE MC_TriggerLoop ---------------------------
(* dpkg --configure b, where a awaits the triggers of b and b depends on   *)
(* a, while other packages have pending triggers too.                      *)
EXTENDS ProcessQueue

CONSTANTS a, b, c, d, e, t

MCPkgs == {a, b, c, d, e}
MCRank == (a :> 1) @@ (b :> 2) @@ (c :> 3) @@ (d :> 4) @@ (e :> 5)

Sys ==
    [action |-> "configure", args |-> <<b>>, force |-> {}, ignore |-> {}, triggers |-> TRUE,
     depends |-> [p \in MCPkgs |-> IF p = b THEN <<<<a>>>> ELSE <<>>], provides |-> {}, wrong |-> {},
     breaks |-> {}, held |-> {}, reinstreq |-> {}, conffiles |-> MCPkgs, essential |-> {},
     interest |-> (t :> MCPkgs \ {a}), noawait |-> {},
     activates |-> [p \in MCPkgs |-> {}], scripts |-> [p \in MCPkgs |-> {}]]

LoopWorlds ==
    {[sys |-> Sys,
      db  |-> [p \in MCPkgs |->
                  [status   |-> IF p = a THEN TRIGGERSAWAITED
                                ELSE IF p \in S THEN TRIGGERSPENDING ELSE INSTALLED,
                   trigpend |-> IF p \in S THEN {t} ELSE {},
                   trigaw   |-> IF p = a THEN {b} ELSE {}]]] :
        S \in {{b} \cup T : T \in SUBSET {c, d, e}}}

=============================================================================
