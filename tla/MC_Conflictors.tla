--------------------------- MODULE MC_Conflictors ---------------------------
(* dpkg --install a.deb b.deb: a conflicts with c and replaces it, b with  *)
(* nothing.                                                                *)
EXTENDS Unpack

MCPackages == {"a", "b", "c"}

Conflict == [up |-> "a", type |-> "conflicts",
             list |-> <<[on |-> "c", inst |-> TRUE, avail |-> TRUE]>>]

MCWorlds ==
    {[archives |-> <<[pkg |-> "a", depends |-> <<Conflict>>, provides |-> {}],
                     [pkg |-> "b", depends |-> <<>>, provides |-> {}]>>,
      depends |-> <<>>, provides |-> [p \in MCPackages |-> <<>>],
      status |-> [p \in MCPackages |-> s[p]],
      unwanted |-> {}, replaces |-> {<<"a", "c">>}, essential |-> {}, protected |-> {},
      held |-> {}, newimportant |-> {}, force |-> {}, autodeconf |-> TRUE,
      siblings |-> {}, swallows |-> {}, neverconfigured |-> {}, conffiles |-> {}] :
        s \in {[a |-> NOTINSTALLED, b |-> INSTALLED, c |-> INSTALLED],
               [a |-> INSTALLED, b |-> INSTALLED, c |-> INSTALLED]}}
=============================================================================
