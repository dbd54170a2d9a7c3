--------------------------- MODULE MC_Essential ----------------------------
(* dpkg --install a.deb: a conflicts with b and replaces it, b is          *)
(* essential or protected, and no force option is given.                   *)
EXTENDS Unpack

MCPackages == {"a", "b"}

Conflict == [up |-> "a", type |-> "conflicts",
             list |-> <<[on |-> "b", inst |-> TRUE, avail |-> TRUE]>>]

MCWorlds ==
    {[archives |-> <<[pkg |-> "a", depends |-> <<Conflict>>, provides |-> {}]>>,
      depends |-> <<>>, provides |-> [p \in MCPackages |-> <<>>],
      status |-> [a |-> s, b |-> INSTALLED],
      unwanted |-> {}, replaces |-> {<<"a", "b">>}, essential |-> e, protected |-> {"b"} \ e,
      held |-> {}, newimportant |-> {}, force |-> {}, autodeconf |-> TRUE,
      siblings |-> {}, swallows |-> {}, neverconfigured |-> {}, conffiles |-> {}] :
        s \in {NOTINSTALLED, INSTALLED}, e \in SUBSET {"b"}}
=============================================================================
