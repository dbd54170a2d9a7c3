----------------------------- MODULE MC_DepCycle -----------------------------
(* Three packages that depend on one another in every way: b reaches c     *)
(* through a virtual package, and a may depend on itself.                  *)
EXTENDS DepCycle, TLC

CONSTANTS a, b, c, v

MCPkgs  == {a, b, c}
MCNames == {a, b, c, v}

MCMayDepend  == {<<a, a>>, <<a, b>>, <<a, c>>, <<b, a>>, <<b, v>>, <<c, a>>, <<c, b>>}
MCMayProvide == {<<c, v>>}

=============================================================================
