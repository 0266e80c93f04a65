--------------------------- MODULE MCControlPlane ---------------------------
(***************************************************************************)
(* ControlPlane with two files that differ in every field and share a port *)
(* with different limits; one has more ports than port_rules_map holds.    *)
(***************************************************************************)
EXTENDS ControlPlane

MCRuleMaps == {[p \in {80} |-> 1], [p \in {80, 443, 53} |-> 2]}

MCFiles ==
    {[pps |-> 1, blackhole |-> FALSE, auto |-> TRUE, trigger |-> 1,
      cooldown |-> 2, dynamic |-> TRUE, rules |-> [p \in {80} |-> 1]],
     [pps |-> 2, blackhole |-> TRUE, auto |-> FALSE, trigger |-> 2,
      cooldown |-> 1, dynamic |-> FALSE, rules |-> [p \in {80, 443, 53} |-> 2]]}

\* Two files alike but for the limit.
MCPlainFiles ==
    {[f EXCEPT !.pps = n] : f \in {g \in MCFiles : g.auto}, n \in {1, 2}}
=============================================================================
