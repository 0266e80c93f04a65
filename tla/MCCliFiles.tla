----------------------------- MODULE MCCliFiles -----------------------------
(***************************************************************************)
(* CliFiles with two addresses, the one 1.2.3.4 and the other 11.2.3.4,    *)
(* which is the first once its first byte is overwritten.                  *)
(***************************************************************************)
EXTENDS CliFiles, TLC

CONSTANTS a, longA, keyA, keyB, admin, peer

MCKey == a :> keyA @@ longA :> keyB
MCYamlFiles == {<<Settings, KeyLine>>, <<Settings>>}
MCHandFiles == {<<>>, <<longA>>}
MCParts == [l \in Lines |-> IF l = longA THEN {a, Torn} ELSE {Torn}]

Symmetric == Permutations(Proc)
=============================================================================
