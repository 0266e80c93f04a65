----------------------------- MODULE MCBanTable -----------------------------
(***************************************************************************)
(* BanTable with an IPv4 source and the IPv6 one that maps it.             *)
(***************************************************************************)
EXTENDS BanTable

CONSTANTS v4, mapped

MCNamed == [s \in Src |-> IF s = mapped THEN v4 ELSE s]
=============================================================================
