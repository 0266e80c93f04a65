---------------------------- MODULE MCXdpLoader ----------------------------
(***************************************************************************)
(* XdpLoader on a host with two interfaces.                                *)
(***************************************************************************)
EXTENDS XdpLoader

MCInterfaces == <<"eth0", "eth1">>
=============================================================================
