----------------------------- MODULE MCXdpBudget -----------------------------
(***************************************************************************)
(* XdpBudget with limits of two and, after a reload, one: four sources, or *)
(* frames, are one more than a second takes on one CPU.                    *)
(***************************************************************************)
EXTENDS XdpBudget, TLC

MCLow32 == [s \in Src \cup {NoSrc} |-> s]

MCPackets ==
    [src : Src, len : {1}, l3 : {"ip"}, l4 : {"other"},
     l4ok : {TRUE}, flags : {"plain"}, dst : {1}, sport : {0}, dport : {0}]

MCConfigs ==
    [pps : {1, 2}, syn : {0}, udp : {0}, icmp : {0}, new_src : {2},
     flow_pps : {0}, flow_bps : {0}, ban_duration : {0},
     blackhole : {FALSE}, geoip_enabled : {FALSE},
     port_scan_det : {FALSE}, amp_det : {FALSE}]

MCPortRules == {EmptyMap}

MCCost == [p \in MCPackets |-> 1]

Symmetric == Permutations(Src) \cup Permutations(CPU)
=============================================================================
