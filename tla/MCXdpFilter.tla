----------------------------- MODULE MCXdpFilter -----------------------------
(***************************************************************************)
(* XdpFilter on a small instance: an IPv4 source, an IPv6 one that begins  *)
(* with the same 32 bits, one frame of every kind the stages tell apart,   *)
(* and configs whose limits are met by the second or third frame.          *)
(***************************************************************************)
EXTENDS XdpFilter, TLC

MCLow32 == [s \in Src \cup {NoSrc} |-> IF s = NoSrc THEN 0 ELSE 1]

Plain == [src |-> CHOOSE s \in V4 : TRUE, len |-> 2, l3 |-> "ip",
          l4 |-> "other", l4ok |-> TRUE, flags |-> "plain",
          dst |-> 1, sport |-> 0, dport |-> 0]

Tcp == [Plain EXCEPT !.l4 = "tcp", !.dport = 80, !.sport = 7]
Udp == [Plain EXCEPT !.l4 = "udp", !.dport = 7, !.sport = 53]

\* Frames whose source is never read, and the frames of any source.
Unparsed == {[Plain EXCEPT !.l3 = l3] : l3 \in {"runt", "malformed", "other"}}

Kinds == {[Plain EXCEPT !.l4 = "icmp"],
          Tcp, [Tcp EXCEPT !.flags = "syn"], [Tcp EXCEPT !.flags = "scan"],
          [Udp EXCEPT !.l4ok = FALSE], Udp}

MCPackets == Unparsed \cup Kinds
             \cup {[Tcp EXCEPT !.src = s, !.flags = "scan"] : s \in Src}

Open == [pps |-> 0, syn |-> 0, udp |-> 0, icmp |-> 0, new_src |-> 0,
         flow_pps |-> 0, flow_bps |-> 0, ban_duration |-> 1,
         blackhole |-> FALSE, geoip_enabled |-> FALSE,
         port_scan_det |-> FALSE, amp_det |-> FALSE]

MCConfigs ==
    {[Open EXCEPT !.pps = 1, !.geoip_enabled = TRUE],
     [Open EXCEPT !.blackhole = TRUE, !.udp = 1],
     [Open EXCEPT !.syn = 1, !.icmp = 1, !.port_scan_det = TRUE,
                  !.amp_det = TRUE, !.new_src = 1, !.flow_bps = 5]}

MCPortRules == {EmptyMap, [k \in {<<80, "tcp">>} |-> [pps |-> 1, bps |-> 0]]}

\* Scans of the IPv4 source are cheap: they ban and report in one frame.
MCCost == [p \in MCPackets |-> IF p = [Tcp EXCEPT !.flags = "scan"] THEN 2 ELSE 4]

Symmetric == Permutations(CPU)
=============================================================================
