------------------------------ MODULE XdpFilter ------------------------------
(***************************************************************************)
(* The data plane: shivashield_xdp() of ebpf/shivashield.bpf.c, run on     *)
(* every received frame by the CPU that receives it, over the BPF maps the *)
(* CPUs share with each other and with the daemon.                         *)
(*                                                                         *)
(* A frame passes the stages of Order one step at a time, and each stage   *)
(* reads the live config and the map that is its own; the delete of an     *)
(* expired ban, the throttle's lookup and stamp, the ring's reserve and    *)
(* the ban are steps of their own.  The other CPUs, the daemon, the kernel *)
(* and the clock move between any two.                                     *)
(***************************************************************************)
EXTENDS Integers, FiniteSets, Sequences, BpfMap

CONSTANTS
    CPU,           \* the receive queues' CPUs
    Src,           \* source addresses
    V4,            \* those that are IPv4, the others being IPv6
    NoSrc,         \* the zeroed ss_ipaddr of a frame dropped before parsing
    Low32,         \* address |-> its first 32 bits, the throttle key's half
    Packets,       \* the frames that may arrive
    Configs,       \* the ss_config values the daemon pushes
    PortRules,     \* the port_rules_map contents the daemon writes
    Window,        \* WINDOW_NS
    AmpLimit,      \* the literal 100 of the amplification check
    RingCap,       \* events the ring buffer holds
    DaemonExpiry,  \* the expires_ns values the daemon writes
    Reclaimable,   \* the LRU maps at capacity, which may lose entries
    WhitelistFile, \* the sources of whitelist.txt and the admin IPs
    BlacklistFile, \* the sources of blacklist.txt
    MaxTime,       \* bound of the model: the clock stops there
    Cost,          \* bound of the model: frame |-> its share of MaxSpent,
    WriteCost,     \* that of a write of the daemon or a reclaim, and
    MaxSpent       \* what the frames, writes and reclaims may cost in all

----------------------------------------------------------------------------
\* The exits in program order.  A frame ends at the first that stops it.
Order == [runt |-> 1, malformed_l3 |-> 2, non_ip |-> 3, whitelisted |-> 4,
          banned |-> 5, geoip |-> 6, blackhole |-> 7, new_src |-> 8,
          pps |-> 9, malformed_l4 |-> 10, scan |-> 11, syn |-> 12,
          udp |-> 13, amp |-> 14, icmp |-> 15, flow |-> 16, port |-> 17,
          accept |-> 18]

Stage == DOMAIN Order

\* The stages at which a parsed frame is judged, and the places it can be at.
Judged == Stage \ {"runt", "malformed_l3", "non_ip", "accept"}
Place == Judged \cup {"unban", "throttle", "stamp", "reserve", "auto_ban",
                     "verdict"}

PassExits == {"non_ip", "whitelisted", "accept"}

\* The exits that call auto_ban() and those that call emit_event(), with the
\* EVT_* they use: the port rule reports itself as EVT_RATE_EXCEEDED too.
BanExits == {"pps", "scan", "syn", "udp", "amp", "icmp"}

EventOf == [malformed_l3 |-> "malformed", malformed_l4 |-> "malformed",
            geoip |-> "geoip_blocked", new_src |-> "new_src_flood",
            pps |-> "rate_exceeded", scan |-> "port_scan",
            syn |-> "syn_flood", udp |-> "udp_flood",
            amp |-> "amplification", icmp |-> "icmp_flood",
            flow |-> "flow_exceeded", port |-> "rate_exceeded"]

EventType == {EventOf[x] : x \in DOMAIN EventOf}

\* The STATS_DROP_* counter of each dropping exit; a runt frame has none.
Reason == [malformed_l3 |-> "bogus", malformed_l4 |-> "bogus",
           banned |-> "banned", geoip |-> "geoip", blackhole |-> "blackhole",
           new_src |-> "rate", pps |-> "rate", scan |-> "scan",
           syn |-> "rate", udp |-> "rate", amp |-> "amp", icmp |-> "rate",
           flow |-> "rate", port |-> "rate"]

Reasons == {"bogus", "banned", "geoip", "blackhole", "rate", "scan", "amp"}
Protocols == {"tcp", "udp", "icmp", "other"}
Counters == Reasons \cup Protocols \cup {"pass_pkts", "drop_pkts", "syn_pkts"}

\* PORT_DNS, PORT_CHARGEN, PORT_NTP, PORT_SNMP, PORT_SSDP, PORT_MEMCACHED.
AmpPorts == {53, 19, 123, 161, 1900, 11211}

Packet == [src : Src, len : Nat \ {0},
           l3 : {"runt", "malformed", "other", "ip"},
           l4 : Protocols, l4ok : BOOLEAN, flags : {"scan", "syn", "plain"},
           dst : Nat \ {0}, sport : Nat, dport : Nat]

Config == [pps : Nat, syn : Nat, udp : Nat, icmp : Nat, new_src : Nat,
           flow_pps : Nat, flow_bps : Nat, ban_duration : Nat,
           blackhole : BOOLEAN, geoip_enabled : BOOLEAN,
           port_scan_det : BOOLEAN, amp_det : BOOLEAN]

FlowKey == [src : Src, dst : Nat, sport : Nat, dport : Nat, proto : Protocols]
PortKey == Nat \X Protocols
PortRule == [pps : Nat, bps : Nat]
Slot == [packets : Nat, bytes : Nat, start : Nat]
RateMap == {"pps", "syn", "udp", "icmp"}
LruMap == {"blacklist", "known", "rates", "flow", "throttle"}

ASSUME CPUAssumption == IsFiniteSet(CPU) /\ CPU # {}
ASSUME SrcAssumption == NoSrc \notin Src /\ V4 \subseteq Src
ASSUME PacketsAssumption == Packets \subseteq Packet
ASSUME ConfigsAssumption ==
    Configs \subseteq Config /\ Configs # {} /\ IsFiniteSet(Configs)
ASSUME PortRulesAssumption == \A r \in PortRules : IsMap(r, PortKey, PortRule)
ASSUME Low32Assumption == DOMAIN Low32 = Src \cup {NoSrc}
ASSUME NumbersAssumption ==
    /\ Window \in Nat \ {0}
    /\ AmpLimit \in Nat /\ RingCap \in Nat
    /\ MaxTime \in Nat
    /\ Cost \in [Packets -> Nat] /\ WriteCost \in Nat /\ MaxSpent \in Nat
    /\ DaemonExpiry \subseteq Nat
ASSUME FilesAssumption == WhitelistFile \subseteq Src /\ BlacklistFile \subseteq Src
ASSUME ReclaimableAssumption == Reclaimable \subseteq LruMap

VARIABLES
    now,        \* bpf_ktime_get_ns()
    frame,      \* CPU |-> the frame it works on, no entry for an idle CPU
    cfg,        \* config_map[0]
    whitelist, geo, known,   \* the keys of whitelist_map, geoip_map, known_ips_map
    blacklist,  \* source |-> expires_ns, 0 = permanent
    portRules,  \* port_rules_map
    rates,      \* the four LRU_PERCPU_HASH rate maps: source |-> CPU |-> slot
    flow,       \* flow_map: flow key |-> CPU |-> slot
    newSrc,     \* new_src_map: CPU |-> slot
    throttle,   \* event_throttle_map: <<first 32 bits, type>> |-> time
    ring,       \* events_map
    stats,      \* stats_map, summed over the CPUs
    hist        \* history: what the steps so far amount to

vars == <<now, frame, cfg, whitelist, geo, known, blacklist, portRules, rates,
          flow, newSrc, throttle, ring, stats, hist>>

\* What the program's locals hold: where the frame is, what it is, the clock
\* as it arrived and as its event is built, the exit once it has one, and
\* cfg->blackhole and the UDP rate as their stages found them.
Frame == [at : Place, pkt : Packets, now_ns : Nat, now2 : Nat, exit : Stage,
          lockdown : BOOLEAN, udp_rate : Nat]

SrcOf(c) == frame[c].pkt.src

----------------------------------------------------------------------------
\* The rate-limit slots, by the clock of the frame on CPU c.

ZeroSlot == [packets |-> 0, bytes |-> 0, start |-> 0]

InWindow(c, slot) == frame[c].now_ns - slot.start < Window

\* Mutant of Advance: a new window keeps the old one's start.
AdvanceOldStart(c, slot, len) ==
    IF InWindow(c, slot)
    THEN [slot EXCEPT !.packets = @ + 1, !.bytes = @ + len]
    ELSE [packets |-> 1, bytes |-> len, start |-> slot.start]

\* One more packet in the slot, or the first of a new window.
Advance(c, slot, len) ==
    IF InWindow(c, slot)
    THEN [slot EXCEPT !.packets = @ + 1, !.bytes = @ + len]
    ELSE [packets |-> 1, bytes |-> len, start |-> frame[c].now_ns]

\* A per-CPU map has one entry per key and one value per CPU: the CPUs that
\* did not create the entry find a zeroed value.
Slots(tbl, k) == Lookup(tbl, k, [c \in CPU |-> ZeroSlot])

Touch(tbl, c, k) ==
    Put(tbl, k, [Slots(tbl, k) EXCEPT ![c] = Advance(c, @, frame[c].pkt.len)])

\* check_rate(): the packets of this source in this CPU's window.
CheckRate(m, c) ==
    Advance(c, Slots(rates[m], SrcOf(c))[c], frame[c].pkt.len).packets

\* check_flow_rate(): a limit of 0 is no limit; a window's first packet passes.
CheckFlow(c, k, maxPps, maxBps) ==
    LET s == Slots(flow, k)[c]
        t == Advance(c, s, frame[c].pkt.len)
    IN  /\ InWindow(c, s)
        /\ \/ maxPps > 0 /\ t.packets > maxPps
           \/ maxBps > 0 /\ t.bytes > maxBps

Over(limit, count) == limit > 0 /\ count > limit

----------------------------------------------------------------------------
\* The stages' conditions, each over the map that only its stage reads.

HasPorts(p) == p.l4 \in {"tcp", "udp"}

FlowOf(p) == [src |-> p.src, dst |-> p.dst, proto |-> p.l4,
              sport |-> IF HasPorts(p) THEN p.sport ELSE 0,
              dport |-> IF HasPorts(p) THEN p.dport ELSE 0]

PortFlowOf(p) == [src |-> p.src, dst |-> 0, proto |-> p.l4,
                  sport |-> 0, dport |-> p.dport]

FlowLimited == cfg.flow_pps > 0 \/ cfg.flow_bps > 0

PortKeyOf(p) == <<p.dport, p.l4>>

PortRuled(p) == PortKeyOf(p) \in DOMAIN portRules

PortLimited(c) ==
    LET p == frame[c].pkt
        rule == portRules[PortKeyOf(p)]
    IN  PortRuled(p) /\ CheckFlow(c, PortFlowOf(p), rule.pps, rule.bps)

\* Mutant of Expired: the ban ends a tick early.
ExpiredEarly(c) ==
    blacklist[SrcOf(c)] # 0 /\ frame[c].now_ns + 1 >= blacklist[SrcOf(c)]

\* Mutant of Expired: forgets that 0 is a permanent ban.
ExpiredZero(c) == frame[c].now_ns >= blacklist[SrcOf(c)]

Expired(c) == blacklist[SrcOf(c)] # 0 /\ frame[c].now_ns >= blacklist[SrcOf(c)]
HasBan(c) == SrcOf(c) \in DOMAIN blacklist

Unlisted(c) == SrcOf(c) \notin DOMAIN rates.pps

NewSrcFlood(c) ==
    /\ Unlisted(c)
    /\ InWindow(c, newSrc[c])
    /\ Over(cfg.new_src, newSrc[c].packets + 1)

\* The stage that the frame on CPU c is at ends it.
Stops(c) ==
    LET s == frame[c].at
        p == frame[c].pkt
    IN  \/ s = "whitelisted" /\ p.src \in whitelist
        \/ s = "banned" /\ HasBan(c) /\ ~Expired(c)
        \/ s = "geoip" /\ cfg.geoip_enabled /\ p.src \in geo
        \/ s = "blackhole" /\ cfg.blackhole /\ p.src \notin known
        \/ s = "new_src" /\ NewSrcFlood(c)
        \/ s = "pps" /\ Over(cfg.pps, CheckRate("pps", c))
        \/ s = "malformed_l4" /\ HasPorts(p) /\ ~p.l4ok
        \/ s = "scan" /\ cfg.port_scan_det
        \/ s = "syn" /\ Over(cfg.syn, CheckRate("syn", c))
        \/ s = "udp" /\ Over(cfg.udp, CheckRate("udp", c))
        \/ s = "amp" /\ cfg.amp_det /\ frame[c].udp_rate > AmpLimit
        \/ s = "icmp" /\ Over(cfg.icmp, CheckRate("icmp", c))
        \/ /\ s = "flow" /\ FlowLimited
           /\ CheckFlow(c, FlowOf(p), cfg.flow_pps, cfg.flow_bps)
        \/ s = "port" /\ PortLimited(c)

\* The stages that only some frames go through.
Applies(p, s) ==
    CASE s = "geoip" -> p.src \in V4
      [] s = "scan"  -> p.l4 = "tcp" /\ p.flags = "scan"
      [] s = "syn"   -> p.l4 = "tcp" /\ p.flags = "syn"
      [] s = "udp"   -> p.l4 = "udp"
      [] s = "amp"   -> p.l4 = "udp" /\ p.sport \in AmpPorts
      [] s = "icmp"  -> p.l4 = "icmp"
      [] s = "port"  -> HasPorts(p) /\ p.dport # 0
      [] OTHER       -> TRUE

StagesAfter(p, s) == {q \in Judged : Order[q] > Order[s] /\ Applies(p, q)}

\* Where frame p goes when stage s has let it through.
Following(p, s) ==
    IF StagesAfter(p, s) = {} THEN "verdict"
    ELSE CHOOSE q \in StagesAfter(p, s) :
            \A r \in StagesAfter(p, s) : Order[q] <= Order[r]

----------------------------------------------------------------------------
\* What a stage leaves in its own map.

\* Mutant of KnownAfter: tracks the source before the lockdown check.
KnownAfterAlways(c) ==
    IF frame[c].at = "blackhole" THEN known \cup {SrcOf(c)} ELSE known

KnownAfter(c) ==
    IF frame[c].at = "blackhole" /\ ~cfg.blackhole
    THEN known \cup {SrcOf(c)} ELSE known

NewSrcAfter(c) ==
    IF frame[c].at = "new_src" /\ Unlisted(c)
    THEN [newSrc EXCEPT ![c] = Advance(c, @, 0)] ELSE newSrc

RatesAfter(c) ==
    IF frame[c].at \in RateMap
    THEN [rates EXCEPT ![frame[c].at] = Touch(@, c, SrcOf(c))] ELSE rates

FlowAfter(c) ==
    LET p == frame[c].pkt
    IN  IF frame[c].at = "flow" /\ FlowLimited THEN Touch(flow, c, FlowOf(p))
        ELSE IF frame[c].at = "port" /\ PortRuled(p)
             THEN Touch(flow, c, PortFlowOf(p))
             ELSE flow

\* bump_stat(): the protocol counters are bumped as stage 7 begins, the
\* reason and verdict counters at the exit.
Bump(K) == [k \in Counters |-> IF k \in K THEN stats[k] + 1 ELSE stats[k]]

StageStats(c) ==
    CASE frame[c].at = "malformed_l4" -> {frame[c].pkt.l4}
      [] frame[c].at = "syn"          -> {"syn_pkts"}
      [] OTHER                        -> {}

----------------------------------------------------------------------------
\* History, read by the properties only: what the steps so far cost, the
\* frames done and the runts among them, the end of a source's auto-ban as
\* imposed, the sources with a frame in the program while out of lockdown,
\* the last report per CPU, source and type, and the CPUs whose frame looked
\* for a ban before the last one of its source was put.

Spend(cost) == [hist EXCEPT !.spent = @ + cost]

\* The frame on CPU c is past the lookup of its source's ban.
Looked(c) ==
    /\ frame[c].at \notin {"whitelisted", "banned"}
    /\ Order[frame[c].exit] > Order["banned"]

LateFor(s) == {c \in DOMAIN frame : SrcOf(c) = s /\ Looked(c)}

----------------------------------------------------------------------------
\* shivashield_xdp(), on CPU c.

Goto(c, place) == frame' = [frame EXCEPT ![c].at = place]

\* The exit is s: the exits that report go on to emit_event(), which reads
\* the clock again.  A new-source flood is reported once, by the first frame
\* over the limit.
Leave(c, s) ==
    LET reports == /\ s \in DOMAIN EventOf
                   /\ s = "new_src" => newSrc[c].packets = cfg.new_src
    IN  frame' = [frame EXCEPT ![c].at = IF reports THEN "throttle" ELSE "verdict",
                               ![c].now2 = now, ![c].exit = s]

\* The frame is taken in and parsed.
Arrive(c, p) ==
    /\ c \notin DOMAIN frame /\ hist.spent + Cost[p] <= MaxSpent
    /\ LET f == [at |-> "whitelisted", pkt |-> p, now_ns |-> now, now2 |-> now,
                 exit |-> "accept", lockdown |-> FALSE, udp_rate |-> 0]
           parsed == CASE p.l3 = "ip"    -> f
                       [] p.l3 = "runt"  -> [f EXCEPT !.at = "verdict",
                                                      !.exit = "runt"]
                       [] p.l3 = "other" -> [f EXCEPT !.at = "verdict",
                                                      !.exit = "non_ip"]
                       [] p.l3 = "malformed" -> [f EXCEPT !.at = "throttle",
                                                      !.exit = "malformed_l3"]
       IN  frame' = Put(frame, c, parsed)
    /\ hist' = [Spend(Cost[p]) EXCEPT
                  !.openSeen = IF p.l3 = "ip" /\ ~cfg.blackhole
                               THEN @ \cup {p.src} ELSE @]
    /\ UNCHANGED <<now, cfg, whitelist, geo, known, blacklist, portRules,
                   rates, flow, newSrc, throttle, ring, stats>>

\* Where the frame goes when its stage does not stop it.
Onward(c) ==
    IF frame[c].at = "banned" /\ HasBan(c) THEN "unban"
    ELSE Following(frame[c].pkt, frame[c].at)

\* The stage the frame is at counts it, judges it and lets it on or out.
Judge(c) ==
    /\ frame[c].at \in Judged
    /\ IF Stops(c)
       THEN Leave(c, frame[c].at)
       ELSE frame' = [frame EXCEPT
                ![c].at = Onward(c),
                ![c].lockdown = IF frame[c].at = "blackhole"
                                THEN cfg.blackhole ELSE @,
                ![c].udp_rate = IF frame[c].at = "udp"
                                THEN CheckRate("udp", c) ELSE @]
    /\ known' = KnownAfter(c)
    /\ newSrc' = NewSrcAfter(c)
    /\ rates' = RatesAfter(c)
    /\ flow' = FlowAfter(c)
    /\ stats' = Bump(StageStats(c))
    /\ UNCHANGED <<now, cfg, whitelist, geo, blacklist, portRules, throttle,
                   ring, hist>>

\* The delete of the expired ban that the lookup met, whatever is there now.
Unban(c) ==
    /\ frame[c].at = "unban"
    /\ blacklist' = Del(blacklist, SrcOf(c))
    /\ Goto(c, Following(frame[c].pkt, "banned"))
    /\ hist' = IF c \in hist.late THEN [hist EXCEPT !.sentence[SrcOf(c)] = 0]
                                  ELSE hist
    /\ UNCHANGED <<now, cfg, whitelist, geo, known, portRules, rates, flow,
                   newSrc, throttle, ring, stats>>

----------------------------------------------------------------------------
\* emit_event() and auto_ban(), which some exits call.

ReportedSrc(c) == IF frame[c].exit = "malformed_l3" THEN NoSrc ELSE SrcOf(c)
ReportedType(c) == EventOf[frame[c].exit]

ThrottleKey(c) == <<Low32[ReportedSrc(c)], ReportedType(c)>>

\* Mutant of Throttled: the comparison with WINDOW_NS is the wrong way round.
ThrottledFlipped(c) ==
    /\ ThrottleKey(c) \in DOMAIN throttle
    /\ frame[c].now2 - throttle[ThrottleKey(c)] >= Window

\* now2 - *last in 64 bits: a stamp from the future is long ago.
Throttled(c) ==
    /\ ThrottleKey(c) \in DOMAIN throttle
    /\ throttle[ThrottleKey(c)] <= frame[c].now2
    /\ frame[c].now2 - throttle[ThrottleKey(c)] < Window

AfterReport(c) == IF frame[c].exit \in BanExits THEN "auto_ban" ELSE "verdict"

CheckThrottle(c) ==
    /\ frame[c].at = "throttle"
    /\ Goto(c, IF Throttled(c) THEN AfterReport(c) ELSE "stamp")
    /\ UNCHANGED <<now, cfg, whitelist, geo, known, blacklist, portRules,
                   rates, flow, newSrc, throttle, ring, stats, hist>>

Reporter(c) == <<c, ReportedSrc(c), ReportedType(c)>>

\* The throttle is stamped before the ring buffer is known to have room.
Stamp(c) ==
    /\ frame[c].at = "stamp"
    /\ throttle' = Put(throttle, ThrottleKey(c), frame[c].now2)
    /\ Goto(c, "reserve")
    /\ hist' = [hist EXCEPT !.reported = Put(@, Reporter(c),
                                [now2 |-> frame[c].now2, at |-> now])]
    /\ UNCHANGED <<now, cfg, whitelist, geo, known, blacklist, portRules,
                   rates, flow, newSrc, ring, stats>>

\* Mutant of RingAfter: reserves without a look at the room left.
RingAfterFull(c) ==
    Append(ring, [src |-> ReportedSrc(c), type |-> ReportedType(c)])

RingAfter(c) ==
    IF Len(ring) < RingCap
    THEN Append(ring, [src |-> ReportedSrc(c), type |-> ReportedType(c)])
    ELSE ring

Reserve(c) ==
    /\ frame[c].at = "reserve"
    /\ ring' = RingAfter(c)
    /\ Goto(c, AfterReport(c))
    /\ UNCHANGED <<now, cfg, whitelist, geo, known, blacklist, portRules,
                   rates, flow, newSrc, throttle, stats, hist>>

\* A ban counts from the frame's arrival; a duration of 0 is no ban.
AutoBan(c) ==
    /\ frame[c].at = "auto_ban"
    /\ LET expires == frame[c].now_ns + cfg.ban_duration
       IN  IF cfg.ban_duration = 0 THEN UNCHANGED <<blacklist, hist>>
           ELSE /\ blacklist' = Put(blacklist, SrcOf(c), expires)
                /\ hist' = [hist EXCEPT !.sentence[SrcOf(c)] = expires,
                                        !.late = @ \cup LateFor(SrcOf(c))]
    /\ Goto(c, "verdict")
    /\ UNCHANGED <<now, cfg, whitelist, geo, known, portRules, rates, flow,
                   newSrc, throttle, ring, stats>>

\* Mutant of Passes: a runt frame is counted as passed.
PassesRunt(x) == x \in PassExits \cup {"runt"}

Passes(x) == x \in PassExits

\* The exit's counters are bumped and the frame is done with.
VerdictStats(x) ==
    {k \in {"pass_pkts"} : Passes(x)}
    \cup {k \in {"drop_pkts"} : x \in DOMAIN Reason}
    \cup {k \in Reasons : x \in DOMAIN Reason /\ k = Reason[x]}

Verdict(c) ==
    /\ frame[c].at = "verdict"
    /\ stats' = Bump(VerdictStats(frame[c].exit))
    /\ frame' = Del(frame, c)
    /\ hist' = [hist EXCEPT
                  !.done = @ + 1,
                  !.runts = @ + (IF frame[c].exit = "runt" THEN 1 ELSE 0),
                  !.late = @ \ {c}]
    /\ UNCHANGED <<now, cfg, whitelist, geo, known, blacklist, portRules,
                   rates, flow, newSrc, throttle, ring>>

----------------------------------------------------------------------------
\* The daemon's writes to the maps, one map operation each.

MayWrite == hist.spent + WriteCost <= MaxSpent

Count == Spend(WriteCost)

InProgram == {SrcOf(c) : c \in {d \in DOMAIN frame : frame[d].pkt.l3 = "ip"}}

PushConfig(k) ==
    /\ cfg' = k
    /\ hist' = [Count EXCEPT !.openSeen = IF k.blackhole THEN @
                                          ELSE @ \cup InProgram]
    /\ UNCHANGED <<whitelist, geo, blacklist, portRules>>

AddWhitelist(s) ==
    /\ whitelist' = whitelist \cup {s} /\ hist' = Count
    /\ UNCHANGED <<cfg, geo, blacklist, portRules>>

RemoveWhitelist(s) ==
    /\ whitelist' = whitelist \ {s} /\ hist' = Count
    /\ UNCHANGED <<cfg, geo, blacklist, portRules>>

\* A ban written or lifted by the daemon replaces the auto-ban.
BanIP(s, e) ==
    /\ blacklist' = Put(blacklist, s, e)
    /\ hist' = [Count EXCEPT !.sentence[s] = 0, !.late = @ \cup LateFor(s)]
    /\ UNCHANGED <<cfg, whitelist, geo, portRules>>

Lifted(s) == [Count EXCEPT !.sentence[s] = 0]

UnbanIP(s) ==
    /\ blacklist' = Del(blacklist, s) /\ hist' = Lifted(s)
    /\ UNCHANGED <<cfg, whitelist, geo, portRules>>

AddPrefix(s) ==
    /\ geo' = geo \cup {s} /\ hist' = Count
    /\ UNCHANGED <<cfg, whitelist, blacklist, portRules>>

RemovePrefix(s) ==
    /\ geo' = geo \ {s} /\ hist' = Count
    /\ UNCHANGED <<cfg, whitelist, blacklist, portRules>>

\* populatePortRules() puts the rules of the config, and deletes none.
PutPortRule(k, rule) ==
    /\ portRules' = Put(portRules, k, rule) /\ hist' = Count
    /\ UNCHANGED <<cfg, whitelist, geo, blacklist>>

Write ==
    /\ MayWrite
    /\ \/ \E k \in Configs : PushConfig(k)
       \/ \E s \in Src : AddWhitelist(s) \/ RemoveWhitelist(s)
       \/ \E s \in Src, e \in DaemonExpiry : BanIP(s, e)
       \/ \E s \in Src : UnbanIP(s)
       \/ \E s \in Src : AddPrefix(s) \/ RemovePrefix(s)
       \/ \E r \in PortRules : \E k \in DOMAIN r : PutPortRule(k, r[k])
    /\ UNCHANGED <<now, frame, known, rates, flow, newSrc, throttle, ring,
                   stats>>

\* The event consumer takes the oldest event out of the ring buffer.
ReadRing ==
    /\ ring # <<>> /\ ring' = Tail(ring)
    /\ UNCHANGED <<now, frame, cfg, whitelist, geo, known, blacklist,
                   portRules, rates, flow, newSrc, throttle, stats, hist>>

----------------------------------------------------------------------------
\* The kernel: a full LRU map gives up an entry, and time passes.

ReclaimBan(s) ==
    /\ "blacklist" \in Reclaimable /\ s \in DOMAIN blacklist
    /\ blacklist' = Del(blacklist, s)
    /\ hist' = Lifted(s)
    /\ UNCHANGED <<known, rates, flow, throttle>>

ReclaimKnown(s) ==
    /\ "known" \in Reclaimable /\ s \in known
    /\ known' = known \ {s} /\ hist' = Count
    /\ UNCHANGED <<blacklist, rates, flow, throttle>>

ReclaimRate(m, s) ==
    /\ "rates" \in Reclaimable /\ s \in DOMAIN rates[m]
    /\ rates' = [rates EXCEPT ![m] = Del(@, s)] /\ hist' = Count
    /\ UNCHANGED <<blacklist, known, flow, throttle>>

ReclaimFlow(k) ==
    /\ "flow" \in Reclaimable
    /\ flow' = Del(flow, k) /\ hist' = Count
    /\ UNCHANGED <<blacklist, known, rates, throttle>>

ReclaimThrottle(k) ==
    /\ "throttle" \in Reclaimable
    /\ throttle' = Del(throttle, k) /\ hist' = Count
    /\ UNCHANGED <<blacklist, known, rates, flow>>

Reclaim ==
    /\ MayWrite
    /\ \/ \E s \in Src : ReclaimBan(s)
       \/ \E s \in Src : ReclaimKnown(s)
       \/ \E m \in RateMap, s \in Src : ReclaimRate(m, s)
       \/ \E k \in DOMAIN flow : ReclaimFlow(k)
       \/ \E k \in DOMAIN throttle : ReclaimThrottle(k)
    /\ UNCHANGED <<now, frame, cfg, whitelist, geo, portRules, newSrc, ring,
                   stats>>

\* A frame is done with in less than a tick, and so sees one tick at most.
Tick ==
    /\ now < MaxTime /\ \A c \in DOMAIN frame : frame[c].now_ns = now
    /\ now' = now + 1
    /\ UNCHANGED <<frame, cfg, whitelist, geo, known, blacklist, portRules,
                   rates, flow, newSrc, throttle, ring, stats, hist>>

----------------------------------------------------------------------------
\* Start() has pushed a config and loaded the lists before it attaches the
\* program; the kernel has been up for at least a window by then.

Init ==
    /\ now = Window
    /\ frame = EmptyMap
    /\ cfg \in Configs
    /\ portRules \in PortRules
    /\ whitelist = WhitelistFile /\ geo = {} /\ known = {}
    /\ blacklist = [s \in BlacklistFile |-> 0]
    /\ rates = [m \in RateMap |-> EmptyMap]
    /\ flow = EmptyMap
    /\ newSrc = [c \in CPU |-> ZeroSlot]
    /\ throttle = EmptyMap
    /\ ring = <<>>
    /\ stats = [k \in Counters |-> 0]
    /\ hist = [spent |-> 0, done |-> 0, runts |-> 0,
               sentence |-> [s \in Src |-> 0], openSeen |-> {},
               reported |-> EmptyMap, late |-> {}]

\* One step of the program on CPU c.
Program(c) ==
    \/ Judge(c) \/ Unban(c)
    \/ CheckThrottle(c) \/ Stamp(c) \/ Reserve(c)
    \/ AutoBan(c) \/ Verdict(c)

Next ==
    \/ \E c \in CPU, p \in Packets : Arrive(c, p)
    \/ \E c \in DOMAIN frame : Program(c)
    \/ Write
    \/ ReadRing
    \/ Reclaim
    \/ Tick

Spec == Init /\ [][Next]_vars

----------------------------------------------------------------------------
\* Properties.

Event == [src : Src \cup {NoSrc}, type : EventType]

Report == [now2 : Nat, at : Nat]

HistOK ==
    /\ hist.spent \in Nat /\ hist.done \in Nat /\ hist.runts \in Nat
    /\ hist.sentence \in [Src -> Nat]
    /\ hist.openSeen \subseteq Src
    /\ IsMap(hist.reported, CPU \X (Src \cup {NoSrc}) \X EventType, Report)
    /\ hist.late \subseteq DOMAIN frame

\* The exit of frame f, if it has one, takes it to where it is.
Placed(f) ==
    /\ f.at \in {"throttle", "stamp", "reserve"} => f.exit \in DOMAIN EventOf
    /\ f.at = "auto_ban" => f.exit \in BanExits
    /\ f.at \in Judged \cup {"unban"} => f.exit = "accept"

FramesOK == /\ IsMap(frame, CPU, Frame)
            /\ \A c \in DOMAIN frame : Placed(frame[c])

\* Every map holds keys and values of the types shivashield.h gives it, and a
\* frame is where its exit takes it.
TypeOK ==
    /\ now \in Nat /\ now >= Window
    /\ FramesOK
    /\ cfg \in Configs
    /\ whitelist \subseteq Src /\ geo \subseteq Src /\ known \subseteq Src
    /\ IsMap(blacklist, Src, Nat)
    /\ IsMap(portRules, PortKey, PortRule)
    /\ DOMAIN rates = RateMap
    /\ \A m \in RateMap : IsMap(rates[m], Src, [CPU -> Slot])
    /\ IsMap(flow, FlowKey, [CPU -> Slot])
    /\ newSrc \in [CPU -> Slot]
    /\ IsMap(throttle, {Low32[s] : s \in DOMAIN Low32} \X EventType, Nat)
    /\ ring \in Seq(Event) /\ Len(ring) <= RingCap
    /\ stats \in [Counters -> Nat]
    /\ HistOK

\* The counters the dashboard and ReadStats() show agree with each other and
\* with the traffic: the reasons add up to the drops, and every frame that is
\* done, but a runt, which is dropped in silence, is counted once, as passed
\* or as dropped.
Accounting ==
    /\ stats.drop_pkts = stats.bogus + stats.banned + stats.geoip
                         + stats.blackhole + stats.rate + stats.scan + stats.amp
    /\ hist.done = stats.pass_pkts + stats.drop_pkts + hist.runts

\* In lockdown no source gets in that was not seen out of lockdown before,
\* the promise of "only source IPs known before activation": a frame that
\* found lockdown on and is accepted is of a source that had a frame in the
\* program while it was off.
LockdownSealed ==
    \A c \in DOMAIN frame :
        frame[c].at = "verdict" /\ frame[c].exit = "accept" /\ frame[c].lockdown
            => SrcOf(c) \in hist.openSeen

\* A source that was auto-banned is served its ban_duration: no frame of it,
\* on whatever CPU, that looks for the ban before the end gets past the ban
\* check, unless the daemon lifted or replaced the ban, the LRU map gave it
\* up, or a frame that had looked before it was put deleted it.
SentenceServed ==
    [][\A c \in DOMAIN frame :
         frame[c].at = "banned" /\ frame'[c].at # frame[c].at
            /\ frame'[c].exit # "banned"
         => now >= hist.sentence[SrcOf(c)]]_vars

Running(s) == blacklist[s] = 0 \/ now < blacklist[s]

\* The program never lifts, shortens or replaces a ban that is still running,
\* but with a frame of the same source that had looked for a ban before this
\* one was put: the delete by key and the auto-ban do not look again.
BansKept ==
    [][\A s \in DOMAIN blacklist :
         frame' # frame /\ Running(s) =>
            \/ s \in DOMAIN blacklist' /\ blacklist'[s] = blacklist[s]
            \/ \E c \in hist.late : SrcOf(c) = s /\ frame[c].at # frame'[c].at]_vars

\* A CPU's reports of one type about one source are a window apart, less the
\* two frames that may pass on another CPU between the throttle's clock, its
\* lookup and its stamp: the throttle bounds the events of a flood by one per
\* window and CPU, while its map keeps its entries.
ReportsSpaced ==
    [][\A c \in DOMAIN frame :
         frame[c].at = "stamp" /\ frame'[c].at # "stamp" =>
            LET r == Reporter(c)
            IN  r \in DOMAIN hist.reported =>
                  frame[c].now2 >= hist.reported[r].now2 + Window - 2]_vars
=============================================================================
