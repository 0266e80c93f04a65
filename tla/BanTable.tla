------------------------------ MODULE BanTable ------------------------------
(***************************************************************************)
(* blacklist_map and the actors that write it without a lock: the CPUs     *)
(* that run shivashield_xdp(), the event consumer of the daemon, which     *)
(* bans again what the kernel reports, and BanManager's sweeper.  A step   *)
(* is one access to a shared map, ring buffer or Go field.                 *)
(*                                                                         *)
(* expires_ns is stamped from two clocks: auto_ban() uses bpf_ktime_get_ns *)
(* (since boot, here now) and BanIP() uses time.Now() (since the epoch,    *)
(* here now + Epoch).  Each reader compares it with its own clock.         *)
(***************************************************************************)
EXTENDS Integers, FiniteSets, Sequences, BpfMap

CONSTANTS
    CPU, Src,
    PermanentIPs,  \* the sources of blacklist.txt
    Named,         \* source |-> the source that its events name in the daemon
    Durations,     \* the values ban_duration_sec takes
    Epoch,         \* wall clock at boot
    RingCap,       \* events the ring buffer holds
    NoSrc,         \* no source
    MaxTime,       \* bound of the model: the clock stops there
    MaxFrames      \* bound of the model: frames taken in

ASSUME SetsAssumption ==
    /\ PermanentIPs \subseteq Src /\ NoSrc \notin Src
    /\ Named \in [Src -> Src]
    /\ Durations \subseteq Nat
ASSUME NumbersAssumption ==
    /\ Epoch \in Nat \ {0} /\ RingCap \in Nat
    /\ MaxTime \in Nat /\ MaxFrames \in Nat

VARIABLES
    now,        \* ktime
    blacklist,  \* source |-> expires_ns, 0 = permanent
    kernelDur,  \* config_map[0].ban_duration
    fwDur,      \* fw.cfg.BanDurationSec
    cpu,        \* CPU |-> its frame: where the program is, source, now_ns
    ring,       \* events_map
    consumer,   \* consumeEvents(): where it is, the event's source and kind
    sweeper,    \* sweep(): where it is, keys visited, toDelete, and what the
                \* iterator has met: a map at rest, a change, a restart
    frames,     \* frames taken in
    offenders   \* history: sources caught over a limit

vars == <<now, blacklist, kernelDur, fwDur, cpu, ring, consumer, sweeper,
          frames, offenders>>

\* The kinds of event: of the exits that auto_ban(), of the per-port rule,
\* which reports EVT_RATE_EXCEEDED without a ban, and of the other exits.
Kinds == {"ban", "port", "other"}

\* The event types consumeEvents() takes as status BANNED.
BannedKinds == {"ban", "port"}

Event == [src : Src, kind : Kinds]

Wall == now + Epoch

\* A write beside the sweeper's iterator, which may trip over it.
Disturbed == IF sweeper.pc = "scan" /\ sweeper.met = "rest"
             THEN [sweeper EXCEPT !.met = "change"] ELSE sweeper

WriteBans(bans) == blacklist' = bans /\ sweeper' = Disturbed

----------------------------------------------------------------------------
\* A CPU: the frame's clock is read once, the ban is looked up, an expired
\* one is deleted, the stages judge the frame, an offender is banned.

Idle == [pc |-> "idle", src |-> NoSrc, at |-> 0]

Arrive(c, s) ==
    /\ cpu[c].pc = "idle" /\ frames < MaxFrames
    /\ cpu' = [cpu EXCEPT ![c] = [pc |-> "lookup", src |-> s, at |-> now]]
    /\ frames' = frames + 1
    /\ UNCHANGED <<now, blacklist, kernelDur, fwDur, ring, consumer, sweeper,
                   offenders>>

\* Mutant of Expired: forgets that 0 is a permanent ban.
ExpiredZero(e, clock) == clock >= e

Expired(e, clock) == e # 0 /\ clock >= e

LookupBan(c) ==
    LET s == cpu[c].src
    IN  /\ cpu[c].pc = "lookup"
        /\ \/ /\ s \notin DOMAIN blacklist
              /\ cpu' = [cpu EXCEPT ![c].pc = "judge"]
           \/ /\ s \in DOMAIN blacklist /\ Expired(blacklist[s], cpu[c].at)
              /\ cpu' = [cpu EXCEPT ![c].pc = "delete"]
           \/ /\ s \in DOMAIN blacklist /\ ~Expired(blacklist[s], cpu[c].at)
              /\ cpu' = [cpu EXCEPT ![c] = Idle]
        /\ UNCHANGED <<now, blacklist, kernelDur, fwDur, ring, consumer,
                       sweeper, frames, offenders>>

\* bpf_map_delete_elem() takes whatever entry is there by now.
DeleteExpired(c) ==
    /\ cpu[c].pc = "delete"
    /\ WriteBans(Del(blacklist, cpu[c].src))
    /\ cpu' = [cpu EXCEPT ![c].pc = "judge"]
    /\ UNCHANGED <<now, kernelDur, fwDur, ring, consumer, frames, offenders>>

\* Mutant of Emit: never finds the ring buffer full.
EmitFull(s, k) == ring' = Append(ring, [src |-> s, kind |-> k])

\* emit_event(): the event is lost when the ring buffer is full or the
\* throttle has one of the same key from the last second.
Emit(s, k) ==
    \/ Len(ring) < RingCap /\ ring' = Append(ring, [src |-> s, kind |-> k])
    \/ UNCHANGED ring

\* The stages find nothing, or report and drop; an offender is banned next.
Judge(c) ==
    LET s == cpu[c].src
    IN  /\ cpu[c].pc = "judge"
        /\ \/ /\ cpu' = [cpu EXCEPT ![c] = Idle]
              /\ UNCHANGED <<ring, offenders>>
           \/ \E k \in Kinds :
              /\ Emit(s, k)
              /\ offenders' = IF k \in BannedKinds THEN offenders \cup {s}
                                                   ELSE offenders
              /\ cpu' = [cpu EXCEPT ![c] =
                            IF k = "ban" THEN [@ EXCEPT !.pc = "ban"] ELSE Idle]
        /\ UNCHANGED <<now, blacklist, kernelDur, fwDur, consumer, sweeper,
                       frames>>

AutoBan(c) ==
    LET s == cpu[c].src
        e == cpu[c].at + kernelDur
    IN  /\ cpu[c].pc = "ban"
        /\ \/ /\ kernelDur = 0
              /\ UNCHANGED <<blacklist, sweeper>>
           \/ /\ kernelDur > 0
              /\ WriteBans(Put(blacklist, s, e))
        /\ cpu' = [cpu EXCEPT ![c] = Idle]
        /\ UNCHANGED <<now, kernelDur, fwDur, ring, consumer, frames,
                       offenders>>

----------------------------------------------------------------------------
\* consumeEvents(): reads one event, looks at ban_duration_sec, reads it
\* again for the duration, and bans.  parseEvent() prints the address and
\* net.ParseIP() reads it back: an IPv4-mapped IPv6 source comes out of that
\* as the IPv4 source, which is another key of blacklist_map.

Resting == [pc |-> "read", src |-> NoSrc, kind |-> "other"]

\* Over its 500 events of the second the consumer drains and forgets.
ReadEvent ==
    /\ consumer.pc = "read" /\ ring # <<>>
    /\ ring' = Tail(ring)
    /\ \/ consumer' = [pc |-> "decide", src |-> Named[Head(ring).src],
                       kind |-> Head(ring).kind]
       \/ UNCHANGED consumer
    /\ UNCHANGED <<now, blacklist, kernelDur, fwDur, cpu, sweeper, frames,
                   offenders>>

\* Mutant of Rebans: every event bans.
RebansAll(k) == fwDur > 0

Rebans(k) == k \in BannedKinds /\ fwDur > 0

Decide ==
    /\ consumer.pc = "decide"
    /\ consumer' = IF Rebans(consumer.kind) THEN [consumer EXCEPT !.pc = "ban"]
                                            ELSE Resting
    /\ UNCHANGED <<now, blacklist, kernelDur, fwDur, cpu, ring, sweeper,
                   frames, offenders>>

\* Mutant of Expiry: takes the shortest duration for a permanent ban.
ExpiryOffByOne(duration) == IF duration > 1 THEN Wall + duration ELSE 0

\* BanIP(): duration 0 is a permanent ban, which is what a reload to 0 since
\* the first read makes of the second.
Expiry(duration) == IF duration > 0 THEN Wall + duration ELSE 0

BanIP ==
    /\ consumer.pc = "ban" /\ now + fwDur <= MaxTime
    /\ WriteBans(Put(blacklist, consumer.src, Expiry(fwDur)))
    /\ consumer' = Resting
    /\ UNCHANGED <<now, kernelDur, fwDur, cpu, ring, frames, offenders>>

----------------------------------------------------------------------------
\* sweep(), every 5 s: collects the expired keys one by one, then deletes
\* each of them, whatever it holds by then.  The iterator goes from key to
\* key of the live map: after a write it may start over or end early, by an
\* error that nobody looks at, and miss what the write moved or put.

Asleep == [pc |-> "asleep", seen |-> {}, toDelete |-> {}, met |-> "rest"]

StartSweep ==
    /\ sweeper.pc = "asleep"
    /\ sweeper' = [sweeper EXCEPT !.pc = "scan"]
    /\ UNCHANGED <<now, blacklist, kernelDur, fwDur, cpu, ring, consumer,
                   frames, offenders>>

\* Mutant of SweepClock: compares with the kernel's clock.
SweepKtime == now

SweepClock == Wall

Visit(s) ==
    /\ sweeper.pc = "scan"
    /\ s \in DOMAIN blacklist \ sweeper.seen
    /\ sweeper' = [sweeper EXCEPT
          !.seen = @ \cup {s},
          !.toDelete = IF Expired(blacklist[s], SweepClock) THEN @ \cup {s}
                                                            ELSE @]
    /\ UNCHANGED <<now, blacklist, kernelDur, fwDur, cpu, ring, consumer,
                   frames, offenders>>

StartOver ==
    /\ sweeper.pc = "scan" /\ sweeper.met = "change"
    /\ sweeper' = [sweeper EXCEPT !.seen = {}, !.met = "restart"]
    /\ UNCHANGED <<now, blacklist, kernelDur, fwDur, cpu, ring, consumer,
                   frames, offenders>>

EndScan ==
    /\ sweeper.pc = "scan"
    /\ DOMAIN blacklist \subseteq sweeper.seen \/ sweeper.met # "rest"
    /\ sweeper' = [sweeper EXCEPT !.pc = "delete"]
    /\ UNCHANGED <<now, blacklist, kernelDur, fwDur, cpu, ring, consumer,
                   frames, offenders>>

DeleteSwept(s) ==
    /\ sweeper.pc = "delete" /\ s \in sweeper.toDelete
    /\ blacklist' = Del(blacklist, s)
    /\ sweeper' = [sweeper EXCEPT !.toDelete = @ \ {s}]
    /\ UNCHANGED <<now, kernelDur, fwDur, cpu, ring, consumer, frames,
                   offenders>>

EndSweep ==
    /\ sweeper.pc = "delete" /\ sweeper.toDelete = {}
    /\ sweeper' = Asleep
    /\ UNCHANGED <<now, blacklist, kernelDur, fwDur, cpu, ring, consumer,
                   frames, offenders>>

----------------------------------------------------------------------------
\* Reload() swaps fw.cfg and then pushes it to the kernel.

SwapConfig(d) ==
    /\ fwDur = kernelDur /\ d # fwDur
    /\ fwDur' = d
    /\ UNCHANGED <<now, blacklist, kernelDur, cpu, ring, consumer, sweeper,
                   frames, offenders>>

PushConfig ==
    /\ fwDur # kernelDur
    /\ kernelDur' = fwDur
    /\ UNCHANGED <<now, blacklist, fwDur, cpu, ring, consumer, sweeper,
                   frames, offenders>>

Tick ==
    /\ now < MaxTime /\ now' = now + 1
    /\ UNCHANGED <<blacklist, kernelDur, fwDur, cpu, ring, consumer, sweeper,
                   frames, offenders>>

----------------------------------------------------------------------------
\* The permanent bans are in the map before the program is attached; the
\* ring buffer is new with each load.
Init ==
    /\ now = 0
    /\ blacklist = [s \in PermanentIPs |-> 0]
    /\ kernelDur \in Durations /\ fwDur = kernelDur
    /\ cpu = [c \in CPU |-> Idle]
    /\ ring = <<>>
    /\ consumer = Resting
    /\ sweeper = Asleep
    /\ frames = 0 /\ offenders = {}

Kernel(c) ==
    \/ \E s \in Src : Arrive(c, s)
    \/ LookupBan(c) \/ DeleteExpired(c) \/ Judge(c) \/ AutoBan(c)

Consumer == ReadEvent \/ Decide \/ BanIP

Sweeper ==
    \/ StartSweep \/ StartOver \/ EndScan \/ EndSweep
    \/ \E s \in Src : Visit(s) \/ DeleteSwept(s)

Reload == PushConfig \/ \E d \in Durations : SwapConfig(d)

Next == (\E c \in CPU : Kernel(c)) \/ Consumer \/ Sweeper \/ Reload \/ Tick

Spec == Init /\ [][Next]_vars

\* The sweeper's ticker fires as long as the daemon runs, and time passes.
FairSpec == Spec /\ WF_vars(Sweeper) /\ WF_vars(Tick)

----------------------------------------------------------------------------
\* Properties.

Frame == [pc : {"idle", "lookup", "delete", "judge", "ban"},
          src : Src \cup {NoSrc}, at : Nat]

\* A CPU has a source except when idle, and the consumer when at rest.
TypeOK ==
    /\ now \in Nat /\ frames \in Nat
    /\ IsMap(blacklist, Src, Nat)
    /\ kernelDur \in Durations /\ fwDur \in Durations
    /\ cpu \in [CPU -> Frame]
    /\ \A c \in CPU : cpu[c].pc # "idle" => cpu[c].src \in Src
    /\ ring \in Seq(Event) /\ Len(ring) <= RingCap
    /\ consumer \in [pc : {"read", "decide", "ban"}, src : Src \cup {NoSrc},
                     kind : Kinds]
    /\ consumer.pc # "read" => consumer.src \in Src
    /\ sweeper \in [pc : {"asleep", "scan", "delete"}, seen : SUBSET Src,
                    toDelete : SUBSET Src, met : {"rest", "change", "restart"}]
    /\ offenders \subseteq Src

\* The permanent bans of sources that no other source's events name.
Unaliased == {s \in PermanentIPs : \A t \in Src : Named[t] = s => t = s}

\* "Permanently blacklist an IP": as long as the daemon runs, no auto-ban,
\* late event, expiry or sweep lifts or shortens a ban of blacklist.txt,
\* unless the events of an IPv4-mapped source are taken for it.
PermanentBansHold ==
    \A s \in Unaliased : s \in DOMAIN blacklist /\ blacklist[s] = 0

\* Whoever is banned is on blacklist.txt or was caught over a limit, itself
\* or in the name an event gave it, though the consumer acts on events read
\* long after the frame they are about.
OnlyOffendersBanned ==
    DOMAIN blacklist \subseteq
        PermanentIPs \cup offenders \cup {Named[s] : s \in offenders}

Temporary(s) == s \in DOMAIN blacklist /\ blacklist[s] # 0

\* A temporary ban does not last for ever: it ends even when its source
\* sends nothing more, for which the kernel alone would never delete it, once
\* the traffic leaves the sweeper's iterator a scan at rest; unless a permanent
\* one replaces it.
TemporaryBansEnd ==
    \A s \in Src : Temporary(s) ~> ~Temporary(s)

\* "Time in seconds to block an IP after it violates a threshold" (README.md)
\* : nobody lifts an auto-ban, an expires_ns since boot, before it is over.
BanLasts ==
    [][\A s \in DOMAIN blacklist :
         blacklist[s] \in now + 1 .. Epoch - 1 => s \in DOMAIN blacklist']_vars

\* "0 = drop packets but don't ban (rate limit only)" (example.yaml): nobody
\* is banned while ban_duration_sec is 0 for the daemon and the kernel.
ZeroBansNobody ==
    [][fwDur = 0 /\ kernelDur = 0 =>
         DOMAIN blacklist' \subseteq DOMAIN blacklist]_vars

Term(expiry) == IF expiry = 0 THEN "permanent" ELSE "temporary"

\* The ban life cycle as a whole keeps the policy: each step of a CPU, of the
\* consumer, of the sweeper or of a reload catches one source, bans one that
\* was caught before, lifts one ban that is not held, switches the auto-ban
\* off or on, or changes no ban; and only while it is off, a reload having
\* overtaken an event, is a caught source banned for ever.
Policy == INSTANCE BanPolicy WITH
    Listed <- PermanentIPs,
    Held <- Unaliased,
    sentence <- [s \in DOMAIN blacklist |-> Term(blacklist[s])],
    caught <- offenders,
    off <- fwDur = 0

ImplementsPolicy == Policy!Spec
=============================================================================
