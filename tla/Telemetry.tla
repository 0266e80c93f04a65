----------------------------- MODULE Telemetry ------------------------------
(***************************************************************************)
(* From the kernel's counters to the verdict "under attack": CPUs bump     *)
(* stats_map while ReadStats() copies it one counter and one CPU at a      *)
(* time; monitorStats() turns two snapshots into rates, AnomalyDetector    *)
(* compares them with its baseline, and an attack that is over goes to     *)
(* the history log.  What the verdict does to the configuration is         *)
(* ControlPlane's.                                                         *)
(*                                                                         *)
(* A packet of the model stands for as many as make up one unit of the     *)
(* detector's limit, so what the division by seconds truncates is lost     *)
(* only in units.                                                          *)
(***************************************************************************)
EXTENDS Integers, FiniteSets, Sequences

CONSTANTS
    CPU,
    Protos,     \* the protocols that the frames of the model have
    DropLimit,  \* 500 drops per second
    Weight,     \* one over alpha, 20
    MaxMissed,  \* bound of the model: reads that fail in a row
    MaxFrames   \* bound of the model: frames taken in

ASSUME TelemetryAssumption ==
    /\ Protos \subseteq {"udp", "icmp", "syn"} /\ CPU # {}
    /\ DropLimit \in Nat /\ Weight \in Nat \ {0, 1}
    /\ MaxMissed \in Nat /\ MaxFrames \in Nat

VARIABLES
    stats,     \* CPU |-> its copy of stats_map
    todo,      \* CPU |-> the counters its frame has yet to bump
    frames,    \* frames taken in
    reader,    \* ReadStats(): the counter, the CPUs to copy, the sums so far
    prev,      \* monitorStats(): the last snapshot
    hasPrev,
    elapsed,   \* seconds since it
    detector,  \* AnomalyDetector: state, attack type, baseline
    history,   \* the attack types of the log's records
    capture,   \* pcapRunning
    fed        \* history: the drops in the deltas, and before the first one

vars == <<stats, todo, frames, reader, prev, hasPrev, elapsed, detector,
          history, capture, fed>>

\* A protocol's counter is read if frames of the model bump it.
Slot(p) == IF p \in Protos THEN <<p>> ELSE <<>>

\* stats_map in the order of its indices: packets, protocols, drop reasons.
ReadOrder ==
    <<"pass_pkts", "drop_pkts">> \o Slot("udp") \o Slot("icmp") \o Slot("syn")
        \o <<"banned", "rate">>

Reasons == {"banned", "rate"}
Counters == {"pass_pkts", "drop_pkts"} \cup Protos \cup Reasons
Zeros == [k \in Counters |-> 0]

----------------------------------------------------------------------------
\* A CPU bumps its own copy, the frame's counters one after the other: the
\* protocol, then at a drop the reason before the drop.  Other CPUs see the
\* bumps in that order, as they do on x86.

\* Mutant of DropExit: counts the drop before its reason.
DropExitFirst(reason) == <<"drop_pkts", reason>>

DropExit(reason) == <<reason, "drop_pkts">>

Paths ==
    {<<"pass_pkts">>, DropExit("banned")} \cup
    {<<p>> \o <<"pass_pkts">> : p \in Protos} \cup
    {<<p>> \o DropExit("rate") : p \in Protos}

Arrive(c, path) ==
    /\ todo[c] = <<>> /\ frames < MaxFrames
    /\ todo' = [todo EXCEPT ![c] = path]
    /\ frames' = frames + 1
    /\ UNCHANGED <<stats, reader, prev, hasPrev, elapsed, detector, history,
                   capture, fed>>

Bump(c) ==
    /\ todo[c] # <<>>
    /\ stats' = [stats EXCEPT ![c][Head(todo[c])] = @ + 1]
    /\ todo' = [todo EXCEPT ![c] = Tail(@)]
    /\ UNCHANGED <<frames, reader, prev, hasPrev, elapsed, detector, history,
                   capture, fed>>

----------------------------------------------------------------------------
\* ReadStats(), once per second.  A lookup copies the counter CPU by CPU.

Waiting == [index |-> 0, left |-> {}, curr |-> Zeros]

Reading == reader.index \in DOMAIN ReadOrder
Complete == reader.index > Len(ReadOrder)

Tick ==
    /\ reader = Waiting
    /\ reader' = [Waiting EXCEPT !.index = 1, !.left = CPU]
    /\ elapsed' = elapsed + 1
    /\ UNCHANGED <<stats, todo, frames, prev, hasPrev, detector, history,
                   capture, fed>>

Copy(c) ==
    LET k == ReadOrder[reader.index]
        last == reader.left = {c}
    IN  /\ Reading /\ c \in reader.left
        /\ reader' = [index |-> IF last THEN reader.index + 1 ELSE reader.index,
                      left |-> IF last THEN CPU ELSE reader.left \ {c},
                      curr |-> [reader.curr EXCEPT ![k] = @ + stats[c][k]]]
        /\ UNCHANGED <<stats, todo, frames, prev, hasPrev, elapsed, detector,
                       history, capture, fed>>

\* Mutant of PrevAfterFailure: takes the empty Stats that comes with an error.
PrevAfterFailureEmpty == Zeros

PrevAfterFailure == prev

\* A lookup fails: the second is skipped.
ReadFails ==
    /\ Reading /\ elapsed <= MaxMissed
    /\ reader' = Waiting
    /\ prev' = PrevAfterFailure
    /\ UNCHANGED <<stats, todo, frames, hasPrev, elapsed, detector, history,
                   capture, fed>>

----------------------------------------------------------------------------
\* CalcRate(): no negative rates.

SafeSub(curr, old) == IF curr < old THEN 0 ELSE curr - old

Delta(k) == SafeSub(reader.curr[k], prev[k])
Rate(k) == Delta(k) \div elapsed

\* AnomalyDetector.  Five times its baseline is kept as a whole number, the
\* real one being less than 1 above, and NoBaseline for a baseline of 0.

NoBaseline == -1

\* Where the moving average may lie after a sample of total.
Smoothed(base, total) ==
    LET low == 5 * total + (Weight - 1) * base
    IN  low \div Weight .. (low + Weight - 2) \div Weight

NewBaselines(total) ==
    CASE detector.base = NoBaseline ->
           {IF total = 0 THEN NoBaseline ELSE 5 * total}
      [] detector.base # NoBaseline /\ detector.state = "normal" ->
           Smoothed(detector.base, total)
      [] OTHER -> {detector.base}

\* The protocol with the highest rate, if one has.
AttackType ==
    LET above(p) ==
            Rate(p) > 0 /\ \A q \in Protos \ {p} : Rate(p) > Rate(q)
    IN  IF \E p \in Protos : above(p) THEN CHOOSE p \in Protos : above(p)
                                      ELSE "mixed"

\* Mutant of UnderAttack: leaves the verdict when there is no traffic.
UnderAttackIdle(base, total) ==
    IF total = 0 THEN detector.state = "attack"
                 ELSE Rate("drop_pkts") > DropLimit \/ total > base

\* Too many drops, or more than five times the baseline.
UnderAttack(base, total) ==
    Rate("drop_pkts") > DropLimit \/ (base # NoBaseline /\ total > base)

\* Update(): an attack has the type that its last sample suggests.
Updated(base, total) ==
    IF UnderAttack(base, total)
    THEN [state |-> "attack", type |-> AttackType, base |-> base]
    ELSE [state |-> "normal", type |-> "", base |-> base]

\* Mutant of RecordType: reads the type after Update() has cleared it.
RecordTypeLate(old, new) == new.type

\* LogAttack(): the type read before Update(), appended or not written at all.
RecordType(old, new) == old.type

Logged(old, new) ==
    IF old.state = "attack" /\ new.state = "normal"
    THEN history' \in {history, Append(history, RecordType(old, new))}
    ELSE UNCHANGED history

\* triggerAutoPCAP() starts with an attack unless one is still running.
Captured(old, new) ==
    capture' = (capture \/ (old.state = "normal" /\ new.state = "attack"))

CaptureEnds ==
    /\ capture /\ capture' = FALSE
    /\ UNCHANGED <<stats, todo, frames, reader, prev, hasPrev, elapsed,
                   detector, history, fed>>

----------------------------------------------------------------------------
\* monitorStats() with a snapshot, the rest of its loop.

Observe ==
    /\ Complete
    /\ IF hasPrev
       THEN LET total == Rate("pass_pkts") + Rate("drop_pkts")
            IN  \E base \in NewBaselines(total) :
                   /\ detector' = Updated(base, total)
                   /\ Logged(detector, detector')
                   /\ Captured(detector, detector')
       ELSE UNCHANGED <<detector, history, capture>>
    /\ fed' = fed + Delta("drop_pkts")
    /\ prev' = reader.curr /\ hasPrev' = TRUE /\ elapsed' = 0
    /\ reader' = Waiting
    /\ UNCHANGED <<stats, todo, frames>>

----------------------------------------------------------------------------
Init ==
    /\ stats = [c \in CPU |-> Zeros]
    /\ todo = [c \in CPU |-> <<>>]
    /\ frames = 0
    /\ reader = Waiting
    /\ prev = Zeros /\ hasPrev = FALSE /\ elapsed = 0
    /\ detector = [state |-> "normal", type |-> "", base |-> NoBaseline]
    /\ history = <<>> /\ capture = FALSE
    /\ fed = 0

Kernel(c) == Bump(c) \/ \E path \in Paths : Arrive(c, path)

Monitor == Tick \/ Observe \/ \E c \in CPU : Copy(c)

Next == (\E c \in CPU : Kernel(c)) \/ Monitor \/ ReadFails \/ CaptureEnds

Spec == Init /\ [][Next]_vars

\* The ticker goes on for as long as the daemon runs.
FairSpec == Spec /\ WF_vars(Monitor)

----------------------------------------------------------------------------
\* Properties.

Snapshot == [Counters -> Nat]

\* Every record of the attack log has a type.
TypeOK ==
    /\ stats \in [CPU -> Snapshot]
    /\ todo \in [CPU -> Seq(Counters)] /\ \A c \in CPU : Len(todo[c]) <= 3
    /\ frames \in Nat /\ fed \in Nat
    /\ reader \in [index : 0..Len(ReadOrder) + 1, left : SUBSET CPU,
                   curr : Snapshot]
    /\ prev \in Snapshot /\ hasPrev \in BOOLEAN
    /\ elapsed \in 0..MaxMissed + 1
    /\ detector \in [state : {"normal", "attack"},
                    type : Protos \cup {"mixed", ""}, base : Nat \cup {NoBaseline}]
    /\ detector.state = "attack" => detector.base \in Nat
    /\ history \in Seq(Protos \cup {"mixed"})
    /\ capture \in BOOLEAN

\* The reasons shown beside "dropped" explain all of it, though a snapshot is
\* of no one moment: whatever the CPUs do while ReadStats() copies, it has no
\* drop without its reason.
ReasonsCoverDrops ==
    Complete => reader.curr["drop_pkts"] <=
                    reader.curr["banned"] + reader.curr["rate"]

\* The detector is shown every drop once: after failed reads and however late
\* a snapshot is, the deltas add up to the counter.
CountedOnce == hasPrev => fed = prev["drop_pkts"]

\* An attack does not outlive the traffic, whatever the frozen baseline is and
\* however many reads fail in between.
AttacksEnd == detector.state = "attack" ~> detector.state = "normal"
=============================================================================
