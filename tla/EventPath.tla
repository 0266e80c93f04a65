------------------------------ MODULE EventPath ------------------------------
(***************************************************************************)
(* What the daemon does with an event besides the ban that BanTable is     *)
(* about: consumeEvents() meters it, puts its source on the leaderboard,   *)
(* logs it and hands it to the Discord alerter, whose posts run in         *)
(* goroutines of their own, as does the leaderboard's cleanup.             *)
(*                                                                         *)
(* A step of the consumer is what it does under one lock, or to one of its *)
(* own maps; time passes and the others run in between.                    *)
(***************************************************************************)
EXTENDS Integers, FiniteSets, Sequences, FiniteSetsExt, BpfMap

CONSTANTS
    Src,           \* the source addresses, as printed
    Types,         \* the event types, by name
    AlertEvents,   \* the categories of discord.events, {} for all
    Intervals,     \* the values of discord.min_interval_sec, which none checks
    PostTimeout,   \* the timeout of the HTTP client
    Second,        \* the window of the event limiter
    MaxPerSecond,  \* maxEventsPerSecond
    DedupTTL,      \* dedupTTL
    PruneAt,       \* the size of dedupSeen over which it is pruned
    BoardCap,      \* the leaderboard's cap
    EvictCount,    \* the entries it gives up when it is full
    BoardTTL,      \* the leaderboard's ttl
    RingCap,       \* events the ring buffer holds
    MaxTime,       \* bound of the model: the clock stops there
    MaxEvents      \* bound of the model: events emitted

ASSUME NumbersAssumption ==
    /\ Intervals \subseteq Int
    /\ {PostTimeout, Second, MaxPerSecond, DedupTTL, BoardTTL, BoardCap,
        EvictCount} \subseteq Nat \ {0}
    /\ {PruneAt, RingCap, MaxTime, MaxEvents} \subseteq Nat
ASSUME EvictAssumption == EvictCount <= BoardCap

VARIABLES
    now,       \* time.Now()
    ring,      \* events_map
    emitted,   \* events emitted
    meter,     \* windowStart, eventCount
    consumer,  \* consumeEvents(): where it is, the event's source and type
    board,     \* Leaderboard.attackers: source |-> lastSeen
    dedup,     \* dedupSeen: <<type, source>> |-> time
    minInterval,  \* DiscordAlerter.minInterval
    lastSent,  \* DiscordAlerter.lastSent: type |-> time
    posts,     \* the posts under way: type, start and goroutine
    taken,     \* history: when a second began, if less than one ago |-> the
               \* events let through since
    recorded,  \* history: when each source on the board last had an event
    logged     \* history: pair logged less than dedupTTL ago |-> when, and a
               \* bit that each time flips

vars == <<now, ring, emitted, meter, consumer, board, dedup, minInterval,
          lastSent, posts, taken, recorded, logged>>

Event == [src : Src, type : Types]

Resting == [pc |-> "read"]

At(pc) == [pc |-> pc, src |-> consumer.src, type |-> consumer.type]

----------------------------------------------------------------------------
\* Mutant of EmitTo: never finds the ring buffer full.
EmitToFull(e) == Append(ring, e)

\* emit_event(): an event that does not fit is lost.
EmitTo(e) == IF Len(ring) < RingCap THEN Append(ring, e) ELSE ring

Emit(e) ==
    /\ emitted < MaxEvents /\ emitted' = emitted + 1
    /\ ring' = EmitTo(e)
    /\ UNCHANGED <<now, meter, consumer, board, dedup, minInterval, lastSent,
                   posts, taken, recorded, logged>>

----------------------------------------------------------------------------
\* consumeEvents()

\* Mutant of Metered: the new window keeps the old one's start.
MeteredOldStart ==
    IF now - meter.start >= Second THEN [meter EXCEPT !.count = 1]
                                   ELSE [meter EXCEPT !.count = @ + 1]

\* The meter once it has counted one more event.
Metered ==
    IF now - meter.start >= Second THEN [start |-> now, count |-> 1]
                                   ELSE [meter EXCEPT !.count = @ + 1]

\* Over its budget of the second the consumer drains and forgets.
Take ==
    /\ consumer.pc = "read" /\ ring # <<>>
    /\ ring' = Tail(ring)
    /\ meter' = Metered
    /\ \/ /\ Metered.count <= MaxPerSecond
          /\ consumer' = [pc |-> "record", src |-> Head(ring).src,
                          type |-> Head(ring).type]
          /\ taken' = [t \in DOMAIN taken |-> taken[t] + 1]
       \/ /\ Metered.count > MaxPerSecond
          /\ UNCHANGED <<consumer, taken>>
    /\ UNCHANGED <<now, emitted, board, dedup, minInterval, lastSent, posts,
                   recorded, logged>>

\* Mutant of Evictions: gives way only once it is over the cap.
EvictionsLate(s) ==
    IF s \notin DOMAIN board /\ Cardinality(DOMAIN board) > BoardCap
    THEN kSubset(EvictCount, DOMAIN board) ELSE {{}}

\* Whom the board may drop for a source: any of them when it is full.
Evictions(s) ==
    IF s \notin DOMAIN board /\ Cardinality(DOMAIN board) >= BoardCap
    THEN kSubset(EvictCount, DOMAIN board) ELSE {{}}

\* Mutant of Seen: an entry keeps the time of its first event.
SeenFirst(s) == Lookup(board, s, now)

\* lastSeen of a source that has one more event.
Seen(s) == now

Without(m, keys) == [k \in DOMAIN m \ keys |-> m[k]]

RecordEvent ==
    /\ consumer.pc = "record"
    /\ \E gone \in Evictions(consumer.src) :
        /\ board' = Put(Without(board, gone), consumer.src, Seen(consumer.src))
        /\ recorded' = Put(Without(recorded, gone), consumer.src, now)
    /\ consumer' = At("log")
    /\ UNCHANGED <<now, ring, emitted, meter, dedup, minInterval, lastSent,
                   posts, taken, logged>>

Fresh(t, ttl) == now - t < ttl

\* Mutant of Pruned: forgets the pairs it has just logged too.
PrunedAll(d) == IF Cardinality(DOMAIN d) > PruneAt THEN EmptyMap ELSE d

\* dedupSeen over its size loses the pairs that have had their time.
Pruned(d) ==
    IF Cardinality(DOMAIN d) > PruneAt
    THEN Without(d, {k \in DOMAIN d : ~Fresh(d[k], DedupTTL)}) ELSE d

Flip(pair) == pair \in DOMAIN logged /\ logged[pair].flip

LogEvent ==
    LET pair == <<consumer.type, consumer.src>>
    IN  /\ consumer.pc = "log"
        /\ \/ /\ pair \in DOMAIN dedup /\ Fresh(dedup[pair], DedupTTL)
              /\ UNCHANGED <<dedup, logged>>
           \/ /\ pair \in DOMAIN dedup => ~Fresh(dedup[pair], DedupTTL)
              /\ dedup' = Pruned(Put(dedup, pair, now))
              /\ logged' = Put(logged, pair, [at |-> now, flip |-> ~Flip(pair)])
        /\ consumer' = At("alert")
        /\ UNCHANGED <<now, ring, emitted, meter, board, minInterval, lastSent,
                       posts, taken, recorded>>

\* categorizeEvent()
Category(type) ==
    CASE type \in {"geoip_blocked", "blackhole_drop", "blacklisted"} -> "new_source"
      [] type = "ip_banned" -> "ip_banned"
      [] OTHER -> "rule_trigger"

\* Mutant of Sendable: alerts whenever the category is wanted.
SendableAlways(type) == AlertEvents # {} => Category(type) \in AlertEvents

\* Send() posts nothing of a category that is not wanted or too soon.
Sendable(type) ==
    /\ AlertEvents # {} => Category(type) \in AlertEvents
    /\ type \in DOMAIN lastSent => ~Fresh(lastSent[type], minInterval)

\* A goroutine that is not running yet.
Goroutine ==
    CHOOSE n \in 0..Cardinality(posts) : \A p \in posts : p.go # n

Send ==
    LET type == consumer.type
    IN  /\ consumer.pc = "alert"
        /\ \/ /\ Sendable(type)
              /\ lastSent' = Put(lastSent, type, now)
              /\ posts' = posts \cup {[type |-> type, at |-> now,
                                       go |-> Goroutine]}
           \/ /\ ~Sendable(type)
              /\ UNCHANGED <<lastSent, posts>>
        /\ consumer' = Resting
        /\ UNCHANGED <<now, ring, emitted, meter, board, dedup, minInterval,
                       taken, recorded, logged>>

----------------------------------------------------------------------------
\* The other goroutines, and time.

\* send(): delivered or failed, a post is not repeated.
PostEnds(p) ==
    /\ p \in posts /\ posts' = posts \ {p}
    /\ UNCHANGED <<now, ring, emitted, meter, consumer, board, dedup,
                   minInterval, lastSent, taken, recorded, logged>>

\* cleanupLoop(), every 5 s.
Cleanup ==
    LET gone == {s \in DOMAIN board : now - board[s] > BoardTTL}
    IN  /\ gone # {}
        /\ board' = Without(board, gone)
        /\ recorded' = Without(recorded, gone)
        /\ UNCHANGED <<now, ring, emitted, meter, consumer, dedup, minInterval,
                       lastSent, posts, taken, logged>>

\* No post outlives its timeout.  The history forgets what has had its time.
Tick ==
    /\ now < MaxTime /\ now' = now + 1
    /\ \A p \in posts : now - p.at < PostTimeout
    /\ taken' = [t \in {u \in DOMAIN taken \cup {now'} : now' - u < Second} |->
                    IF t = now' THEN 0 ELSE taken[t]]
    /\ logged' = Without(logged, {k \in DOMAIN logged :
                                     now' - logged[k].at >= DedupTTL})
    /\ UNCHANGED <<ring, emitted, meter, consumer, board, dedup, minInterval,
                   lastSent, posts, recorded>>

----------------------------------------------------------------------------
\* windowStart is the zero time: the first event opens a window.
Init ==
    /\ now = 0 /\ emitted = 0
    /\ ring = <<>>
    /\ meter = [start |-> -Second, count |-> 0]
    /\ consumer = Resting
    /\ board = EmptyMap /\ dedup = EmptyMap /\ lastSent = EmptyMap
    /\ minInterval \in Intervals
    /\ posts = {}
    /\ taken = [t \in {0} |-> 0]
    /\ recorded = EmptyMap /\ logged = EmptyMap

Consumer == Take \/ RecordEvent \/ LogEvent \/ Send

Next ==
    \/ \E e \in Event : Emit(e)
    \/ Consumer
    \/ \E p \in posts : PostEnds(p)
    \/ Cleanup
    \/ Tick

Spec == Init /\ [][Next]_vars

----------------------------------------------------------------------------
\* Properties.

Time == 0..MaxTime

Pairs == Types \X Src

TypeOK ==
    /\ now \in Time /\ emitted \in 0..MaxEvents
    /\ ring \in Seq(Event) /\ Len(ring) <= RingCap
    /\ meter \in [start : Int, count : Nat]
    /\ consumer = Resting
       \/ consumer \in [pc : {"record", "log", "alert"}, src : Src,
                        type : Types]
    /\ IsMap(board, Src, Time) /\ IsMap(dedup, Pairs, Time)
    /\ minInterval \in Intervals /\ IsMap(lastSent, Types, Time)
    /\ posts \subseteq [type : Types, at : Time, go : Nat]
    /\ IsFiniteSet(posts)
    /\ IsMap(taken, Time, Nat) /\ IsMap(recorded, Src, Time)
    /\ IsMap(logged, Pairs, [at : Time, flip : BOOLEAN])

\* "Cap map size to prevent OOM during spoofed floods": the board is at no
\* time over its cap, whatever new sources come and whoever is evicted.
LeaderboardCapped == Cardinality(DOMAIN board) <= BoardCap

\* A second that straddles two windows of the limiter of consumeEvents() gets
\* less than two windows' worth of events, and more than one: a window opens
\* with its first event, which the second after it no longer has.
EventBudget == \A t \in DOMAIN taken : taken[t] <= 2 * MaxPerSecond - 1

\* dedupSeen has no cap of its own.  That it stays bounded in a spoofed
\* flood, where every pair is new, is the limiter's doing: a dedupTTL sees the
\* windows that begin in it, and one that is under way when it does.
DedupBounded ==
    Cardinality(DOMAIN dedup) <=
        Max({PruneAt, ((DedupTTL - 1) \div Second + 2) * MaxPerSecond})

\* "Only log the same (event, IP) pair once every 5 seconds", also when
\* dedupSeen was pruned in between.
LogsSpaced ==
    [][\A k \in DOMAIN logged \cap DOMAIN logged' : logged'[k] = logged[k]]_vars

\* A source leaves the board only after it had no event for the ttl, or when
\* the board is full: the cleanup never races an event it has just had.
RecentStay ==
    [][\A s \in DOMAIN recorded \ DOMAIN recorded' :
         \/ now - recorded[s] > BoardTTL
         \/ Cardinality(DOMAIN board) = BoardCap]_vars

\* However slow or dead the webhook is, the posts of a type that are under
\* way are no more than start one interval after the other in a timeout.
PostsBounded ==
    minInterval > 0 =>
        \A t \in Types :
            Cardinality({p \in posts : p.type = t}) <=
                PostTimeout \div minInterval + 1

\* With an interval of 0, which validate() accepts, every event is posted, and
\* it is the limiter that bounds the goroutines a dead webhook keeps.
PostsBudgeted ==
    Cardinality(posts) <= (PostTimeout \div Second + 2) * MaxPerSecond
=============================================================================
