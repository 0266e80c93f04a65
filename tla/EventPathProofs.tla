-------------------------- MODULE EventPathProofs --------------------------
(***************************************************************************)
(* The bounds of the event path for any sources, types, rates, intervals   *)
(* and sizes: the limiter's budget, the leaderboard's cap, the log's and   *)
(* the alerter's spacing.                                                  *)
(***************************************************************************)
EXTENDS EventPath, BpfMapProofs, SequenceTheorems, FiniteSetTheorems

\* The constants, one by one.
LEMMA Numbers ==
    /\ Intervals \subseteq Int /\ PostTimeout \in Nat \ {0}
    /\ Second \in Nat \ {0} /\ MaxPerSecond \in Nat \ {0}
    /\ DedupTTL \in Nat \ {0} /\ BoardTTL \in Nat \ {0}
    /\ BoardCap \in Nat \ {0} /\ EvictCount \in Nat \ {0}
    /\ PruneAt \in Nat /\ RingCap \in Nat
    /\ MaxTime \in Nat /\ MaxEvents \in Nat
  BY NumbersAssumption

\* Removing keys keeps the other entries and the types.
LEMMA WithoutIsMap ==
    ASSUME NEW K, NEW V, NEW m, IsMap(m, K, V), NEW keys
    PROVE  /\ IsMap(Without(m, keys), K, V)
           /\ DOMAIN Without(m, keys) = DOMAIN m \ keys
           /\ \A k \in DOMAIN m \ keys : Without(m, keys)[k] = m[k]
  BY DEF IsMap, Without

\* There is always a goroutine for one more post.
LEMMA GoroutineFree ==
    ASSUME IsFiniteSet(posts)
    PROVE  Goroutine \in Nat /\ \A p \in posts : p.go # Goroutine
<1> DEFINE c == Cardinality(posts)
<1>1. c \in Nat
  BY FS_CardinalityType
<1>2. \E n \in 0..c : \A p \in posts : p.go # n
  <2> SUFFICES ASSUME \A n \in 0..c : \E p \in posts : p.go = n PROVE FALSE
    OBVIOUS
  <2> DEFINE g == [n \in 0..c |-> CHOOSE p \in posts : p.go = n]
  <2>1. \A n \in 0..c : g[n] \in posts /\ g[n].go = n
    OBVIOUS
  <2>2. g \in Injection(0..c, posts)
    BY <2>1 DEF Injection, IsInjective
  <2>3. IsFiniteSet(0..c) /\ Cardinality(0..c) = c + 1
    <3> HIDE DEF c
    <3>1. 0 \in Int /\ c \in Int /\ ~(0 > c) /\ c - 0 + 1 = c + 1
      BY <1>1
    <3> QED
      BY <3>1, FS_Interval
  <2>4. Cardinality(0..c) <= c
    BY <2>2, <2>3, FS_Injection
  <2> HIDE DEF c
  <2> QED
    BY <2>3, <2>4, <1>1
<1>3. PICK n \in 0..c : \A p \in posts : p.go # n
  BY <1>2
<1>4. /\ Goroutine \in 0..c
      /\ \A p \in posts : p.go # Goroutine
  BY <1>3 DEF Goroutine
<1> QED
  BY <1>1, <1>4

\* Pruning a log removes only pairs that have had their time.
LEMMA PrunedIsMap ==
    ASSUME NEW K, NEW V, NEW d, IsMap(d, K, V)
    PROVE  /\ IsMap(Pruned(d), K, V)
           /\ DOMAIN Pruned(d) \subseteq DOMAIN d
           /\ \A k \in DOMAIN Pruned(d) : Pruned(d)[k] = d[k]
           /\ \A k \in DOMAIN d : Fresh(d[k], DedupTTL) => k \in DOMAIN Pruned(d)
<1> DEFINE stale == {k \in DOMAIN d : ~Fresh(d[k], DedupTTL)}
<1>1. Pruned(d) = Without(d, stale) \/ Pruned(d) = d
  BY DEF Pruned
<1> HIDE DEF stale
<1>2. /\ IsMap(Without(d, stale), K, V)
      /\ DOMAIN Without(d, stale) = DOMAIN d \ stale
      /\ \A k \in DOMAIN d \ stale : Without(d, stale)[k] = d[k]
  BY WithoutIsMap
<1>3. \A k \in DOMAIN d : Fresh(d[k], DedupTTL) => k \notin stale
  BY DEF stale
<1> QED
  BY <1>1, <1>2, <1>3

----------------------------------------------------------------------------
\* The daemon starts with empty tables of the right types.
LEMMA TypeStart == Init => TypeOK
<1> SUFFICES ASSUME Init PROVE TypeOK
  OBVIOUS
<1>1. /\ IsMap(board, Src, Time) /\ IsMap(dedup, Pairs, Time)
      /\ IsMap(lastSent, Types, Time) /\ IsMap(recorded, Src, Time)
      /\ IsMap(logged, Pairs, [at : Time, flip : BOOLEAN])
  BY EmptyIsMap DEF Init
<1>2. now \in Time /\ emitted \in 0..MaxEvents /\ 0 \in Time
  BY Numbers DEF Init, Time
<1>3. IsMap(taken, Time, Nat)
  BY <1>2 DEF Init, IsMap
<1>4. ring \in Seq(Event) /\ Len(ring) <= RingCap
  BY Numbers DEF Init
<1>5. meter \in [start : Int, count : Nat]
  BY Numbers DEF Init
<1>6. posts \subseteq [type : Types, at : Time, go : Nat] /\ IsFiniteSet(posts)
  BY FS_EmptySet DEF Init
<1> QED
  BY <1>1, <1>2, <1>3, <1>4, <1>5, <1>6 DEF Init, TypeOK

\* Each step of the daemon and of the program keeps the types.
LEMMA TypeStep == TypeOK /\ [Next]_vars => TypeOK'
<1> SUFFICES ASSUME TypeOK, [Next]_vars PROVE TypeOK'
  OBVIOUS
<1>0. /\ now \in Time /\ ring \in Seq(Event) /\ Len(ring) <= RingCap
      /\ meter \in [start : Int, count : Nat] /\ now \in Int
      /\ consumer = Resting
         \/ consumer \in [pc : {"record", "log", "alert"}, src : Src,
                          type : Types]
      /\ IsMap(board, Src, Time) /\ IsMap(dedup, Pairs, Time)
      /\ IsMap(lastSent, Types, Time) /\ IsMap(recorded, Src, Time)
      /\ IsMap(taken, Time, Nat)
      /\ IsMap(logged, Pairs, [at : Time, flip : BOOLEAN])
      /\ posts \subseteq [type : Types, at : Time, go : Nat]
      /\ IsFiniteSet(posts) /\ minInterval \in Intervals
      /\ emitted \in 0..MaxEvents
  BY DEF TypeOK, Time
<1>10. consumer.pc # "read" =>
         consumer.src \in Src /\ consumer.type \in Types
  BY <1>0 DEF Resting
<1>1. ASSUME NEW e \in Event, Emit(e) PROVE TypeOK'
  <2>1. ring' \in Seq(Event) /\ Len(ring') <= RingCap
    BY <1>1, <1>0, Numbers, AppendProperties DEF Emit, EmitTo
  <2>2. emitted' \in 0..MaxEvents
    BY <1>1, <1>0, Numbers DEF Emit
  <2> QED
    BY <1>1, <2>1, <2>2 DEF Emit, TypeOK
<1>2. CASE Take
  <2>1. ring # <<>> /\ ring' = Tail(ring) /\ meter' = Metered
    BY <1>2 DEF Take
  <2>2. ring' \in Seq(Event) /\ Len(ring') <= RingCap /\ Head(ring) \in Event
    BY SMTT(60), <2>1, <1>0, Numbers, HeadTailProperties
  <2>3. meter' \in [start : Int, count : Nat]
    <3>1. meter' = [start |-> now, count |-> 1]
          \/ meter' = [meter EXCEPT !.count = meter.count + 1]
      BY <2>1 DEF Metered
    <3> QED
      BY <3>1, <1>0
  <2>4. /\ consumer' = Resting
           \/ consumer' \in [pc : {"record", "log", "alert"}, src : Src,
                             type : Types]
        /\ IsMap(taken', Time, Nat)
    <3>1. CASE UNCHANGED <<consumer, taken>>
      BY <3>1, <1>0
    <3>2. CASE /\ consumer' = [pc |-> "record", src |-> Head(ring).src,
                               type |-> Head(ring).type]
               /\ taken' = [t \in DOMAIN taken |-> taken[t] + 1]
      <4>1. consumer' \in [pc : {"record", "log", "alert"}, src : Src,
                           type : Types]
        BY <3>2, <2>2 DEF Event
      <4>2. IsMap(taken', Time, Nat)
        BY <3>2, <1>0 DEF IsMap
      <4> QED
        BY <4>1, <4>2
    <3> QED
      BY <3>1, <3>2, <1>2 DEF Take
  <2> QED
    BY <1>2, <2>2, <2>3, <2>4 DEF Take, TypeOK
<1>3. CASE RecordEvent
  <2>1. consumer.src \in Src /\ Seen(consumer.src) = now /\ now \in Time
    BY <1>3, <1>10, <1>0 DEF RecordEvent, Seen
  <2>2. PICK gone \in Evictions(consumer.src) :
           /\ board' = Put(Without(board, gone), consumer.src, now)
           /\ recorded' = Put(Without(recorded, gone), consumer.src, now)
    BY <1>3, <2>1 DEF RecordEvent
  <2>3. IsMap(board', Src, Time)
    BY <2>1, <2>2, <1>0, WithoutIsMap, PutIsMap
  <2>4. IsMap(recorded', Src, Time)
    BY <2>1, <2>2, <1>0, WithoutIsMap, PutIsMap
  <2>5. consumer' \in [pc : {"record", "log", "alert"}, src : Src,
                       type : Types]
    BY <1>3, <1>10 DEF RecordEvent, At
  <2> QED
    BY <1>3, <2>3, <2>4, <2>5 DEF RecordEvent, TypeOK
<1>4. CASE LogEvent
  <2> DEFINE pair == <<consumer.type, consumer.src>>
  <2>1. pair \in Pairs /\ now \in Time
    BY <1>4, <1>10, <1>0 DEF LogEvent, Pairs
  <2>2. IsMap(dedup', Pairs, Time)
    <3>1. CASE dedup' = dedup
      BY <3>1, <1>0
    <3>2. CASE dedup' = Pruned(Put(dedup, pair, now))
      <4>1. IsMap(Put(dedup, pair, now), Pairs, Time)
        BY <2>1, <1>0, PutIsMap
      <4> QED
        BY <3>2, <4>1, PrunedIsMap
    <3> QED
      BY <3>1, <3>2, <1>4 DEF LogEvent
  <2>3. IsMap(logged', Pairs, [at : Time, flip : BOOLEAN])
    <3>1. CASE logged' = logged
      BY <3>1, <1>0
    <3>2. CASE logged' = Put(logged, pair, [at |-> now, flip |-> ~Flip(pair)])
      <4>1. [at |-> now, flip |-> ~Flip(pair)] \in [at : Time, flip : BOOLEAN]
        BY <2>1
      <4> QED
        BY <3>2, <4>1, <2>1, <1>0, PutIsMap
    <3> QED
      BY <3>1, <3>2, <1>4 DEF LogEvent
  <2>4. consumer' \in [pc : {"record", "log", "alert"}, src : Src,
                       type : Types]
    BY <1>4, <1>10 DEF LogEvent, At
  <2> QED
    BY <1>4, <2>2, <2>3, <2>4 DEF LogEvent, TypeOK
<1>5. CASE Send
  <2>1. consumer.type \in Types /\ now \in Time
    BY <1>5, <1>10, <1>0 DEF Send
  <2>2. /\ IsMap(lastSent', Types, Time)
        /\ posts' \subseteq [type : Types, at : Time, go : Nat]
        /\ IsFiniteSet(posts')
    <3>1. CASE lastSent' = lastSent /\ posts' = posts
      BY <3>1, <1>0
    <3>2. CASE /\ lastSent' = Put(lastSent, consumer.type, now)
               /\ posts' = posts \cup {[type |-> consumer.type, at |-> now,
                                         go |-> Goroutine]}
      <4>1. IsMap(Put(lastSent, consumer.type, now), Types, Time)
        BY <2>1, <1>0, PutIsMap
      <4>2. Goroutine \in Nat
        BY <1>0, GoroutineFree
      <4>3. IsFiniteSet(posts')
        BY <3>2, <1>0, FS_AddElement
      <4> QED
        BY <3>2, <4>1, <4>2, <4>3, <2>1, <1>0
    <3> QED
      BY <3>1, <3>2, <1>5 DEF Send
  <2> QED
    BY <1>5, <2>2 DEF Send, TypeOK
<1>6. ASSUME NEW p \in posts, PostEnds(p) PROVE TypeOK'
  <2>1. /\ posts' \subseteq [type : Types, at : Time, go : Nat]
        /\ IsFiniteSet(posts')
    BY <1>6, <1>0, FS_Subset DEF PostEnds
  <2> QED
    BY <1>6, <2>1 DEF PostEnds, TypeOK
<1>7. CASE Cleanup
  <2> DEFINE gone == {s \in DOMAIN board : now - board[s] > BoardTTL}
  <2>1. board' = Without(board, gone) /\ recorded' = Without(recorded, gone)
    BY <1>7 DEF Cleanup
  <2>2. IsMap(board', Src, Time) /\ IsMap(recorded', Src, Time)
    BY <2>1, <1>0, WithoutIsMap
  <2> QED
    BY <1>7, <2>2 DEF Cleanup, TypeOK
<1>8. CASE Tick
  <2>1. now' \in Time
    BY <1>8, <1>0, Numbers DEF Tick, Time
  <2>2. IsMap(taken', Time, Nat)
    <3>1. \A t \in DOMAIN taken : taken[t] \in Nat /\ t \in Time
      BY <1>0 DEF IsMap
    <3>2. /\ DOMAIN taken' \subseteq DOMAIN taken \cup {now'}
          /\ taken' = [t \in DOMAIN taken' |-> IF t = now' THEN 0 ELSE taken[t]]
      BY <1>8 DEF Tick
    <3> QED
      BY <3>1, <3>2, <2>1 DEF IsMap
  <2>3. IsMap(logged', Pairs, [at : Time, flip : BOOLEAN])
    BY <1>8, <1>0, WithoutIsMap DEF Tick
  <2> QED
    BY <1>8, <2>1, <2>2, <2>3 DEF Tick, TypeOK
<1>9. CASE UNCHANGED vars
  BY <1>9 DEF vars, TypeOK
<1> QED
  BY <1>1, <1>2, <1>3, <1>4, <1>5, <1>6, <1>7, <1>8, <1>9 DEF Next, Consumer

\* The types of the daemon's tables and of the events under way.
THEOREM TypeCorrect == Spec => []TypeOK
  BY TypeStart, TypeStep, PTL DEF Spec
----------------------------------------------------------------------------
\* The leaderboard.  What is remembered of an entry is its lastSeen, and the
\* board is a finite table within its cap.
BoardInv ==
    /\ recorded = board
    /\ IsFiniteSet(DOMAIN board)
    /\ Cardinality(DOMAIN board) <= BoardCap

\* An event's eviction leaves room for the event's source.
LEMMA RoomMade ==
    ASSUME NEW s, NEW gone \in Evictions(s), BoardInv
    PROVE  LET left == (DOMAIN board \ gone) \cup {s}
           IN  /\ IsFiniteSet(left) /\ Cardinality(left) <= BoardCap
               /\ gone # {} => Cardinality(DOMAIN board) = BoardCap
<1> DEFINE dom == DOMAIN board
           rest == dom \ gone
<1>1. IsFiniteSet(dom) /\ Cardinality(dom) \in Nat /\ Cardinality(dom) <= BoardCap
  BY FS_CardinalityType DEF BoardInv
<1>2. CASE s \notin dom /\ Cardinality(dom) >= BoardCap
  <2>1. gone \subseteq dom /\ Cardinality(gone) = EvictCount
    BY <1>2 DEF Evictions, kSubset
  <2>2. /\ IsFiniteSet(rest)
        /\ Cardinality(rest) = Cardinality(dom) - Cardinality(dom \cap gone)
    BY <1>1, FS_Difference
  <2>3. dom \cap gone = gone
    BY <2>1
  <2>4. /\ IsFiniteSet(rest \cup {s})
        /\ Cardinality(rest \cup {s}) =
              IF s \in rest THEN Cardinality(rest) ELSE Cardinality(rest) + 1
    BY <2>2, FS_AddElement
  <2>5. Cardinality(dom) = BoardCap
    BY <1>1, <1>2, Numbers
  <2>6. Cardinality(rest) = BoardCap - EvictCount
    BY <2>1, <2>2, <2>3, <2>5
  <2>7. Cardinality(rest \cup {s}) <= BoardCap
    <3> HIDE DEF rest
    <3> QED
      BY <2>4, <2>6, Numbers
  <2> QED
    BY <2>4, <2>5, <2>7
<1>3. CASE ~(s \notin dom /\ Cardinality(dom) >= BoardCap)
  <2>1. gone = {} /\ rest = dom
    BY <1>3 DEF Evictions
  <2>2. /\ IsFiniteSet(dom \cup {s})
        /\ Cardinality(dom \cup {s}) =
              IF s \in dom THEN Cardinality(dom) ELSE Cardinality(dom) + 1
    BY <1>1, FS_AddElement
  <2> QED
    BY <1>1, <1>3, <2>1, <2>2, Numbers
<1> QED
  BY <1>2, <1>3

\* The board starts empty.
LEMMA BoardStart == Init => BoardInv
<1> SUFFICES ASSUME Init PROVE BoardInv
  OBVIOUS
<1>1. recorded = board /\ DOMAIN board = {}
  BY DEF Init, EmptyMap
<1> QED
  BY <1>1, FS_EmptySet, Numbers DEF BoardInv

\* Only the consumer and the cleanup touch the board; neither overfills it.
LEMMA BoardStep == BoardInv /\ [Next]_vars => BoardInv'
<1> SUFFICES ASSUME BoardInv, [Next]_vars PROVE BoardInv'
  OBVIOUS
<1>1. CASE UNCHANGED <<board, recorded>>
  BY <1>1 DEF BoardInv
<1>2. CASE RecordEvent
  <2>1. PICK gone \in Evictions(consumer.src) :
           /\ board' = Put(Without(board, gone), consumer.src, now)
           /\ recorded' = Put(Without(recorded, gone), consumer.src, now)
    BY <1>2 DEF RecordEvent, Seen
  <2>2. recorded' = board'
    BY <2>1 DEF BoardInv
  <2>3. DOMAIN board' = (DOMAIN board \ gone) \cup {consumer.src}
    BY <2>1 DEF Put, Without
  <2> QED
    BY <2>2, <2>3, RoomMade DEF BoardInv
<1>3. CASE Cleanup
  <2>1. PICK gone : board' = Without(board, gone) /\ recorded' = Without(recorded, gone)
    BY <1>3 DEF Cleanup
  <2>2. recorded' = board' /\ DOMAIN board' = DOMAIN board \ gone
    BY <2>1 DEF BoardInv, Without
  <2>3. /\ IsFiniteSet(DOMAIN board')
        /\ Cardinality(DOMAIN board') <= Cardinality(DOMAIN board)
    BY <2>2, FS_Subset DEF BoardInv
  <2>4. Cardinality(DOMAIN board) \in Nat /\ Cardinality(DOMAIN board') \in Nat
    BY <2>3, FS_CardinalityType DEF BoardInv
  <2> QED
    BY <2>2, <2>3, <2>4, Numbers DEF BoardInv
<1> QED
  BY <1>1, <1>2, <1>3 DEF Next, Consumer, Emit, Take, LogEvent, Send, PostEnds,
     Tick, vars

\* consumeEvents() never lets the leaderboard over its cap, for any sources.
THEOREM LeaderboardBounded == Spec => []LeaderboardCapped
<1>1. BoardInv => LeaderboardCapped
  BY DEF BoardInv, LeaderboardCapped
<1> QED
  BY <1>1, BoardStart, BoardStep, PTL DEF Spec

\* A source that had an event within the ttl is dropped only for the cap.
THEOREM RecentKept == Spec => RecentStay
<1>1. BoardInv /\ [Next]_vars =>
         [\A s \in DOMAIN recorded \ DOMAIN recorded' :
             \/ now - recorded[s] > BoardTTL
             \/ Cardinality(DOMAIN board) = BoardCap]_vars
  <2> SUFFICES ASSUME BoardInv, [Next]_vars,
                      NEW s \in DOMAIN recorded \ DOMAIN recorded'
               PROVE  \/ now - recorded[s] > BoardTTL
                      \/ Cardinality(DOMAIN board) = BoardCap
    OBVIOUS
  <2>1. CASE RecordEvent
    <3>1. PICK gone \in Evictions(consumer.src) :
             recorded' = Put(Without(recorded, gone), consumer.src, now)
      BY <2>1 DEF RecordEvent
    <3>2. gone # {}
      BY <3>1 DEF Put, Without
    <3> QED
      BY <3>2, RoomMade
  <2>2. CASE Cleanup
    BY <2>2 DEF Cleanup, Without, BoardInv
  <2>3. CASE UNCHANGED recorded
    BY <2>3
  <2> QED
    BY <2>1, <2>2, <2>3 DEF Next, Consumer, Emit, Take, LogEvent, Send,
       PostEnds, Tick, vars
<1> QED
  BY <1>1, BoardStart, BoardStep, PTL DEF Spec, RecentStay

----------------------------------------------------------------------------
\* The log.  A pair logged less than dedupTTL ago is in dedupSeen, pruned or
\* not, with the time it was logged at.
LogInv ==
    \A k \in DOMAIN logged :
        /\ k \in DOMAIN dedup /\ dedup[k] = logged[k].at
        /\ Fresh(logged[k].at, DedupTTL)

\* A line is written only for a pair that was not logged for dedupTTL.
LEMMA NewLine ==
    ASSUME TypeOK, LogInv, LogEvent, ~UNCHANGED <<dedup, logged>>
    PROVE  LET pair == <<consumer.type, consumer.src>>
           IN  /\ pair \in Pairs /\ pair \notin DOMAIN logged
               /\ dedup' = Pruned(Put(dedup, pair, now))
               /\ logged' = Put(logged, pair, [at |-> now, flip |-> ~Flip(pair)])
<1>1. consumer.src \in Src /\ consumer.type \in Types
  BY DEF LogEvent, TypeOK, Resting
<1> QED
  BY <1>1 DEF LogEvent, LogInv, Pairs

\* Pruning and the passing of time keep what was logged lately in dedupSeen.
LEMMA LogStep == TypeOK /\ LogInv /\ [Next]_vars => LogInv'
<1> SUFFICES ASSUME TypeOK, LogInv, [Next]_vars PROVE LogInv'
  OBVIOUS
<1>0. /\ now \in Time /\ now \in Int
      /\ IsMap(dedup, Pairs, Time)
      /\ IsMap(logged, Pairs, [at : Time, flip : BOOLEAN])
  BY DEF TypeOK, Time
<1>1. CASE UNCHANGED <<now, dedup, logged>>
  BY <1>1 DEF LogInv, Fresh
<1>2. CASE LogEvent /\ ~UNCHANGED <<dedup, logged>>
  <2> DEFINE pair == <<consumer.type, consumer.src>>
             d == Put(dedup, pair, now)
             r == [at |-> now, flip |-> ~Flip(pair)]
  <2>1. /\ pair \in Pairs /\ now' = now
        /\ dedup' = Pruned(d) /\ logged' = Put(logged, pair, r)
    BY <1>2, NewLine DEF LogEvent
  <2>3. r \in [at : Time, flip : BOOLEAN] /\ r.at = now
    BY <1>0
  <2> HIDE DEF pair, r
  <2>2. /\ IsMap(d, Pairs, Time) /\ DOMAIN d = DOMAIN dedup \cup {pair}
        /\ d[pair] = now
        /\ \A x \in DOMAIN dedup : x # pair => d[x] = dedup[x]
    <3>1. pair \in Pairs /\ now \in Time /\ IsMap(dedup, Pairs, Time)
      BY <1>0, <2>1
    <3>2. IsMap(d, Pairs, Time)
      BY <3>1, PutIsMap
    <3>3. /\ DOMAIN d = DOMAIN dedup \cup {pair}
          /\ d[pair] = now
          /\ \A x \in DOMAIN dedup : x # pair => d[x] = dedup[x]
      BY DEF Put
    <3> QED
      BY <3>2, <3>3
  <2> HIDE DEF d
  <2>4. /\ DOMAIN logged' = DOMAIN logged \cup {pair}
        /\ logged'[pair] = r
        /\ \A x \in DOMAIN logged : x # pair => logged'[x] = logged[x]
    <3> DEFINE new == Put(logged, pair, r)
    <3>1. DOMAIN new = DOMAIN logged \cup {pair}
      BY DEF Put
    <3>2. \A x \in DOMAIN new : new[x] = IF x = pair THEN r ELSE logged[x]
      BY DEF Put
    <3> QED
      BY <2>1, <3>1, <3>2
  <2>5. ASSUME NEW k \in DOMAIN logged'
        PROVE  /\ k \in DOMAIN d /\ d[k] = logged'[k].at
               /\ Fresh(logged'[k].at, DedupTTL)
    <3>1. CASE k = pair
      BY <3>1, <2>2, <2>3, <2>4, <1>0, Numbers DEF Fresh
    <3>2. CASE k # pair
      BY <3>2, <2>2, <2>4, <2>5 DEF LogInv
    <3> QED
      BY <3>1, <3>2
  <2>6. \A k \in DOMAIN d : Fresh(d[k], DedupTTL) =>
           k \in DOMAIN dedup' /\ dedup'[k] = d[k]
    <3>1. /\ \A k \in DOMAIN Pruned(d) : Pruned(d)[k] = d[k]
          /\ \A k \in DOMAIN d : Fresh(d[k], DedupTTL) => k \in DOMAIN Pruned(d)
      BY DEF Pruned, Without
    <3> QED
      BY <2>1, <3>1
  <2> QED
    BY <2>1, <2>5, <2>6 DEF LogInv, Fresh
<1>3. CASE Tick
  <2>1. /\ now' \in Int /\ dedup' = dedup
        /\ logged' = Without(logged, {k \in DOMAIN logged :
                                         now' - logged[k].at >= DedupTTL})
    BY <1>0, <1>3 DEF Tick
  <2>2. ASSUME NEW k \in DOMAIN logged'
        PROVE  /\ k \in DOMAIN logged /\ logged'[k] = logged[k]
               /\ ~(now' - logged[k].at >= DedupTTL)
    BY <2>1, <2>2 DEF Without
  <2>3. ASSUME NEW k \in DOMAIN logged PROVE logged[k].at \in Int
    BY <1>0, <2>3 DEF IsMap, Time
  <2> QED
    BY <2>1, <2>2, <2>3, Numbers DEF LogInv, Fresh
<1> QED
  BY <1>1, <1>2, <1>3 DEF Next, Consumer, Emit, Take, RecordEvent, LogEvent,
     Send, PostEnds, Cleanup, vars

\* No pair is logged twice in dedupTTL, whatever the pruning of dedupSeen.
THEOREM LoggedOnce == Spec => LogsSpaced
<1>1. Init => LogInv
  BY DEF Init, LogInv, EmptyMap
<1>2. TypeOK /\ LogInv /\ [Next]_vars =>
         [\A k \in DOMAIN logged \cap DOMAIN logged' : logged'[k] = logged[k]]_vars
  <2> SUFFICES ASSUME TypeOK, LogInv, [Next]_vars,
                      NEW k \in DOMAIN logged \cap DOMAIN logged'
               PROVE  logged'[k] = logged[k]
    OBVIOUS
  <2>1. CASE LogEvent /\ ~UNCHANGED <<dedup, logged>>
    BY <2>1, NewLine DEF Put
  <2>2. CASE Tick
    BY <2>2 DEF Tick, Without
  <2>3. CASE UNCHANGED logged
    BY <2>3
  <2> QED
    BY <2>1, <2>2, <2>3 DEF Next, Consumer, Emit, Take, RecordEvent, LogEvent,
       Send, PostEnds, Cleanup, vars
<1> QED
  BY <1>1, <1>2, TypeStart, TypeStep, LogStep, PTL DEF Spec, LogsSpaced

----------------------------------------------------------------------------
\* The limiter.  Since a moment after the window's first event at most what the
\* window let through besides passed; since one before it, at most one window's
\* worth more, without the event that opened that window.
Used == IF meter.count <= MaxPerSecond THEN meter.count ELSE MaxPerSecond

MeterInv ==
    /\ meter.start <= now
    /\ now \in DOMAIN taken
    /\ now - meter.start >= Second => taken[now] = 0
    /\ meter.count = 0 => now - meter.start >= Second
    /\ \A t \in DOMAIN taken :
          /\ t <= now /\ now - t < Second
          /\ t > meter.start => taken[t] = 0 \/ taken[t] <= Used - 1
          /\ t = meter.start => taken[t] <= Used
          /\ taken[t] <= MaxPerSecond - 1 + Used

\* Each event the limiter lets through is counted by its window.
LEMMA MeterStep == TypeOK /\ MeterInv /\ [Next]_vars => MeterInv'
<1> SUFFICES ASSUME TypeOK, MeterInv, [Next]_vars PROVE MeterInv'
  OBVIOUS
<1>0. /\ now \in Int /\ meter \in [start : Int, count : Nat]
      /\ Used \in Nat /\ Used <= MaxPerSecond
      /\ \A t \in DOMAIN taken : t \in Int /\ taken[t] \in Nat
  BY SMTT(60), Numbers DEF TypeOK, Time, IsMap, Used
<1>1. CASE UNCHANGED <<now, meter, taken>>
  BY <1>1 DEF MeterInv, Used
<1>2. CASE Take
  <2>0. now' = now /\ meter' = Metered
    BY <1>2 DEF Take
  <2>1. CASE now - meter.start >= Second
    <3>1. meter' = [start |-> now, count |-> 1] /\ Used' = 1
      BY <2>0, <2>1, Numbers DEF Metered, Used
    <3>2. taken' = [t \in DOMAIN taken |-> taken[t] + 1]
      BY <1>2, <2>1, Numbers DEF Take, Metered
    <3>3. ASSUME NEW t \in DOMAIN taken
          PROVE  t > meter.start /\ taken[t] <= MaxPerSecond - 1
      BY <3>3, <2>1, <1>0, Numbers DEF MeterInv
    <3> QED
      BY <2>0, <2>1, <3>1, <3>2, <3>3, <1>0, Numbers DEF MeterInv
  <2>2. CASE ~(now - meter.start >= Second)
    <3>1. meter' = [meter EXCEPT !.count = meter.count + 1]
      BY <2>0, <2>2 DEF Metered
    <3>2. meter'.start = meter.start /\ meter'.count = meter.count + 1
      BY <3>1, <1>0
    <3>3. CASE meter.count + 1 <= MaxPerSecond
      <4>1. /\ taken' = [t \in DOMAIN taken |-> taken[t] + 1]
            /\ Used' = Used + 1
        BY SMTT(60), <1>2, <2>0, <3>2, <3>3, <1>0, Numbers DEF Take, Used
      <4>2. Used >= 1
        BY <2>2, <3>3, <1>0, Numbers DEF MeterInv, Used
      <4>3. /\ DOMAIN taken' = DOMAIN taken
            /\ \A t \in DOMAIN taken : taken'[t] = taken[t] + 1
        BY <4>1
      <4>4. ASSUME NEW t \in DOMAIN taken
            PROVE  /\ t <= now /\ now - t < Second
                   /\ t > meter.start => taken[t] + 1 <= Used'- 1
                   /\ t = meter.start => taken[t] + 1 <= Used'
                   /\ taken[t] + 1 <= MaxPerSecond - 1 + Used'
        <5>1. /\ t \in Int /\ taken[t] \in Nat /\ Used \in Nat
              /\ Used' = Used + 1 /\ MaxPerSecond \in Nat
          BY <4>1, <1>0, Numbers
        <5>2. /\ t <= now /\ now - t < Second
              /\ t > meter.start => taken[t] = 0 \/ taken[t] <= Used - 1
              /\ t = meter.start => taken[t] <= Used
              /\ taken[t] <= MaxPerSecond - 1 + Used
          BY DEF MeterInv
        <5> QED
          BY <5>1, <5>2, <4>2
      <4> QED
        BY <2>0, <2>2, <3>2, <4>1, <4>3, <4>4, <1>0 DEF MeterInv
    <3>4. CASE ~(meter.count + 1 <= MaxPerSecond)
      <4>1. ~(Metered.count <= MaxPerSecond)
        BY <2>0, <3>2, <3>4
      <4>2. taken' = taken
        BY <1>2, <4>1 DEF Take
      <4>3. Used' = Used
        BY <3>2, <3>4, <1>0, Numbers DEF Used
      <4> QED
        BY <2>0, <2>2, <3>2, <4>2, <4>3, <1>0, Numbers DEF MeterInv
    <3> QED
      BY <3>3, <3>4
  <2> QED
    BY <2>1, <2>2
<1>3. CASE Tick
  <2>1. /\ now' = now + 1 /\ meter' = meter /\ Used' = Used
        /\ taken' = [t \in {u \in DOMAIN taken \cup {now'} : now' - u < Second} |->
                        IF t = now' THEN 0 ELSE taken[t]]
    BY <1>3 DEF Tick, Used
  <2>2. now' \in DOMAIN taken' /\ taken'[now'] = 0 /\ meter.start <= now'
    BY <2>1, <1>0, Numbers DEF MeterInv
  <2>3. ASSUME NEW t \in DOMAIN taken', t # now'
        PROVE  t \in DOMAIN taken /\ taken'[t] = taken[t] /\ now' - t < Second
    BY <2>1, <2>3
  <2> QED
    BY <2>1, <2>2, <2>3, <1>0, Numbers DEF MeterInv
<1> QED
  BY <1>1, <1>2, <1>3 DEF Next, Consumer, Emit, RecordEvent, LogEvent, Send,
     PostEnds, Cleanup, vars

\* The limiter lets through less than two windows' worth of events in any
\* second, for any rate of arrival.
THEOREM BudgetKept == Spec => []EventBudget
<1>1. Init => MeterInv
  BY Numbers DEF Init, MeterInv, Used
<1>2. TypeOK /\ MeterInv => EventBudget
  <2> SUFFICES ASSUME TypeOK, MeterInv, NEW t \in DOMAIN taken
               PROVE  taken[t] <= 2 * MaxPerSecond - 1
    BY DEF EventBudget
  <2>1. taken[t] \in Nat /\ Used \in Nat /\ Used <= MaxPerSecond
    BY Numbers DEF TypeOK, IsMap, Used
  <2>2. taken[t] <= MaxPerSecond - 1 + Used
    BY DEF MeterInv
  <2> QED
    BY <2>1, <2>2, Numbers
<1> QED
  BY <1>1, <1>2, TypeStart, TypeStep, MeterStep, PTL DEF Spec

----------------------------------------------------------------------------
\* The alerter.  lastSent is stamped before the post is started, so two posts
\* of a type started an interval apart, and each ends within its timeout.
PostInv ==
    /\ \A p \in posts :
          /\ p.type \in DOMAIN lastSent /\ p.at <= lastSent[p.type]
          /\ p.at <= now /\ now - p.at <= PostTimeout
    /\ \A p, q \in posts :
          p.type = q.type /\ p # q =>
             \/ p.at <= q.at /\ q.at - p.at >= minInterval
             \/ q.at <= p.at /\ p.at - q.at >= minInterval

\* A post starts only an interval after the last of its type.
LEMMA PostStep == TypeOK /\ PostInv /\ [Next]_vars => PostInv'
<1> SUFFICES ASSUME TypeOK, PostInv, [Next]_vars PROVE PostInv'
  OBVIOUS
<1>0. /\ now \in Int
      /\ \A p \in posts : p.at \in Int
      /\ minInterval \in Int /\ IsFiniteSet(posts)
      /\ \A t \in DOMAIN lastSent : lastSent[t] \in Int
  <2>1. now \in Int /\ minInterval \in Int /\ IsFiniteSet(posts)
    BY Numbers DEF TypeOK, Time
  <2>2. \A p \in posts : p.at \in Int
    BY DEF TypeOK, Time
  <2>3. \A t \in DOMAIN lastSent : lastSent[t] \in Int
    BY DEF TypeOK, Time, IsMap
  <2> QED
    BY <2>1, <2>2, <2>3
<1>a. minInterval' = minInterval
  BY DEF Next, Consumer, Emit, Take, RecordEvent, LogEvent, Send, PostEnds,
     Cleanup, Tick, vars
<1>1. CASE UNCHANGED <<now, lastSent, posts>>
  BY <1>1, <1>a DEF PostInv
<1>2. CASE Send /\ ~UNCHANGED <<lastSent, posts>>
  <2> DEFINE type == consumer.type
             new == [type |-> type, at |-> now, go |-> Goroutine]
  <2>1. /\ Sendable(type) /\ now' = now
        /\ lastSent' = Put(lastSent, type, now)
        /\ posts' = posts \cup {new}
    BY <1>2 DEF Send
  <2>2. /\ DOMAIN lastSent' = DOMAIN lastSent \cup {type}
        /\ lastSent'[type] = now
        /\ \A t \in DOMAIN lastSent : t # type => lastSent'[t] = lastSent[t]
    BY <2>1 DEF Put
  <2>3. new.type = type /\ new.at = now
    OBVIOUS
  <2> HIDE DEF new
  <2>4. ASSUME NEW p \in posts, p.type = type
        PROVE  p.at <= now /\ now - p.at >= minInterval
    <3>1. /\ p.type \in DOMAIN lastSent /\ p.at <= lastSent[p.type]
          /\ p.at <= now
      BY DEF PostInv
    <3>2. now - lastSent[type] >= minInterval
      BY <3>1, <2>1, <2>4, <1>0, Numbers DEF Sendable, Fresh
    <3> QED
      BY <3>1, <3>2, <2>4, <1>0, Numbers
  <2>5. ASSUME NEW p \in posts'
        PROVE  /\ p.type \in DOMAIN lastSent' /\ p.at <= lastSent'[p.type]
               /\ p.at <= now' /\ now' - p.at <= PostTimeout
    <3>1. CASE p = new
      BY <3>1, <2>1, <2>2, <2>3, <1>0, Numbers
    <3>2. CASE p \in posts
      BY <3>2, <2>1, <2>2, <2>4 DEF PostInv
    <3> QED
      BY <3>1, <3>2, <2>1
  <2>6. ASSUME NEW p \in posts', NEW q \in posts', p.type = q.type, p # q
        PROVE  \/ p.at <= q.at /\ q.at - p.at >= minInterval
               \/ q.at <= p.at /\ p.at - q.at >= minInterval
    <3>1. CASE p \in posts /\ q \in posts
      BY <3>1, <2>6 DEF PostInv
    <3>2. CASE p = new /\ q \in posts
      BY <3>2, <2>6, <2>3, <2>4
    <3>3. CASE p \in posts /\ q = new
      BY <3>3, <2>6, <2>3, <2>4
    <3> QED
      BY <3>1, <3>2, <3>3, <2>1, <2>6
  <2> QED
    BY <2>5, <2>6, <1>a DEF PostInv
<1>3. ASSUME NEW p \in posts, PostEnds(p) PROVE PostInv'
  BY <1>3, <1>a DEF PostEnds, PostInv
<1>4. CASE Tick
  <2>1. /\ now' = now + 1 /\ posts' = posts /\ lastSent' = lastSent
        /\ \A p \in posts : now - p.at < PostTimeout
    BY <1>4 DEF Tick
  <2> QED
    BY <2>1, <1>0, <1>a, Numbers DEF PostInv
<1> QED
  BY <1>1, <1>2, <1>3, <1>4 DEF Next, Consumer, Emit, Take, RecordEvent,
     LogEvent, Send, Cleanup, vars

\* Division by the interval: it keeps the order, and tells apart two ages
\* that are an interval apart.
LEMMA Division ==
    ASSUME NEW m \in Nat \ {0}, NEW a \in Nat, NEW b \in Nat
    PROVE  /\ a \div m \in Nat
           /\ a - b >= m => a \div m # b \div m
           /\ a <= b => a \div m <= b \div m
<1> DEFINE i == a \div m
           j == b \div m
           r == a % m
           s == b % m
<1>1. /\ i \in Nat /\ j \in Nat /\ r \in 0..m - 1 /\ s \in 0..m - 1
      /\ a = m * i + r /\ b = m * j + s
  OBVIOUS
<1> HIDE DEF i, j, r, s
<1>2. m * i \in Int /\ m * j \in Int
  BY <1>1
<1>3. a - b >= m => i # j
  BY <1>1, <1>2
<1>4. ASSUME i >= j + 1 PROVE m * i >= m * j + m
  <2>1. m * i - m * j = m * (i - j) /\ m * (i - j) >= m
    BY <1>1, <1>4
  <2> QED
    BY <2>1, <1>2
<1>5. a <= b => i <= j
  <2>1. SUFFICES ASSUME a <= b, i >= j + 1 PROVE FALSE
    BY <1>1
  <2> DEFINE x == m * i
             y == m * j
  <2>2. /\ x \in Int /\ y \in Int /\ x >= y + m
        /\ a = x + r /\ b = y + s
    BY <2>1, <1>1, <1>2, <1>4
  <2> HIDE DEF x, y
  <2> QED
    BY <2>1, <2>2, <1>1
<1> QED
  BY <1>1, <1>3, <1>5 DEF i, j

\* The posts of a type under way are bounded by what starts in a timeout: the
\* intervals of their starts, counted back from now, are distinct.
THEOREM PostsLimited == Spec => []PostsBounded
<1>1. Init => PostInv
  BY DEF Init, PostInv
<1>2. TypeOK /\ PostInv => PostsBounded
  <2> SUFFICES ASSUME TypeOK, PostInv, minInterval > 0, NEW t \in Types
               PROVE  Cardinality({p \in posts : p.type = t}) <=
                         PostTimeout \div minInterval + 1
    BY DEF PostsBounded
  <2> DEFINE mine == {p \in posts : p.type = t}
             top == PostTimeout \div minInterval
             age == [p \in mine |-> (now - p.at) \div minInterval]
  <2>1. /\ now \in Int /\ minInterval \in Nat \ {0} /\ PostTimeout \in Nat
        /\ top \in Nat
    <3>1. now \in Int /\ minInterval \in Nat \ {0} /\ PostTimeout \in Nat
      <4>1. minInterval \in Int /\ now \in Int
        BY Numbers DEF TypeOK, Time
      <4> QED
        BY <4>1, Numbers
    <3>2. PostTimeout \div minInterval \in Nat
      BY <3>1, Division
    <3> QED
      BY <3>1, <3>2
  <2>2. ASSUME NEW p \in mine
        PROVE  /\ p.at \in Int /\ now - p.at \in Nat
               /\ now - p.at <= PostTimeout
    BY <2>1 DEF TypeOK, Time, PostInv
  <2>3. ASSUME NEW p \in mine
        PROVE  (now - p.at) \div minInterval \in 0..top
    <3>1. now - p.at \in Nat /\ now - p.at <= PostTimeout
      BY <2>2
    <3>2. /\ (now - p.at) \div minInterval \in Nat
          /\ (now - p.at) \div minInterval <= top
      BY <3>1, <2>1, Division
    <3> QED
      BY <3>2, <2>1
  <2>4. ASSUME NEW p \in mine, NEW q \in mine, p # q
        PROVE  (now - p.at) \div minInterval # (now - q.at) \div minInterval
    <3>1. /\ now - p.at \in Nat /\ now - q.at \in Nat
          /\ p.at \in Int /\ q.at \in Int
      BY <2>2
    <3>2. \/ p.at <= q.at /\ q.at - p.at >= minInterval
          \/ q.at <= p.at /\ p.at - q.at >= minInterval
      BY <2>4 DEF PostInv
    <3>3. \/ (now - p.at) - (now - q.at) >= minInterval
          \/ (now - q.at) - (now - p.at) >= minInterval
      BY <3>1, <3>2, <2>1
    <3> QED
      BY <3>1, <3>3, <2>1, Division
  <2>5. age \in Injection(mine, 0..top)
    BY <2>3, <2>4 DEF Injection, IsInjective
  <2>6. IsFiniteSet(0..top) /\ Cardinality(0..top) = top + 1
    <3> HIDE DEF top
    <3>1. 0 \in Int /\ top \in Int /\ ~(0 > top) /\ top - 0 + 1 = top + 1
      BY <2>1
    <3> QED
      BY <3>1, FS_Interval
  <2>7. /\ Cardinality(mine) <= Cardinality(0..top)
    BY <2>5, <2>6, FS_Injection
  <2> QED
    BY <2>6, <2>7
<1> QED
  BY <1>1, <1>2, TypeStart, TypeStep, PostStep, PTL DEF Spec

----------------------------------------------------------------------------
\* dedupSeen and the posts.  Whatever is logged or posted was let through by a
\* window before, and at most one event is on its way.  Since(d, u) are the
\* entries of a table of times that are not older than u.
Since(d, u) == {k \in DOMAIN d : d[k] >= u}

\* What the windows let through that begin in x ticks, and one before them.
Begun(x) == MaxPerSecond * (x \div Second + 1)

\* The entries of d, and the event on its way there if one is pending, are of
\* the window that began at start and of those before it.
Within(d, pending, start, used, at) ==
    /\ IsFiniteSet(DOMAIN d)
    /\ \A k \in DOMAIN d : d[k] \in Int /\ d[k] <= at
    /\ start <= at
    /\ \A u \in Int :
          /\ u > start => Cardinality(Since(d, u)) + pending <= used
          /\ u <= start => Cardinality(Since(d, u)) + pending <=
                              used + Begun(start - u)

\* A second more lets one window more begin.
LEMMA NextWindow ==
    ASSUME NEW x \in Nat, NEW y \in Nat
    PROVE  /\ Begun(x) \in Nat /\ Begun(x) >= MaxPerSecond
           /\ x <= y => Begun(x) <= Begun(y)
           /\ y >= x + Second => Begun(y) >= Begun(x) + MaxPerSecond
<1> DEFINE i == x \div Second
           j == y \div Second
<1>1. MaxPerSecond \in Nat /\ MaxPerSecond >= 1 /\ Second \in Nat \ {0}
  BY Numbers
<1>2. /\ i \in Nat /\ j \in Nat
      /\ y - x >= Second => j # i
      /\ x <= y => i <= j
  BY <1>1, Division
<1>3. Begun(x) = MaxPerSecond * (i + 1) /\ Begun(y) = MaxPerSecond * (j + 1)
  BY DEF Begun
<1>4. y >= x + Second => j >= i + 1
  <2>1. y >= x + Second => y - x >= Second /\ x <= y
    BY <1>1
  <2> HIDE DEF i, j
  <2> QED
    BY <2>1, <1>2
<1> HIDE DEF i, j
<1>5. ASSUME NEW a \in Nat, NEW b \in Nat, a <= b
      PROVE  /\ MaxPerSecond * a \in Nat /\ MaxPerSecond * b \in Nat
             /\ MaxPerSecond * a <= MaxPerSecond * b
             /\ a + 1 <= b => MaxPerSecond * b >= MaxPerSecond * a + MaxPerSecond
  <2>1. MaxPerSecond * b - MaxPerSecond * a = MaxPerSecond * (b - a)
    BY <1>1
  <2>2. MaxPerSecond * (b - a) >= 0
    BY <1>1, <1>5
  <2>3. a + 1 <= b => MaxPerSecond * (b - a) >= MaxPerSecond
    BY <1>1
  <2> QED
    BY <1>1, <2>1, <2>2, <2>3
<1>6. Begun(x) \in Nat /\ Begun(x) >= MaxPerSecond
  <2>1. MaxPerSecond * 1 = MaxPerSecond /\ 1 <= i + 1 /\ i + 1 \in Nat
    BY <1>1, <1>2
  <2> QED
    BY <2>1, <1>3, <1>5
<1>7. x <= y => Begun(x) <= Begun(y)
  BY <1>2, <1>3, <1>5
<1>8. y >= x + Second => Begun(y) >= Begun(x) + MaxPerSecond
  <2>1. j >= i + 1 => i + 1 <= j + 1 /\ (i + 1) + 1 <= j + 1
    BY <1>2
  <2> QED
    BY <2>1, <1>2, <1>3, <1>4, <1>5
<1> QED
  BY <1>6, <1>7, <1>8

\* One more entry adds one to what was logged since a moment, pruning none.
LEMMA OneMore ==
    ASSUME NEW d, NEW e, NEW k, NEW u, IsFiniteSet(DOMAIN d),
           DOMAIN e \subseteq DOMAIN d \cup {k},
           \A x \in DOMAIN e : x # k => e[x] = d[x]
    PROVE  /\ IsFiniteSet(DOMAIN e)
           /\ Cardinality(Since(d, u)) \in Nat
           /\ Cardinality(Since(e, u)) \in Nat
           /\ Cardinality(Since(e, u)) <= Cardinality(Since(d, u)) + 1
<1>1. IsFiniteSet(DOMAIN d \cup {k}) /\ IsFiniteSet(DOMAIN e)
  <2>1. IsFiniteSet(DOMAIN d \cup {k})
    BY FS_AddElement
  <2> QED
    BY <2>1, FS_Subset
<1>2. IsFiniteSet(Since(d, u)) /\ IsFiniteSet(Since(e, u))
  BY <1>1, FS_Subset DEF Since
<1>3. Since(e, u) \subseteq Since(d, u) \cup {k}
  BY DEF Since
<1>4. /\ IsFiniteSet(Since(d, u) \cup {k})
      /\ Cardinality(Since(d, u) \cup {k}) <= Cardinality(Since(d, u)) + 1
  <2>1. Cardinality(Since(d, u)) \in Nat
    BY <1>2, FS_CardinalityType
  <2>2. Cardinality(Since(d, u) \cup {k}) =
           IF k \in Since(d, u) THEN Cardinality(Since(d, u))
                                ELSE Cardinality(Since(d, u)) + 1
    BY <1>2, FS_AddElement
  <2>3. IsFiniteSet(Since(d, u) \cup {k})
    BY <1>2, FS_AddElement
  <2> QED
    BY <2>1, <2>2, <2>3
<1>5. Cardinality(Since(e, u)) <= Cardinality(Since(d, u) \cup {k})
  BY <1>3, <1>4, FS_Subset
<1>6. /\ Cardinality(Since(d, u)) \in Nat /\ Cardinality(Since(e, u)) \in Nat
      /\ Cardinality(Since(d, u) \cup {k}) \in Nat
  BY <1>2, <1>4, FS_CardinalityType
<1> QED
  BY <1>1, <1>4, <1>5, <1>6

\* The entries since a moment are a finite set.
LEMMA SinceFinite ==
    ASSUME NEW d, IsFiniteSet(DOMAIN d), NEW u
    PROVE  IsFiniteSet(Since(d, u)) /\ Cardinality(Since(d, u)) \in Nat
<1>1. IsFiniteSet(Since(d, u))
  BY FS_Subset DEF Since
<1> QED
  BY <1>1, FS_CardinalityType

\* A window that begins leaves to the past what the one before let through.
LEMMA WindowOpens ==
    ASSUME NEW d, NEW s \in Int, NEW used \in Nat, used <= MaxPerSecond,
           NEW n \in Int, n - s >= Second, Within(d, 0, s, used, n)
    PROVE  Within(d, 1, n, 1, n)
<1> DEFINE N(u) == Cardinality(Since(d, u))
<1>0. /\ MaxPerSecond \in Nat /\ MaxPerSecond >= 1 /\ Second \in Nat \ {0}
      /\ IsFiniteSet(DOMAIN d)
      /\ \A k \in DOMAIN d : d[k] \in Int /\ d[k] <= n
      /\ \A u \in Int :
            /\ u > s => N(u) + 0 <= used
            /\ u <= s => N(u) + 0 <= used + Begun(s - u)
  BY Numbers DEF Within
<1>a. \A u : N(u) \in Nat
  BY <1>0, SinceFinite
<1>1. ASSUME NEW u \in Int, u > n PROVE N(u) + 1 <= 1
  <2>1. Since(d, u) = {}
    BY <1>0, <1>1 DEF Since
  <2> QED
    BY <2>1, FS_EmptySet
<1>2. ASSUME NEW u \in Int, u <= n PROVE N(u) + 1 <= 1 + Begun(n - u)
  <2>1. CASE u > s
    <3>1. N(u) <= MaxPerSecond
      <4>1. N(u) \in Nat /\ N(u) + 0 <= used
        BY <2>1, <1>0, <1>a
      <4> HIDE DEF N
      <4> QED
        BY <4>1, <1>0
    <3>2. Begun(n - u) \in Nat /\ Begun(n - u) >= MaxPerSecond
      BY <1>2, NextWindow
    <3>3. N(u) \in Nat
      BY <1>a
    <3> HIDE DEF N
    <3> QED
      BY <3>1, <3>2, <3>3, <1>0
  <2>2. CASE u <= s
    <3> DEFINE x == s - u
               y == n - u
    <3>1. x \in Nat /\ y \in Nat /\ y >= x + Second
      BY <2>2, <1>2, <1>0
    <3>2. N(u) \in Nat /\ N(u) + 0 <= used + Begun(x)
      BY <2>2, <1>0, <1>a
    <3>3. /\ Begun(y) >= Begun(x) + MaxPerSecond
          /\ Begun(x) \in Nat /\ Begun(y) \in Nat
      BY <3>1, NextWindow
    <3> HIDE DEF x, N
    <3>4. N(u) + 1 <= 1 + Begun(y)
      <4> HIDE DEF y
      <4> QED
        BY <3>2, <3>3, <1>0
    <3> QED
      BY <3>4
  <2> QED
    BY <2>1, <2>2
<1> QED
  BY <1>0, <1>1, <1>2 DEF Within

\* An event that a window lets through is on its way; one it does not is not.
LEMMA WindowCounts ==
    ASSUME NEW d, NEW p \in {0, 1}, NEW s \in Int, NEW used \in Nat,
           NEW n \in Int, Within(d, 0, s, used, n)
    PROVE  Within(d, p, s, used + p, n)
<1>1. ASSUME NEW u \in Int
      PROVE  /\ u > s => Cardinality(Since(d, u)) + p <= used + p
             /\ u <= s => Cardinality(Since(d, u)) + p <=
                             used + p + Begun(s - u)
  <2>1. /\ u > s => Cardinality(Since(d, u)) + 0 <= used
        /\ u <= s => Cardinality(Since(d, u)) + 0 <= used + Begun(s - u)
        /\ IsFiniteSet(DOMAIN d)
    BY DEF Within
  <2>2. Cardinality(Since(d, u)) \in Nat
    BY <2>1, SinceFinite
  <2>3. u <= s => Begun(s - u) \in Nat
    BY NextWindow
  <2> QED
    BY <2>1, <2>2, <2>3
<1> QED
  BY <1>1 DEF Within

\* The event on its way arrives in the table.
LEMMA WindowEntry ==
    ASSUME NEW d, NEW e, NEW k, NEW s \in Int, NEW used \in Nat, NEW n \in Int,
           Within(d, 1, s, used, n),
           DOMAIN e \subseteq DOMAIN d \cup {k},
           \A x \in DOMAIN e : x # k => e[x] = d[x],
           \A x \in DOMAIN e : x = k => e[x] = n
    PROVE  Within(e, 0, s, used, n)
<1>1. /\ IsFiniteSet(DOMAIN d) /\ s <= n
      /\ \A x \in DOMAIN d : d[x] \in Int /\ d[x] <= n
  BY DEF Within
<1>2. \A x \in DOMAIN e : e[x] \in Int /\ e[x] <= n
  BY <1>1
<1>3. ASSUME NEW u \in Int
      PROVE  /\ u > s => Cardinality(Since(e, u)) + 0 <= used
             /\ u <= s => Cardinality(Since(e, u)) + 0 <= used + Begun(s - u)
  <2>1. /\ Cardinality(Since(d, u)) \in Nat /\ Cardinality(Since(e, u)) \in Nat
        /\ Cardinality(Since(e, u)) <= Cardinality(Since(d, u)) + 1
    BY <1>1, OneMore
  <2>2. /\ u > s => Cardinality(Since(d, u)) + 1 <= used
        /\ u <= s => Cardinality(Since(d, u)) + 1 <= used + Begun(s - u)
    BY DEF Within
  <2>3. u <= s => Begun(s - u) \in Nat
    BY NextWindow
  <2> QED
    BY <2>1, <2>2, <2>3
<1>4. IsFiniteSet(DOMAIN e)
  BY <1>1, OneMore
<1> QED
  BY <1>1, <1>2, <1>3, <1>4 DEF Within

\* Entries that go, an event that is dropped and time that passes leave room.
LEMMA WindowWeakens ==
    ASSUME NEW d, NEW e, NEW p \in {0, 1}, NEW q \in {0, 1}, q <= p,
           NEW s \in Int, NEW used \in Nat, NEW n \in Int, NEW m \in Int,
           n <= m, Within(d, p, s, used, n), DOMAIN e \subseteq DOMAIN d,
           \A x \in DOMAIN e : e[x] = d[x]
    PROVE  Within(e, q, s, used, m)
<1>1. /\ IsFiniteSet(DOMAIN d) /\ s <= n
      /\ \A x \in DOMAIN d : d[x] \in Int /\ d[x] <= n
  BY DEF Within
<1>2. IsFiniteSet(DOMAIN e) /\ \A x \in DOMAIN e : e[x] \in Int /\ e[x] <= m
  BY <1>1, FS_Subset
<1>3. ASSUME NEW u \in Int
      PROVE  /\ u > s => Cardinality(Since(e, u)) + q <= used
             /\ u <= s => Cardinality(Since(e, u)) + q <= used + Begun(s - u)
  <2>1. /\ Cardinality(Since(d, u)) \in Nat /\ Cardinality(Since(e, u)) \in Nat
        /\ Cardinality(Since(e, u)) <= Cardinality(Since(d, u))
    <3>1. Since(e, u) \subseteq Since(d, u)
      BY DEF Since
    <3> QED
      BY <3>1, <1>1, <1>2, SinceFinite, FS_Subset
  <2>2. /\ u > s => Cardinality(Since(d, u)) + p <= used
        /\ u <= s => Cardinality(Since(d, u)) + p <= used + Begun(s - u)
    BY DEF Within
  <2>3. u <= s => Begun(s - u) \in Nat
    BY NextWindow
  <2> QED
    BY <2>1, <2>2, <2>3
<1> QED
  BY <1>1, <1>2, <1>3 DEF Within

\* In x ticks back from now a table has what two windows and the ones that
\* begin and end in between let through.
LEMMA WindowsBack ==
    ASSUME NEW d, NEW p \in {0, 1}, NEW s \in Int, NEW used \in Nat,
           used <= MaxPerSecond, NEW n \in Int, Within(d, p, s, used, n),
           NEW x \in Nat
    PROVE  /\ (x \div Second + 2) * MaxPerSecond \in Nat
           /\ Cardinality(Since(d, n - x)) <= (x \div Second + 2) * MaxPerSecond
<1> DEFINE bound == (x \div Second + 2) * MaxPerSecond
           u == n - x
           c == Cardinality(Since(d, u))
<1>1. MaxPerSecond \in Nat /\ Second \in Nat \ {0} /\ u \in Int /\ s <= n
  BY Numbers DEF Within
<1>2. Begun(x) \in Nat
  BY NextWindow
<1>3. bound = Begun(x) + MaxPerSecond /\ bound \in Nat
  <2> DEFINE i == x \div Second
  <2>1. i \in Nat
    BY <1>1, Division
  <2>2. Begun(x) = MaxPerSecond * (i + 1) /\ bound = (i + 2) * MaxPerSecond
    BY DEF Begun
  <2> HIDE DEF i
  <2>3. (i + 2) * MaxPerSecond = MaxPerSecond * (i + 1) + MaxPerSecond
    BY <1>1, <2>1
  <2> QED
    BY <1>1, <1>2, <2>2, <2>3
<1>4. c \in Nat
  BY SinceFinite DEF Within
<1>5. CASE u > s
  <2>1. c + p <= used
    BY <1>1, <1>5 DEF Within
  <2> HIDE DEF c, bound
  <2>2. c <= bound
    BY <2>1, <1>1, <1>2, <1>3, <1>4
  <2> QED
    BY <2>2, <1>3 DEF c, bound
<1>6. CASE ~(u > s)
  <2> DEFINE y == s - u
  <2>1. u <= s /\ y \in Nat /\ y <= x
    BY <1>1, <1>6
  <2>2. c + p <= used + Begun(y)
    BY <1>1, <2>1 DEF Within
  <2>3. Begun(y) \in Nat /\ Begun(y) <= Begun(x)
    BY <2>1, NextWindow
  <2> HIDE DEF c, bound, y
  <2>4. c <= bound
    BY <2>2, <2>3, <1>1, <1>2, <1>3, <1>4
  <2> QED
    BY <2>4, <1>3 DEF c, bound
<1> QED
  BY <1>5, <1>6

\* An event on its way: the consumer has taken it and is at one of pcs.
Pending(pcs) == IF consumer.pc \in pcs THEN 1 ELSE 0

\* The meter's numbers, for the lemmas on windows.
LEMMA MeterNumbers ==
    ASSUME TypeOK
    PROVE  /\ now \in Int /\ meter.start \in Int /\ meter.count \in Nat
           /\ meter \in [start : Int, count : Nat]
           /\ Used \in Nat /\ Used <= MaxPerSecond /\ MaxPerSecond \in Nat \ {0}
<1>1. now \in Int /\ meter \in [start : Int, count : Nat]
  BY DEF TypeOK, Time
<1> QED
  BY <1>1, Numbers DEF Used

\* The consumer takes an event from the ring buffer: its window may be a new
\* one, and lets it through or not.
LEMMA TakeWithin ==
    ASSUME TypeOK, Take, NEW d, Within(d, 0, meter.start, Used, now),
           NEW p, p = IF Metered.count <= MaxPerSecond THEN 1 ELSE 0
    PROVE  Within(d, p, meter'.start, Used', now')
<1>0. now' = now /\ meter' = Metered
  BY DEF Take
<1>1. CASE now - meter.start >= Second
  <2>1. /\ meter'.start = now /\ Used' = 1 /\ p = 1
    BY <1>0, <1>1, MeterNumbers DEF Metered, Used
  <2> QED
    BY <2>1, <1>0, <1>1, MeterNumbers, WindowOpens
<1>2. CASE ~(now - meter.start >= Second)
  <2>1. /\ meter'.start = meter.start /\ meter'.count = meter.count + 1
        /\ Metered.count = meter.count + 1
    BY <1>0, <1>2, MeterNumbers DEF Metered
  <2>2. Used' = Used + p /\ p \in {0, 1}
    BY <2>1, MeterNumbers DEF Used
  <2> QED
    BY <2>1, <2>2, <1>0, MeterNumbers, WindowCounts
<1> QED
  BY <1>1, <1>2

\* A table with no entry, before the first event.
LEMMA WindowStart ==
    ASSUME Init, NEW d, DOMAIN d = {}
    PROVE  Within(d, 0, meter.start, Used, now)
<1>1. now = 0 /\ meter.start = -Second /\ Used = 0 /\ Second \in Nat
  BY Numbers DEF Init, Used
<1>2. IsFiniteSet(DOMAIN d) /\ \A u : Cardinality(Since(d, u)) = 0
  <2>1. \A u : Since(d, u) = {}
    BY DEF Since
  <2> QED
    BY <2>1, FS_EmptySet
<1>3. ASSUME NEW u \in Int, u <= meter.start PROVE Begun(meter.start - u) \in Nat
  BY <1>1, <1>3, NextWindow
<1> QED
  BY <1>1, <1>2, <1>3 DEF Within

\* Whether the event that the consumer takes is on its way.
LEMMA TakePends ==
    ASSUME TypeOK, Take, NEW pcs, "record" \in pcs, "read" \notin pcs
    PROVE  /\ Pending(pcs) = 0
           /\ Pending(pcs)' = IF Metered.count <= MaxPerSecond THEN 1 ELSE 0
<1>1. consumer.pc = "read"
  BY DEF Take
<1>2. CASE Metered.count <= MaxPerSecond
  <2>1. Metered.count \in Int
    BY MeterNumbers DEF Metered
  <2>2. ~(Metered.count > MaxPerSecond)
    BY <2>1, <1>2, MeterNumbers
  <2>3. consumer'.pc = "record"
    BY <2>2 DEF Take
  <2> QED
    BY <1>1, <1>2, <2>3 DEF Pending
<1>3. CASE ~(Metered.count <= MaxPerSecond)
  <2>1. consumer' = consumer
    BY <1>3 DEF Take
  <2> QED
    BY <1>1, <1>3, <2>1 DEF Pending
<1> QED
  BY <1>2, <1>3

----------------------------------------------------------------------------
\* dedupSeen.
LogWindow == Within(dedup, Pending({"record", "log"}), meter.start, Used, now)

\* Each step keeps dedupSeen within what the windows let through.
LEMMA LogWindowStep == TypeOK /\ LogWindow /\ [Next]_vars => LogWindow'
<1> SUFFICES ASSUME TypeOK, LogWindow, [Next]_vars PROVE LogWindow'
  OBVIOUS
<1> DEFINE pcs == {"record", "log"}
<1>0. Pending(pcs) \in {0, 1} /\ Pending(pcs)' \in {0, 1}
  BY DEF Pending
<1>1. CASE Take
  <2>1. /\ Pending(pcs) = 0 /\ dedup' = dedup
        /\ Pending(pcs)' = IF Metered.count <= MaxPerSecond THEN 1 ELSE 0
    BY <1>1, TakePends DEF Take
  <2> QED
    BY <1>1, <2>1, TakeWithin DEF LogWindow
<1>2. CASE LogEvent /\ dedup' # dedup
  <2> DEFINE pair == <<consumer.type, consumer.src>>
             d == Put(dedup, pair, now)
  <2>1. /\ dedup' = Pruned(d) /\ UNCHANGED <<now, meter>>
    BY <1>2 DEF LogEvent
  <2>2. Pending(pcs) = 1 /\ Pending(pcs)' = 0 /\ Used' = Used
    BY <1>2 DEF LogEvent, Pending, At, Used
  <2>3. /\ DOMAIN d = DOMAIN dedup \cup {pair} /\ d[pair] = now
        /\ \A x \in DOMAIN dedup : x # pair => d[x] = dedup[x]
    BY DEF Put
  <2> HIDE DEF pair, d
  <2>4. /\ DOMAIN dedup' \subseteq DOMAIN d
        /\ \A x \in DOMAIN dedup' : dedup'[x] = d[x]
    BY <2>1 DEF Pruned, Without
  <2>5. /\ DOMAIN dedup' \subseteq DOMAIN dedup \cup {pair}
        /\ \A x \in DOMAIN dedup' : x # pair => dedup'[x] = dedup[x]
        /\ \A x \in DOMAIN dedup' : x = pair => dedup'[x] = now
    BY <2>3, <2>4
  <2>6. Within(dedup, 1, meter.start, Used, now)
    BY <2>2 DEF LogWindow
  <2>7. Within(dedup', 0, meter.start, Used, now)
    BY <2>5, <2>6, MeterNumbers, WindowEntry
  <2> QED
    BY <2>1, <2>2, <2>7 DEF LogWindow
<1>3. ASSUME UNCHANGED <<dedup, meter>>, now' \in Int, now <= now',
             Pending(pcs)' <= Pending(pcs)
      PROVE  LogWindow'
  <2>1. Used' = Used
    BY <1>3 DEF Used
  <2>2. PICK p \in {0, 1}, q \in {0, 1} :
           p = Pending(pcs) /\ q = Pending(pcs)' /\ q <= p
    BY <1>0, <1>3
  <2>3. Within(dedup, p, meter.start, Used, now)
    BY <2>2 DEF LogWindow
  <2>4. Within(dedup, q, meter.start, Used, now')
    <3>1. /\ p \in {0, 1} /\ q \in {0, 1} /\ q <= p
          /\ meter.start \in Int /\ Used \in Nat /\ now \in Int
          /\ now' \in Int /\ now <= now'
      BY <2>2, <1>3, MeterNumbers
    <3> QED
      BY <3>1, <2>3, WindowWeakens
  <2> QED
    BY <1>3, <2>1, <2>2, <2>4 DEF LogWindow
<1>4. CASE RecordEvent
  <2>1. Pending(pcs)' = 1 /\ Pending(pcs) = 1 /\ UNCHANGED <<dedup, meter, now>>
    BY <1>4 DEF RecordEvent, Pending, At
  <2> QED
    BY <2>1, <1>3, MeterNumbers
<1>5. CASE LogEvent /\ dedup' = dedup
  <2>1. Pending(pcs)' = 0 /\ Pending(pcs) = 1 /\ UNCHANGED <<meter, now>>
    BY <1>5 DEF LogEvent, Pending, At
  <2> QED
    BY <2>1, <1>3, <1>5, MeterNumbers
<1>6. CASE Send
  <2>1. Pending(pcs)' = 0 /\ UNCHANGED <<dedup, meter, now>>
    BY <1>6 DEF Send, Pending, Resting
  <2> QED
    BY <2>1, <1>0, <1>3, MeterNumbers
<1>7. CASE UNCHANGED <<dedup, meter, now, consumer>>
  <2>1. Pending(pcs)' = Pending(pcs)
    BY <1>7 DEF Pending
  <2> QED
    BY <2>1, <1>0, <1>3, <1>7, MeterNumbers
<1>8. CASE Tick
  <2>1. Pending(pcs)' = Pending(pcs) /\ UNCHANGED <<dedup, meter>> /\ now' = now + 1
    BY <1>8 DEF Tick, Pending
  <2> QED
    BY <2>1, <1>0, <1>3, MeterNumbers
<1> QED
  BY <1>1, <1>2, <1>4, <1>5, <1>6, <1>7, <1>8 DEF Next, Consumer, Emit,
     PostEnds, Cleanup, vars

\* Two numbers have a greatest.
LEMMA GreatestOfTwo ==
    ASSUME NEW a \in Int, NEW b \in Int
    PROVE  Max({a, b}) \in {a, b} /\ Max({a, b}) >= a /\ Max({a, b}) >= b
<1>1. \E x \in {a, b} : \A y \in {a, b} : x >= y
  <2>1. CASE a >= b
    BY <2>1
  <2>2. CASE ~(a >= b)
    BY <2>2
  <2> QED
    BY <2>1, <2>2
<1> QED
  BY <1>1 DEF Max

\* The pairs logged in the dedupTTL up to now are what its windows let through.
LoggedInTTL ==
    /\ ((DedupTTL - 1) \div Second + 2) * MaxPerSecond \in Nat
    /\ Cardinality(Since(dedup, now - DedupTTL + 1)) <=
          ((DedupTTL - 1) \div Second + 2) * MaxPerSecond

LEMMA WindowsOfTTL == TypeOK /\ LogWindow => LoggedInTTL
<1> SUFFICES ASSUME TypeOK, LogWindow PROVE LoggedInTTL
  OBVIOUS
<1>1. /\ DedupTTL - 1 \in Nat /\ now \in Int
      /\ now - DedupTTL + 1 = now - (DedupTTL - 1)
  BY Numbers, MeterNumbers
<1>2. Pending({"record", "log"}) \in {0, 1}
  BY DEF Pending
<1>3. /\ ((DedupTTL - 1) \div Second + 2) * MaxPerSecond \in Nat
      /\ Cardinality(Since(dedup, now - (DedupTTL - 1))) <=
            ((DedupTTL - 1) \div Second + 2) * MaxPerSecond
  BY <1>1, <1>2, MeterNumbers, WindowsBack DEF LogWindow
<1> QED
  BY <1>1, <1>3 DEF LoggedInTTL

\* dedupSeen stays bounded for any rate of arrival and any number of sources.
THEOREM DedupLimited == Spec => []DedupBounded
<1>1. Init => LogWindow /\ DedupBounded
  <2> SUFFICES ASSUME Init PROVE LogWindow /\ DedupBounded
    OBVIOUS
  <2>1. /\ dedup = EmptyMap /\ consumer.pc = "read" /\ now = 0
        /\ meter = [start |-> -Second, count |-> 0]
    BY DEF Init, Resting
  <2>2. DOMAIN dedup = {} /\ IsFiniteSet(DOMAIN dedup) /\ Cardinality(DOMAIN dedup) = 0
    BY <2>1, FS_EmptySet DEF EmptyMap
  <2>6. LogWindow
    <3>1. Pending({"record", "log"}) = 0
      BY <2>1 DEF Pending
    <3> QED
      BY <2>2, <3>1, WindowStart DEF LogWindow
  <2>7. /\ TypeOK /\ PruneAt \in Nat
        /\ ((DedupTTL - 1) \div Second + 2) * MaxPerSecond \in Nat
    BY <2>6, TypeStart, WindowsOfTTL, Numbers DEF LoggedInTTL
  <2>8. Cardinality(DOMAIN dedup) <=
           Max({PruneAt, ((DedupTTL - 1) \div Second + 2) * MaxPerSecond})
    <3> DEFINE bound == ((DedupTTL - 1) \div Second + 2) * MaxPerSecond
    <3>1. bound \in Nat
      BY <2>7
    <3> HIDE DEF bound
    <3>2. Max({PruneAt, bound}) >= 0
      BY <3>1, <2>7, GreatestOfTwo
    <3> QED
      BY <3>2, <2>2 DEF bound
  <2> QED
    BY <2>6, <2>8 DEF DedupBounded
<1>2. TypeOK' /\ LogWindow' /\ LoggedInTTL' /\ DedupBounded /\ [Next]_vars
        => DedupBounded'
  <2> SUFFICES ASSUME TypeOK', LogWindow', LoggedInTTL', DedupBounded, [Next]_vars
               PROVE  DedupBounded'
    OBVIOUS
  <2>1. CASE dedup' = dedup
    BY <2>1 DEF DedupBounded
  <2>2. CASE dedup' # dedup
    <3> DEFINE d == Put(dedup, <<consumer.type, consumer.src>>, now)
               bound == ((DedupTTL - 1) \div Second + 2) * MaxPerSecond
    <3>1. LogEvent
      BY <2>2 DEF Next, Consumer, Emit, Take, RecordEvent, Send, PostEnds,
         Cleanup, Tick, vars
    <3>2. dedup' = Pruned(d) /\ now' = now
      BY <3>1, <2>2 DEF LogEvent
    <3> HIDE DEF d
    <3>3. /\ bound \in Nat /\ PruneAt \in Nat
          /\ Cardinality(Since(dedup', now - DedupTTL + 1)) <= bound
      <4>1. /\ bound \in Nat
            /\ Cardinality(Since(dedup, now - DedupTTL + 1))' <= bound
        BY DEF LoggedInTTL
      <4>2. Cardinality(Since(dedup, now - DedupTTL + 1))' =
               Cardinality(Since(dedup', now - DedupTTL + 1))
        BY <3>2 DEF Since
      <4> QED
        BY <4>1, <4>2, Numbers
    <3>4. /\ IsFiniteSet(DOMAIN dedup') /\ Cardinality(DOMAIN dedup') \in Nat
          /\ Max({PruneAt, bound}) >= PruneAt /\ Max({PruneAt, bound}) >= bound
          /\ Max({PruneAt, bound}) \in {PruneAt, bound}
      <4>1. IsFiniteSet(DOMAIN dedup') /\ Cardinality(DOMAIN dedup') \in Nat
        BY FS_CardinalityType DEF LogWindow, Within
      <4>2. bound \in Int /\ PruneAt \in Int
        BY <3>3
      <4> HIDE DEF bound
      <4> QED
        BY <4>1, <4>2, GreatestOfTwo
    <3>5. CASE ~(Cardinality(DOMAIN d) > PruneAt)
      <4>1. dedup' = d
        BY <3>2, <3>5 DEF Pruned
      <4>2. Cardinality(DOMAIN dedup') <= PruneAt
        BY <3>3, <3>4, <3>5, <4>1
      <4> QED
        <5> HIDE DEF bound
        <5>1. Cardinality(DOMAIN dedup') <= Max({PruneAt, bound})
          BY <4>2, <3>3, <3>4
        <5> QED
          BY <5>1 DEF DedupBounded, bound
    <3>6. CASE Cardinality(DOMAIN d) > PruneAt
      <4>1. dedup' = Without(d, {k \in DOMAIN d : ~Fresh(d[k], DedupTTL)})
        BY <3>2, <3>6 DEF Pruned
      <4>2. \A k \in DOMAIN dedup' : Fresh(dedup'[k], DedupTTL)
        BY <4>1 DEF Without
      <4>3. /\ \A k \in DOMAIN dedup' : dedup'[k] \in Int
            /\ now \in Int /\ DedupTTL \in Int
        BY <3>2, Numbers DEF TypeOK, IsMap, Time
      <4>4. Since(dedup', now - DedupTTL + 1) = DOMAIN dedup'
        BY <4>2, <4>3 DEF Since, Fresh
      <4> QED
        <5> HIDE DEF bound
        <5>1. Cardinality(DOMAIN dedup') <= Max({PruneAt, bound})
          BY <4>4, <3>3, <3>4
        <5> QED
          BY <5>1 DEF DedupBounded, bound
    <3> QED
      BY <3>5, <3>6
  <2> QED
    BY <2>1, <2>2
<1> QED
  BY <1>1, <1>2, TypeStart, TypeStep, LogWindowStep, WindowsOfTTL, PTL DEF Spec

----------------------------------------------------------------------------
\* The posts under way, as a table of when each was started.
Started(P) == [p \in P |-> p.at]

PostWindow ==
    Within(Started(posts), Pending({"record", "log", "alert"}), meter.start,
           Used, now)

\* A post that starts is the event on its way; no two are the same post.
LEMMA PostWindowStep == TypeOK /\ PostWindow /\ [Next]_vars => PostWindow'
<1> SUFFICES ASSUME TypeOK, PostWindow, [Next]_vars PROVE PostWindow'
  OBVIOUS
<1> DEFINE pcs == {"record", "log", "alert"}
<1>0. Pending(pcs) \in {0, 1} /\ Pending(pcs)' \in {0, 1}
  BY DEF Pending
<1>1. CASE Take
  <2>1. /\ Pending(pcs) = 0 /\ posts' = posts
        /\ Pending(pcs)' = IF Metered.count <= MaxPerSecond THEN 1 ELSE 0
    BY <1>1, TakePends DEF Take
  <2>2. Started(posts)' = Started(posts)
    BY <2>1
  <2> QED
    BY <1>1, <2>1, <2>2, TakeWithin DEF PostWindow
<1>2. CASE Send /\ posts' # posts
  <2> DEFINE new == [type |-> consumer.type, at |-> now, go |-> Goroutine]
             d == Started(posts)
             e == Started(posts')
  <2>1. posts' = posts \cup {new} /\ UNCHANGED <<now, meter>>
    BY <1>2 DEF Send
  <2>2. Pending(pcs) = 1 /\ Pending(pcs)' = 0 /\ Used' = Used
    BY <1>2 DEF Send, Pending, Resting, Used
  <2>3. new.at = now
    OBVIOUS
  <2> HIDE DEF new
  <2>4. /\ DOMAIN e \subseteq DOMAIN d \cup {new}
        /\ \A x \in DOMAIN e : x # new => e[x] = d[x]
        /\ \A x \in DOMAIN e : x = new => e[x] = now
    BY <2>1, <2>3 DEF Started
  <2>5. Within(d, 1, meter.start, Used, now)
    BY <2>2 DEF PostWindow
  <2> HIDE DEF d, e
  <2>6. Within(e, 0, meter.start, Used, now)
    BY <2>4, <2>5, MeterNumbers, WindowEntry
  <2> QED
    BY <2>1, <2>2, <2>6 DEF PostWindow, e
<1>3. ASSUME posts' \subseteq posts, meter' = meter, now' \in Int, now <= now',
             Pending(pcs)' <= Pending(pcs)
      PROVE  PostWindow'
  <2>1. Used' = Used
    BY <1>3 DEF Used
  <2>2. PICK p \in {0, 1}, q \in {0, 1} :
           p = Pending(pcs) /\ q = Pending(pcs)' /\ q <= p
    BY <1>0, <1>3
  <2> DEFINE d == Started(posts)
             e == Started(posts')
  <2>3. Within(d, p, meter.start, Used, now)
    BY <2>2 DEF PostWindow
  <2>4. DOMAIN e \subseteq DOMAIN d /\ \A x \in DOMAIN e : e[x] = d[x]
    BY <1>3 DEF Started
  <2> HIDE DEF d, e
  <2>5. Within(e, q, meter.start, Used, now')
    <3>1. /\ p \in {0, 1} /\ q \in {0, 1} /\ q <= p
          /\ meter.start \in Int /\ Used \in Nat /\ now \in Int
          /\ now' \in Int /\ now <= now'
      BY <2>2, <1>3, MeterNumbers
    <3> QED
      BY <3>1, <2>3, <2>4, WindowWeakens
  <2> QED
    BY <1>3, <2>1, <2>2, <2>5 DEF PostWindow, e
<1>4. CASE RecordEvent
  <2>1. Pending(pcs)' = 1 /\ Pending(pcs) = 1 /\ UNCHANGED <<posts, meter, now>>
    BY <1>4 DEF RecordEvent, Pending, At
  <2> QED
    BY <2>1, <1>3, MeterNumbers
<1>5. CASE LogEvent
  <2>1. Pending(pcs)' = 1 /\ Pending(pcs) = 1 /\ UNCHANGED <<posts, meter, now>>
    BY <1>5 DEF LogEvent, Pending, At
  <2> QED
    BY <2>1, <1>3, MeterNumbers
<1>6. CASE Send /\ posts' = posts
  <2>1. Pending(pcs)' = 0 /\ UNCHANGED <<meter, now>>
    BY <1>6 DEF Send, Pending, Resting
  <2> QED
    BY <2>1, <1>0, <1>3, <1>6, MeterNumbers
<1>7. CASE posts' \subseteq posts /\ UNCHANGED <<meter, now, consumer>>
  <2>1. Pending(pcs)' = Pending(pcs)
    BY <1>7 DEF Pending
  <2> QED
    BY <2>1, <1>0, <1>3, <1>7, MeterNumbers
<1>8. CASE Tick
  <2>1. Pending(pcs)' = Pending(pcs) /\ UNCHANGED <<posts, meter>> /\ now' = now + 1
    BY <1>8 DEF Tick, Pending
  <2> QED
    BY <2>1, <1>0, <1>3, MeterNumbers
<1>9. CASE Cleanup \/ UNCHANGED vars \/ \E e \in Event : Emit(e)
  BY <1>7, <1>9 DEF Cleanup, Emit, vars
<1>10. CASE \E p \in posts : PostEnds(p)
  BY <1>7, <1>10 DEF PostEnds
<1> QED
  BY <1>1, <1>2, <1>4, <1>5, <1>6, <1>8, <1>9, <1>10 DEF Next, Consumer

\* The limiter bounds the goroutines that post, whatever min_interval_sec is and
\* however long the webhook hangs, for any rate of arrival.
THEOREM PostsMetered == Spec => []PostsBudgeted
<1>1. Init => PostInv /\ PostWindow
  <2> SUFFICES ASSUME Init PROVE PostInv /\ PostWindow
    OBVIOUS
  <2>1. posts = {} /\ consumer.pc = "read"
    BY DEF Init, Resting
  <2>2. Pending({"record", "log", "alert"}) = 0 /\ DOMAIN Started(posts) = {}
    BY <2>1 DEF Pending, Started
  <2>3. PostWindow
    BY <2>2, WindowStart DEF PostWindow
  <2> QED
    BY <2>1, <2>3 DEF PostInv
<1>2. TypeOK /\ PostInv /\ PostWindow => PostsBudgeted
  <2> SUFFICES ASSUME TypeOK, PostInv, PostWindow PROVE PostsBudgeted
    OBVIOUS
  <2>1. Pending({"record", "log", "alert"}) \in {0, 1} /\ PostTimeout \in Nat
    BY Numbers DEF Pending
  <2>2. Cardinality(Since(Started(posts), now - PostTimeout)) <=
           (PostTimeout \div Second + 2) * MaxPerSecond
    BY <2>1, MeterNumbers, WindowsBack DEF PostWindow
  <2>3. Since(Started(posts), now - PostTimeout) = posts
    <3>1. ASSUME NEW p \in posts PROVE p.at >= now - PostTimeout
      BY <2>1, MeterNumbers DEF PostInv, TypeOK, Time
    <3> QED
      BY <3>1 DEF Since, Started
  <2> QED
    BY <2>2, <2>3 DEF PostsBudgeted
<1> QED
  BY <1>1, <1>2, TypeStart, TypeStep, PostStep, PostWindowStep, PTL DEF Spec
=============================================================================
