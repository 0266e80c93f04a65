--------------------------- MODULE BanTableProofs ---------------------------
(***************************************************************************)
(* The invariants of BanTable for any number of CPUs and sources, any ring *)
(* buffer size, any durations and any clock offset.                        *)
(***************************************************************************)
EXTENDS BanTable, BpfMapProofs, SequenceTheorems

----------------------------------------------------------------------------
\* What a sweeper is, and is still when a write gets in the iterator's way.
SweeperOK(s) ==
    s \in [pc : {"asleep", "scan", "delete"}, seen : SUBSET Src,
           toDelete : SUBSET Src, met : {"rest", "change", "restart"}]

LEMMA DisturbedSweeper ==
    ASSUME SweeperOK(sweeper)
    PROVE  SweeperOK(Disturbed) /\ Disturbed.toDelete = sweeper.toDelete
BY DEF SweeperOK, Disturbed

\* Every map, queue and local state keeps its type, of every actor's step.
THEOREM TypeCorrect == Spec => []TypeOK
<1>1. Init => TypeOK
  <2> SUFFICES ASSUME Init PROVE TypeOK
    OBVIOUS
  <2>1. IsMap(blacklist, Src, Nat)
    BY SetsAssumption DEF Init, IsMap
  <2>2. Len(ring) <= RingCap /\ ring \in Seq(Event)
    BY NumbersAssumption DEF Init
  <2> QED
    BY <2>1, <2>2, SetsAssumption
       DEF Init, TypeOK, Idle, Resting, Asleep, Frame, Kinds
<1>2. TypeOK /\ [Next]_vars => TypeOK'
  <2> SUFFICES ASSUME TypeOK, [Next]_vars PROVE TypeOK'
    OBVIOUS
  <2> USE DEF TypeOK
  <2>1. ASSUME NEW c \in CPU, NEW s \in Src, Arrive(c, s) PROVE TypeOK'
    BY <2>1 DEF Arrive, Frame
  <2>2. ASSUME NEW c \in CPU, LookupBan(c) PROVE TypeOK'
    <3>1. PICK f \in {Idle, [cpu[c] EXCEPT !.pc = "judge"],
                      [cpu[c] EXCEPT !.pc = "delete"]} :
             cpu' = [cpu EXCEPT ![c] = f]
      BY <2>2 DEF LookupBan
    <3>2. cpu[c] \in Frame /\ cpu[c].src \in Src
      BY <2>2 DEF LookupBan
    <3>3. f \in Frame /\ (f.pc # "idle" => f.src \in Src)
      <4> HIDE DEF TypeOK
      <4> QED
        BY <3>1, <3>2 DEF Frame, Idle
    <3> QED
      BY <2>2, <3>1, <3>3 DEF LookupBan
  <2>3. ASSUME NEW c \in CPU, DeleteExpired(c) PROVE TypeOK'
    <3>1. IsMap(blacklist', Src, Nat)
      BY <2>3, DelIsMap DEF DeleteExpired, WriteBans
    <3>2. SweeperOK(sweeper')
      BY <2>3, DisturbedSweeper DEF DeleteExpired, WriteBans, SweeperOK
    <3> QED
      BY <2>3, <3>1, <3>2 DEF DeleteExpired, Frame, SweeperOK
  <2>4. ASSUME NEW c \in CPU, Judge(c) PROVE TypeOK'
    <3>1. cpu[c].src \in Src
      BY <2>4 DEF Judge
    <3>2. ASSUME NEW k \in Kinds, Emit(cpu[c].src, k)
          PROVE  ring' \in Seq(Event) /\ Len(ring') <= RingCap
      <4>1. [src |-> cpu[c].src, kind |-> k] \in Event
        BY <3>1 DEF Event
      <4> HIDE DEF TypeOK
      <4>2. ring \in Seq(Event) /\ Len(ring) <= RingCap /\ RingCap \in Nat
        BY NumbersAssumption DEF TypeOK
      <4> QED
        BY <3>2, <4>1, <4>2, AppendProperties DEF Emit
    <3>3. ring' \in Seq(Event) /\ Len(ring') <= RingCap
      BY <2>4, <3>2 DEF Judge
    <3>4. PICK f \in {Idle, [cpu[c] EXCEPT !.pc = "ban"]} :
             cpu' = [cpu EXCEPT ![c] = f]
      BY <2>4 DEF Judge
    <3>5. f \in Frame /\ (f.pc # "idle" => f.src \in Src)
      <4>1. CASE f = Idle
        BY <4>1 DEF Frame, Idle
      <4>2. CASE f = [cpu[c] EXCEPT !.pc = "ban"]
        <5>1. cpu[c] \in Frame
          OBVIOUS
        <5> HIDE DEF TypeOK
        <5> QED
          BY <3>1, <4>2, <5>1 DEF Frame
      <4> QED
        BY <4>1, <4>2
    <3>6. offenders' \subseteq Src
      BY <2>4, <3>1 DEF Judge
    <3> QED
      BY <2>4, <3>3, <3>4, <3>5, <3>6 DEF Judge
  <2>5. ASSUME NEW c \in CPU, AutoBan(c) PROVE TypeOK'
    <3>1. cpu[c].src \in Src /\ cpu[c].at + kernelDur \in Nat
      BY <2>5, SetsAssumption DEF AutoBan, Frame
    <3>2. IsMap(blacklist, Src, Nat)
      OBVIOUS
    <3>3. IsMap(Put(blacklist, cpu[c].src, cpu[c].at + kernelDur), Src, Nat)
      <4> HIDE DEF TypeOK
      <4> QED
        BY <3>1, <3>2, PutIsMap
    <3>4. IsMap(blacklist', Src, Nat)
      BY <2>5, <3>3 DEF AutoBan, WriteBans
    <3>5. cpu' = [cpu EXCEPT ![c] = Idle]
      BY <2>5 DEF AutoBan
    <3>6. SweeperOK(sweeper')
      BY <2>5, DisturbedSweeper DEF AutoBan, WriteBans, SweeperOK
    <3> QED
      BY <2>5, <3>4, <3>5, <3>6, SetsAssumption
         DEF AutoBan, Idle, Frame, SweeperOK
  <2>6. CASE ReadEvent
    <3>1. Head(ring) \in Event /\ Tail(ring) \in Seq(Event)
          /\ Len(Tail(ring)) <= Len(ring) /\ Len(ring) \in Nat
          /\ Len(Tail(ring)) \in Nat
      BY <2>6, HeadTailProperties DEF ReadEvent
    <3> QED
      BY <2>6, <3>1, NumbersAssumption, SetsAssumption DEF ReadEvent, Event
  <2>7. CASE Decide
    BY <2>7 DEF Decide, Resting, Kinds
  <2>8. CASE BanIP
    <3>1. Expiry(fwDur) \in Nat
      BY SetsAssumption, NumbersAssumption DEF Expiry, Wall
    <3>2. IsMap(blacklist', Src, Nat)
      BY <2>8, <3>1, PutIsMap DEF BanIP, WriteBans
    <3>3. SweeperOK(sweeper')
      BY <2>8, DisturbedSweeper DEF BanIP, WriteBans, SweeperOK
    <3> QED
      BY <2>8, <3>2, <3>3 DEF BanIP, Resting, Kinds, SweeperOK
  <2>9. CASE StartSweep
    BY <2>9 DEF StartSweep
  <2>10. ASSUME NEW s \in Src, Visit(s) PROVE TypeOK'
    BY <2>10 DEF Visit
  <2>11. CASE EndScan
    BY <2>11 DEF EndScan
  <2>12. ASSUME NEW s \in Src, DeleteSwept(s) PROVE TypeOK'
    <3>1. IsMap(blacklist', Src, Nat)
      BY <2>12, DelIsMap DEF DeleteSwept
    <3> QED
      BY <2>12, <3>1 DEF DeleteSwept
  <2>13. CASE EndSweep
    BY <2>13 DEF EndSweep, Asleep
  <2>14. CASE PushConfig
    BY <2>14 DEF PushConfig
  <2>15. ASSUME NEW d \in Durations, SwapConfig(d) PROVE TypeOK'
    BY <2>15 DEF SwapConfig
  <2>16. CASE Tick
    BY <2>16 DEF Tick
  <2>17. CASE StartOver
    BY <2>17 DEF StartOver
  <2>18. CASE UNCHANGED vars
    BY <2>18 DEF vars
  <2> QED
    BY <2>1, <2>2, <2>3, <2>4, <2>5, <2>6, <2>7, <2>8, <2>9, <2>10, <2>11,
       <2>12, <2>13, <2>14, <2>15, <2>16, <2>17, <2>18
       DEF Next, Kernel, Consumer, Sweeper, Reload
<1> QED
  BY <1>1, <1>2, PTL DEF Spec

\* The steps that write blacklist_map, as the two invariants below see them.
LEMMA BlacklistWrites ==
    ASSUME TypeOK, [Next]_vars
    PROVE  \/ blacklist' = blacklist
           \/ \E c \in CPU : /\ DeleteExpired(c) \/ AutoBan(c)
                             /\ DOMAIN blacklist' \subseteq
                                   DOMAIN blacklist \cup {cpu[c].src}
                             /\ \A s \in DOMAIN blacklist : s # cpu[c].src =>
                                   /\ s \in DOMAIN blacklist'
                                   /\ blacklist'[s] = blacklist[s]
           \/ /\ BanIP
              /\ DOMAIN blacklist' = DOMAIN blacklist \cup {consumer.src}
              /\ \A s \in DOMAIN blacklist : s # consumer.src =>
                    blacklist'[s] = blacklist[s]
           \/ \E k \in Src : /\ DeleteSwept(k)
                             /\ DOMAIN blacklist' = DOMAIN blacklist \ {k}
                             /\ \A s \in DOMAIN blacklist : s # k =>
                                   blacklist'[s] = blacklist[s]
<1>1. ASSUME NEW c \in CPU, DeleteExpired(c)
      PROVE  /\ DOMAIN blacklist' \subseteq DOMAIN blacklist \cup {cpu[c].src}
             /\ \A s \in DOMAIN blacklist : s # cpu[c].src =>
                   s \in DOMAIN blacklist' /\ blacklist'[s] = blacklist[s]
  BY <1>1 DEF DeleteExpired, WriteBans, Del
<1>2. ASSUME NEW c \in CPU, AutoBan(c)
      PROVE  /\ DOMAIN blacklist' \subseteq DOMAIN blacklist \cup {cpu[c].src}
             /\ \A s \in DOMAIN blacklist : s # cpu[c].src =>
                   s \in DOMAIN blacklist' /\ blacklist'[s] = blacklist[s]
  BY <1>2 DEF AutoBan, WriteBans, Put
<1>3. ASSUME BanIP
      PROVE  /\ DOMAIN blacklist' = DOMAIN blacklist \cup {consumer.src}
             /\ \A s \in DOMAIN blacklist : s # consumer.src =>
                   blacklist'[s] = blacklist[s]
  BY <1>3 DEF BanIP, WriteBans, Put
<1>4. ASSUME NEW k \in Src, DeleteSwept(k)
      PROVE  /\ DOMAIN blacklist' = DOMAIN blacklist \ {k}
             /\ \A s \in DOMAIN blacklist : s # k =>
                   blacklist'[s] = blacklist[s]
  BY <1>4 DEF DeleteSwept, Del
<1>5. \/ blacklist' = blacklist
      \/ \E c \in CPU : DeleteExpired(c) \/ AutoBan(c)
      \/ BanIP
      \/ \E k \in Src : DeleteSwept(k)
  <2>1. CASE UNCHANGED vars
    BY <2>1 DEF vars
  <2>2. CASE Consumer
    BY <2>2 DEF Consumer, ReadEvent, Decide
  <2>3. CASE Sweeper
    BY <2>3 DEF Sweeper, StartSweep, StartOver, EndScan, EndSweep, Visit
  <2>4. CASE Reload
    BY <2>4 DEF Reload, PushConfig, SwapConfig
  <2>5. CASE Tick
    BY <2>5 DEF Tick
  <2>6. ASSUME NEW c \in CPU, Kernel(c)
        PROVE  blacklist' = blacklist \/ DeleteExpired(c) \/ AutoBan(c)
    BY <2>6 DEF Kernel, Arrive, LookupBan, Judge
  <2> QED
    BY <2>1, <2>2, <2>3, <2>4, <2>5, <2>6 DEF Next
<1> QED
  BY <1>1, <1>2, <1>3, <1>4, <1>5

----------------------------------------------------------------------------
\* Nobody who is about to write or delete the entry of a source is concerned
\* with a permanent ban: its frames end at the lookup, so no event is about
\* it, and the sweep finds it never expired.
PermanentInv ==
    /\ PermanentBansHold
    /\ \A c \in CPU : cpu[c].src \in Unaliased => cpu[c].pc = "lookup"
    /\ \A i \in 1..Len(ring) : ring[i].src \notin Unaliased
    /\ consumer.src \notin Unaliased
    /\ sweeper.toDelete \cap Unaliased = {}

LEMMA PermanentInvariant == Spec => []PermanentInv
<1>1. Init => PermanentInv
  BY SetsAssumption
     DEF Init, PermanentInv, PermanentBansHold, Unaliased, Idle, Resting,
         Asleep
<1>2. TypeOK /\ PermanentInv /\ [Next]_vars => PermanentInv'
  <2> SUFFICES ASSUME TypeOK, PermanentInv, [Next]_vars PROVE PermanentInv'
    OBVIOUS
  <2> USE DEF PermanentInv
  <2>0. NoSrc \notin Unaliased /\ Unaliased \subseteq Src
    BY SetsAssumption DEF Unaliased
  <2>1. PermanentBansHold'
    <3>1. ASSUME NEW c \in CPU, DeleteExpired(c) \/ AutoBan(c)
          PROVE  cpu[c].src \notin Unaliased
      BY <3>1 DEF DeleteExpired, AutoBan
    <3>2. ASSUME NEW k \in Src, DeleteSwept(k) PROVE k \notin Unaliased
      BY <3>2 DEF DeleteSwept
    <3> QED
      BY <3>1, <3>2, BlacklistWrites DEF PermanentBansHold
  <2>2. (\A c \in CPU : cpu[c].src \in Unaliased => cpu[c].pc = "lookup")'
    <3> SUFFICES ASSUME NEW d \in CPU, cpu'[d].src \in Unaliased
                 PROVE  cpu'[d].pc = "lookup"
      OBVIOUS
    <3>0. cpu \in [CPU -> Frame]
      BY DEF TypeOK
    <3>1. CASE cpu' = cpu
      BY <3>1
    <3>2. ASSUME NEW c \in CPU, NEW s \in Src, Arrive(c, s)
          PROVE  cpu'[d].pc = "lookup"
      BY <3>0, <3>2 DEF Arrive
    <3>3. ASSUME NEW c \in CPU, LookupBan(c)
          PROVE  cpu'[d].pc = "lookup"
      BY <3>0, <3>3, <2>0
         DEF LookupBan, PermanentBansHold, Expired, Idle, Frame
    <3>4. ASSUME NEW c \in CPU, DeleteExpired(c) \/ Judge(c) \/ AutoBan(c)
          PROVE  cpu'[d].pc = "lookup"
      BY <3>0, <3>4, <2>0
         DEF DeleteExpired, Judge, AutoBan, Idle, Frame
    <3>5. cpu' = cpu \/ \E c \in CPU : Kernel(c)
      BY DEF Next, Consumer, ReadEvent, Decide, BanIP, Sweeper, StartSweep,
             StartOver, Visit, EndScan, DeleteSwept, EndSweep, Reload,
             PushConfig, SwapConfig, Tick, vars
    <3> QED
      BY <3>1, <3>2, <3>3, <3>4, <3>5 DEF Kernel
  <2>3. (\A i \in 1..Len(ring) : ring[i].src \notin Unaliased)'
    <3>1. ring \in Seq(Event)
      BY DEF TypeOK
    <3>2. ASSUME NEW c \in CPU, Judge(c), ring' # ring
          PROVE  (\A i \in 1..Len(ring) : ring[i].src \notin Unaliased)'
      <4>1. PICK k \in Kinds : ring' = Append(ring, [src |-> cpu[c].src, kind |-> k])
        BY <3>2 DEF Judge, Emit
      <4>2. cpu[c].src \notin Unaliased /\ cpu[c].src \in Src
        BY <3>2 DEF Judge, TypeOK
      <4>3. [src |-> cpu[c].src, kind |-> k] \in Event
        BY <4>2 DEF Event
      <4> QED
        BY <3>1, <4>1, <4>2, <4>3, AppendProperties
    <3>3. ASSUME ReadEvent
          PROVE  (\A i \in 1..Len(ring) : ring[i].src \notin Unaliased)'
      <4>1. ring # <<>> /\ ring' = Tail(ring)
        BY <3>3 DEF ReadEvent
      <4> QED
        BY <3>1, <4>1, HeadTailProperties
    <3>4. ring' = ring \/ ReadEvent \/ \E c \in CPU : Judge(c)
      BY DEF Next, Kernel, Arrive, LookupBan, DeleteExpired, AutoBan, Consumer,
             Decide, BanIP, Sweeper, StartSweep, StartOver, Visit, EndScan,
             DeleteSwept, EndSweep, Reload, PushConfig, SwapConfig, Tick, vars
    <3> QED
      BY <3>2, <3>3, <3>4
  <2>4. (consumer.src \notin Unaliased)'
    <3>1. CASE ReadEvent
      <4>1. Head(ring) \in Event /\ Head(ring).src \notin Unaliased
        BY <3>1 DEF ReadEvent, TypeOK
      <4>2. Named[Head(ring).src] \notin Unaliased
        BY <4>1 DEF Unaliased, Event
      <4> QED
        BY <3>1, <4>2 DEF ReadEvent
    <3>2. CASE Decide \/ BanIP
      BY <3>2, <2>0 DEF Decide, BanIP, Resting, TypeOK
    <3>3. consumer' = consumer \/ ReadEvent \/ Decide \/ BanIP
      BY DEF Next, Kernel, Arrive, LookupBan, DeleteExpired, Judge, AutoBan,
             Consumer, Sweeper, StartSweep, StartOver, Visit, EndScan,
             DeleteSwept, EndSweep, Reload, PushConfig, SwapConfig, Tick, vars
    <3> QED
      BY <3>1, <3>2, <3>3
  <2>5. (sweeper.toDelete \cap Unaliased = {})'
    <3>0. SweeperOK(sweeper)
      BY DEF TypeOK, SweeperOK
    <3>1. ASSUME NEW s \in Src, Visit(s)
          PROVE  sweeper'.toDelete \cap Unaliased = {}
      <4>1. Expired(blacklist[s], SweepClock) => s \notin Unaliased
        BY DEF PermanentBansHold, Expired
      <4>2. sweeper'.toDelete \subseteq
               sweeper.toDelete \cup
                  (IF Expired(blacklist[s], SweepClock) THEN {s} ELSE {})
        BY <3>0, <3>1 DEF Visit, SweeperOK
      <4> QED
        BY <4>1, <4>2
    <3>2. ASSUME \/ StartSweep \/ StartOver \/ EndScan \/ EndSweep
                 \/ \E s \in Src : DeleteSwept(s)
          PROVE  sweeper'.toDelete \cap Unaliased = {}
      <4>1. CASE StartSweep \/ EndScan
        BY <3>0, <4>1 DEF StartSweep, EndScan, SweeperOK
      <4>2. CASE StartOver
        BY <3>0, <4>2 DEF StartOver, SweeperOK
      <4>3. CASE EndSweep
        BY <4>3 DEF EndSweep, Asleep
      <4>4. ASSUME NEW s \in Src, DeleteSwept(s)
            PROVE  sweeper'.toDelete \cap Unaliased = {}
        BY <3>0, <4>4 DEF DeleteSwept, SweeperOK
      <4> QED
        BY <3>2, <4>1, <4>2, <4>3, <4>4
    <3>3. sweeper' \in {sweeper, Disturbed} \/ Sweeper
      BY DEF Next, Kernel, Arrive, LookupBan, DeleteExpired, Judge, AutoBan,
             Consumer, ReadEvent, Decide, BanIP, WriteBans, Reload, PushConfig,
             SwapConfig, Tick, vars
    <3> QED
      BY <3>0, <3>1, <3>2, <3>3, DisturbedSweeper DEF Sweeper
  <2> QED
    BY <2>1, <2>2, <2>3, <2>4, <2>5
<1> QED
  BY <1>1, <1>2, TypeCorrect, PTL DEF Spec

\* A ban of blacklist.txt holds against auto_ban(), the late events that
\* BanIP() follows, the delete of an expired ban and the sweep.
THEOREM PermanentBans == Spec => []PermanentBansHold
<1>1. PermanentInv => PermanentBansHold
  BY DEF PermanentInv
<1> QED
  BY <1>1, PermanentInvariant, PTL

----------------------------------------------------------------------------
\* Whoever is about to be banned, by a CPU or for an event on its way to the
\* consumer, is an offender already.
OffenderInv ==
    /\ OnlyOffendersBanned
    /\ \A c \in CPU : cpu[c].pc = "ban" => cpu[c].src \in offenders
    /\ \A i \in 1..Len(ring) :
          ring[i].kind \in BannedKinds => ring[i].src \in offenders
    /\ consumer.pc # "read" /\ consumer.kind \in BannedKinds =>
          consumer.src \in {Named[s] : s \in offenders}
    /\ consumer.pc = "ban" => consumer.kind \in BannedKinds

LEMMA OffenderInvariant == Spec => []OffenderInv
<1>1. Init => OffenderInv
  BY DEF Init, OffenderInv, OnlyOffendersBanned, Idle, Resting
<1>2. TypeOK /\ OffenderInv /\ [Next]_vars => OffenderInv'
  <2> SUFFICES ASSUME TypeOK, OffenderInv, [Next]_vars PROVE OffenderInv'
    OBVIOUS
  <2> USE DEF OffenderInv
  <2>0. offenders \subseteq offenders'
    BY DEF Next, Kernel, Arrive, LookupBan, DeleteExpired, Judge, AutoBan,
           Consumer, ReadEvent, Decide, BanIP, Sweeper, StartSweep, StartOver,
           Visit, EndScan, DeleteSwept, EndSweep, Reload, PushConfig,
           SwapConfig, Tick, vars
  <2>1. OnlyOffendersBanned'
    <3>1. ASSUME NEW c \in CPU, DeleteExpired(c) \/ AutoBan(c)
          PROVE  DOMAIN blacklist' \subseteq DOMAIN blacklist \cup offenders
      <4>1. CASE DeleteExpired(c)
        BY <4>1 DEF DeleteExpired, WriteBans, Del
      <4>2. CASE AutoBan(c)
        BY <4>2 DEF AutoBan, WriteBans, Put
      <4> QED
        BY <3>1, <4>1, <4>2
    <3>2. ASSUME BanIP PROVE consumer.src \in {Named[s] : s \in offenders}
      BY <3>2 DEF BanIP
    <3>3. DOMAIN blacklist' \subseteq
             DOMAIN blacklist \cup offenders \cup {Named[s] : s \in offenders}
      BY <3>1, <3>2, BlacklistWrites
    <3> QED
      BY <2>0, <3>3 DEF OnlyOffendersBanned
  <2>2. (\A c \in CPU : cpu[c].pc = "ban" => cpu[c].src \in offenders)'
    <3> SUFFICES ASSUME NEW d \in CPU, cpu'[d].pc = "ban"
                 PROVE  cpu'[d].src \in offenders'
      OBVIOUS
    <3>0. cpu \in [CPU -> Frame]
      BY DEF TypeOK
    <3>1. CASE cpu' = cpu
      BY <2>0, <3>1
    <3>2. ASSUME NEW c \in CPU,
                 \/ \E s \in Src : Arrive(c, s)
                 \/ LookupBan(c) \/ DeleteExpired(c) \/ AutoBan(c)
          PROVE  cpu'[d].src \in offenders'
      BY <2>0, <3>0, <3>2
         DEF Arrive, LookupBan, DeleteExpired, AutoBan, Idle, Frame
    <3>3. ASSUME NEW c \in CPU, Judge(c)
          PROVE  cpu'[d].src \in offenders'
      BY <2>0, <3>0, <3>3 DEF Judge, Idle, Frame, BannedKinds
    <3>4. cpu' = cpu \/ \E c \in CPU : Kernel(c)
      BY DEF Next, Consumer, ReadEvent, Decide, BanIP, Sweeper, StartSweep,
             StartOver, Visit, EndScan, DeleteSwept, EndSweep, Reload,
             PushConfig, SwapConfig, Tick, vars
    <3> QED
      BY <3>1, <3>2, <3>3, <3>4 DEF Kernel
  <2>3. (\A i \in 1..Len(ring) :
            ring[i].kind \in BannedKinds => ring[i].src \in offenders)'
    <3>1. ring \in Seq(Event)
      BY DEF TypeOK
    <3>2. ASSUME NEW c \in CPU, Judge(c), ring' # ring
          PROVE  \A i \in 1..Len(ring') :
                    ring'[i].kind \in BannedKinds => ring'[i].src \in offenders'
      <4>1. PICK k \in Kinds :
               /\ ring' = Append(ring, [src |-> cpu[c].src, kind |-> k])
               /\ k \in BannedKinds => cpu[c].src \in offenders'
        BY <3>2 DEF Judge, Emit
      <4>2. [src |-> cpu[c].src, kind |-> k] \in Event
        BY <3>2 DEF Judge, TypeOK, Event
      <4> QED
        BY <2>0, <3>1, <4>1, <4>2, AppendProperties
    <3>3. ASSUME ReadEvent
          PROVE  \A i \in 1..Len(ring') :
                    ring'[i].kind \in BannedKinds => ring'[i].src \in offenders'
      <4>1. ring # <<>> /\ ring' = Tail(ring)
        BY <3>3 DEF ReadEvent
      <4> QED
        BY <2>0, <3>1, <4>1, HeadTailProperties
    <3>4. ring' = ring \/ ReadEvent \/ \E c \in CPU : Judge(c)
      BY DEF Next, Kernel, Arrive, LookupBan, DeleteExpired, AutoBan, Consumer,
             Decide, BanIP, Sweeper, StartSweep, StartOver, Visit, EndScan,
             DeleteSwept, EndSweep, Reload, PushConfig, SwapConfig, Tick, vars
    <3>5. CASE ring' = ring
      BY <2>0, <3>5
    <3> QED
      BY <3>2, <3>3, <3>4, <3>5
  <2>4. (/\ consumer.pc # "read" /\ consumer.kind \in BannedKinds =>
               consumer.src \in {Named[s] : s \in offenders}
         /\ consumer.pc = "ban" => consumer.kind \in BannedKinds)'
    <3>1. CASE ReadEvent
      <4>1. Head(ring).kind \in BannedKinds => Head(ring).src \in offenders
        BY <3>1 DEF ReadEvent, TypeOK
      <4>2. \/ UNCHANGED consumer
            \/ consumer' = [pc |-> "decide", src |-> Named[Head(ring).src],
                            kind |-> Head(ring).kind]
        BY <3>1 DEF ReadEvent
      <4> QED
        BY <2>0, <4>1, <4>2
    <3>2. CASE Decide \/ BanIP
      BY <2>0, <3>2 DEF Decide, BanIP, Rebans, Resting, TypeOK
    <3>3. consumer' = consumer \/ ReadEvent \/ Decide \/ BanIP
      BY DEF Next, Kernel, Arrive, LookupBan, DeleteExpired, Judge, AutoBan,
             Consumer, Sweeper, StartSweep, StartOver, Visit, EndScan,
             DeleteSwept, EndSweep, Reload, PushConfig, SwapConfig, Tick, vars
    <3> QED
      BY <2>0, <3>1, <3>2, <3>3
  <2> QED
    BY <2>1, <2>2, <2>3, <2>4
<1> QED
  BY <1>1, <1>2, TypeCorrect, PTL DEF Spec

\* No source is banned that is neither on blacklist.txt nor was caught over a
\* limit, whatever the delay between a frame and its event.
THEOREM OffendersOnly == Spec => []OnlyOffendersBanned
<1>1. OffenderInv => OnlyOffendersBanned
  BY DEF OffenderInv
<1> QED
  BY <1>1, OffenderInvariant, PTL

----------------------------------------------------------------------------
\* The refinement mapping commutes with the two ways to write the map.
Mapped(b) == [s \in DOMAIN b |-> Term(b[s])]

LEMMA MappedPut ==
    ASSUME NEW b, NEW k, NEW v
    PROVE  Mapped(Put(b, k, v)) = Policy!Put(Mapped(b), k, Term(v))
BY DEF Mapped, Put, Policy!Put

LEMMA MappedDel ==
    ASSUME NEW b, NEW k
    PROVE  Mapped(Del(b, k)) = Policy!Del(Mapped(b), k)
BY DEF Mapped, Del, Policy!Del

LEMMA DelAbsent ==
    ASSUME NEW K, NEW V, NEW b, IsMap(b, K, V), NEW k, k \notin DOMAIN b
    PROVE  Del(b, k) = b
BY DEF Del, IsMap

\* The ban life cycle implements the policy, whatever the numbers of CPUs and
\* sources: each step catches one source, sentences one that was caught and is
\* not held, releases one that is not held, switches the auto-ban off or on, or
\* is invisible to the policy; and a sentence for ever is passed by BanIP()
\* alone, when a reload has made the duration 0 that was not 0 before.
THEOREM PolicyKept == Spec => ImplementsPolicy
<1>1. Init => Policy!Init
  BY DEF Init, Policy!Init, Term
<1>2. TypeOK /\ PermanentInv /\ OffenderInv /\ [Next]_vars
         => [Policy!Next]_(Policy!vars)
  <2> SUFFICES ASSUME TypeOK, PermanentInv, OffenderInv, [Next]_vars
               PROVE  [Policy!Next]_(Policy!vars)
    OBVIOUS
  <2>0. /\ NoSrc \notin Unaliased
        /\ IsMap(blacklist, Src, Nat)
        /\ [s \in DOMAIN blacklist |-> Term(blacklist[s])] = Mapped(blacklist)
    BY SetsAssumption DEF Unaliased, TypeOK, Mapped
  <2>1. CASE UNCHANGED <<blacklist, offenders>>
    <3>1. CASE (fwDur = 0)' = (fwDur = 0)
      BY <2>1, <3>1 DEF Policy!vars
    <3>2. CASE (fwDur = 0)' # (fwDur = 0)
      <4>1. (fwDur = 0)' = ~(fwDur = 0)
        BY <3>2
      <4> QED
        BY <2>1, <4>1 DEF Policy!Next, Policy!Switch
    <3> QED
      BY <3>1, <3>2
  <2>2. ASSUME NEW c \in CPU, Judge(c), offenders' # offenders
        PROVE  Policy!Next
    <3>1. /\ offenders' = offenders \cup {cpu[c].src}
          /\ blacklist' = blacklist /\ fwDur' = fwDur
          /\ cpu[c].src \in Src
      BY <2>2 DEF Judge, TypeOK
    <3> QED
      BY <3>1 DEF Policy!Next, Policy!Catch
  <2>3. ASSUME NEW k \in Src \ Unaliased, blacklist' = Del(blacklist, k),
               offenders' = offenders, fwDur' = fwDur
        PROVE  [Policy!Next]_(Policy!vars)
    <3>1. CASE k \in DOMAIN blacklist
      <4>1. Mapped(blacklist') = Policy!Del(Mapped(blacklist), k)
        BY <2>3, MappedDel
      <4>2. Policy!Release(k)
        BY <2>3, <3>1, <4>1 DEF Policy!Release, Mapped
      <4> QED
        BY <4>2 DEF Policy!Next
    <3>2. CASE k \notin DOMAIN blacklist
      BY <2>0, <2>3, <3>2, DelAbsent DEF Policy!vars
    <3> QED
      BY <3>1, <3>2
  <2>4. ASSUME NEW k \in Src \ Unaliased, NEW v,
               \E t \in offenders : k \in {t, Named[t]},
               v = 0 => fwDur = 0, fwDur' = fwDur,
               blacklist' = Put(blacklist, k, v), offenders' = offenders
        PROVE  Policy!Next
    <3>1. Mapped(blacklist') = Policy!Put(Mapped(blacklist), k, Term(v))
      BY <2>4, MappedPut
    <3>2. Policy!Sentence(k, Term(v))
      BY <2>4, <3>1 DEF Policy!Sentence, Mapped, Term
    <3>3. Term(v) \in {"temporary", "permanent"}
      BY DEF Term
    <3> QED
      BY <3>2, <3>3 DEF Policy!Next
  <2>5. ASSUME NEW c \in CPU, DeleteExpired(c)
        PROVE  [Policy!Next]_(Policy!vars)
    <3>1. cpu[c].src \in Src \ Unaliased
      BY <2>5 DEF DeleteExpired, TypeOK, PermanentInv
    <3> QED
      BY <2>3, <2>5, <3>1 DEF DeleteExpired, WriteBans
  <2>6. ASSUME NEW c \in CPU, AutoBan(c)
        PROVE  [Policy!Next]_(Policy!vars)
    <3>1. cpu[c].src \in Src \ Unaliased /\ cpu[c].src \in offenders
      BY <2>6 DEF AutoBan, TypeOK, PermanentInv, OffenderInv
    <3>2. kernelDur > 0 => cpu[c].at + kernelDur # 0
      BY SetsAssumption DEF TypeOK, Frame
    <3> QED
      BY <2>1, <2>4, <2>6, <3>1, <3>2 DEF AutoBan, WriteBans
  <2>7. ASSUME BanIP
        PROVE  [Policy!Next]_(Policy!vars)
    <3>1. consumer.src \in Src \ Unaliased
      BY <2>7 DEF BanIP, TypeOK, PermanentInv
    <3>2. \E t \in offenders : consumer.src \in {t, Named[t]}
      BY <2>7 DEF BanIP, OffenderInv
    <3>3. Expiry(fwDur) = 0 => fwDur = 0
      BY SetsAssumption, NumbersAssumption DEF Expiry, Wall, TypeOK
    <3> QED
      BY <2>4, <2>7, <3>1, <3>2, <3>3 DEF BanIP, WriteBans
  <2>8. ASSUME NEW k \in Src, DeleteSwept(k)
        PROVE  [Policy!Next]_(Policy!vars)
    <3>1. k \notin Unaliased
      BY <2>8 DEF DeleteSwept, PermanentInv
    <3> QED
      BY <2>3, <2>8, <3>1 DEF DeleteSwept
  <2>9. \/ UNCHANGED <<blacklist, offenders>>
        \/ BanIP
        \/ \E k \in Src : DeleteSwept(k)
        \/ \E c \in CPU : \/ DeleteExpired(c) \/ AutoBan(c)
                          \/ Judge(c) /\ offenders' # offenders
    <3>1. ASSUME NEW c \in CPU, Kernel(c)
          PROVE  \/ UNCHANGED <<blacklist, offenders>>
                 \/ DeleteExpired(c) \/ AutoBan(c)
                 \/ Judge(c) /\ offenders' # offenders
      BY <3>1 DEF Kernel, Arrive, LookupBan, Judge
    <3> QED
      BY <3>1 DEF Next, Consumer, ReadEvent, Decide, Sweeper, StartSweep,
                  StartOver, StartOver, Visit, EndScan, EndSweep, Reload,
                  PushConfig, SwapConfig, Tick, vars
  <2> QED
    BY <2>1, <2>2, <2>5, <2>6, <2>7, <2>8, <2>9
<1> QED
  BY <1>1, <1>2, TypeCorrect, PermanentInvariant, OffenderInvariant, PTL
     DEF Spec, ImplementsPolicy, Policy!Spec
=============================================================================
