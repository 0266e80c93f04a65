-------------------------- MODULE XdpFilterProofs --------------------------
(***************************************************************************)
(* The invariants of the data plane for any CPUs, sources, frames, configs *)
(* and limits, each preserved by every step of the program on every CPU.   *)
(***************************************************************************)
EXTENDS XdpBudget, BpfMapProofs, SequenceTheorems, FiniteSetTheorems

\* A stage of the pipeline has a place in its order.
LEMMA StageOrder == \A x \in Stage : Order[x] \in Nat
  BY DEF Stage, Order

\* Every exit that reports has an event type.
LEMMA EventTypeOf == \A x \in DOMAIN EventOf : EventOf[x] \in EventType
  BY DEF EventType

\* The keys of flow_map, of a flow and of a port rule.
LEMMA FlowKeys ==
    ASSUME NEW p \in Packets
    PROVE  FlowOf(p) \in FlowKey /\ PortFlowOf(p) \in FlowKey
  BY PacketsAssumption DEF FlowOf, PortFlowOf, FlowKey, Packet, HasPorts

\* A frame goes on to the first of the stages left for it, or to the verdict.
LEMMA FollowingStage ==
    ASSUME NEW p, NEW s \in Stage
    PROVE  /\ Following(p, s) \in Judged \cup {"verdict"}
           /\ \A q \in StagesAfter(p, s) :
                 /\ Following(p, s) \in StagesAfter(p, s)
                 /\ Order[Following(p, s)] <= Order[q]
<1> DEFINE S == StagesAfter(p, s)
           Q == {Order[q] : q \in S}
<1>1. S \subseteq Judged /\ Judged \subseteq Stage
  BY DEF StagesAfter, Judged
<1>2. CASE S = {}
  BY <1>2 DEF Following
<1>3. CASE S # {}
  <2>1. Q \subseteq Nat /\ Q # {}
    BY <1>1, <1>3, StageOrder
  <2> HIDE DEF Q
  <2>2. PICK m \in Q : \A n \in Q : m <= n
    BY <2>1, LeastNatural
  <2>3. PICK q \in S : \A r \in S : Order[q] <= Order[r]
    BY <2>2 DEF Q
  <2>4. Following(p, s) = CHOOSE t \in S : \A r \in S : Order[t] <= Order[r]
    BY <1>3 DEF Following
  <2> HIDE DEF S
  <2>5. Following(p, s) \in S /\ \A r \in S : Order[Following(p, s)] <= Order[r]
    BY <2>3, <2>4
  <2> QED
    BY <1>1, <2>5 DEF S
<1> QED
  BY <1>2, <1>3

\* What the program's locals hold on CPU c.
LEMMA FrameFields ==
    ASSUME TypeOK, NEW c \in DOMAIN frame
    PROVE  /\ c \in CPU /\ frame[c] \in Frame /\ Placed(frame[c])
           /\ frame[c].pkt \in Packets /\ frame[c].pkt \in Packet
           /\ SrcOf(c) \in Src /\ frame[c].pkt.len \in Nat
           /\ frame[c].now_ns \in Nat /\ frame[c].now2 \in Nat
           /\ frame[c].exit \in Stage
<1>1. c \in CPU /\ frame[c] \in Frame /\ Placed(frame[c])
  BY DEF TypeOK, FramesOK, IsMap
<1>2. frame[c].pkt \in Packets /\ frame[c].pkt \in Packet
  BY <1>1, PacketsAssumption DEF Frame
<1> QED
  BY <1>1, <1>2 DEF SrcOf, Frame, Packet

\* A slot of a rate map stays a slot: check_rate() and check_flow_rate().
LEMMA AdvanceIsSlot ==
    ASSUME NEW c, frame[c].now_ns \in Nat, NEW slot \in Slot, NEW len \in Nat
    PROVE  Advance(c, slot, len) \in Slot
<1>1. CASE InWindow(c, slot)
  <2>1. Advance(c, slot, len) =
           [slot EXCEPT !.packets = slot.packets + 1, !.bytes = slot.bytes + len]
    BY <1>1 DEF Advance
  <2>2. slot.packets + 1 \in Nat /\ slot.bytes + len \in Nat
    BY DEF Slot
  <2> QED
    BY <2>1, <2>2 DEF Slot
<1>2. CASE ~InWindow(c, slot)
  BY <1>2 DEF Advance, Slot
<1> QED
  BY <1>1, <1>2

\* What a CPU finds for a key of a per-CPU map.
LEMMA SlotsAreSlots ==
    ASSUME NEW K, NEW tbl, IsMap(tbl, K, [CPU -> Slot]), NEW k
    PROVE  Slots(tbl, k) \in [CPU -> Slot]
<1>1. [d \in CPU |-> ZeroSlot] \in [CPU -> Slot]
  BY DEF ZeroSlot, Slot
<1> QED
  BY <1>1 DEF Slots, Lookup, IsMap

\* Counting a frame keeps a rate map a rate map, and adds its key only.
LEMMA TouchIsMap ==
    ASSUME TypeOK, NEW c \in DOMAIN frame, NEW K, NEW tbl,
           IsMap(tbl, K, [CPU -> Slot]), NEW k \in K
    PROVE  IsMap(Touch(tbl, c, k), K, [CPU -> Slot])
<1>1. Slots(tbl, k) \in [CPU -> Slot] /\ c \in CPU
  BY SlotsAreSlots, FrameFields
<1>2. Advance(c, Slots(tbl, k)[c], frame[c].pkt.len) \in Slot
  BY <1>1, AdvanceIsSlot, FrameFields
<1>3. [Slots(tbl, k) EXCEPT ![c] =
          Advance(c, Slots(tbl, k)[c], frame[c].pkt.len)] \in [CPU -> Slot]
  BY <1>1, <1>2
<1> QED
  BY <1>3, PutIsMap DEF Touch

\* The frame of a CPU moves on, the others stay where they are.
LEMMA FrameMoves ==
    ASSUME FramesOK, NEW c \in DOMAIN frame, NEW f \in Frame, Placed(f),
           frame' = [frame EXCEPT ![c] = f]
    PROVE  FramesOK' /\ DOMAIN frame' = DOMAIN frame
  BY DEF FramesOK, IsMap, Placed

----------------------------------------------------------------------------
\* What each action does with the frame on its CPU.

\* A frame that goes to another place, or the place that its exit takes it to.
LEMMA GoesTo ==
    ASSUME TypeOK, NEW c \in DOMAIN frame, NEW place \in Place, Goto(c, place),
           Placed([frame[c] EXCEPT !.at = place])
    PROVE  /\ FramesOK' /\ DOMAIN frame' = DOMAIN frame
           /\ frame'[c] = [frame[c] EXCEPT !.at = place]
           /\ \A d \in DOMAIN frame : d # c => frame'[d] = frame[d]
<1> DEFINE f == [frame[c] EXCEPT !.at = place]
<1>1. frame' = [frame EXCEPT ![c] = f]
  BY DEF Goto
<1>2. f \in Frame
  BY FrameFields DEF Frame
<1>3. FramesOK
  BY DEF TypeOK
<1> HIDE DEF f
<1>4. Placed(f) /\ DOMAIN frame' = DOMAIN frame /\ frame'[c] = f
  BY <1>1 DEF f
<1>5. FramesOK'
  BY <1>1, <1>2, <1>3, <1>4, FrameMoves
<1> QED
  BY <1>1, <1>4, <1>5 DEF f

\* A stage is a place, and so is what may follow it.
LEMMA OnwardPlace ==
    ASSUME NEW c, frame[c].at \in Judged
    PROVE  /\ Onward(c) \in Judged \cup {"unban", "verdict"}
           /\ Onward(c) \in Place /\ frame[c].at \in Stage
BY FollowingStage DEF Onward, Judged, Place

\* A judged frame is out by the stage it is at or goes on to the next.
LEMMA JudgeMoves ==
    ASSUME TypeOK, NEW c \in DOMAIN frame, Judge(c)
    PROVE  /\ FramesOK' /\ DOMAIN frame' = DOMAIN frame
           /\ \A d \in DOMAIN frame : d # c => frame'[d] = frame[d]
           /\ frame'[c].pkt = frame[c].pkt /\ frame'[c].now_ns = frame[c].now_ns
           /\ Stops(c) => /\ frame'[c].exit = frame[c].at
                          /\ frame'[c].at \in {"throttle", "verdict"}
                          /\ frame'[c].now2 = now
           /\ ~Stops(c) => /\ frame'[c].exit = "accept"
                           /\ frame'[c].at = Onward(c)
                           /\ frame'[c].now2 = frame[c].now2
                           /\ frame'[c].lockdown =
                                IF frame[c].at = "blackhole"
                                THEN cfg.blackhole ELSE frame[c].lockdown
<1>1. /\ frame[c] \in Frame /\ Placed(frame[c]) /\ c \in CPU /\ FramesOK
      /\ frame[c].at \in Judged /\ now \in Nat /\ cfg.blackhole \in BOOLEAN
      /\ frame[c].pkt.len \in Nat /\ frame[c].now_ns \in Nat
  <2>1. cfg \in Config
    BY ConfigsAssumption DEF TypeOK
  <2> QED
    BY <2>1, FrameFields DEF Judge, TypeOK, Config
<1>2. CASE Stops(c)
  <2>1. PICK place \in {"throttle", "verdict"} :
           /\ frame' = [frame EXCEPT ![c].at = place, ![c].now2 = now,
                                     ![c].exit = frame[c].at]
           /\ place = "throttle" => frame[c].at \in DOMAIN EventOf
    BY <1>2 DEF Judge, Leave
  <2> DEFINE f == [frame[c] EXCEPT !.at = place, !.now2 = now,
                                   !.exit = frame[c].at]
  <2>2. frame' = [frame EXCEPT ![c] = f]
    BY <2>1
  <2>3. /\ f.at = place /\ f.exit = frame[c].at /\ f.now2 = now
        /\ f.pkt = frame[c].pkt /\ f.now_ns = frame[c].now_ns
    BY <1>1 DEF Frame
  <2>4. f \in Frame
    BY <1>1, OnwardPlace DEF Frame, Place
  <2>5. Placed(f)
    BY <2>1, <2>3 DEF Placed, Judged, Stage, Order
  <2> HIDE DEF f
  <2>6. FramesOK' /\ DOMAIN frame' = DOMAIN frame
    BY <1>1, <2>2, <2>4, <2>5, FrameMoves
  <2> QED
    BY <1>2, <2>2, <2>3, <2>6
<1>3. CASE ~Stops(c)
  <2> DEFINE f == [frame[c] EXCEPT
                     !.at = Onward(c),
                     !.lockdown = IF frame[c].at = "blackhole"
                                  THEN cfg.blackhole ELSE frame[c].lockdown,
                     !.udp_rate = IF frame[c].at = "udp"
                                  THEN CheckRate("udp", c)
                                  ELSE frame[c].udp_rate]
  <2>1. frame' = [frame EXCEPT ![c] = f]
    BY <1>3 DEF Judge
  <2>2. /\ f.at = Onward(c) /\ f.exit = frame[c].exit /\ f.now2 = frame[c].now2
        /\ f.pkt = frame[c].pkt /\ f.now_ns = frame[c].now_ns
        /\ f.lockdown = IF frame[c].at = "blackhole"
                        THEN cfg.blackhole ELSE frame[c].lockdown
    BY <1>1 DEF Frame
  <2>3. frame[c].exit = "accept"
    BY <1>1 DEF Placed
  <2>4. CheckRate("udp", c) \in Nat
    <3>1. IsMap(rates["udp"], Src, [CPU -> Slot])
      BY DEF TypeOK, RateMap
    <3>2. Slots(rates["udp"], SrcOf(c))[c] \in Slot
      <4>1. Slots(rates["udp"], SrcOf(c)) \in [CPU -> Slot]
        BY <3>1, SlotsAreSlots
      <4> QED
        BY <1>1, <4>1
    <3>3. Advance(c, Slots(rates["udp"], SrcOf(c))[c], frame[c].pkt.len) \in Slot
      BY <1>1, <3>2, AdvanceIsSlot
    <3> QED
      BY <3>3 DEF CheckRate, Slot
  <2>5. f \in Frame
    BY <1>1, <2>4, OnwardPlace DEF Frame
  <2>6. Placed(f)
    BY <1>1, <2>2, <2>3, OnwardPlace
       DEF Placed, Judged, Stage, Order
  <2> HIDE DEF f
  <2>7. FramesOK' /\ DOMAIN frame' = DOMAIN frame
    BY <1>1, <2>1, <2>5, <2>6, FrameMoves
  <2> QED
    BY <1>3, <2>1, <2>2, <2>3, <2>7
<1> QED
  BY <1>2, <1>3

\* The other steps of the program move the frame and change nothing of it.
LEMMA OthersMove ==
    ASSUME TypeOK, NEW c \in DOMAIN frame,
           Unban(c) \/ CheckThrottle(c) \/ Stamp(c) \/ Reserve(c) \/ AutoBan(c)
    PROVE  /\ FramesOK' /\ DOMAIN frame' = DOMAIN frame
           /\ \A d \in DOMAIN frame : d # c => frame'[d] = frame[d]
           /\ frame'[c] = [frame[c] EXCEPT !.at = frame'[c].at]
           /\ frame'[c].at # frame[c].at
<1>1. frame[c] \in Frame /\ Placed(frame[c])
  BY FrameFields
<1>2. ASSUME NEW place \in Place, Goto(c, place),
             Placed([frame[c] EXCEPT !.at = place]), place # frame[c].at
      PROVE  /\ FramesOK' /\ DOMAIN frame' = DOMAIN frame
             /\ \A d \in DOMAIN frame : d # c => frame'[d] = frame[d]
             /\ frame'[c] = [frame[c] EXCEPT !.at = frame'[c].at]
             /\ frame'[c].at # frame[c].at
  <2>1. /\ FramesOK' /\ DOMAIN frame' = DOMAIN frame
        /\ \A d \in DOMAIN frame : d # c => frame'[d] = frame[d]
        /\ frame'[c] = [frame[c] EXCEPT !.at = place]
    BY <1>2, GoesTo
  <2>2. frame'[c].at = place
    BY <1>1, <2>1 DEF Frame
  <2> QED
    BY <1>2, <2>1, <2>2
<1>3. ASSUME NEW place \in Place
      PROVE  LET f == [frame[c] EXCEPT !.at = place]
             IN  f.at = place /\ f.exit = frame[c].exit
  BY <1>1 DEF Frame
<1>4. CASE Unban(c)
  <2>1. "banned" \in Stage /\ "unban" \notin Judged
    BY DEF Stage, Judged, Order
  <2>2. Following(frame[c].pkt, "banned") \in Judged \cup {"verdict"}
    BY <2>1, FollowingStage
  <2>3. frame[c].exit = "accept" /\ frame[c].at = "unban"
    BY <1>1, <1>4 DEF Unban, Placed
  <2> QED
    BY <1>2, <1>3, <1>4, <2>1, <2>2, <2>3
       DEF Unban, Placed, Place, Judged, Stage, Order
<1>5. AfterReport(c) \in {"auto_ban", "verdict"}
      /\ (AfterReport(c) = "auto_ban" => frame[c].exit \in BanExits)
  BY DEF AfterReport
<1>6. CASE CheckThrottle(c)
  BY <1>1, <1>2, <1>3, <1>5, <1>6
     DEF CheckThrottle, Placed, Place, Judged, Stage, Order
<1>7. CASE Stamp(c)
  BY <1>1, <1>2, <1>3, <1>7 DEF Stamp, Placed, Place, Judged, Stage, Order
<1>8. CASE Reserve(c)
  BY <1>1, <1>2, <1>3, <1>5, <1>8
     DEF Reserve, Placed, Place, Judged, Stage, Order
<1>9. CASE AutoBan(c)
  BY <1>1, <1>2, <1>3, <1>9 DEF AutoBan, Placed, Place, Judged, Stage, Order
<1> QED
  BY <1>4, <1>6, <1>7, <1>8, <1>9

\* A frame that is done with leaves its CPU idle.
LEMMA VerdictMoves ==
    ASSUME TypeOK, NEW c \in DOMAIN frame, Verdict(c)
    PROVE  /\ FramesOK' /\ DOMAIN frame' = DOMAIN frame \ {c}
           /\ \A d \in DOMAIN frame : d # c => frame'[d] = frame[d]
<1>1. frame' = Del(frame, c) /\ IsMap(frame, CPU, Frame)
  BY DEF Verdict, TypeOK, FramesOK
<1>2. /\ IsMap(frame', CPU, Frame) /\ DOMAIN frame' = DOMAIN frame \ {c}
      /\ \A d \in DOMAIN frame : d # c => frame'[d] = frame[d]
  BY <1>1, DelIsMap, SMTT(20)
<1>3. \A d \in DOMAIN frame' : Placed(frame'[d])
  BY <1>2 DEF TypeOK, FramesOK
<1> QED
  BY <1>2, <1>3 DEF FramesOK, Placed

\* A new frame is where its header takes it, at the time it came.
LEMMA ArriveMoves ==
    ASSUME TypeOK, NEW c \in CPU, NEW p \in Packets, Arrive(c, p)
    PROVE  /\ FramesOK' /\ DOMAIN frame' = DOMAIN frame \cup {c}
           /\ c \notin DOMAIN frame
           /\ \A d \in DOMAIN frame : d # c => frame'[d] = frame[d]
           /\ frame'[c].pkt = p /\ frame'[c].now_ns = now /\ frame'[c].now2 = now
           /\ ~frame'[c].lockdown
           /\ \/ /\ p.l3 = "ip" /\ frame'[c].at = "whitelisted"
                 /\ frame'[c].exit = "accept"
              \/ /\ p.l3 # "ip" /\ frame'[c].at \in {"throttle", "verdict"}
                 /\ frame'[c].exit \in {"runt", "malformed_l3", "non_ip"}
<1> DEFINE f == [at |-> "whitelisted", pkt |-> p, now_ns |-> now, now2 |-> now,
                 exit |-> "accept", lockdown |-> FALSE, udp_rate |-> 0]
           Fits(g) ==
              /\ g \in Frame /\ Placed(g)
              /\ g.pkt = p /\ g.now_ns = now /\ g.now2 = now /\ ~g.lockdown
              /\ \/ p.l3 = "ip" /\ g.at = "whitelisted" /\ g.exit = "accept"
                 \/ /\ p.l3 # "ip" /\ g.at \in {"throttle", "verdict"}
                    /\ g.exit \in {"runt", "malformed_l3", "non_ip"}
<1>1. now \in Nat /\ p.l3 \in {"runt", "malformed", "other", "ip"}
  BY PacketsAssumption DEF TypeOK, Packet
<1>2. f \in Frame
  BY <1>1 DEF Frame, Place, Judged, Stage, Order
<1>3. p.l3 = "ip" => Fits(f)
  BY <1>1, <1>2 DEF Placed, Judged, Stage, Order
<1>4. p.l3 = "runt" => Fits([f EXCEPT !.at = "verdict", !.exit = "runt"])
  BY <1>1, <1>2 DEF Placed, Judged, Stage, Order, Frame, Place
<1>5. p.l3 = "other" => Fits([f EXCEPT !.at = "verdict", !.exit = "non_ip"])
  BY <1>1, <1>2 DEF Placed, Judged, Stage, Order, Frame, Place
<1>6. p.l3 = "malformed" =>
         Fits([f EXCEPT !.at = "throttle", !.exit = "malformed_l3"])
  BY <1>1, <1>2 DEF Placed, Judged, Stage, Order, Frame, Place, EventOf
<1>7. PICK g : Fits(g) /\ frame' = Put(frame, c, g) /\ c \notin DOMAIN frame
  <2> HIDE DEF Fits
  <2> QED
    BY <1>1, <1>3, <1>4, <1>5, <1>6 DEF Arrive
<1>8. IsMap(frame, CPU, Frame)
  BY DEF TypeOK, FramesOK
<1>9. /\ IsMap(frame', CPU, Frame) /\ DOMAIN frame' = DOMAIN frame \cup {c}
      /\ frame'[c] = g
      /\ \A d \in DOMAIN frame : d # c => frame'[d] = frame[d]
  BY <1>7, <1>8, PutIsMap
<1>10. \A d \in DOMAIN frame' : Placed(frame'[d])
  BY <1>7, <1>9 DEF TypeOK, FramesOK
<1>11. FramesOK'
  BY <1>9, <1>10 DEF FramesOK, Placed
<1> QED
  BY <1>7, <1>9, <1>11

----------------------------------------------------------------------------
\* What the history holds is left alone, but for the cost, by what counts only.
SameHist(h) ==
    /\ h.done = hist.done /\ h.runts = hist.runts
    /\ h.sentence = hist.sentence /\ h.reported = hist.reported
    /\ h.late = hist.late

LEMMA SpendKeeps ==
    ASSUME TypeOK, NEW cost \in Nat
    PROVE  /\ Spend(cost).spent \in Nat /\ SameHist(Spend(cost))
           /\ Spend(cost).openSeen = hist.openSeen
           /\ Count.spent \in Nat /\ SameHist(Count)
           /\ Count.openSeen = hist.openSeen
<1>1. hist.spent \in Nat /\ WriteCost \in Nat
  BY NumbersAssumption DEF TypeOK, HistOK
<1> QED
  BY <1>1 DEF Spend, Count, SameHist

\* HistOK from what it says of each part.
LEMMA HistParts ==
    ASSUME hist'.spent \in Nat, hist'.done \in Nat, hist'.runts \in Nat,
           hist'.sentence \in [Src -> Nat], hist'.openSeen \subseteq Src,
           IsMap(hist'.reported, CPU \X (Src \cup {NoSrc}) \X EventType, Report),
           hist'.late \subseteq DOMAIN frame'
    PROVE  HistOK'
  BY DEF HistOK

\* A step that judges a frame leaves in each map what is of the map's type.
LEMMA JudgeTypes ==
    ASSUME TypeOK, NEW c \in DOMAIN frame, Judge(c)
    PROVE  TypeOK'
<1>1. /\ c \in CPU /\ SrcOf(c) \in Src /\ frame[c].pkt \in Packets
      /\ frame[c].now_ns \in Nat /\ frame[c].pkt \in Packet
  BY FrameFields
<1>2. FramesOK' /\ DOMAIN frame' = DOMAIN frame
  BY JudgeMoves
<1>3. known' \subseteq Src
  BY <1>1 DEF Judge, KnownAfter, TypeOK
<1>4. newSrc' \in [CPU -> Slot]
  <2>1. newSrc \in [CPU -> Slot]
    BY DEF TypeOK
  <2>2. Advance(c, newSrc[c], 0) \in Slot
    BY <1>1, <2>1, AdvanceIsSlot
  <2> QED
    BY <2>1, <2>2 DEF Judge, NewSrcAfter
<1>5. DOMAIN rates' = RateMap
      /\ \A m \in RateMap : IsMap(rates'[m], Src, [CPU -> Slot])
  <2>1. DOMAIN rates = RateMap
        /\ \A m \in RateMap : IsMap(rates[m], Src, [CPU -> Slot])
    BY DEF TypeOK
  <2>2. \A m \in RateMap :
           IsMap(Touch(rates[m], c, SrcOf(c)), Src, [CPU -> Slot])
    BY <1>1, <2>1, TouchIsMap
  <2> QED
    BY <2>1, <2>2 DEF Judge, RatesAfter
<1>6. IsMap(flow', FlowKey, [CPU -> Slot])
  <2>1. IsMap(flow, FlowKey, [CPU -> Slot])
    BY DEF TypeOK
  <2>2. /\ IsMap(Touch(flow, c, FlowOf(frame[c].pkt)), FlowKey, [CPU -> Slot])
        /\ IsMap(Touch(flow, c, PortFlowOf(frame[c].pkt)), FlowKey, [CPU -> Slot])
    BY <1>1, <2>1, FlowKeys, TouchIsMap
  <2> QED
    BY <2>1, <2>2 DEF Judge, FlowAfter
<1>7. stats' \in [Counters -> Nat]
  BY DEF Judge, Bump, TypeOK
<1>8. HistOK'
  BY <1>2 DEF Judge, TypeOK, HistOK
<1> QED
  BY <1>2, <1>3, <1>4, <1>5, <1>6, <1>7, <1>8 DEF Judge, TypeOK

\* What a CPU reports, and about whom.
LEMMA ReportedTypes ==
    ASSUME TypeOK, NEW c \in DOMAIN frame,
           frame[c].at \in {"throttle", "stamp", "reserve"}
    PROVE  /\ ReportedSrc(c) \in Src \cup {NoSrc}
           /\ ReportedType(c) \in EventType
           /\ ThrottleKey(c) \in {Low32[s] : s \in DOMAIN Low32} \X EventType
           /\ Reporter(c) \in CPU \X (Src \cup {NoSrc}) \X EventType
<1>1. c \in CPU /\ SrcOf(c) \in Src /\ frame[c].exit \in DOMAIN EventOf
  BY FrameFields DEF Placed
<1>2. ReportedSrc(c) \in Src \cup {NoSrc} /\ ReportedType(c) \in EventType
  BY <1>1, EventTypeOf DEF ReportedSrc, ReportedType
<1> QED
  BY <1>1, <1>2, Low32Assumption DEF ThrottleKey, Reporter

\* A step of emit_event(), of auto_ban() or of the ban's delete does too.
LEMMA OthersTypes ==
    ASSUME TypeOK, NEW c \in DOMAIN frame,
           Unban(c) \/ CheckThrottle(c) \/ Stamp(c) \/ Reserve(c) \/ AutoBan(c)
    PROVE  TypeOK'
<1>1. /\ c \in CPU /\ SrcOf(c) \in Src
      /\ frame[c].now_ns \in Nat /\ frame[c].now2 \in Nat /\ now \in Nat
  BY FrameFields DEF TypeOK
<1>2. FramesOK' /\ DOMAIN frame' = DOMAIN frame
  BY OthersMove
<1>3. HistOK /\ IsMap(blacklist, Src, Nat) /\ ring \in Seq(Event)
      /\ IsMap(throttle, {Low32[s] : s \in DOMAIN Low32} \X EventType, Nat)
  BY DEF TypeOK
<1>4. HistOK /\ (hist' = hist) => HistOK'
  BY <1>2 DEF HistOK
<1>5. CASE Unban(c)
  <2>1. IsMap(blacklist', Src, Nat)
    BY <1>3, <1>5, DelIsMap DEF Unban
  <2>2. HistOK'
    BY <1>1, <1>2, <1>3, <1>4, <1>5, HistParts DEF Unban, HistOK
  <2> QED
    BY <1>2, <1>5, <2>1, <2>2 DEF Unban, TypeOK
<1>6. CASE CheckThrottle(c)
  BY <1>2, <1>3, <1>4, <1>6 DEF CheckThrottle, TypeOK
<1>7. CASE Stamp(c)
  <2>0. /\ ThrottleKey(c) \in {Low32[s] : s \in DOMAIN Low32} \X EventType
        /\ Reporter(c) \in CPU \X (Src \cup {NoSrc}) \X EventType
    BY <1>7, ReportedTypes DEF Stamp
  <2>1. IsMap(throttle', {Low32[s] : s \in DOMAIN Low32} \X EventType, Nat)
    BY <1>1, <1>3, <1>7, <2>0, PutIsMap DEF Stamp
  <2> DEFINE K == CPU \X (Src \cup {NoSrc}) \X EventType
             r == [now2 |-> frame[c].now2, at |-> now]
  <2>2. /\ hist'.reported = Put(hist.reported, Reporter(c), r)
        /\ r \in Report /\ Reporter(c) \in K
        /\ IsMap(hist.reported, K, Report)
        /\ hist'.spent = hist.spent /\ hist'.done = hist.done
        /\ hist'.runts = hist.runts /\ hist'.sentence = hist.sentence
        /\ hist'.openSeen = hist.openSeen /\ hist'.late = hist.late
    BY <1>1, <1>3, <1>7, <2>0 DEF Stamp, HistOK, Report
  <2> HIDE DEF K, r
  <2>3. ASSUME NEW m, NEW k \in K, IsMap(m, K, Report)
        PROVE  IsMap(Put(m, k, r), K, Report)
    BY <2>2, <2>3, PutIsMap
  <2>5. IsMap(hist'.reported, K, Report)
    BY <2>2, <2>3
  <2>4. HistOK'
    BY <1>2, <1>3, <2>2, <2>5, HistParts DEF HistOK, K
  <2> QED
    BY <1>2, <1>7, <2>1, <2>4 DEF Stamp, TypeOK
<1>8. CASE Reserve(c)
  <2>1. [src |-> ReportedSrc(c), type |-> ReportedType(c)] \in Event
    BY <1>8, ReportedTypes DEF Reserve, Event
  <2>2. ring' \in Seq(Event) /\ Len(ring') <= RingCap
    <3>1. Len(ring) \in Nat /\ Len(ring) <= RingCap /\ RingCap \in Nat
      BY NumbersAssumption DEF TypeOK
    <3> QED
      BY <1>3, <1>8, <2>1, <3>1, AppendProperties DEF Reserve, RingAfter
  <2> QED
    BY <1>2, <1>3, <1>4, <1>8, <2>2 DEF Reserve, TypeOK
<1>9. CASE AutoBan(c)
  <2> DEFINE expires == frame[c].now_ns + cfg.ban_duration
  <2>0. cfg \in Config
    BY ConfigsAssumption DEF TypeOK
  <2>1. cfg.ban_duration \in Nat /\ expires \in Nat
    BY <1>1, <2>0 DEF Config
  <2>2. IsMap(Put(blacklist, SrcOf(c), expires), Src, Nat)
    BY <1>1, <1>3, <2>1, PutIsMap
  <2> HIDE DEF expires
  <2>3. \/ blacklist' = blacklist /\ hist' = hist
        \/ /\ blacklist' = Put(blacklist, SrcOf(c), expires)
           /\ hist' = [hist EXCEPT !.sentence[SrcOf(c)] = expires,
                                   !.late = @ \cup LateFor(SrcOf(c))]
    BY <1>9 DEF AutoBan, expires
  <2>4. IsMap(blacklist', Src, Nat)
    BY <1>3, <2>2, <2>3
  <2>5. LateFor(SrcOf(c)) \subseteq DOMAIN frame
    BY DEF LateFor
  <2>6. HistOK'
    <3>1. CASE hist' = hist
      BY <1>3, <1>4, <3>1
    <3>2. CASE hist' = [hist EXCEPT !.sentence[SrcOf(c)] = expires,
                                    !.late = @ \cup LateFor(SrcOf(c))]
      <4>1. /\ hist'.spent = hist.spent /\ hist'.done = hist.done
            /\ hist'.runts = hist.runts /\ hist'.openSeen = hist.openSeen
            /\ hist'.reported = hist.reported
            /\ hist'.sentence = [hist.sentence EXCEPT ![SrcOf(c)] = expires]
            /\ hist'.late \subseteq hist.late \cup DOMAIN frame
        BY <2>5, <3>2 DEF TypeOK, HistOK
      <4> QED
        BY <1>1, <1>2, <1>3, <2>1, <4>1, HistParts DEF HistOK
    <3> QED
      BY <2>3, <3>1, <3>2
  <2> QED
    BY <1>2, <1>9, <2>4, <2>6 DEF AutoBan, TypeOK
<1> QED
  BY <1>5, <1>6, <1>7, <1>8, <1>9

\* So does a frame that is taken in or done with.
LEMMA EndsTypes ==
    ASSUME TypeOK
    PROVE  /\ \A c \in CPU, p \in Packets : Arrive(c, p) => TypeOK'
           /\ \A c \in DOMAIN frame : Verdict(c) => TypeOK'
<1>1. ASSUME NEW c \in CPU, NEW p \in Packets, Arrive(c, p) PROVE TypeOK'
  <2>1. FramesOK' /\ DOMAIN frame \subseteq DOMAIN frame'
    BY <1>1, ArriveMoves
  <2>2. Cost[p] \in Nat /\ p.src \in Src
    BY NumbersAssumption, PacketsAssumption DEF Packet
  <2>3. /\ hist'.spent = Spend(Cost[p]).spent /\ SameHist(hist')
        /\ hist'.openSeen \subseteq hist.openSeen \cup {p.src}
    BY <1>1, <2>2, SpendKeeps DEF Arrive, Spend, SameHist
  <2>4. HistOK'
    BY <2>1, <2>2, <2>3, SpendKeeps, HistParts DEF HistOK, TypeOK, SameHist
  <2> QED
    BY <1>1, <2>1, <2>4 DEF Arrive, TypeOK
<1>2. ASSUME NEW c \in DOMAIN frame, Verdict(c) PROVE TypeOK'
  <2>1. FramesOK' /\ DOMAIN frame' = DOMAIN frame \ {c}
    BY <1>2, VerdictMoves
  <2>2. stats' \in [Counters -> Nat]
    BY <1>2 DEF Verdict, Bump, TypeOK
  <2>3. HistOK'
    <3>1. HistOK
      BY DEF TypeOK
    <3>2. /\ hist'.spent = hist.spent /\ hist'.done \in Nat
          /\ hist'.runts \in Nat /\ hist'.sentence = hist.sentence
          /\ hist'.openSeen = hist.openSeen /\ hist'.reported = hist.reported
          /\ hist'.late = hist.late \ {c}
      BY <1>2, <3>1 DEF Verdict, HistOK
    <3> QED
      BY <2>1, <3>1, <3>2, HistParts DEF HistOK
  <2> QED
    BY <1>2, <2>1, <2>2, <2>3 DEF Verdict, TypeOK
<1> QED
  BY <1>1, <1>2

\* A lifted sentence is all that the lifting of a ban changes in the history.
LEMMA LiftedTypes ==
    ASSUME TypeOK, NEW s \in Src
    PROVE  /\ SameHist([Lifted(s) EXCEPT !.sentence = hist.sentence])
           /\ Lifted(s).sentence = [hist.sentence EXCEPT ![s] = 0]
           /\ Lifted(s).openSeen = hist.openSeen
           /\ frame' = frame /\ hist' = Lifted(s) => HistOK'
<1>1. /\ SameHist([Lifted(s) EXCEPT !.sentence = hist.sentence])
      /\ Lifted(s).sentence = [hist.sentence EXCEPT ![s] = 0]
      /\ Lifted(s).openSeen = hist.openSeen
      /\ Lifted(s).spent = Count.spent
      /\ Lifted(s).done = hist.done /\ Lifted(s).runts = hist.runts
      /\ Lifted(s).reported = hist.reported /\ Lifted(s).late = hist.late
  BY DEF Lifted, Count, Spend, SameHist
<1>2. HistOK
  BY DEF TypeOK
<1> QED
  BY <1>1, <1>2, SpendKeeps, HistParts DEF HistOK

\* What a write of the daemon leaves in each map is of the map's type.
LEMMA WriteTypes ==
    ASSUME TypeOK, Write
    PROVE  TypeOK'
<1>1. /\ now' = now /\ frame' = frame /\ known' = known /\ rates' = rates
      /\ flow' = flow /\ newSrc' = newSrc /\ throttle' = throttle
      /\ ring' = ring /\ stats' = stats
  BY DEF Write
<1>2. FramesOK'
  BY <1>1 DEF TypeOK, FramesOK, Placed
<1>3. /\ cfg \in Configs /\ whitelist \subseteq Src /\ geo \subseteq Src
      /\ IsMap(blacklist, Src, Nat) /\ IsMap(portRules, PortKey, PortRule)
      /\ HistOK
  BY DEF TypeOK
<1>4. ASSUME HistOK', cfg' \in Configs, whitelist' \subseteq Src,
             geo' \subseteq Src, IsMap(blacklist', Src, Nat),
             IsMap(portRules', PortKey, PortRule)
      PROVE  TypeOK'
  BY <1>1, <1>2, <1>4 DEF TypeOK
<1>5. hist' = Count => HistOK'
  BY <1>1, <1>3, SpendKeeps, HistParts DEF HistOK, SameHist
<1>6. ASSUME NEW k \in Configs, PushConfig(k) PROVE TypeOK'
  <2>1. hist'.openSeen \subseteq hist.openSeen \cup InProgram
    BY <1>6, SpendKeeps DEF PushConfig, Count, Spend
  <2>2. InProgram \subseteq Src
    BY FrameFields DEF InProgram
  <2>3. SameHist(hist') /\ hist'.spent = Count.spent
    BY <1>6, SpendKeeps DEF PushConfig, Count, Spend, SameHist
  <2>4. HistOK'
    BY <1>1, <1>3, <2>1, <2>2, <2>3, SpendKeeps, HistParts DEF HistOK, SameHist
  <2> QED
    BY <1>3, <1>4, <1>6, <2>4 DEF PushConfig
<1>7. ASSUME NEW s \in Src, AddWhitelist(s) \/ RemoveWhitelist(s) PROVE TypeOK'
  BY <1>3, <1>4, <1>5, <1>7 DEF AddWhitelist, RemoveWhitelist
<1>8. ASSUME NEW s \in Src, NEW e \in DaemonExpiry, BanIP(s, e) PROVE TypeOK'
  <2>1. IsMap(blacklist', Src, Nat)
    BY <1>3, <1>8, NumbersAssumption, PutIsMap DEF BanIP
  <2>2. /\ hist'.spent = Count.spent /\ hist'.done = hist.done
        /\ hist'.runts = hist.runts /\ hist'.openSeen = hist.openSeen
        /\ hist'.reported = hist.reported
        /\ hist'.sentence = [hist.sentence EXCEPT ![s] = 0]
        /\ hist'.late \subseteq DOMAIN frame
    BY <1>3, <1>8 DEF BanIP, Count, Spend, LateFor, HistOK
  <2>3. HistOK'
    BY <1>1, <1>3, <2>2, SpendKeeps, HistParts DEF HistOK
  <2> QED
    BY <1>3, <1>4, <1>8, <2>1, <2>3 DEF BanIP
<1>9. ASSUME NEW s \in Src, UnbanIP(s) PROVE TypeOK'
  <2>1. IsMap(blacklist', Src, Nat)
    BY <1>3, <1>9, DelIsMap DEF UnbanIP
  <2>2. HistOK'
    BY <1>1, <1>3, <1>9, LiftedTypes DEF UnbanIP
  <2> QED
    BY <1>3, <1>4, <1>9, <2>1, <2>2 DEF UnbanIP
<1>10. ASSUME NEW s \in Src, AddPrefix(s) \/ RemovePrefix(s) PROVE TypeOK'
  BY <1>3, <1>4, <1>5, <1>10 DEF AddPrefix, RemovePrefix
<1>11. ASSUME NEW r \in PortRules, NEW k \in DOMAIN r, PutPortRule(k, r[k])
       PROVE  TypeOK'
  <2>1. k \in PortKey /\ r[k] \in PortRule
    BY PortRulesAssumption DEF IsMap
  <2> DEFINE v == r[k]
  <2> HIDE DEF v
  <2>2. v \in PortRule /\ portRules' = Put(portRules, k, v)
    BY <1>11, <2>1 DEF PutPortRule, v
  <2>3. IsMap(portRules', PortKey, PortRule)
    BY <1>3, <2>1, <2>2, PutIsMap
  <2> QED
    BY <1>3, <1>4, <1>5, <1>11, <2>3 DEF PutPortRule
<1> QED
  BY <1>6, <1>7, <1>8, <1>9, <1>10, <1>11 DEF Write

\* A map keeps its type when an LRU entry is reclaimed.
LEMMA ReclaimTypes ==
    ASSUME TypeOK, Reclaim
    PROVE  TypeOK'
<1> DEFINE LowType == {Low32[s] : s \in DOMAIN Low32} \X EventType
<1>1. /\ now' = now /\ frame' = frame /\ cfg' = cfg /\ whitelist' = whitelist
      /\ geo' = geo /\ portRules' = portRules /\ newSrc' = newSrc
      /\ ring' = ring /\ stats' = stats
  BY DEF Reclaim
<1>2. FramesOK'
  BY <1>1 DEF TypeOK, FramesOK, Placed
<1>3. /\ known \subseteq Src /\ IsMap(blacklist, Src, Nat)
      /\ DOMAIN rates = RateMap
      /\ \A m \in RateMap : IsMap(rates[m], Src, [CPU -> Slot])
      /\ IsMap(flow, FlowKey, [CPU -> Slot])
      /\ IsMap(throttle, LowType, Nat) /\ HistOK
  BY DEF TypeOK
<1>4. ASSUME HistOK', known' \subseteq Src, IsMap(blacklist', Src, Nat),
             DOMAIN rates' = RateMap,
             \A m \in RateMap : IsMap(rates'[m], Src, [CPU -> Slot]),
             IsMap(flow', FlowKey, [CPU -> Slot]),
             IsMap(throttle', LowType, Nat)
      PROVE  TypeOK'
  BY <1>1, <1>2, <1>4 DEF TypeOK
<1> HIDE DEF LowType
<1>5. hist' = Count => HistOK'
  BY <1>1, <1>3, SpendKeeps, HistParts DEF HistOK, SameHist
<1>6. ASSUME NEW s \in Src, ReclaimBan(s) PROVE TypeOK'
  <2>1. IsMap(blacklist', Src, Nat)
    BY <1>3, <1>6, DelIsMap DEF ReclaimBan
  <2>2. HistOK'
    BY <1>1, <1>3, <1>6, LiftedTypes DEF ReclaimBan
  <2> QED
    BY <1>3, <1>4, <1>6, <2>1, <2>2 DEF ReclaimBan
<1>7. ASSUME NEW s \in Src, ReclaimKnown(s) PROVE TypeOK'
  BY <1>3, <1>4, <1>5, <1>7 DEF ReclaimKnown
<1>8. ASSUME NEW m \in RateMap, NEW s \in Src, ReclaimRate(m, s) PROVE TypeOK'
  <2>1. IsMap(Del(rates[m], s), Src, [CPU -> Slot])
    BY <1>3, DelIsMap
  <2>2. DOMAIN rates' = RateMap
        /\ \A n \in RateMap : IsMap(rates'[n], Src, [CPU -> Slot])
    BY <1>3, <1>8, <2>1 DEF ReclaimRate
  <2> QED
    BY <1>3, <1>4, <1>5, <1>8, <2>2 DEF ReclaimRate
<1>9. ASSUME NEW k, ReclaimFlow(k) PROVE TypeOK'
  <2>1. IsMap(Del(flow, k), FlowKey, [CPU -> Slot])
    BY <1>3, DelIsMap
  <2> QED
    BY <1>3, <1>4, <1>5, <1>9, <2>1 DEF ReclaimFlow
<1>10. ASSUME NEW k, ReclaimThrottle(k) PROVE TypeOK'
  <2>1. IsMap(Del(throttle, k), LowType, Nat)
    BY <1>3, DelIsMap
  <2> QED
    BY <1>3, <1>4, <1>5, <1>10, <2>1 DEF ReclaimThrottle
<1> QED
  BY <1>6, <1>7, <1>8, <1>9, <1>10 DEF Reclaim

\* Every map of the data plane holds keys and values of its own types and the
\* ring no more than it has room for, whatever the CPUs, the daemon and the
\* kernel do between one step of a frame and the next.
THEOREM TypeCorrect == Spec => []TypeOK
<1>1. Init => TypeOK
  <2> SUFFICES ASSUME Init PROVE TypeOK
    OBVIOUS
  <2>1. /\ IsMap(blacklist, Src, Nat)
        /\ IsMap(portRules, PortKey, PortRule)
        /\ DOMAIN rates = RateMap
        /\ \A m \in RateMap : IsMap(rates[m], Src, [CPU -> Slot])
        /\ IsMap(flow, FlowKey, [CPU -> Slot])
        /\ IsMap(throttle, {Low32[s] : s \in DOMAIN Low32} \X EventType, Nat)
    BY EmptyIsMap, FilesAssumption, PortRulesAssumption DEF Init, IsMap
  <2>2. newSrc \in [CPU -> Slot] /\ stats \in [Counters -> Nat]
    BY DEF Init, ZeroSlot, Slot
  <2>3. ring \in Seq(Event) /\ Len(ring) <= RingCap
    BY NumbersAssumption DEF Init
  <2>4. HistOK
    BY EmptyIsMap DEF Init, HistOK
  <2>5. /\ now \in Nat /\ now >= Window /\ cfg \in Configs
        /\ whitelist \subseteq Src /\ geo \subseteq Src /\ known \subseteq Src
    BY NumbersAssumption, FilesAssumption DEF Init
  <2>6. FramesOK
    BY DEF Init, FramesOK, IsMap, EmptyMap
  <2> QED
    BY <2>1, <2>2, <2>3, <2>4, <2>5, <2>6 DEF TypeOK
<1>2. TypeOK /\ [Next]_vars => TypeOK'
  <2> SUFFICES ASSUME TypeOK, [Next]_vars PROVE TypeOK'
    OBVIOUS
  <2>1. ASSUME NEW c \in CPU, NEW p \in Packets, Arrive(c, p) PROVE TypeOK'
    BY <2>1, EndsTypes
  <2>2. ASSUME NEW c \in DOMAIN frame, Program(c) PROVE TypeOK'
    BY <2>2, JudgeTypes, OthersTypes, EndsTypes DEF Program
  <2>3. ASSUME frame' = frame PROVE FramesOK'
    BY <2>3 DEF TypeOK, FramesOK, Placed
  <2>4. CASE ReadRing
    <3>1. ring' \in Seq(Event) /\ Len(ring') <= RingCap
      <4>1. ring \in Seq(Event) /\ Len(ring) <= RingCap /\ RingCap \in Nat
            /\ Len(ring) \in Nat
        BY NumbersAssumption DEF TypeOK
      <4>2. ring # <<>> /\ ring' = Tail(ring)
        BY <2>4 DEF ReadRing
      <4> QED
        BY <4>1, <4>2, HeadTailProperties
    <3>2. FramesOK'
      BY <2>3, <2>4 DEF ReadRing
    <3>3. HistOK'
      BY <2>4 DEF ReadRing, TypeOK, HistOK
    <3> QED
      BY <2>4, <3>1, <3>2, <3>3 DEF ReadRing, TypeOK
  <2>5. CASE Tick
    <3>1. now' \in Nat /\ now' >= Window
      BY <2>5, NumbersAssumption DEF Tick, TypeOK
    <3>2. FramesOK'
      BY <2>3, <2>5 DEF Tick
    <3>3. HistOK'
      BY <2>5 DEF Tick, TypeOK, HistOK
    <3> QED
      BY <2>5, <3>1, <3>2, <3>3 DEF Tick, TypeOK
  <2>6. CASE UNCHANGED vars
    <3>1. FramesOK' /\ HistOK'
      BY <2>3, <2>6 DEF vars, TypeOK, HistOK
    <3> QED
      BY <2>6, <3>1 DEF vars, TypeOK
  <2> QED
    BY <2>1, <2>2, <2>4, <2>5, <2>6, WriteTypes, ReclaimTypes DEF Next
<1> QED
  BY <1>1, <1>2, PTL DEF Spec

----------------------------------------------------------------------------
\* A step of the program on CPU c is of its own frame, and takes no time.
LEMMA ProgramMoves ==
    ASSUME TypeOK, NEW c \in DOMAIN frame, Program(c)
    PROVE  /\ now' = now
           /\ DOMAIN frame' \subseteq DOMAIN frame
           /\ \A d \in DOMAIN frame : d # c => d \in DOMAIN frame'
                                               /\ frame'[d] = frame[d]
           /\ c \in DOMAIN frame' =>
                 /\ frame'[c].pkt = frame[c].pkt
                 /\ frame'[c].now_ns = frame[c].now_ns
                 /\ frame'[c].now2 \in {frame[c].now2, now}
<1>1. frame[c] \in Frame
  BY FrameFields
<1>2. CASE Judge(c)
  BY <1>2, JudgeMoves DEF Judge
<1>3. CASE Unban(c) \/ CheckThrottle(c) \/ Stamp(c) \/ Reserve(c) \/ AutoBan(c)
  <2>1. /\ DOMAIN frame' = DOMAIN frame
        /\ \A d \in DOMAIN frame : d # c => frame'[d] = frame[d]
        /\ frame'[c] = [frame[c] EXCEPT !.at = frame'[c].at]
    BY <1>3, OthersMove
  <2> DEFINE place == frame'[c].at
  <2>2. frame'[c] = [frame[c] EXCEPT !.at = place]
    BY <2>1
  <2> HIDE DEF place
  <2>3. /\ frame'[c].pkt = frame[c].pkt /\ frame'[c].now_ns = frame[c].now_ns
        /\ frame'[c].now2 = frame[c].now2
    BY <1>1, <2>2 DEF Frame
  <2>4. now' = now
    BY <1>3 DEF Unban, CheckThrottle, Stamp, Reserve, AutoBan
  <2> QED
    BY <2>1, <2>3, <2>4
<1>4. CASE Verdict(c)
  BY <1>4, VerdictMoves DEF Verdict
<1> QED
  BY <1>2, <1>3, <1>4 DEF Program

\* What a write or a reclaim leaves of the history.
LEMMA Elsewhere ==
    ASSUME TypeOK, Write \/ Reclaim
    PROVE  /\ now' = now /\ frame' = frame /\ stats' = stats
           /\ hist'.done = hist.done /\ hist'.runts = hist.runts
           /\ hist'.reported = hist.reported
           /\ \/ blacklist' = blacklist /\ hist'.sentence = hist.sentence
                 /\ hist'.late = hist.late
              \/ \E s \in Src :
                    /\ blacklist' = Del(blacklist, s)
                    /\ hist'.sentence = [hist.sentence EXCEPT ![s] = 0]
                    /\ hist'.late = hist.late
              \/ \E s \in Src, e \in DaemonExpiry :
                    /\ blacklist' = Put(blacklist, s, e)
                    /\ hist'.sentence = [hist.sentence EXCEPT ![s] = 0]
                    /\ hist'.late = hist.late \cup LateFor(s)
           /\ \/ cfg' = cfg /\ hist'.openSeen = hist.openSeen
              \/ /\ hist.openSeen \subseteq hist'.openSeen
                 /\ ~cfg'.blackhole => InProgram \subseteq hist'.openSeen
           /\ known' \subseteq known
           /\ "throttle" \notin Reclaimable => throttle' = throttle
           /\ "rates" \notin Reclaimable => rates' = rates
           /\ newSrc' = newSrc
<1>1. SameHist(Count) /\ Count.openSeen = hist.openSeen
  BY SpendKeeps
<1>2. \A s \in Src : /\ Lifted(s).sentence = [hist.sentence EXCEPT ![s] = 0]
                     /\ Lifted(s).openSeen = hist.openSeen
                     /\ Lifted(s).done = hist.done
                     /\ Lifted(s).runts = hist.runts
                     /\ Lifted(s).reported = hist.reported
                     /\ Lifted(s).late = hist.late
  BY DEF Lifted, Count, Spend
<1>3. CASE Write
  <2>1. /\ now' = now /\ frame' = frame /\ stats' = stats /\ known' = known
        /\ throttle' = throttle /\ rates' = rates /\ newSrc' = newSrc
    BY <1>3 DEF Write
  <2>2. CASE hist' = Count /\ cfg' = cfg /\ blacklist' = blacklist
    BY <1>1, <2>1, <2>2 DEF SameHist
  <2>3. ASSUME NEW k \in Configs, PushConfig(k)
        PROVE  /\ blacklist' = blacklist /\ SameHist(hist') /\ cfg' = k
               /\ hist'.openSeen = IF k.blackhole THEN hist.openSeen
                                   ELSE hist.openSeen \cup InProgram
    BY <1>1, <2>3 DEF PushConfig, SameHist, Count, Spend
  <2>4. ASSUME NEW s \in Src, NEW e \in DaemonExpiry, BanIP(s, e)
        PROVE  /\ blacklist' = Put(blacklist, s, e) /\ cfg' = cfg
               /\ hist'.openSeen = hist.openSeen /\ hist'.done = hist.done
               /\ hist'.runts = hist.runts /\ hist'.reported = hist.reported
               /\ hist'.sentence = [hist.sentence EXCEPT ![s] = 0]
               /\ hist'.late = hist.late \cup LateFor(s)
    BY <2>4 DEF BanIP, Count, Spend
  <2>5. ASSUME NEW s \in Src, UnbanIP(s)
        PROVE  blacklist' = Del(blacklist, s) /\ cfg' = cfg /\ hist' = Lifted(s)
    BY <2>5 DEF UnbanIP
  <2>6. \/ hist' = Count /\ cfg' = cfg /\ blacklist' = blacklist
        \/ \E k \in Configs : PushConfig(k)
        \/ \E s \in Src, e \in DaemonExpiry : BanIP(s, e)
        \/ \E s \in Src : UnbanIP(s)
    BY <1>3 DEF Write, AddWhitelist, RemoveWhitelist, AddPrefix, RemovePrefix,
                PutPortRule
  <2>7. CASE \E k \in Configs : PushConfig(k)
    BY <2>1, <2>3, <2>7 DEF SameHist
  <2>8. CASE \E s \in Src, e \in DaemonExpiry : BanIP(s, e)
    BY <2>1, <2>4, <2>8
  <2>9. CASE \E s \in Src : UnbanIP(s)
    BY <1>2, <2>1, <2>5, <2>9
  <2> QED
    BY <2>2, <2>6, <2>7, <2>8, <2>9
<1>4. CASE Reclaim
  <2>1. /\ now' = now /\ frame' = frame /\ stats' = stats /\ cfg' = cfg
        /\ newSrc' = newSrc
    BY <1>4 DEF Reclaim
  <2>2. /\ known' \subseteq known
        /\ "throttle" \notin Reclaimable => throttle' = throttle
        /\ "rates" \notin Reclaimable => rates' = rates
        /\ \/ hist' = Count /\ blacklist' = blacklist
           \/ \E s \in Src : hist' = Lifted(s) /\ blacklist' = Del(blacklist, s)
    BY <1>4 DEF Reclaim, ReclaimBan, ReclaimKnown, ReclaimRate, ReclaimFlow,
                ReclaimThrottle
  <2>3. CASE hist' = Count /\ blacklist' = blacklist
    BY <1>1, <2>1, <2>2, <2>3 DEF SameHist
  <2>4. CASE \E s \in Src : hist' = Lifted(s) /\ blacklist' = Del(blacklist, s)
    BY <1>2, <2>1, <2>2, <2>4
  <2> QED
    BY <2>2, <2>3, <2>4
<1> QED
  BY <1>3, <1>4

----------------------------------------------------------------------------
\* The counters and the frames that are done agree in every state: each exit
\* but the runt's counts its frame once, and each drop has one reason.
THEOREM CountersAgree == Spec => []Accounting
<1>1. Init => Accounting
  BY DEF Init, Accounting, Counters, Reasons
<1>2. TypeOK /\ Accounting /\ [Next]_vars => Accounting'
  <2> SUFFICES ASSUME TypeOK, Accounting, [Next]_vars PROVE Accounting'
    OBVIOUS
  <2>0. /\ \A k \in Reasons \cup {"pass_pkts", "drop_pkts"} : stats[k] \in Nat
        /\ hist.done \in Nat /\ hist.runts \in Nat
        /\ Reasons \cup {"pass_pkts", "drop_pkts"} \subseteq Counters
    BY DEF TypeOK, HistOK, Counters
  <2>1. ASSUME NEW c \in DOMAIN frame, Verdict(c)
        PROVE  Accounting'
    <3> DEFINE x == frame[c].exit
    <3>1. /\ x \in Stage
          /\ stats' = Bump(VerdictStats(x))
          /\ hist'.done = hist.done + 1
          /\ hist'.runts = hist.runts + (IF x = "runt" THEN 1 ELSE 0)
      BY <2>1, FrameFields DEF Verdict
    <3> HIDE DEF x
    <3>3. ASSUME NEW k \in Reasons
          PROVE  stats'[k] = IF x \in DOMAIN Reason /\ k = Reason[x]
                             THEN stats[k] + 1 ELSE stats[k]
      <4>1. k \notin {"pass_pkts", "drop_pkts"} /\ k \in Counters
        BY DEF Reasons, Counters
      <4>2. k \in VerdictStats(x) <=> x \in DOMAIN Reason /\ k = Reason[x]
        BY <4>1 DEF VerdictStats
      <4> QED
        BY <3>1, <4>1, <4>2 DEF Bump
    <3>4. stats'.pass_pkts = IF x \in PassExits THEN stats.pass_pkts + 1
                                                 ELSE stats.pass_pkts
      <4>1. "pass_pkts" \in VerdictStats(x) <=> x \in PassExits
        BY DEF VerdictStats, Passes, Reasons
      <4> QED
        BY <3>1, <4>1 DEF Bump, Counters
    <3>5. stats'.drop_pkts = IF x \in DOMAIN Reason THEN stats.drop_pkts + 1
                                                    ELSE stats.drop_pkts
      <4>1. "drop_pkts" \in VerdictStats(x) <=> x \in DOMAIN Reason
        BY DEF VerdictStats, Reasons
      <4> QED
        BY <3>1, <4>1 DEF Bump, Counters
    <3>6. /\ x \in DOMAIN Reason => x # "runt" /\ x \notin PassExits
                                    /\ Reason[x] \in Reasons
          /\ x \in PassExits => x # "runt"
          /\ x \notin DOMAIN Reason /\ x \notin PassExits => x = "runt"
      BY <3>1 DEF Stage, Order, Reason, Reasons, PassExits
    <3>7. Reasons = {"bogus", "banned", "geoip", "blackhole", "rate", "scan",
                     "amp"}
      BY DEF Reasons
    <3>8. stats'.drop_pkts = stats'.bogus + stats'.banned + stats'.geoip
             + stats'.blackhole + stats'.rate + stats'.scan + stats'.amp
      <4>1. CASE x \notin DOMAIN Reason
        BY <2>0, <3>3, <3>5, <3>7, <4>1 DEF Accounting
      <4>2. ASSUME x \in DOMAIN Reason, NEW r \in Reasons, r = Reason[x]
            PROVE  stats'.bogus + stats'.banned + stats'.geoip
                     + stats'.blackhole + stats'.rate + stats'.scan
                     + stats'.amp
                   = stats.bogus + stats.banned + stats.geoip
                     + stats.blackhole + stats.rate + stats.scan
                     + stats.amp + 1
        <5>1. \A k \in Reasons : stats'[k] = IF k = r THEN stats[k] + 1
                                                      ELSE stats[k]
          BY <3>3, <4>2
        <5> QED
          BY <2>0, <3>7, <5>1
      <4>3. CASE x \in DOMAIN Reason
        BY <2>0, <3>5, <3>6, <4>2, <4>3 DEF Accounting
      <4> QED
        BY <4>1, <4>3
    <3>9. hist'.done = stats'.pass_pkts + stats'.drop_pkts + hist'.runts
      BY <2>0, <3>1, <3>4, <3>5, <3>6 DEF Accounting
    <3> QED
      BY <3>8, <3>9 DEF Accounting
  <2>2. ASSUME \A k \in Reasons \cup {"pass_pkts", "drop_pkts"} :
                  stats'[k] = stats[k],
               hist'.done = hist.done, hist'.runts = hist.runts
        PROVE  Accounting'
    BY <2>2 DEF Accounting, Reasons
  <2>3. ASSUME NEW c \in DOMAIN frame, Judge(c) PROVE Accounting'
    <3>1. frame[c].pkt.l4 \in Protocols
      BY FrameFields DEF Packet
    <3>2. \A k \in Reasons \cup {"pass_pkts", "drop_pkts"} :
             k \notin StageStats(c)
      BY <3>1 DEF StageStats, Reasons, Protocols
    <3>3. \A k \in Reasons \cup {"pass_pkts", "drop_pkts"} : stats'[k] = stats[k]
      BY <2>0, <2>3, <3>2 DEF Judge, Bump
    <3> QED
      BY <2>2, <2>3, <3>3 DEF Judge
  <2>4. ASSUME NEW c \in DOMAIN frame, Unban(c) \/ AutoBan(c) \/ Stamp(c)
        PROVE  Accounting'
    <3>1. Unban(c) => stats' = stats /\ hist'.done = hist.done
                      /\ hist'.runts = hist.runts
      BY DEF Unban
    <3>2. AutoBan(c) => stats' = stats /\ hist'.done = hist.done
                        /\ hist'.runts = hist.runts
      <4> DEFINE e == frame[c].now_ns + cfg.ban_duration
                 h == [hist EXCEPT !.sentence[SrcOf(c)] = e,
                                   !.late = @ \cup LateFor(SrcOf(c))]
      <4>1. AutoBan(c) => stats' = stats /\ (hist' = hist \/ hist' = h)
        BY DEF AutoBan
      <4>2. h.done = hist.done /\ h.runts = hist.runts
        OBVIOUS
      <4> QED
        BY <4>1, <4>2
    <3>3. Stamp(c) => stats' = stats /\ hist'.done = hist.done
                      /\ hist'.runts = hist.runts
      BY DEF Stamp
    <3> QED
      BY <2>2, <2>4, <3>1, <3>2, <3>3
  <2>5. ASSUME NEW c \in DOMAIN frame, CheckThrottle(c) \/ Reserve(c)
        PROVE  Accounting'
    BY <2>2, <2>5 DEF CheckThrottle, Reserve
  <2>6. ASSUME NEW c \in CPU, NEW p \in Packets, Arrive(c, p)
        PROVE  Accounting'
    <3>1. stats' = stats /\ hist'.done = hist.done /\ hist'.runts = hist.runts
      BY <2>6 DEF Arrive, Spend
    <3> QED
      BY <2>2, <3>1
  <2>7. CASE Write \/ Reclaim
    BY <2>2, <2>7, Elsewhere
  <2>8. CASE ReadRing \/ Tick \/ UNCHANGED vars
    BY <2>2, <2>8 DEF ReadRing, Tick, vars
  <2> QED
    BY <2>1, <2>3, <2>4, <2>5, <2>6, <2>7, <2>8 DEF Next, Program
<1> QED
  BY <1>1, <1>2, TypeCorrect, PTL DEF Spec

----------------------------------------------------------------------------
\* A frame's clocks: it came at most a tick ago, and an event is built since.
TimesOK ==
    \A c \in DOMAIN frame :
        /\ frame[c].now_ns >= Window /\ frame[c].now_ns <= frame[c].now2
        /\ frame[c].now2 <= now /\ now <= frame[c].now_ns + 1

LEMMA TimesStep == TypeOK /\ TimesOK /\ [Next]_vars => TimesOK'
<1> SUFFICES ASSUME TypeOK, TimesOK, [Next]_vars PROVE TimesOK'
  OBVIOUS
<1>1. /\ now \in Nat /\ now >= Window /\ Window \in Nat
      /\ \A c \in DOMAIN frame : frame[c].now_ns \in Nat /\ frame[c].now2 \in Nat
  BY NumbersAssumption, FrameFields DEF TypeOK
<1>2. ASSUME NEW c \in CPU, NEW p \in Packets, Arrive(c, p) PROVE TimesOK'
  <2>1. now' = now
    BY <1>2 DEF Arrive
  <2>2. frame'[c].now_ns = now /\ frame'[c].now2 = now
        /\ DOMAIN frame' = DOMAIN frame \cup {c}
    BY <1>2, ArriveMoves
  <2>3. \A d \in DOMAIN frame : d # c => frame'[d] = frame[d]
    BY <1>2, ArriveMoves
  <2>4. ASSUME NEW d \in DOMAIN frame'
        PROVE  /\ frame'[d].now_ns >= Window
               /\ frame'[d].now_ns <= frame'[d].now2
               /\ frame'[d].now2 <= now /\ now <= frame'[d].now_ns + 1
    <3>1. CASE d = c
      BY <1>1, <2>2, <3>1
    <3>2. CASE d # c
      BY <2>2, <2>3, <3>2 DEF TimesOK
    <3> QED
      BY <3>1, <3>2
  <2> QED
    BY <2>1, <2>4 DEF TimesOK
<1>3. ASSUME NEW c \in DOMAIN frame, Program(c) PROVE TimesOK'
  <2>1. /\ frame[c].now_ns \in Nat /\ frame[c].now_ns >= Window
        /\ frame[c].now_ns <= now /\ now <= frame[c].now_ns + 1
    BY <1>1 DEF TimesOK
  <2> QED
    BY <1>1, <1>3, <2>1, ProgramMoves DEF TimesOK
<1>4. CASE Tick
  BY <1>1, <1>4 DEF Tick, TimesOK
<1>5. CASE Write \/ Reclaim \/ ReadRing \/ UNCHANGED vars
  BY <1>5 DEF Write, Reclaim, ReadRing, vars, TimesOK
<1> QED
  BY <1>2, <1>3, <1>4, <1>5 DEF Next

LEMMA TimesStart == Init => TimesOK
  BY DEF Init, TimesOK, EmptyMap

----------------------------------------------------------------------------
\* The known sources are among those seen out of lockdown, as are those of the
\* frames in the program unless it is on and those that found it on and got by.
SealInv ==
    /\ known \subseteq hist.openSeen
    /\ \A c \in DOMAIN frame :
          /\ frame[c].at \in Judged \cup {"unban"} => frame[c].pkt.l3 = "ip"
          /\ frame[c].pkt.l3 = "ip" /\ ~cfg.blackhole =>
                SrcOf(c) \in hist.openSeen
          /\ frame[c].lockdown => SrcOf(c) \in hist.openSeen

\* A step of the program on CPU c and the source it works on.
LEMMA SourcesStay ==
    ASSUME TypeOK, NEW c \in DOMAIN frame, Program(c)
    PROVE  \A d \in DOMAIN frame' : d \in DOMAIN frame /\ SrcOf(d)' = SrcOf(d)
  BY ProgramMoves DEF SrcOf

\* No source gets in during a lockdown that was not seen out of one before.
THEOREM LockdownIsSealed == Spec => []LockdownSealed
<1>1. Init => SealInv
  BY DEF Init, SealInv, EmptyMap
<1>2. TypeOK /\ SealInv /\ [Next]_vars => SealInv'
  <2> SUFFICES ASSUME TypeOK, SealInv, [Next]_vars PROVE SealInv'
    OBVIOUS
  <2>1. ASSUME NEW c \in CPU, NEW p \in Packets, Arrive(c, p) PROVE SealInv'
    <3>1. /\ known' = known /\ cfg' = cfg
          /\ hist.openSeen \subseteq hist'.openSeen
          /\ p.l3 = "ip" /\ ~cfg.blackhole => p.src \in hist'.openSeen
      BY <2>1 DEF Arrive, Spend
    <3>2. ~frame'[c].lockdown
      BY <2>1, ArriveMoves
    <3>3. ASSUME NEW d \in DOMAIN frame', d # c
          PROVE  d \in DOMAIN frame /\ frame'[d] = frame[d]
      <4>1. DOMAIN frame' = DOMAIN frame \cup {c}
        BY <2>1, ArriveMoves
      <4>2. \A e \in DOMAIN frame : e # c => frame'[e] = frame[e]
        BY <2>1, ArriveMoves
      <4> QED
        BY <3>3, <4>1, <4>2
    <3>4. /\ frame'[c].pkt = p
          /\ frame'[c].at \in Judged \cup {"unban"} => p.l3 = "ip"
      BY <2>1, ArriveMoves DEF Judged, Stage, Order
    <3> QED
      BY <3>1, <3>2, <3>3, <3>4 DEF SealInv, SrcOf
  <2>2. ASSUME NEW c \in DOMAIN frame, Judge(c) PROVE SealInv'
    <3>1. /\ frame[c].at \in Judged /\ frame[c].pkt.l3 = "ip"
          /\ cfg' = cfg /\ hist' = hist /\ known' = KnownAfter(c)
          /\ cfg.blackhole \in BOOLEAN
      <4>1. cfg \in Config
        BY ConfigsAssumption DEF TypeOK
      <4> QED
        BY <2>2, <4>1 DEF Judge, SealInv, Config
    <3>2. known' \subseteq hist.openSeen
      BY <3>1 DEF KnownAfter, SealInv
    <3>3. \A d \in DOMAIN frame' : d \in DOMAIN frame /\ SrcOf(d)' = SrcOf(d)
                                   /\ frame'[d].pkt = frame[d].pkt
      BY <2>2, ProgramMoves, SourcesStay DEF Program
    <3>4. Stops(c) => frame'[c].lockdown = frame[c].lockdown
      <4>1. frame[c] \in Frame
        BY FrameFields
      <4> QED
        BY <2>2, <4>1 DEF Judge, Leave, Frame
    <3>5. ~Stops(c) /\ frame[c].at = "blackhole" /\ cfg.blackhole =>
             SrcOf(c) \in known
      BY DEF Stops, SrcOf
    <3>6. frame'[c].lockdown => SrcOf(c) \in hist.openSeen
      BY <2>2, <3>1, <3>4, <3>5, JudgeMoves DEF SealInv
    <3>7. \A d \in DOMAIN frame : d # c => frame'[d] = frame[d]
      BY <2>2, JudgeMoves
    <3> QED
      BY <3>1, <3>2, <3>3, <3>6, <3>7 DEF SealInv
  <2>3. ASSUME NEW c \in DOMAIN frame,
               \/ Unban(c) \/ CheckThrottle(c) \/ Stamp(c) \/ Reserve(c)
               \/ AutoBan(c) \/ Verdict(c)
        PROVE  SealInv'
    <3>1. cfg' = cfg /\ known' = known
      BY <2>3 DEF Unban, CheckThrottle, Stamp, Reserve, AutoBan, Verdict
    <3>2. hist'.openSeen = hist.openSeen
      <4>1. AutoBan(c) => hist'.openSeen = hist.openSeen
        <5> DEFINE e == frame[c].now_ns + cfg.ban_duration
                   h == [hist EXCEPT !.sentence[SrcOf(c)] = e,
                                     !.late = @ \cup LateFor(SrcOf(c))]
        <5>1. AutoBan(c) => hist' = hist \/ hist' = h
          BY DEF AutoBan
        <5>2. h.openSeen = hist.openSeen
          OBVIOUS
        <5> QED
          BY <5>1, <5>2
      <4>2. CheckThrottle(c) \/ Reserve(c) => hist'.openSeen = hist.openSeen
        BY DEF CheckThrottle, Reserve
      <4>3. Unban(c) => hist'.openSeen = hist.openSeen
        BY DEF Unban
      <4>4. Stamp(c) => hist'.openSeen = hist.openSeen
        BY DEF Stamp
      <4>5. Verdict(c) => hist'.openSeen = hist.openSeen
        BY DEF Verdict
      <4> QED
        BY <2>3, <4>1, <4>2, <4>3, <4>4, <4>5
    <3>3. \A d \in DOMAIN frame' : d \in DOMAIN frame /\ SrcOf(d)' = SrcOf(d)
                                   /\ frame'[d].pkt = frame[d].pkt
      BY <2>3, ProgramMoves, SourcesStay DEF Program
    <3>4. \A d \in DOMAIN frame' : d # c => frame'[d] = frame[d]
      BY <2>3, ProgramMoves DEF Program
    <3>5. c \in DOMAIN frame' =>
            /\ frame'[c].lockdown = frame[c].lockdown
            /\ frame'[c].at \in Judged \cup {"unban"} =>
                  frame[c].at \in Judged \cup {"unban"}
      <4>1. CASE Verdict(c)
        BY <4>1, VerdictMoves
      <4>2. CASE ~Verdict(c)
        <5>1. frame[c] \in Frame
          BY FrameFields
        <5> DEFINE place == frame'[c].at
        <5>2. frame'[c] = [frame[c] EXCEPT !.at = place]
          BY <2>3, <4>2, OthersMove
        <5> HIDE DEF place
        <5>3. frame'[c].lockdown = frame[c].lockdown
          BY <5>1, <5>2 DEF Frame
        <5>4. CheckThrottle(c) \/ Stamp(c) \/ Reserve(c) \/ AutoBan(c) =>
                 frame'[c].at \notin Judged \cup {"unban"}
          BY <5>1 DEF CheckThrottle, Stamp, Reserve, AutoBan, Goto, Judged,
                      Stage, Order, AfterReport, Frame
        <5>5. Unban(c) => frame[c].at = "unban"
          BY DEF Unban
        <5> QED
          BY <2>3, <4>2, <5>3, <5>4, <5>5
      <4> QED
        BY <4>1, <4>2
    <3> QED
      BY <3>1, <3>2, <3>3, <3>4, <3>5 DEF SealInv
  <2>4. CASE Write \/ Reclaim
    <3>1. /\ frame' = frame /\ known' \subseteq known
          /\ hist.openSeen \subseteq hist'.openSeen
          /\ \/ cfg' = cfg
             \/ ~cfg'.blackhole => InProgram \subseteq hist'.openSeen
      BY <2>4, Elsewhere
    <3>2. \A c \in DOMAIN frame : SrcOf(c)' = SrcOf(c)
      BY <3>1 DEF SrcOf
    <3> QED
      BY <3>1, <3>2 DEF SealInv, InProgram
  <2>5. CASE ReadRing \/ Tick \/ UNCHANGED vars
    BY <2>5 DEF ReadRing, Tick, vars, SealInv, SrcOf
  <2> QED
    BY <2>1, <2>2, <2>3, <2>4, <2>5 DEF Next, Program
<1>3. SealInv => LockdownSealed
  BY DEF SealInv, LockdownSealed
<1> QED
  BY <1>1, <1>2, <1>3, TypeCorrect, PTL DEF Spec

----------------------------------------------------------------------------
\* What is left of a ban in the map for a frame that is past its lookup, if no
\* ban was put since: none, or the expired one that the frame is to delete.
LateInv ==
    \A c \in DOMAIN frame :
        Looked(c) /\ c \notin hist.late /\ SrcOf(c) \in DOMAIN blacklist =>
            /\ frame[c].at = "unban"
            /\ blacklist[SrcOf(c)] # 0
            /\ blacklist[SrcOf(c)] <= frame[c].now_ns

\* An auto-ban that is not over is in the map as it was imposed.
SentenceInv ==
    \A s \in Src : hist.sentence[s] > now =>
        s \in DOMAIN blacklist /\ blacklist[s] = hist.sentence[s]

BanInv == LateInv /\ SentenceInv

\* The lookup is the next stage after the whitelist's.
LEMMA LookupNext ==
    \A p : Following(p, "whitelisted") = "banned"
<1> TAKE p
<1> DEFINE q == Following(p, "whitelisted")
           S == StagesAfter(p, "whitelisted")
<1>1. "whitelisted" \in Stage /\ "banned" \in S
  BY DEF StagesAfter, Applies, Judged, Stage, Order
<1>2. q \in S /\ Order[q] <= Order["banned"]
  BY <1>1, FollowingStage
<1>3. q \in Stage /\ Order[q] > 4 /\ Order[q] <= 5
  BY <1>2 DEF StagesAfter, Judged, Stage, Order
<1>4. q = "banned"
  <2> HIDE DEF q
  <2> QED
    BY <1>3 DEF Stage, Order
<1> QED
  BY <1>4

\* A judged frame is past the lookup if it was, or if it looks now, and finds
\* no ban or an expired one.
LEMMA LookupJudged ==
    ASSUME TypeOK, NEW c \in DOMAIN frame, Judge(c), Looked(c)'
    PROVE  \/ Looked(c) /\ frame[c].at # "unban"
           \/ /\ ~Stops(c) /\ frame[c].at = "banned"
              /\ HasBan(c) => Expired(c) /\ frame'[c].at = "unban"
<1>1. frame[c].at \in Judged /\ Placed(frame[c]) /\ frame[c].exit = "accept"
  BY FrameFields DEF Judge, Placed
<1>2. frame'[c].at \notin {"whitelisted", "banned"}
      /\ Order[frame'[c].exit] > 5
  BY DEF Looked, Order
<1>3. CASE frame[c].at \notin {"whitelisted", "banned"}
  BY <1>1, <1>3 DEF Looked, Order, Judged, Stage
<1>4. CASE frame[c].at = "whitelisted"
  <2>1. Stops(c) => frame'[c].exit = "whitelisted"
    BY <1>4, JudgeMoves
  <2>2. ~Stops(c) => frame'[c].at = "banned"
    BY <1>4, JudgeMoves, LookupNext DEF Onward
  <2> QED
    BY <1>2, <2>1, <2>2 DEF Order
<1>5. CASE frame[c].at = "banned"
  <2>1. Stops(c) => frame'[c].exit = "banned"
    BY <1>5, JudgeMoves
  <2>2. ~Stops(c)
    BY <1>2, <2>1 DEF Order
  <2>3. HasBan(c) => Expired(c)
    BY <1>5, <2>2 DEF Stops
  <2>4. HasBan(c) => frame'[c].at = "unban"
    BY <1>5, <2>2, JudgeMoves DEF Onward
  <2> QED
    BY <1>5, <2>2, <2>3, <2>4
<1> QED
  BY <1>3, <1>4, <1>5

\* A ban of s that is put makes the frames of s that have looked late.
LEMMA BanPut ==
    ASSUME TypeOK, BanInv, NEW s \in Src, NEW e \in Nat, NEW n \in Nat,
           now' = now, blacklist' = Put(blacklist, s, e),
           hist'.sentence = [hist.sentence EXCEPT ![s] = n], n \in {0, e},
           hist'.late = hist.late \cup LateFor(s),
           DOMAIN frame' = DOMAIN frame,
           \A d \in DOMAIN frame : /\ SrcOf(d)' = SrcOf(d)
                                   /\ Looked(d)' => Looked(d)
                                   /\ SrcOf(d) # s => frame'[d] = frame[d]
    PROVE  BanInv'
<1>1. /\ DOMAIN blacklist' = DOMAIN blacklist \cup {s} /\ blacklist'[s] = e
      /\ \A t \in DOMAIN blacklist : t # s => blacklist'[t] = blacklist[t]
      /\ now \in Nat /\ hist.sentence \in [Src -> Nat]
  BY DEF Put, TypeOK, HistOK
<1>2. SentenceInv'
  <2>1. \A t \in Src : hist'.sentence[t] = IF t = s THEN n ELSE hist.sentence[t]
    BY <1>1
  <2> QED
    BY <1>1, <2>1 DEF BanInv, SentenceInv
<1>3. ASSUME NEW c \in DOMAIN frame', Looked(c)', c \notin hist'.late,
             SrcOf(c)' \in DOMAIN blacklist'
      PROVE  /\ frame'[c].at = "unban" /\ blacklist'[SrcOf(c)'] # 0
             /\ blacklist'[SrcOf(c)'] <= frame'[c].now_ns
  <2>1. c \in DOMAIN frame /\ Looked(c) /\ c \notin hist.late
        /\ c \notin LateFor(s) /\ SrcOf(c)' = SrcOf(c)
    BY <1>3
  <2>2. SrcOf(c) # s
    BY <2>1 DEF LateFor
  <2>3. SrcOf(c) \in DOMAIN blacklist /\ frame'[c] = frame[c]
        /\ blacklist'[SrcOf(c)] = blacklist[SrcOf(c)]
    BY <1>1, <1>3, <2>1, <2>2
  <2> QED
    BY <2>1, <2>3 DEF BanInv, LateInv
<1> QED
  BY <1>2, <1>3 DEF BanInv, LateInv

\* A ban of s that goes, with its sentence if that is not over, leaves none.
LEMMA BanGone ==
    ASSUME TypeOK, BanInv, NEW s \in Src, now' = now,
           blacklist' = Del(blacklist, s), hist'.late = hist.late,
           \/ hist'.sentence = [hist.sentence EXCEPT ![s] = 0]
           \/ hist'.sentence = hist.sentence /\ hist.sentence[s] <= now,
           DOMAIN frame' = DOMAIN frame,
           \A d \in DOMAIN frame : /\ SrcOf(d)' = SrcOf(d)
                                   /\ SrcOf(d) # s => frame'[d] = frame[d]
    PROVE  BanInv'
<1>1. /\ DOMAIN blacklist' = DOMAIN blacklist \ {s}
      /\ \A t \in DOMAIN blacklist : t # s => blacklist'[t] = blacklist[t]
      /\ now \in Nat /\ hist.sentence \in [Src -> Nat]
  BY DEF Del, TypeOK, HistOK
<1>2. SentenceInv'
  <2>1. \A t \in Src : /\ t # s => hist'.sentence[t] = hist.sentence[t]
                       /\ t = s => ~(hist'.sentence[t] > now)
    BY <1>1
  <2> QED
    BY <1>1, <2>1 DEF BanInv, SentenceInv
<1>3. ASSUME NEW c \in DOMAIN frame', Looked(c)', c \notin hist'.late,
             SrcOf(c)' \in DOMAIN blacklist'
      PROVE  /\ frame'[c].at = "unban" /\ blacklist'[SrcOf(c)'] # 0
             /\ blacklist'[SrcOf(c)'] <= frame'[c].now_ns
  <2>1. c \in DOMAIN frame /\ SrcOf(c)' = SrcOf(c) /\ SrcOf(c) # s
        /\ frame'[c] = frame[c] /\ SrcOf(c) \in DOMAIN blacklist
    BY <1>1, <1>3
  <2>2. Looked(c)
    BY <1>3, <2>1 DEF Looked
  <2> QED
    BY <1>1, <1>3, <2>1, <2>2 DEF BanInv, LateInv
<1> QED
  BY <1>2, <1>3 DEF BanInv, LateInv

\* What leaves the bans alone and makes no frame look, or one that finds no
\* ban but an expired one.
LEMMA BanStays ==
    ASSUME TypeOK, BanInv, now' \in Nat, now <= now', blacklist' = blacklist,
           hist'.sentence = hist.sentence,
           \A d \in DOMAIN frame' : Looked(d)' /\ d \notin hist'.late =>
              \/ /\ d \in DOMAIN frame /\ Looked(d) /\ d \notin hist.late
                 /\ SrcOf(d)' = SrcOf(d)
                 /\ frame[d].at = "unban" => frame'[d] = frame[d]
              \/ SrcOf(d)' \in DOMAIN blacklist =>
                    /\ frame'[d].at = "unban" /\ blacklist[SrcOf(d)'] # 0
                    /\ blacklist[SrcOf(d)'] <= frame'[d].now_ns
    PROVE  BanInv'
<1>1. now \in Nat /\ hist.sentence \in [Src -> Nat]
  BY DEF TypeOK, HistOK
<1>2. SentenceInv'
  BY <1>1 DEF BanInv, SentenceInv
<1>3. LateInv'
  BY DEF BanInv, LateInv
<1> QED
  BY <1>2, <1>3 DEF BanInv

\* The steps of the program keep the bans in order, and touch a ban that is
\* running only with a late frame of its source.
LEMMA BanProgram ==
    ASSUME TypeOK, TimesOK, BanInv, NEW c \in DOMAIN frame, Program(c)
    PROVE  /\ BanInv'
           /\ \A s \in DOMAIN blacklist :
                 Running(s) =>
                    \/ s \in DOMAIN blacklist' /\ blacklist'[s] = blacklist[s]
                    \/ c \in hist.late /\ SrcOf(c) = s
                       /\ frame[c].at # frame'[c].at
<1>1. /\ now' = now /\ now \in Nat /\ SrcOf(c) \in Src
      /\ frame[c].now_ns \in Nat /\ frame[c].now_ns <= now
      /\ hist.sentence \in [Src -> Nat] /\ IsMap(blacklist, Src, Nat)
      /\ Placed(frame[c])
  <2>1. now \in Nat /\ hist.sentence \in [Src -> Nat] /\ IsMap(blacklist, Src, Nat)
    BY DEF TypeOK, HistOK
  <2>2. SrcOf(c) \in Src /\ frame[c].now_ns \in Nat /\ frame[c].now2 \in Nat
        /\ Placed(frame[c])
    BY FrameFields
  <2>3. frame[c].now_ns <= frame[c].now2 /\ frame[c].now2 <= now
    BY DEF TimesOK
  <2>4. now' = now
    BY ProgramMoves
  <2> QED
    BY <2>1, <2>2, <2>3, <2>4
<1>2. /\ \A d \in DOMAIN frame' : d \in DOMAIN frame /\ SrcOf(d)' = SrcOf(d)
      /\ \A d \in DOMAIN frame : d # c => d \in DOMAIN frame'
                                          /\ frame'[d] = frame[d]
  BY SourcesStay, ProgramMoves
<1>3. \A d \in DOMAIN frame : d # c /\ Looked(d)' => Looked(d)
  BY <1>2 DEF Looked
<1>4. CASE Unban(c)
  <2>1. frame[c].at = "unban" /\ Looked(c) /\ blacklist' = Del(blacklist, SrcOf(c))
    BY <1>1, <1>4 DEF Unban, Looked, Placed, Order
  <2>2. /\ DOMAIN frame' = DOMAIN frame /\ frame'[c].at # frame[c].at
    BY <1>4, OthersMove
  <2>3. CASE c \in hist.late
    <3>1. /\ hist'.sentence = [hist.sentence EXCEPT ![SrcOf(c)] = 0]
          /\ hist'.late = hist.late
      BY <1>4, <2>3 DEF Unban
    <3>2. BanInv'
      BY <1>1, <1>2, <2>1, <2>2, <3>1, BanGone
    <3> QED
      BY <2>1, <2>2, <2>3, <3>2 DEF Del
  <2>4. CASE c \notin hist.late
    <3>1. SrcOf(c) \in DOMAIN blacklist => /\ blacklist[SrcOf(c)] # 0
                                           /\ blacklist[SrcOf(c)] <= now
      <4>1. SrcOf(c) \in DOMAIN blacklist => /\ blacklist[SrcOf(c)] # 0
                                             /\ blacklist[SrcOf(c)] <= frame[c].now_ns
        BY <2>1, <2>4 DEF BanInv, LateInv
      <4>2. SrcOf(c) \in DOMAIN blacklist => blacklist[SrcOf(c)] \in Nat
        BY <1>1 DEF IsMap
      <4> QED
        BY <1>1, <4>1, <4>2
    <3>2. hist.sentence[SrcOf(c)] <= now
      BY <1>1, <3>1 DEF BanInv, SentenceInv
    <3>3. hist' = hist
      BY <1>4, <2>4 DEF Unban
    <3>4. BanInv'
      BY <1>1, <1>2, <2>1, <2>2, <3>2, <3>3, BanGone
    <3>5. SrcOf(c) \in DOMAIN blacklist => ~Running(SrcOf(c))
      BY <1>1, <3>1 DEF Running, IsMap
    <3> QED
      BY <2>1, <3>4, <3>5 DEF Del
  <2> QED
    BY <2>3, <2>4
<1>5. CASE AutoBan(c)
  <2> DEFINE e == frame[c].now_ns + cfg.ban_duration
  <2>1. /\ frame[c].at = "auto_ban" /\ Looked(c)
        /\ DOMAIN frame' = DOMAIN frame /\ frame'[c].at # frame[c].at
    <3>1. frame[c].at = "auto_ban" /\ frame[c].exit \in BanExits
      BY <1>1, <1>5 DEF AutoBan, Placed
    <3>2. Looked(c)
      BY <3>1 DEF Looked, BanExits, Order
    <3> QED
      BY <1>5, <3>1, <3>2, OthersMove
  <2>2. c \notin hist.late => SrcOf(c) \notin DOMAIN blacklist
    BY <2>1 DEF BanInv, LateInv
  <2>3. e \in Nat
    <3>1. cfg \in Config
      BY ConfigsAssumption DEF TypeOK
    <3>2. cfg.ban_duration \in Nat
      BY <3>1 DEF Config
    <3> QED
      BY <1>1, <3>2
  <2> HIDE DEF e
  <2>4. \/ blacklist' = blacklist /\ hist' = hist
        \/ /\ blacklist' = Put(blacklist, SrcOf(c), e)
           /\ hist' = [hist EXCEPT !.sentence[SrcOf(c)] = e,
                                   !.late = @ \cup LateFor(SrcOf(c))]
    BY <1>5 DEF AutoBan, e
  <2>5. CASE blacklist' = blacklist /\ hist' = hist
    <3>1. \A d \in DOMAIN frame' : Looked(d)' /\ d \notin hist'.late =>
             /\ d \in DOMAIN frame /\ Looked(d) /\ d \notin hist.late
             /\ SrcOf(d)' = SrcOf(d)
             /\ frame[d].at = "unban" => frame'[d] = frame[d]
      BY <1>2, <1>3, <2>1, <2>5
    <3>2. BanInv'
      BY <1>1, <2>5, <3>1, BanStays
    <3> QED
      BY <2>5, <3>2
  <2>6. CASE /\ blacklist' = Put(blacklist, SrcOf(c), e)
             /\ hist' = [hist EXCEPT !.sentence[SrcOf(c)] = e,
                                     !.late = @ \cup LateFor(SrcOf(c))]
    <3>1. /\ hist'.sentence = [hist.sentence EXCEPT ![SrcOf(c)] = e]
          /\ hist'.late = hist.late \cup LateFor(SrcOf(c))
      BY <2>6
    <3>2. \A d \in DOMAIN frame : /\ SrcOf(d)' = SrcOf(d)
                                  /\ Looked(d)' => Looked(d)
                                  /\ SrcOf(d) # SrcOf(c) => frame'[d] = frame[d]
      BY <1>2, <1>3, <2>1
    <3> DEFINE s == SrcOf(c)
    <3>3. s \in Src /\ e \in {0, e}
      BY <1>1
    <3>4. /\ hist'.sentence = [hist.sentence EXCEPT ![s] = e]
          /\ hist'.late = hist.late \cup LateFor(s)
          /\ blacklist' = Put(blacklist, s, e)
          /\ \A d \in DOMAIN frame : /\ SrcOf(d)' = SrcOf(d)
                                     /\ Looked(d)' => Looked(d)
                                     /\ SrcOf(d) # s => frame'[d] = frame[d]
      BY <2>6, <3>1, <3>2
    <3> HIDE DEF s
    <3>5. BanInv'
      BY <1>1, <2>1, <2>3, <3>3, <3>4, BanPut
    <3> QED
      BY <2>1, <2>2, <2>6, <3>5 DEF Put
  <2> QED
    BY <2>4, <2>5, <2>6
<1>6. CASE Judge(c)
  <2>1. blacklist' = blacklist /\ hist' = hist
    BY <1>6 DEF Judge
  <2>2. ASSUME Looked(c)'
        PROVE  \/ Looked(c) /\ frame[c].at # "unban"
               \/ SrcOf(c)' \in DOMAIN blacklist =>
                    /\ frame'[c].at = "unban" /\ blacklist[SrcOf(c)'] # 0
                    /\ blacklist[SrcOf(c)'] <= frame'[c].now_ns
    <3>1. frame'[c].now_ns = frame[c].now_ns /\ SrcOf(c)' = SrcOf(c)
      BY <1>6, JudgeMoves DEF SrcOf
    <3>2. SrcOf(c) \in DOMAIN blacklist => blacklist[SrcOf(c)] \in Nat
      BY <1>1 DEF IsMap
    <3> QED
      BY <1>1, <1>6, <2>2, <3>1, <3>2, LookupJudged DEF HasBan, Expired
  <2>3. BanInv'
    BY <1>1, <1>2, <1>3, <2>1, <2>2, BanStays
  <2> QED
    BY <2>1, <2>3
<1>7. CASE CheckThrottle(c) \/ Stamp(c) \/ Reserve(c) \/ Verdict(c)
  <2>1. CheckThrottle(c) \/ Reserve(c) => blacklist' = blacklist /\ hist' = hist
    BY DEF CheckThrottle, Reserve
  <2>2. Stamp(c) => /\ blacklist' = blacklist /\ hist'.late = hist.late
                    /\ hist'.sentence = hist.sentence
    BY DEF Stamp
  <2>3. Verdict(c) => /\ blacklist' = blacklist /\ hist'.late = hist.late \ {c}
                      /\ hist'.sentence = hist.sentence /\ c \notin DOMAIN frame'
    <3>1. Verdict(c) => c \notin DOMAIN frame'
      BY VerdictMoves
    <3>2. Verdict(c) => /\ blacklist' = blacklist
                        /\ hist'.late = hist.late \ {c}
                        /\ hist'.sentence = hist.sentence
      BY DEF Verdict
    <3> QED
      BY <3>1, <3>2
  <2>4. c \in DOMAIN frame' /\ Looked(c)' => Looked(c) /\ frame[c].at # "unban"
    <3>1. ~Verdict(c) => frame'[c].exit = frame[c].exit
      <4> DEFINE place == frame'[c].at
      <4>1. ~Verdict(c) => frame'[c] = [frame[c] EXCEPT !.at = place]
        BY <1>7, OthersMove
      <4>2. frame[c] \in Frame
        BY FrameFields
      <4> HIDE DEF place
      <4> QED
        BY <4>1, <4>2 DEF Frame
    <3> QED
      BY <1>7, <2>3, <3>1 DEF CheckThrottle, Stamp, Reserve, Looked
  <2>5. \A d \in DOMAIN frame' : Looked(d)' /\ d \notin hist'.late =>
             /\ d \in DOMAIN frame /\ Looked(d) /\ d \notin hist.late
             /\ SrcOf(d)' = SrcOf(d)
             /\ frame[d].at = "unban" => frame'[d] = frame[d]
    BY <1>2, <1>3, <1>7, <2>1, <2>2, <2>3, <2>4
  <2>6. BanInv'
    BY <1>1, <1>7, <2>1, <2>2, <2>3, <2>5, BanStays
  <2> QED
    BY <1>7, <2>1, <2>2, <2>3, <2>6
<1> QED
  BY <1>4, <1>5, <1>6, <1>7 DEF Program

\* And so do all the other steps.
LEMMA BanStep == TypeOK /\ TimesOK /\ BanInv /\ [Next]_vars => BanInv'
<1> SUFFICES ASSUME TypeOK, TimesOK, BanInv, [Next]_vars PROVE BanInv'
  OBVIOUS
<1>0. now \in Nat /\ DaemonExpiry \subseteq Nat
  BY NumbersAssumption DEF TypeOK
<1>1. ASSUME NEW c \in DOMAIN frame, Program(c) PROVE BanInv'
  BY <1>1, BanProgram
<1>2. ASSUME NEW c \in CPU, NEW p \in Packets, Arrive(c, p) PROVE BanInv'
  <2>1. /\ now' = now /\ blacklist' = blacklist
        /\ hist'.sentence = hist.sentence /\ hist'.late = hist.late
    BY <1>2 DEF Arrive, Spend
  <2>2. DOMAIN frame' = DOMAIN frame \cup {c}
        /\ \A d \in DOMAIN frame : d # c => frame'[d] = frame[d]
    BY <1>2, ArriveMoves
  <2>3. ~Looked(c)'
    <3>1. \/ frame'[c].at = "whitelisted"
          \/ frame'[c].exit \in {"runt", "malformed_l3", "non_ip"}
      BY <1>2, ArriveMoves
    <3>2. frame'[c].exit \in {"runt", "malformed_l3", "non_ip"} =>
             ~(Order[frame'[c].exit] > Order["banned"])
      BY DEF Order
    <3> QED
      BY <3>1, <3>2 DEF Looked
  <2>4. \A d \in DOMAIN frame' : Looked(d)' =>
             d \in DOMAIN frame /\ Looked(d) /\ SrcOf(d)' = SrcOf(d)
             /\ frame'[d] = frame[d]
    BY <2>2, <2>3 DEF Looked, SrcOf
  <2> QED
    BY <1>0, <2>1, <2>4, BanStays
<1>3. CASE Write \/ Reclaim
  <2>1. /\ now' = now /\ frame' = frame
        /\ \A d \in DOMAIN frame : /\ SrcOf(d)' = SrcOf(d)
                                   /\ Looked(d)' => Looked(d)
    BY <1>3, Elsewhere DEF SrcOf, Looked
  <2>2. CASE /\ blacklist' = blacklist /\ hist'.sentence = hist.sentence
             /\ hist'.late = hist.late
    BY <1>0, <2>1, <2>2, BanStays
  <2>3. CASE \E s \in Src :
                /\ blacklist' = Del(blacklist, s)
                /\ hist'.sentence = [hist.sentence EXCEPT ![s] = 0]
                /\ hist'.late = hist.late
    BY <2>1, <2>3, BanGone
  <2>4. CASE \E s \in Src, e \in DaemonExpiry :
                /\ blacklist' = Put(blacklist, s, e)
                /\ hist'.sentence = [hist.sentence EXCEPT ![s] = 0]
                /\ hist'.late = hist.late \cup LateFor(s)
    BY <1>0, <2>1, <2>4, BanPut
  <2> QED
    BY <1>3, <2>2, <2>3, <2>4, Elsewhere
<1>4. CASE ReadRing \/ Tick \/ UNCHANGED vars
  <2>1. /\ now' \in Nat /\ now <= now' /\ blacklist' = blacklist
        /\ hist' = hist /\ frame' = frame
    BY <1>0, <1>4 DEF ReadRing, Tick, vars
  <2>2. \A d \in DOMAIN frame : /\ SrcOf(d)' = SrcOf(d)
                                /\ Looked(d)' => Looked(d)
    BY <2>1 DEF SrcOf, Looked
  <2> QED
    BY <2>1, <2>2, BanStays
<1> QED
  BY <1>1, <1>2, <1>3, <1>4 DEF Next

LEMMA BanStart == Init => BanInv
<1> SUFFICES ASSUME Init PROVE BanInv
  OBVIOUS
<1>1. \A s \in Src : hist.sentence[s] = 0
  BY DEF Init
<1>2. now \in Nat /\ DOMAIN frame = {}
  BY NumbersAssumption DEF Init, EmptyMap
<1> QED
  BY <1>1, <1>2 DEF BanInv, LateInv, SentenceInv

\* A running ban is not touched by any step of the program on any CPU, but
\* with a frame that had looked for a ban before this one was put.
THEOREM RunningBansKept == Spec => BansKept
<1>1. TypeOK /\ TimesOK /\ BanInv /\ [Next]_vars =>
         [\A s \in DOMAIN blacklist :
            frame' # frame /\ Running(s) =>
               \/ s \in DOMAIN blacklist' /\ blacklist'[s] = blacklist[s]
               \/ \E c \in hist.late : SrcOf(c) = s
                                       /\ frame[c].at # frame'[c].at]_vars
  <2> SUFFICES ASSUME TypeOK, TimesOK, BanInv, [Next]_vars, frame' # frame,
                      NEW s \in DOMAIN blacklist, Running(s)
               PROVE  \/ s \in DOMAIN blacklist' /\ blacklist'[s] = blacklist[s]
                      \/ \E c \in hist.late : SrcOf(c) = s
                                              /\ frame[c].at # frame'[c].at
    OBVIOUS
  <2>1. CASE \E c \in DOMAIN frame : Program(c)
    BY <2>1, BanProgram
  <2>2. CASE \E c \in CPU, p \in Packets : Arrive(c, p)
    BY <2>2 DEF Arrive
  <2> QED
    BY <2>1, <2>2 DEF Next, Write, ReadRing, Reclaim, Tick, vars
<1> QED
  BY <1>1, BanStart, BanStep, TimesStart, TimesStep, TypeCorrect, PTL
     DEF Spec, BansKept

\* A frame that looks for the ban of an auto-banned source before its
\* ban_duration is over is dropped, on any CPU, unless the ban was lifted or
\* replaced, reclaimed, or deleted by a frame that looked before it was put.
THEOREM SentencesServed == Spec => SentenceServed
<1>1. TypeOK /\ TimesOK /\ BanInv /\ [Next]_vars =>
         [\A c \in DOMAIN frame :
            frame[c].at = "banned" /\ frame'[c].at # frame[c].at
               /\ frame'[c].exit # "banned"
            => now >= hist.sentence[SrcOf(c)]]_vars
  <2> SUFFICES ASSUME TypeOK, TimesOK, BanInv, [Next]_vars,
                      NEW c \in DOMAIN frame, frame[c].at = "banned",
                      frame'[c].at # frame[c].at, frame'[c].exit # "banned"
               PROVE  now >= hist.sentence[SrcOf(c)]
    OBVIOUS
  <2>0. SrcOf(c) \in Src /\ frame[c].now_ns \in Nat
    BY FrameFields
  <2>1. /\ now \in Nat /\ SrcOf(c) \in Src /\ frame[c].now_ns \in Nat
        /\ frame[c].now_ns <= now /\ hist.sentence[SrcOf(c)] \in Nat
    <3>1. now \in Nat /\ hist.sentence \in [Src -> Nat]
      BY DEF TypeOK, HistOK
    <3>2. frame[c].now2 \in Nat /\ frame[c].now_ns <= frame[c].now2
          /\ frame[c].now2 <= now
      BY FrameFields DEF TimesOK
    <3> QED
      BY <2>0, <3>1, <3>2
  <2>2. Judge(c)
    <3>1. ASSUME NEW d \in DOMAIN frame, Program(d) PROVE d = c /\ Judge(c)
      <4>1. d = c
        BY <3>1, ProgramMoves
      <4>2. ~Verdict(c) /\ ~Unban(c) /\ ~CheckThrottle(c) /\ ~Stamp(c)
            /\ ~Reserve(c) /\ ~AutoBan(c)
        BY DEF Verdict, Unban, CheckThrottle, Stamp, Reserve, AutoBan
      <4> QED
        BY <3>1, <4>1, <4>2 DEF Program
    <3>2. ASSUME NEW d \in CPU, NEW p \in Packets, Arrive(d, p) PROVE FALSE
      BY <3>2, ArriveMoves
    <3> QED
      BY <3>1, <3>2 DEF Next, Write, ReadRing, Reclaim, Tick, vars
  <2>3. ~Stops(c)
    BY <2>2, JudgeMoves
  <2>4. HasBan(c) => Expired(c)
    BY <2>3 DEF Stops
  <2>5. HasBan(c) => blacklist[SrcOf(c)] \in Nat
    BY DEF HasBan, TypeOK, IsMap
  <2> QED
    BY <2>1, <2>4, <2>5 DEF BanInv, SentenceInv, HasBan, Expired
<1> QED
  BY <1>1, BanStart, BanStep, TimesStart, TimesStep, TypeCorrect, PTL
     DEF Spec, SentenceServed

----------------------------------------------------------------------------
\* A frame that is not past emit_event().
Early(c) == frame[c].at \notin {"reserve", "auto_ban", "verdict"}

\* What is left of the report k = <<CPU, source, type>> that frame [now2, at]
\* made: the throttle's entry is as late, to a tick, and entries and stamps to
\* come are later than the report only after a window, to a tick; this CPU's
\* frame, if it is to report again, came after it and has waited so long.
ReportOK(k) ==
    LET r == hist.reported[k]
        key == <<Low32[k[2]], k[3]>>
        over == now >= r.now2 + Window - 1
    IN  /\ r.now2 <= r.at /\ r.at <= r.now2 + 1 /\ r.at <= now
        /\ key \in DOMAIN throttle /\ throttle[key] >= r.now2 - 1
        /\ throttle[key] <= r.at \/ over
        /\ \A d \in DOMAIN frame :
              frame[d].at = "stamp" /\ ThrottleKey(d) = key =>
                 frame[d].now2 <= r.at \/ over
        /\ k[1] \in DOMAIN frame =>
              /\ Early(k[1]) => frame[k[1]].now_ns >= r.at
              /\ frame[k[1]].at = "stamp" /\ Reporter(k[1]) = k =>
                    frame[k[1]].now2 >= r.now2 + Window - 2

ReportInv == \A k \in DOMAIN hist.reported : ReportOK(k)

\* The numbers a report and an entry of the throttle are.
LEMMA ReportNumbers ==
    ASSUME TypeOK
    PROVE  /\ now \in Nat /\ Window \in Nat \ {0}
           /\ \A k \in DOMAIN hist.reported : /\ hist.reported[k].now2 \in Nat
                                              /\ hist.reported[k].at \in Nat
           /\ \A key \in DOMAIN throttle : throttle[key] \in Nat
           /\ \A d \in DOMAIN frame : /\ frame[d].now_ns \in Nat
                                      /\ frame[d].now2 \in Nat
<1>1. now \in Nat /\ Window \in Nat \ {0}
  BY NumbersAssumption DEF TypeOK
<1>2. \A k \in DOMAIN hist.reported : hist.reported[k] \in Report
  BY DEF TypeOK, HistOK, IsMap
<1>3. \A key \in DOMAIN throttle : throttle[key] \in Nat
  BY DEF TypeOK, IsMap
<1> QED
  BY <1>1, <1>2, <1>3, FrameFields DEF Report

\* What leaves reports and throttle alone keeps them, as time goes on, if it
\* brings no frame to its stamp and none back to emit_event().
LEMMA ReportStays ==
    ASSUME TypeOK, ReportInv, hist'.reported = hist.reported,
           throttle' = throttle, now' = now \/ now' = now + 1,
           \A d \in DOMAIN frame' :
              \/ d \in DOMAIN frame /\ frame'[d] = frame[d]
              \/ /\ frame'[d].at # "stamp"
                 /\ \/ ~Early(d)'
                    \/ frame'[d].now_ns = now
                    \/ /\ d \in DOMAIN frame /\ Early(d)
                       /\ frame'[d].now_ns = frame[d].now_ns
    PROVE  ReportInv'
<1> SUFFICES ASSUME NEW k \in DOMAIN hist.reported PROVE ReportOK(k)'
  BY DEF ReportInv
<1> DEFINE r == hist.reported[k]
           key == <<Low32[k[2]], k[3]>>
<1>1. /\ r.now2 \in Nat /\ r.at \in Nat /\ now \in Nat /\ Window \in Nat
      /\ key \in DOMAIN throttle /\ throttle[key] \in Nat
  BY ReportNumbers DEF ReportInv, ReportOK
<1>2. ReportOK(k) /\ hist'.reported[k] = r
  BY DEF ReportInv
<1>3. /\ r.now2 <= r.at /\ r.at <= r.now2 + 1 /\ r.at <= now'
      /\ key \in DOMAIN throttle' /\ throttle'[key] >= r.now2 - 1
      /\ throttle'[key] <= r.at \/ now' >= r.now2 + Window - 1
  BY <1>1, <1>2 DEF ReportOK
<1>4. ASSUME NEW d \in DOMAIN frame', frame'[d].at = "stamp",
             ThrottleKey(d)' = key
      PROVE  frame'[d].now2 <= r.at \/ now' >= r.now2 + Window - 1
  <2>1. d \in DOMAIN frame /\ frame'[d] = frame[d]
    BY <1>4
  <2>2. frame[d].at = "stamp" /\ ThrottleKey(d) = key
    BY <1>4, <2>1 DEF ThrottleKey, ReportedSrc, ReportedType, SrcOf
  <2> QED
    BY <1>1, <1>2, <2>1, <2>2 DEF ReportOK
<1>5. ASSUME k[1] \in DOMAIN frame'
      PROVE  /\ Early(k[1])' => frame'[k[1]].now_ns >= r.at
             /\ frame'[k[1]].at = "stamp" /\ Reporter(k[1])' = k =>
                   frame'[k[1]].now2 >= r.now2 + Window - 2
  <2> DEFINE c == k[1]
  <2>1. CASE c \in DOMAIN frame /\ frame'[c] = frame[c]
    <3>1. Reporter(c)' = Reporter(c) /\ Early(c)' = Early(c)
      BY <2>1 DEF Reporter, ReportedSrc, ReportedType, SrcOf, Early
    <3> QED
      BY <1>2, <2>1, <3>1 DEF ReportOK
  <2>2. CASE /\ frame'[c].at # "stamp"
             /\ \/ ~Early(c)'
                \/ frame'[c].now_ns = now
                \/ /\ c \in DOMAIN frame /\ Early(c)
                   /\ frame'[c].now_ns = frame[c].now_ns
    BY <1>1, <1>2, <2>2 DEF ReportOK
  <2> QED
    BY <1>5, <2>1, <2>2
<1> QED
  BY <1>2, <1>3, <1>4, <1>5 DEF ReportOK

\* A frame that the throttle lets report waits for its stamp.
LEMMA ReportCheck ==
    ASSUME TypeOK, TimesOK, ReportInv, NEW c \in DOMAIN frame, CheckThrottle(c)
    PROVE  ReportInv'
<1>1. /\ now' = now /\ throttle' = throttle /\ hist' = hist
      /\ DOMAIN frame' = DOMAIN frame
      /\ \A d \in DOMAIN frame : d # c => frame'[d] = frame[d]
      /\ frame[c].at = "throttle"
  BY OthersMove DEF CheckThrottle
<1>2. CASE Throttled(c)
  <2>1. frame'[c].at \in {"auto_ban", "verdict"}
    <3>1. frame[c] \in Frame
      BY FrameFields
    <3> QED
      BY <1>2, <3>1 DEF CheckThrottle, Goto, AfterReport, Frame
  <2>2. ~Early(c)' /\ frame'[c].at # "stamp"
    BY <2>1 DEF Early
  <2> QED
    BY <1>1, <2>2, ReportStays
<1>3. CASE ~Throttled(c)
  <2>1. frame'[c] = [frame[c] EXCEPT !.at = "stamp"] /\ frame[c] \in Frame
    BY <1>3, FrameFields DEF CheckThrottle, Goto
  <2>2. /\ frame'[c].at = "stamp" /\ frame'[c].pkt = frame[c].pkt
        /\ frame'[c].exit = frame[c].exit /\ frame'[c].now2 = frame[c].now2
        /\ frame'[c].now_ns = frame[c].now_ns
    BY <2>1 DEF Frame
  <2>3. ThrottleKey(c)' = ThrottleKey(c) /\ Reporter(c)' = Reporter(c)
    BY <2>2 DEF ThrottleKey, Reporter, ReportedSrc, ReportedType, SrcOf
  <2>4. \A d \in DOMAIN frame : d # c =>
           ThrottleKey(d)' = ThrottleKey(d) /\ Reporter(d)' = Reporter(d)
           /\ Early(d)' = Early(d)
    BY <1>1 DEF ThrottleKey, Reporter, ReportedSrc, ReportedType, SrcOf, Early
  <2> SUFFICES ASSUME NEW k \in DOMAIN hist.reported PROVE ReportOK(k)'
    BY <1>1 DEF ReportInv
  <2> DEFINE r == hist.reported[k]
             key == <<Low32[k[2]], k[3]>>
  <2>5. /\ r.now2 \in Nat /\ r.at \in Nat /\ now \in Nat /\ Window \in Nat \ {0}
        /\ key \in DOMAIN throttle /\ throttle[key] \in Nat
        /\ frame[c].now_ns \in Nat /\ frame[c].now2 \in Nat
        /\ frame[c].now_ns <= frame[c].now2 /\ frame[c].now2 <= now
        /\ now <= frame[c].now_ns + 1
    BY ReportNumbers DEF ReportInv, ReportOK, TimesOK
  <2>6. ReportOK(k)
    BY DEF ReportInv
  <2>7. /\ r.now2 <= r.at /\ r.at <= r.now2 + 1 /\ r.at <= now
        /\ throttle[key] >= r.now2 - 1
        /\ throttle[key] <= r.at \/ now >= r.now2 + Window - 1
        /\ c = k[1] => frame[c].now_ns >= r.at
    BY <1>1, <2>6 DEF ReportOK, Early
  <2>8. ThrottleKey(c) = key =>
           throttle[key] > frame[c].now2
           \/ frame[c].now2 - throttle[key] >= Window
    BY <1>3, <2>5 DEF Throttled
  <2>9. ThrottleKey(c) = key =>
           frame[c].now2 <= r.at \/ now >= r.now2 + Window - 1
    BY <2>5, <2>7, <2>8
  <2>10. Reporter(k[1]) = k /\ c = k[1] => ThrottleKey(c) = key
    BY DEF Reporter, ThrottleKey
  <2>11. Reporter(k[1]) = k /\ c = k[1] =>
            frame[c].now2 >= r.now2 + Window - 2
    BY <2>5, <2>7, <2>8, <2>10
  <2>12. ASSUME NEW d \in DOMAIN frame, frame'[d].at = "stamp",
                ThrottleKey(d)' = key
         PROVE  frame'[d].now2 <= r.at \/ now >= r.now2 + Window - 1
    BY <1>1, <2>2, <2>3, <2>4, <2>6, <2>9, <2>12 DEF ReportOK
  <2>13. ASSUME k[1] \in DOMAIN frame
         PROVE  /\ Early(k[1])' => frame'[k[1]].now_ns >= r.at
                /\ frame'[k[1]].at = "stamp" /\ Reporter(k[1])' = k =>
                      frame'[k[1]].now2 >= r.now2 + Window - 2
    <3>1. CASE k[1] = c
      BY <2>2, <2>3, <2>7, <2>11, <3>1
    <3>2. CASE k[1] # c
      BY <1>1, <2>4, <2>6, <2>13, <3>2 DEF ReportOK
    <3> QED
      BY <3>1, <3>2
  <2> QED
    BY <1>1, <2>5, <2>7, <2>12, <2>13 DEF ReportOK
<1> QED
  BY <1>2, <1>3

\* The stamp itself: it is this CPU's last report now.
LEMMA ReportStamp ==
    ASSUME TypeOK, TimesOK, ReportInv, NEW c \in DOMAIN frame, Stamp(c)
    PROVE  ReportInv'
<1> DEFINE it == Reporter(c)
           mine == ThrottleKey(c)
           rep == [now2 |-> frame[c].now2, at |-> now]
<1>1. /\ now' = now /\ throttle' = Put(throttle, mine, frame[c].now2)
      /\ hist'.reported = Put(hist.reported, it, rep)
      /\ DOMAIN frame' = DOMAIN frame
      /\ \A d \in DOMAIN frame : d # c => frame'[d] = frame[d]
      /\ frame[c].at = "stamp"
  <2>1. /\ now' = now /\ throttle' = Put(throttle, mine, frame[c].now2)
        /\ hist'.reported = Put(hist.reported, it, rep)
        /\ frame[c].at = "stamp"
    BY DEF Stamp
  <2>2. /\ DOMAIN frame' = DOMAIN frame
        /\ \A d \in DOMAIN frame : d # c => frame'[d] = frame[d]
    BY OthersMove
  <2> QED
    BY <2>1, <2>2
<1>2. frame'[c].at = "reserve" /\ ~Early(c)'
  BY FrameFields DEF Stamp, Goto, Frame, Early
<1>3. /\ frame[c].now_ns \in Nat /\ frame[c].now2 \in Nat /\ now \in Nat
      /\ frame[c].now_ns <= frame[c].now2 /\ frame[c].now2 <= now
      /\ now <= frame[c].now_ns + 1 /\ Window \in Nat \ {0}
  BY ReportNumbers DEF TimesOK
<1>4. /\ it[1] = c /\ mine = <<Low32[it[2]], it[3]>>
  BY DEF Reporter, ThrottleKey
<1>5. \A d \in DOMAIN frame : d # c =>
         ThrottleKey(d)' = ThrottleKey(d) /\ Reporter(d)' = Reporter(d)
         /\ Early(d)' = Early(d)
  BY <1>1 DEF ThrottleKey, Reporter, ReportedSrc, ReportedType, SrcOf, Early
<1> HIDE DEF it, mine
<1>6. /\ DOMAIN throttle' = DOMAIN throttle \cup {mine}
      /\ throttle'[mine] = frame[c].now2
      /\ \A q \in DOMAIN throttle : q # mine => throttle'[q] = throttle[q]
  BY <1>1 DEF Put
<1>7. /\ DOMAIN hist'.reported = DOMAIN hist.reported \cup {it}
      /\ hist'.reported[it].now2 = frame[c].now2
      /\ hist'.reported[it].at = now
      /\ \A k \in DOMAIN hist.reported :
            k # it => hist'.reported[k] = hist.reported[k]
  BY <1>1 DEF Put
<1>8. ASSUME NEW k, k = it PROVE ReportOK(k)'
  <2>1. \A d \in DOMAIN frame : frame[d].now2 <= now
    BY DEF TimesOK
  <2>2. ASSUME NEW d \in DOMAIN frame', frame'[d].at = "stamp"
        PROVE  frame'[d].now2 <= now
    BY <1>1, <1>2, <2>1, <2>2
  <2> DEFINE key == <<Low32[k[2]], k[3]>>
  <2>3. /\ hist'.reported[k].now2 <= hist'.reported[k].at
        /\ hist'.reported[k].at <= hist'.reported[k].now2 + 1
        /\ hist'.reported[k].at <= now' /\ hist'.reported[k].at = now
        /\ key \in DOMAIN throttle'
        /\ throttle'[key] >= hist'.reported[k].now2 - 1
        /\ throttle'[key] <= hist'.reported[k].at
    BY <1>1, <1>3, <1>4, <1>6, <1>7, <1>8
  <2>4. k[1] = c
    BY <1>4, <1>8
  <2> QED
    BY <1>1, <1>2, <2>2, <2>3, <2>4 DEF ReportOK
<1>9. ASSUME NEW k \in DOMAIN hist.reported, k # it PROVE ReportOK(k)'
  <2> DEFINE r == hist.reported[k]
             key == <<Low32[k[2]], k[3]>>
  <2>1. /\ r.now2 \in Nat /\ r.at \in Nat
        /\ key \in DOMAIN throttle /\ throttle[key] \in Nat
        /\ hist'.reported[k] = r /\ ReportOK(k)
    BY <1>7, <1>9, ReportNumbers DEF ReportInv, ReportOK
  <2>2. /\ r.now2 <= r.at /\ r.at <= r.now2 + 1 /\ r.at <= now
        /\ throttle[key] >= r.now2 - 1
        /\ throttle[key] <= r.at \/ now >= r.now2 + Window - 1
        /\ mine = key => frame[c].now2 <= r.at \/ now >= r.now2 + Window - 1
    BY <1>1, <2>1 DEF ReportOK, mine
  <2>3. /\ key \in DOMAIN throttle'
        /\ throttle'[key] >= r.now2 - 1
        /\ throttle'[key] <= r.at \/ now >= r.now2 + Window - 1
    <3>1. CASE key = mine
      BY <1>3, <1>6, <2>1, <2>2, <3>1
    <3>2. CASE key # mine
      BY <1>6, <2>1, <2>2, <3>2
    <3> QED
      BY <3>1, <3>2
  <2>4. ASSUME NEW d \in DOMAIN frame', frame'[d].at = "stamp",
               ThrottleKey(d)' = key
        PROVE  frame'[d].now2 <= r.at \/ now >= r.now2 + Window - 1
    <3>1. d # c /\ d \in DOMAIN frame /\ frame'[d] = frame[d]
          /\ ThrottleKey(d) = key
      BY <1>1, <1>2, <1>5, <2>4
    <3> QED
      BY <2>1, <2>4, <3>1 DEF ReportOK
  <2>5. ASSUME k[1] \in DOMAIN frame'
        PROVE  /\ Early(k[1])' => frame'[k[1]].now_ns >= r.at
               /\ frame'[k[1]].at = "stamp" /\ Reporter(k[1])' = k =>
                     frame'[k[1]].now2 >= r.now2 + Window - 2
    <3>1. CASE k[1] = c
      BY <1>2, <3>1
    <3>2. CASE k[1] # c
      BY <1>1, <1>5, <2>1, <2>5, <3>2 DEF ReportOK
    <3> QED
      BY <3>1, <3>2
  <2> QED
    BY <1>1, <2>1, <2>2, <2>3, <2>4, <2>5 DEF ReportOK
<1>10. ASSUME NEW k \in DOMAIN hist'.reported PROVE ReportOK(k)'
  BY <1>7, <1>8, <1>9, <1>10
<1> QED
  BY <1>10 DEF ReportInv

\* Every other step brings no frame to its stamp.
LEMMA ReportStep ==
    ASSUME "throttle" \notin Reclaimable
    PROVE  TypeOK /\ TimesOK /\ ReportInv /\ [Next]_vars => ReportInv'
<1> SUFFICES ASSUME TypeOK, TimesOK, ReportInv, [Next]_vars PROVE ReportInv'
  OBVIOUS
<1>1. ASSUME NEW c \in CPU, NEW p \in Packets, Arrive(c, p) PROVE ReportInv'
  <2>1. /\ now' = now /\ throttle' = throttle /\ hist'.reported = hist.reported
    BY <1>1 DEF Arrive, Spend
  <2>2. /\ DOMAIN frame' = DOMAIN frame \cup {c} /\ frame'[c].now_ns = now
        /\ frame'[c].at \in {"whitelisted", "throttle", "verdict"}
        /\ \A d \in DOMAIN frame : d # c => frame'[d] = frame[d]
    BY <1>1, ArriveMoves
  <2> QED
    BY <2>1, <2>2, ReportStays
<1>2. ASSUME NEW c \in DOMAIN frame, Judge(c) PROVE ReportInv'
  <2>1. now' = now /\ throttle' = throttle /\ hist' = hist
        /\ frame[c].at \in Judged
    BY <1>2 DEF Judge
  <2>2. /\ DOMAIN frame' = DOMAIN frame
        /\ frame'[c].now_ns = frame[c].now_ns
        /\ frame'[c].at \in {"throttle", "verdict", Onward(c)}
        /\ \A d \in DOMAIN frame : d # c => frame'[d] = frame[d]
    BY <1>2, JudgeMoves
  <2>3. Early(c) /\ frame'[c].at # "stamp"
    BY <2>1, <2>2, OnwardPlace DEF Early, Judged, Stage, Order
  <2> QED
    BY <2>1, <2>2, <2>3, ReportStays
<1>3. ASSUME NEW c \in DOMAIN frame, Unban(c) \/ Reserve(c) \/ AutoBan(c)
      PROVE  ReportInv'
  <2>1. /\ DOMAIN frame' = DOMAIN frame
        /\ \A d \in DOMAIN frame : d # c => frame'[d] = frame[d]
        /\ frame[c] \in Frame
    BY <1>3, OthersMove, FrameFields
  <2>2. /\ now' = now /\ throttle' = throttle /\ hist'.reported = hist.reported
    <3>1. Unban(c) => hist'.reported = hist.reported
      BY DEF Unban
    <3>2. Reserve(c) => hist'.reported = hist.reported
      BY DEF Reserve
    <3>3. AutoBan(c) => hist'.reported = hist.reported
      <4> DEFINE e == frame[c].now_ns + cfg.ban_duration
                 h == [hist EXCEPT !.sentence[SrcOf(c)] = e,
                                   !.late = @ \cup LateFor(SrcOf(c))]
      <4>1. AutoBan(c) => hist' = hist \/ hist' = h
        BY DEF AutoBan
      <4>2. h.reported = hist.reported
        OBVIOUS
      <4> QED
        BY <4>1, <4>2
    <3>4. now' = now /\ throttle' = throttle
      BY <1>3 DEF Unban, Reserve, AutoBan
    <3> QED
      BY <1>3, <3>1, <3>2, <3>3, <3>4
  <2>3. CASE Unban(c)
    <3>1. "banned" \in Stage
      BY DEF Stage, Order
    <3>2. Following(frame[c].pkt, "banned") \in Judged \cup {"verdict"}
      BY <3>1, FollowingStage
    <3>3. /\ frame'[c].at \in Judged \cup {"verdict"}
          /\ frame'[c].now_ns = frame[c].now_ns /\ frame[c].at = "unban"
      BY <2>1, <2>3, <3>2 DEF Unban, Goto, Frame
    <3>4. Early(c) /\ frame'[c].at # "stamp"
      BY <3>3 DEF Early, Judged, Stage, Order
    <3> QED
      BY <2>1, <2>2, <3>3, <3>4, ReportStays
  <2>4. CASE Reserve(c) \/ AutoBan(c)
    <3>1. frame'[c].at \in {"auto_ban", "verdict"}
      BY <2>1, <2>4 DEF Reserve, AutoBan, Goto, AfterReport, Frame
    <3>2. ~Early(c)' /\ frame'[c].at # "stamp"
      BY <3>1 DEF Early
    <3> QED
      BY <2>1, <2>2, <3>2, ReportStays
  <2> QED
    BY <1>3, <2>3, <2>4
<1>4. ASSUME NEW c \in DOMAIN frame, Verdict(c) PROVE ReportInv'
  <2>1. now' = now /\ throttle' = throttle /\ hist'.reported = hist.reported
    BY <1>4 DEF Verdict
  <2>2. \A d \in DOMAIN frame' : d \in DOMAIN frame /\ frame'[d] = frame[d]
    BY <1>4, VerdictMoves
  <2> QED
    BY <2>1, <2>2, ReportStays
<1>5. CASE Write \/ Reclaim
  BY <1>5, Elsewhere, ReportStays DEF Write
<1>6. CASE ReadRing \/ Tick \/ UNCHANGED vars
  BY <1>6, ReportStays DEF ReadRing, Tick, vars
<1> QED
  BY <1>1, <1>2, <1>3, <1>4, <1>5, <1>6, ReportCheck, ReportStamp
     DEF Next, Program

\* emit_event() keeps the reports of one type about one source from one CPU a
\* window apart, to two ticks, as long as the throttle map gives up no entry.
THEOREM ReportsAreSpaced ==
    ASSUME "throttle" \notin Reclaimable
    PROVE  Spec => ReportsSpaced
<1>1. Init => ReportInv
  BY DEF Init, ReportInv, EmptyMap
<1>2. TypeOK /\ TimesOK /\ ReportInv /\ [Next]_vars => ReportInv'
  BY ReportStep
<1>3. ReportInv /\ [Next]_vars =>
         [\A c \in DOMAIN frame :
            frame[c].at = "stamp" /\ frame'[c].at # "stamp" =>
               LET r == Reporter(c)
               IN  r \in DOMAIN hist.reported =>
                     frame[c].now2 >= hist.reported[r].now2 + Window - 2]_vars
  <2>1. \A c : Reporter(c)[1] = c
    BY DEF Reporter
  <2> QED
    BY <2>1 DEF ReportInv, ReportOK
<1> QED
  BY <1>1, <1>2, <1>3, TimesStart, TimesStep, TypeCorrect, PTL
     DEF Spec, ReportsSpaced
----------------------------------------------------------------------------
\* The budgets of XdpBudget, which watches the data plane and leaves it alone.

\* A finite set of naturals has a greatest: a first f[k] without one among
\* f[1] to f[k] would have the greater of f[k] and the one before.
LEMMA GreatestOf ==
    ASSUME NEW S, IsFiniteSet(S), S \subseteq Nat, S # {}
    PROVE  Max(S) \in S /\ \A y \in S : y <= Max(S)
<1>1. PICK n \in Nat : ExistsSurjection(1..n, S)
  BY FS_NatSurjection
<1>2. PICK f \in [1..n -> S] : \A y \in S : \E i \in 1..n : f[i] = y
  BY <1>1 DEF ExistsSurjection, Surjection
<1> DEFINE Greatest(x, k) == \A i \in 1..k : f[i] <= x
           T == {k \in 1..n : ~\E x \in S : Greatest(x, k)}
<1>3. T = {}
  <2> SUFFICES ASSUME T # {} PROVE FALSE
    OBVIOUS
  <2>1. PICK k \in T : \A m \in T : k <= m
    <3>1. T \subseteq Nat
      OBVIOUS
    <3> QED
      BY <3>1, LeastNatural
  <2>2. k \in 1..n /\ f[k] \in S /\ f[k] \in Nat
    BY <1>2, <2>1
  <2>3. CASE k = 1
    <3>1. Greatest(f[k], k)
      BY <2>2, <2>3
    <3> QED
      BY <2>1, <2>2, <3>1
  <2>4. CASE k # 1
    <3>1. k - 1 \in 1..n /\ k - 1 \notin T
      <4>1. k - 1 \in 1..n /\ ~(k <= k - 1)
        BY <2>2, <2>4
      <4> HIDE DEF T
      <4> QED
        BY <2>1, <4>1
    <3>2. PICK x \in S : Greatest(x, k - 1)
      BY <3>1
    <3>3. x \in Nat /\ \A i \in 1..n : f[i] \in Nat
      BY <1>2
    <3>4. \A i \in 1..k : i = k \/ i \in 1..(k - 1)
      BY <2>2
    <3>5. Greatest(x, k) \/ Greatest(f[k], k)
      <4>1. CASE f[k] <= x
        BY <2>2, <3>2, <3>3, <3>4, <4>1
      <4>2. CASE ~(f[k] <= x)
        <5>1. ASSUME NEW i \in 1..k PROVE f[i] <= f[k]
          <6>1. CASE i = k
            BY <2>2, <6>1
          <6>2. CASE i \in 1..(k - 1)
            <7>1. f[i] <= x /\ f[i] \in Nat
              BY <2>2, <3>2, <3>3, <6>2
            <7> QED
              BY <2>2, <3>3, <4>2, <7>1
          <6> QED
            BY <3>4, <6>1, <6>2
        <5> QED
          BY <5>1
      <4> QED
        BY <4>1, <4>2
    <3> QED
      BY <2>1, <2>2, <3>2, <3>5
  <2> QED
    BY <2>3, <2>4
<1>4. n \in 1..n
  <2>1. PICK i \in 1..n : TRUE
    BY <1>2
  <2> QED
    BY <2>1
<1>5. PICK x \in S : Greatest(x, n)
  BY <1>3, <1>4
<1>6. \A y \in S : x >= y
  BY <1>2, <1>5
<1> QED
  BY <1>6 DEF Max

\* The highest limit is one of the configs', and over each of them.
LEMMA LimitIsHighest ==
    ASSUME NEW field \in {"pps", "new_src"}, Limited(field)
    PROVE  /\ Limit(field) \in Nat \ {0}
           /\ \A k \in Configs : k[field] <= Limit(field)
<1> DEFINE S == {k[field] : k \in Configs}
<1>1. S \subseteq Nat /\ S # {}
  BY ConfigsAssumption DEF Config
<1>2. IsFiniteSet(S)
  <2> DEFINE f == [k \in Configs |-> k[field]]
  <2>1. f \in Surjection(Configs, S)
    BY DEF Surjection
  <2> QED
    BY <2>1, ConfigsAssumption, FS_Surjection DEF ExistsSurjection
<1>3. Max(S) \in S /\ \A y \in S : y <= Max(S)
  <2> HIDE DEF S
  <2> QED
    BY <1>1, <1>2, GreatestOf
<1> QED
  BY <1>1, <1>3 DEF Limit, Limited

\* The clock of the frame on CPU c, or the clock if it has none.
Clock(c) == IF c \in DOMAIN frame THEN frame[c].now_ns ELSE now

\* What a slot with limit max may have let through since the moments f counts
\* from, by clock a: since one within its window less than the slot has, which
\* its first packet is before; since an earlier one as much as a whole window's
\* rest more; and nothing since a later one than a.
Filled(slot, max) == IF slot.packets <= max THEN slot.packets ELSE max

Spends(f, slot, max, a) ==
    /\ slot.start <= a
    /\ slot.packets = 0 => slot.start = 0
    /\ \A t \in Moments(now) :
          /\ f[t] <= max - 1 + Filled(slot, max)
          /\ t > slot.start => f[t] = 0 \/ f[t] < Filled(slot, max)
          /\ t > a => f[t] = 0

\* The same over other moments than this second's.
SpendsIn(M, f, slot, max, a) ==
    /\ slot.start <= a
    /\ slot.packets = 0 => slot.start = 0
    /\ \A t \in M :
          /\ f[t] <= max - 1 + Filled(slot, max)
          /\ t > slot.start => f[t] = 0 \/ f[t] < Filled(slot, max)
          /\ t > a => f[t] = 0

\* So much is let through in a second, in two windows at most.
LEMMA SpendsTwice ==
    ASSUME NEW max \in Nat \ {0}, NEW slot \in Slot, NEW a,
           NEW f \in [Moments(now) -> Nat], Spends(f, slot, max, a)
    PROVE  \A t \in Moments(now) : f[t] <= 2 * max - 1
  BY DEF Spends, Filled, Slot

\* A frame that the slot counts and that goes through only within the limit.
LEMMA SpendsFrame ==
    ASSUME now \in Nat, NEW a \in Nat, a >= Window, a <= now, now <= a + 1,
           NEW c, frame[c].now_ns = a,
           NEW max \in Nat \ {0}, NEW slot \in Slot, NEW len \in Nat,
           NEW f \in [Moments(now) -> Nat], Spends(f, slot, max, a),
           NEW g, \/ g = f
                  \/ g = OneMore(f, a) /\ Advance(c, slot, len).packets <= max
    PROVE  /\ g \in [Moments(now) -> Nat]
           /\ Spends(g, Advance(c, slot, len), max, a)
<1> DEFINE next == Advance(c, slot, len)
<1>1. /\ slot.packets \in Nat /\ slot.start \in Nat
      /\ Window \in Nat \ {0}
      /\ \A t \in Moments(now) : /\ t \in Nat /\ t <= now /\ now - t < Window
                                 /\ f[t] \in Nat
  BY NumbersAssumption DEF Slot, Moments
<1>2. /\ g \in [Moments(now) -> Nat]
      /\ \A t \in Moments(now) : g[t] = f[t] \/ g[t] = f[t] + 1
      /\ \A t \in Moments(now) : next.packets > max \/ t > a => g[t] = f[t]
  <2>1. next \in Slot /\ next.packets \in Nat
    BY AdvanceIsSlot DEF Slot
  <2> HIDE DEF next
  <2>2. CASE g = f
    BY <1>1, <2>2
  <2>3. CASE g = OneMore(f, a) /\ next.packets <= max
    <3>1. g = [t \in Moments(now) |-> IF t <= a THEN f[t] + 1 ELSE f[t]]
      BY <2>3 DEF OneMore
    <3> QED
      BY <1>1, <2>1, <2>3, <3>1
  <2> QED
    BY <2>2, <2>3 DEF next
<1>3. CASE InWindow(c, slot)
  <2>1. next.packets = slot.packets + 1 /\ next.start = slot.start
    BY <1>3 DEF Advance, Slot
  <2>2. slot.packets > 0
    BY <1>1, <1>3 DEF InWindow, Spends
  <2> HIDE DEF next
  <2>3. ASSUME NEW t \in Moments(now)
        PROVE  /\ g[t] <= max - 1 + Filled(next, max)
               /\ t > next.start => g[t] = 0 \/ g[t] < Filled(next, max)
               /\ t > a => g[t] = 0
    BY <1>1, <1>2, <2>1, <2>2 DEF Spends, Filled
  <2>4. Spends(g, next, max, a)
    BY <1>1, <2>1, <2>3 DEF Spends
  <2> QED
    BY <1>2, <2>4 DEF next
<1>4. CASE ~InWindow(c, slot)
  <2>1. next.packets = 1 /\ next.start = a
    BY <1>4 DEF Advance
  <2>2. ASSUME NEW t \in Moments(now)
        PROVE  t > slot.start /\ f[t] <= max - 1 /\ (t > a => f[t] = 0)
    BY <1>1, <1>4 DEF InWindow, Spends, Filled
  <2> HIDE DEF next
  <2>3. ASSUME NEW t \in Moments(now)
        PROVE  /\ g[t] <= max - 1 + Filled(next, max)
               /\ t > next.start => g[t] = 0
               /\ t > a => g[t] = 0
    BY <1>1, <1>2, <2>1, <2>2 DEF Filled
  <2>4. Spends(g, next, max, a)
    BY <2>1, <2>3 DEF Spends
  <2> QED
    BY <1>2, <2>4 DEF next
<1> QED
  BY <1>3, <1>4

\* Time passes: nothing went through since the moment that has just come, and
\* the clock of an idle CPU goes on.
LEMMA SpendsLater ==
    ASSUME now \in Nat, now' = now + 1,
           NEW max \in Nat \ {0}, NEW slot \in Slot,
           NEW f \in [Moments(now) -> Nat], NEW b, b \in {now, now + 1}
    PROVE  /\ Later(f) \in [Moments(now') -> Nat]
           /\ Spends(f, slot, max, now) =>
                SpendsIn(Moments(now'), Later(f), slot, max, b)
<1>1. /\ slot.packets \in Nat /\ slot.start \in Nat /\ Window \in Nat \ {0}
      /\ Filled(slot, max) \in Nat
  BY NumbersAssumption DEF Slot, Filled
<1>2. ASSUME NEW t \in Moments(now'), t # now'
      PROVE  t \in Moments(now) /\ f[t] \in Nat
  BY <1>1, <1>2 DEF Moments
<1>3. /\ Later(f) \in [Moments(now') -> Nat]
      /\ \A t \in Moments(now') : Later(f)[t] = IF t = now' THEN 0 ELSE f[t]
  BY <1>2 DEF Later
<1>4. ASSUME Spends(f, slot, max, now), NEW t \in Moments(now')
      PROVE  /\ Later(f)[t] <= max - 1 + Filled(slot, max)
             /\ t > slot.start => \/ Later(f)[t] = 0
                                  \/ Later(f)[t] < Filled(slot, max)
             /\ t > b => Later(f)[t] = 0
  <2>1. CASE t = now'
    BY <1>1, <1>3, <2>1
  <2>2. CASE t # now'
    <3>1. t \in Nat /\ t <= now
      BY <1>2, <2>2 DEF Moments
    <3> QED
      BY <1>2, <1>3, <1>4, <2>2, <3>1 DEF Spends
  <2> QED
    BY <2>1, <2>2
<1>5. Spends(f, slot, max, now) => /\ slot.start <= b
                                   /\ slot.packets = 0 => slot.start = 0
  BY <1>1 DEF Spends
<1> QED
  BY <1>3, <1>4, <1>5 DEF SpendsIn

\* A frame that is not counted yet leaves more to let through.
LEMMA SpendsLess ==
    ASSUME now \in Nat, NEW max \in Nat \ {0}, NEW slot \in Slot, NEW a \in Nat,
           NEW f \in [Moments(now) -> Nat], Spends(OneMore(f, a), slot, max, a)
    PROVE  Spends(f, slot, max, a)
<1> DEFINE g == OneMore(f, a)
<1>1. \A t \in Moments(now) : /\ t \in Nat /\ f[t] \in Nat
                              /\ g[t] = IF t <= a THEN f[t] + 1 ELSE f[t]
  BY DEF Moments, OneMore
<1>2. Filled(slot, max) \in Nat
  BY DEF Filled, Slot
<1>3. Spends(g, slot, max, a)
  OBVIOUS
<1> HIDE DEF g
<1> QED
  BY <1>1, <1>2, <1>3 DEF Spends

\* A later clock leaves no less.
LEMMA SpendsOn ==
    ASSUME now \in Nat, NEW max, NEW slot \in Slot, NEW a \in Nat, NEW b \in Nat,
           a <= b, NEW f, Spends(f, slot, max, a)
    PROVE  Spends(f, slot, max, b)
  BY DEF Spends, Slot, Moments

----------------------------------------------------------------------------
\* Each CPU's slots account for what went through it since each moment, and
\* the new-source slot for the source that its frame is about to list too.
CountsOK ==
    /\ accepted \in [Src \X CPU -> [Moments(now) -> Nat]]
    /\ listed \in [CPU -> [Moments(now) -> Nat]]

AcceptInv ==
    Limited("pps") =>
        \A s \in Src, c \in CPU :
            Spends(accepted[<<s, c>>], Slots(rates.pps, s)[c], Limit("pps"),
                   Clock(c))

Pending(c) == c \in DOMAIN frame /\ frame[c].at = "pps" /\ Unlisted(c)

ListedSoon(c) ==
    IF Pending(c) THEN OneMore(listed[c], frame[c].now_ns) ELSE listed[c]

ListingInv ==
    Limited("new_src") =>
        \A c \in CPU :
            Spends(ListedSoon(c), newSrc[c], Limit("new_src"), Clock(c))

\* What the rate map says of a source on a CPU is a slot.
LEMMA RateSlots ==
    ASSUME TypeOK, NEW s \in Src, NEW c \in CPU
    PROVE  Slots(rates.pps, s)[c] \in Slot
<1>1. IsMap(rates.pps, Src, [CPU -> Slot])
  BY DEF TypeOK, RateMap
<1> QED
  BY <1>1, SlotsAreSlots

\* The clocks of the CPUs.
LEMMA ClockNumbers ==
    ASSUME TypeOK, TimesOK, NEW c \in CPU
    PROVE  /\ now \in Nat /\ Clock(c) \in Nat /\ Clock(c) <= now
           /\ Clock(c) >= Window /\ now <= Clock(c) + 1
<1>1. now \in Nat /\ now >= Window /\ Window \in Nat
  BY NumbersAssumption DEF TypeOK
<1>2. CASE c \in DOMAIN frame
  <2>1. frame[c].now_ns \in Nat /\ frame[c].now2 \in Nat
    BY <1>2, FrameFields
  <2>2. /\ frame[c].now_ns >= Window /\ frame[c].now_ns <= frame[c].now2
        /\ frame[c].now2 <= now /\ now <= frame[c].now_ns + 1
    BY <1>2 DEF TimesOK
  <2> QED
    BY <1>1, <1>2, <2>1, <2>2 DEF Clock
<1> QED
  BY <1>1, <1>2 DEF Clock

\* Counting a frame of k on CPU c changes no other slot, the zeroed ones of
\* the other CPUs in a new entry among them.
LEMMA TouchSlots ==
    ASSUME NEW K, NEW tbl, IsMap(tbl, K, [CPU -> Slot]),
           NEW k, NEW c \in CPU, NEW s, NEW d \in CPU
    PROVE  Slots(Touch(tbl, c, k), s)[d] =
              IF s = k /\ d = c
              THEN Advance(c, Slots(tbl, s)[d], frame[c].pkt.len)
              ELSE Slots(tbl, s)[d]
<1>1. Slots(tbl, k) \in [CPU -> Slot]
  BY SlotsAreSlots
<1> DEFINE v == [Slots(tbl, k) EXCEPT ![c] =
                    Advance(c, Slots(tbl, k)[c], frame[c].pkt.len)]
<1>2. Touch(tbl, c, k) = Put(tbl, k, v)
  BY DEF Touch
<1>3. v[d] = IF d = c THEN Advance(c, Slots(tbl, k)[c], frame[c].pkt.len)
                      ELSE Slots(tbl, k)[d]
  BY <1>1
<1> HIDE DEF v
<1>4. Slots(Put(tbl, k, v), s) = IF s = k THEN v ELSE Slots(tbl, s)
  BY DEF Slots, Lookup, Put
<1> QED
  BY <1>2, <1>3, <1>4

\* A frame that its stage lets on is within the limit of that stage.
LEMMA WithinLimits ==
    ASSUME TypeOK, NEW c \in DOMAIN frame, ~Stops(c)
    PROVE  /\ frame[c].at = "pps" /\ Limited("pps") =>
                 CheckRate("pps", c) <= Limit("pps")
           /\ frame[c].at = "new_src" /\ Unlisted(c) /\ Limited("new_src") =>
                 Advance(c, newSrc[c], 0).packets <= Limit("new_src")
<1>1. cfg \in Configs /\ cfg \in Config
  BY ConfigsAssumption DEF TypeOK
<1>2. cfg.pps \in Nat /\ cfg.new_src \in Nat
  BY <1>1 DEF Config
<1>3. /\ c \in CPU /\ SrcOf(c) \in Src /\ frame[c].pkt.len \in Nat
      /\ frame[c].now_ns \in Nat
  BY FrameFields
<1>4. ASSUME frame[c].at = "pps", Limited("pps")
      PROVE  CheckRate("pps", c) <= Limit("pps")
  <2>1. ~Over(cfg.pps, CheckRate("pps", c))
    BY <1>4 DEF Stops
  <2>2. CheckRate("pps", c) \in Nat
    <3>1. Slots(rates.pps, SrcOf(c))[c] \in Slot
      BY <1>3, RateSlots
    <3>2. Advance(c, Slots(rates.pps, SrcOf(c))[c], frame[c].pkt.len) \in Slot
      BY <1>3, <3>1, AdvanceIsSlot
    <3> QED
      BY <3>2 DEF CheckRate, Slot
  <2>3. cfg.pps > 0 /\ cfg.pps <= Limit("pps") /\ Limit("pps") \in Nat
    BY <1>1, <1>4, LimitIsHighest DEF Limited
  <2> QED
    BY <1>2, <2>1, <2>2, <2>3 DEF Over
<1>5. ASSUME frame[c].at = "new_src", Unlisted(c), Limited("new_src")
      PROVE  Advance(c, newSrc[c], 0).packets <= Limit("new_src")
  <2>1. ~NewSrcFlood(c)
    BY <1>5 DEF Stops
  <2>2. newSrc[c] \in Slot /\ newSrc[c].packets \in Nat
    BY <1>3 DEF TypeOK, Slot
  <2>3. /\ cfg.new_src > 0 /\ cfg.new_src <= Limit("new_src")
        /\ Limit("new_src") \in Nat
    BY <1>1, <1>5, LimitIsHighest DEF Limited
  <2>4. CASE InWindow(c, newSrc[c])
    <3>1. Advance(c, newSrc[c], 0).packets = newSrc[c].packets + 1
      BY <2>2, <2>4 DEF Advance, Slot
    <3>2. ~(newSrc[c].packets + 1 > cfg.new_src)
      BY <1>5, <2>1, <2>3, <2>4 DEF NewSrcFlood, Over
    <3> QED
      BY <1>2, <2>2, <2>3, <3>1, <3>2
  <2>5. CASE ~InWindow(c, newSrc[c])
    <3>1. Advance(c, newSrc[c], 0).packets = 1
      BY <2>5 DEF Advance
    <3> QED
      BY <1>2, <2>3, <3>1
  <2> QED
    BY <2>4, <2>5
<1> QED
  BY <1>4, <1>5

\* The limit per source is the next stage after the new-source limit's.
LEMMA PpsNext ==
    \A p : Following(p, "new_src") = "pps"
<1> TAKE p
<1> DEFINE q == Following(p, "new_src")
           S == StagesAfter(p, "new_src")
<1>1. "new_src" \in Stage /\ "pps" \in S
  BY DEF StagesAfter, Applies, Judged, Stage, Order
<1>2. q \in S /\ Order[q] <= Order["pps"]
  BY <1>1, FollowingStage
<1>3. q \in Stage /\ Order[q] > 8 /\ Order[q] <= 9
  BY <1>2 DEF StagesAfter, Judged, Stage, Order
<1>4. q = "pps"
  <2> HIDE DEF q
  <2> QED
    BY <1>3 DEF Stage, Order
<1> QED
  BY <1>4

\* And only the new-source limit's comes right before it.
LEMMA PpsBefore ==
    ASSUME NEW c, frame[c].at \in Judged \cup {"unban"},
           \/ frame[c].at \in Judged /\ Onward(c) = "pps"
           \/ frame[c].at = "unban" /\ Following(frame[c].pkt, "banned") = "pps"
    PROVE  frame[c].at = "new_src"
<1> DEFINE p == frame[c].pkt
<1>1. ASSUME NEW s \in Stage, Following(p, s) = "pps" PROVE Order[s] = 8
  <2>1. "new_src" \in Judged /\ Applies(p, "new_src")
        /\ "pps" \in Judged /\ Applies(p, "pps")
    BY DEF Judged, Stage, Order, Applies
  <2>2. Order[s] \in Nat /\ Order["new_src"] = 8 /\ Order["pps"] = 9
    BY StageOrder DEF Order
  <2>3. CASE Order[s] < 8
    <3>1. "new_src" \in StagesAfter(p, s)
      BY <2>1, <2>2, <2>3 DEF StagesAfter
    <3>2. Order[Following(p, s)] <= Order["new_src"]
      BY <3>1, FollowingStage
    <3> QED
      BY <1>1, <2>2, <3>2
  <2>4. CASE Order[s] > 8
    <3>1. "pps" \in StagesAfter(p, s)
      <4>1. StagesAfter(p, s) # {}
        BY <1>1 DEF Following
      <4>2. Following(p, s) \in StagesAfter(p, s)
        BY <4>1, FollowingStage
      <4> QED
        BY <1>1, <4>2
    <3> QED
      BY <2>2, <2>4, <3>1 DEF StagesAfter
  <2> QED
    BY <2>2, <2>3, <2>4
<1>2. \A s \in Stage : Order[s] = 8 => s = "new_src"
  BY DEF Stage, Order
<1>3. "banned" \in Stage /\ Order["banned"] = 5 /\ "unban" \notin Judged
  BY DEF Stage, Order, Judged
<1> QED
  BY <1>1, <1>2, <1>3, OnwardPlace DEF Onward

\* The budget starts at nothing.
LEMMA BudgetStart == BudgetInit => CountsOK /\ AcceptInv /\ ListingInv
<1> SUFFICES ASSUME BudgetInit PROVE CountsOK /\ AcceptInv /\ ListingInv
  OBVIOUS
<1>1. /\ accepted = [sc \in Src \X CPU |-> Zeros(now)]
      /\ listed = [c \in CPU |-> Zeros(now)]
      /\ newSrc = [c \in CPU |-> ZeroSlot]
      /\ rates.pps = EmptyMap /\ now \in Nat /\ DOMAIN frame = {}
  BY NumbersAssumption DEF BudgetInit, Init, RateMap, EmptyMap
<1>2. CountsOK
  BY <1>1 DEF CountsOK, Zeros
<1>3. ASSUME NEW max \in Nat \ {0} PROVE Spends(Zeros(now), ZeroSlot, max, now)
  BY <1>1 DEF Spends, Zeros, ZeroSlot, Filled, Moments
<1>4. \A c \in CPU : Clock(c) = now /\ ListedSoon(c) = Zeros(now)
                     /\ newSrc[c] = ZeroSlot
  BY <1>1 DEF Clock, ListedSoon, Pending
<1>5. \A s \in Src, c \in CPU : /\ accepted[<<s, c>>] = Zeros(now)
                                /\ Slots(rates.pps, s)[c] = ZeroSlot
  BY <1>1 DEF Slots, Lookup, EmptyMap
<1>6. AcceptInv
  <2> SUFFICES ASSUME Limited("pps"), NEW s \in Src, NEW c \in CPU
               PROVE  Spends(accepted[<<s, c>>], Slots(rates.pps, s)[c],
                             Limit("pps"), Clock(c))
    BY DEF AcceptInv
  <2>1. Limit("pps") \in Nat \ {0}
    BY LimitIsHighest
  <2> QED
    BY <1>3, <1>4, <1>5, <2>1
<1>7. ListingInv
  <2> SUFFICES ASSUME Limited("new_src"), NEW c \in CPU
               PROVE  Spends(ListedSoon(c), newSrc[c], Limit("new_src"), Clock(c))
    BY DEF ListingInv
  <2>1. Limit("new_src") \in Nat \ {0}
    BY LimitIsHighest
  <2> QED
    BY <1>3, <1>4, <2>1
<1> QED
  BY <1>2, <1>6, <1>7

\* What a step keeps of the two invariants.
BudgetKept ==
    CountsOK' /\ (ListingInv => ListingInv') /\ (AcceptInv => AcceptInv')

\* What does not count a frame: the other stages, the daemon and the kernel.
LEMMA BudgetQuiet ==
    ASSUME TypeOK, TimesOK, CountsOK, UNCHANGED <<now, accepted, listed, newSrc>>,
           rates'.pps = rates.pps,
           \A c \in CPU :
              /\ Clock(c)' \in Nat /\ Clock(c) <= Clock(c)'
              /\ Pending(c)' => Pending(c)
                                /\ frame'[c].now_ns = frame[c].now_ns
    PROVE  BudgetKept
<1>1. CountsOK'
  BY DEF CountsOK, Moments
<1>2. ASSUME ListingInv, Limited("new_src"), NEW c \in CPU
      PROVE  Spends(ListedSoon(c)', newSrc'[c], Limit("new_src"), Clock(c)')
  <2> DEFINE max == Limit("new_src")
             a == Clock(c)
             b == Clock(c)'
             f == listed[c]
             slot == newSrc[c]
  <2>1. /\ max \in Nat \ {0} /\ a \in Nat /\ b \in Nat /\ a <= b /\ now \in Nat
        /\ f \in [Moments(now) -> Nat] /\ slot \in Slot
        /\ Spends(ListedSoon(c), slot, max, a)
    BY <1>2, LimitIsHighest, ClockNumbers DEF ListingInv, CountsOK, TypeOK
  <2>2. ListedSoon(c)' = ListedSoon(c) \/ ListedSoon(c)' = f
    BY DEF ListedSoon
  <2>3. Pending(c) => ListedSoon(c) = OneMore(f, a)
    BY DEF ListedSoon, Clock, Pending
  <2>4. ~Pending(c) => ListedSoon(c) = f
    BY DEF ListedSoon
  <2>5. newSrc'[c] = slot
    OBVIOUS
  <2> HIDE DEF max, a, b, f, slot
  <2>6. Spends(f, slot, max, a)
    BY <2>1, <2>3, <2>4, SpendsLess
  <2>7. Spends(ListedSoon(c)', slot, max, a)
    BY <2>1, <2>2, <2>6
  <2>8. Spends(ListedSoon(c)', slot, max, b)
    BY <2>1, <2>7, SpendsOn
  <2> QED
    BY <2>5, <2>8 DEF max, b
<1>3. ASSUME AcceptInv, Limited("pps"), NEW s \in Src, NEW c \in CPU
      PROVE  Spends(accepted'[<<s, c>>], Slots(rates'.pps, s)[c], Limit("pps"),
                    Clock(c)')
  <2>1. /\ Slots(rates.pps, s)[c] \in Slot /\ now \in Nat
        /\ Clock(c) \in Nat /\ Clock(c)' \in Nat /\ Clock(c) <= Clock(c)'
        /\ Spends(accepted[<<s, c>>], Slots(rates.pps, s)[c], Limit("pps"),
                  Clock(c))
    BY <1>3, RateSlots, ClockNumbers DEF AcceptInv
  <2> DEFINE slot == Slots(rates.pps, s)[c]
             max == Limit("pps")
  <2>2. Slots(rates'.pps, s)[c] = slot
    OBVIOUS
  <2> HIDE DEF slot, max
  <2>3. Spends(accepted[<<s, c>>], slot, max, Clock(c)')
    BY <2>1, SpendsOn DEF slot, max
  <2> QED
    BY <2>2, <2>3 DEF max
<1>4. ListingInv => ListingInv'
  BY <1>2 DEF ListingInv, Spends, Moments
<1>5. AcceptInv => AcceptInv'
  BY <1>3 DEF AcceptInv, Spends, Moments, Slots, Lookup
<1> QED
  BY <1>1, <1>4, <1>5 DEF BudgetKept

\* A moment later.
LEMMA BudgetTick ==
    ASSUME TypeOK, TimesOK, CountsOK, Tick,
           accepted' = [sc \in Src \X CPU |-> Later(accepted[sc])],
           listed' = [c \in CPU |-> Later(listed[c])]
    PROVE  BudgetKept
<1>1. /\ now \in Nat /\ now' = now + 1 /\ newSrc' = newSrc /\ rates' = rates
      /\ frame' = frame /\ \A c \in DOMAIN frame : frame[c].now_ns = now
      /\ \A c \in CPU : newSrc[c] \in Slot
      /\ \A c \in CPU : listed[c] \in [Moments(now) -> Nat]
      /\ \A s \in Src, c \in CPU :
            accepted[<<s, c>>] \in [Moments(now) -> Nat]
  BY DEF Tick, TypeOK, CountsOK
<1>2. /\ \A c \in CPU : Clock(c) = now /\ Clock(c)' \in {now, now + 1}
      /\ \A c \in CPU : Pending(c)' = Pending(c)
  BY <1>1 DEF Clock, Pending, Unlisted, SrcOf
<1>3. ASSUME NEW f \in [Moments(now) -> Nat]
      PROVE  Later(f) \in [Moments(now') -> Nat]
  <2>1. ZeroSlot \in Slot /\ 1 \in Nat \ {0} /\ now \in {now, now + 1}
    BY DEF ZeroSlot, Slot
  <2> QED
    BY <1>1, <1>3, <2>1, SpendsLater
<1>4. CountsOK'
  <2>1. \A sc \in Src \X CPU : accepted[sc] \in [Moments(now) -> Nat]
    BY DEF CountsOK
  <2> QED
    BY <1>1, <1>3, <2>1 DEF CountsOK
<1>5. ASSUME NEW f \in [Moments(now) -> Nat]
      PROVE  /\ OneMore(f, now) \in [Moments(now) -> Nat]
             /\ OneMore(Later(f), now) = Later(OneMore(f, now))
  <2>1. ASSUME NEW t \in Moments(now'), t # now'
        PROVE  t \in Moments(now) /\ t <= now /\ f[t] \in Nat
    <3>1. t \in Moments(now) /\ t <= now
      <4>1. now \in Nat /\ now' = now + 1 /\ Window \in Nat
        BY <1>1, NumbersAssumption
      <4> QED
        BY <2>1, <4>1 DEF Moments
    <3> QED
      BY <3>1
  <2>2. now' > now /\ ~(now' <= now)
    BY <1>1
  <2>3. Later(f) = [t \in Moments(now') |-> IF t = now' THEN 0 ELSE f[t]]
    BY DEF Later
  <2>4. OneMore(Later(f), now) =
           [t \in Moments(now') |-> IF t = now' THEN 0 ELSE f[t] + 1]
    BY <2>1, <2>2, <2>3 DEF OneMore
  <2>5. OneMore(f, now) = [t \in Moments(now) |-> f[t] + 1]
    BY <1>1 DEF OneMore, Moments
  <2>6. Later(OneMore(f, now)) =
           [t \in Moments(now') |-> IF t = now' THEN 0 ELSE f[t] + 1]
    BY <2>1, <2>5 DEF Later
  <2> QED
    BY <2>4, <2>5, <2>6
<1>6. ASSUME NEW c \in CPU
      PROVE  /\ ListedSoon(c) \in [Moments(now) -> Nat]
             /\ ListedSoon(c)' = Later(ListedSoon(c))
  <2>1. listed'[c] = Later(listed[c])
    OBVIOUS
  <2>2. CASE Pending(c)
    <3>1. ListedSoon(c) = OneMore(listed[c], now)
          /\ ListedSoon(c)' = OneMore(Later(listed[c]), now)
      BY <1>1, <1>2, <2>1, <2>2 DEF ListedSoon, Pending
    <3> QED
      BY <1>1, <1>5, <3>1
  <2>3. CASE ~Pending(c)
    BY <1>1, <1>2, <2>1, <2>3 DEF ListedSoon
  <2> QED
    BY <2>2, <2>3
<1>7. ASSUME ListingInv PROVE ListingInv'
  <2>1. ASSUME Limited("new_src"), NEW c \in CPU
        PROVE  Spends(ListedSoon(c), newSrc[c], Limit("new_src"), Clock(c))'
    <3>1. /\ Limit("new_src") \in Nat \ {0}
          /\ Spends(ListedSoon(c), newSrc[c], Limit("new_src"), now)
      BY <1>2, <1>7, <2>1, LimitIsHighest DEF ListingInv
    <3> DEFINE b == Clock(c)'
    <3>2. b \in {now, now + 1} /\ newSrc'[c] = newSrc[c]
      BY <1>1, <1>2
    <3> HIDE DEF b
    <3>3. SpendsIn(Moments(now'), Later(ListedSoon(c)), newSrc[c],
                   Limit("new_src"), b)
      <4>1. /\ now \in Nat /\ now' = now + 1 /\ newSrc[c] \in Slot
            /\ ListedSoon(c) \in [Moments(now) -> Nat]
        BY <1>1, <1>6
      <4> QED
        BY <3>1, <3>2, <4>1, SpendsLater
    <3> QED
      BY <1>6, <3>2, <3>3 DEF Spends, SpendsIn, Moments, Filled, b
  <2> QED
    BY <2>1 DEF ListingInv
<1>8. ASSUME AcceptInv PROVE AcceptInv'
  <2>1. ASSUME Limited("pps"), NEW s \in Src, NEW c \in CPU
        PROVE  Spends(accepted[<<s, c>>], Slots(rates.pps, s)[c], Limit("pps"),
                      Clock(c))'
    <3>1. /\ Limit("pps") \in Nat \ {0}
          /\ Spends(accepted[<<s, c>>], Slots(rates.pps, s)[c], Limit("pps"), now)
      BY <1>2, <1>8, <2>1, LimitIsHighest DEF AcceptInv
    <3>2. /\ accepted'[<<s, c>>] = Later(accepted[<<s, c>>])
          /\ Slots(rates.pps, s)' = Slots(rates.pps, s)
          /\ Slots(rates.pps, s)[c] \in Slot
          /\ accepted[<<s, c>>] \in [Moments(now) -> Nat]
      BY <1>1, RateSlots DEF Slots, Lookup
    <3> DEFINE slot == Slots(rates.pps, s)[c]
               max == Limit("pps")
               b == Clock(c)'
    <3>3. slot' = slot /\ b \in {now, now + 1}
      BY <1>2, <3>2
    <3> HIDE DEF slot, max, b
    <3>4. SpendsIn(Moments(now'), Later(accepted[<<s, c>>]), slot, max, b)
      <4>1. /\ now \in Nat /\ now' = now + 1 /\ slot \in Slot
            /\ max \in Nat \ {0} /\ Spends(accepted[<<s, c>>], slot, max, now)
        BY <1>1, <3>1, <3>2 DEF slot, max
      <4> QED
        BY <3>2, <3>3, <4>1, SpendsLater
    <3>5. Spends(accepted[<<s, c>>], slot, max, Clock(c))'
      BY <3>2, <3>3, <3>4 DEF Spends, SpendsIn, Moments, Filled, max, b
    <3> QED
      BY <3>5 DEF slot, max
  <2> QED
    BY <2>1 DEF AcceptInv
<1> QED
  BY <1>4, <1>7, <1>8 DEF BudgetKept

\* The stage of the limit per source counts the frame and whom it lists.
LEMMA BudgetPps ==
    ASSUME TypeOK, TimesOK, CountsOK, NEW c \in DOMAIN frame,
           frame[c].at = "pps", Judge(c), CountFrame(c)
    PROVE  BudgetKept
<1> DEFINE a == frame[c].now_ns
           s0 == SrcOf(c)
           next == Advance(c, Slots(rates.pps, s0)[c], frame[c].pkt.len)
<1>1. /\ c \in CPU /\ s0 \in Src /\ frame[c].pkt.len \in Nat /\ a \in Nat
      /\ a = Clock(c) /\ frame[c].exit = "accept"
  <2>1. c \in CPU /\ s0 \in Src /\ frame[c].pkt.len \in Nat /\ a \in Nat
    BY FrameFields
  <2>2. frame[c].at \in Judged
    BY DEF Judge
  <2>3. Placed(frame[c])
    BY DEF TypeOK, FramesOK
  <2> QED
    BY <2>1, <2>2, <2>3 DEF Clock, Placed
<1>2. /\ UNCHANGED <<now, newSrc>>
      /\ rates'.pps = Touch(rates.pps, c, s0)
  <2>1. now' = now /\ newSrc' = NewSrcAfter(c) /\ rates' = RatesAfter(c)
    BY DEF Judge
  <2>2. newSrc' = newSrc
    BY <2>1 DEF NewSrcAfter
  <2>3. rates' = [rates EXCEPT !["pps"] = Touch(rates["pps"], c, SrcOf(c))]
    BY <2>1 DEF RatesAfter, RateMap
  <2>4. "pps" \in DOMAIN rates
    BY DEF TypeOK, RateMap
  <2> QED
    BY <2>1, <2>2, <2>3, <2>4
<1>3. /\ DOMAIN frame' = DOMAIN frame
      /\ \A d \in DOMAIN frame : d # c => frame'[d] = frame[d]
      /\ frame'[c].now_ns = a /\ frame'[c].at # "pps"
      /\ frame'[c].exit = IF Stops(c) THEN "pps" ELSE "accept"
  <2>1. frame[c].at \in Judged
    BY DEF Judge
  <2>2. Onward(c) # "pps"
    BY <2>1, PpsBefore
  <2> QED
    BY <2>2, JudgeMoves
<1>4. /\ accepted' = IF Stops(c) THEN accepted
                     ELSE [accepted EXCEPT ![<<s0, c>>] = OneMore(@, a)]
      /\ listed' = IF Unlisted(c)
                   THEN [listed EXCEPT ![c] = OneMore(@, a)] ELSE listed
  BY <1>3 DEF CountFrame
<1>5. /\ \A f \in [Moments(now) -> Nat] :
            OneMore(f, a) \in [Moments(now) -> Nat]
      /\ Moments(now)' = Moments(now)
  BY <1>1, <1>2 DEF OneMore, Moments
<1>6. CountsOK'
  BY <1>1, <1>2, <1>4, <1>5 DEF CountsOK
<1>7. \A d \in CPU : /\ Clock(d)' = Clock(d)
                     /\ Pending(d)' => d # c /\ Pending(d)
  <2> SUFFICES ASSUME NEW d \in CPU
               PROVE  /\ Clock(d)' = Clock(d)
                      /\ Pending(d)' => d # c /\ Pending(d)
    OBVIOUS
  <2>1. Clock(d)' = Clock(d)
    BY <1>2, <1>3 DEF Clock
  <2>2. DOMAIN rates.pps \subseteq DOMAIN rates'.pps
    BY <1>2 DEF Touch, Put
  <2>3. Pending(d)' => d # c /\ d \in DOMAIN frame /\ frame'[d] = frame[d]
    BY <1>3 DEF Pending
  <2> QED
    BY <2>1, <2>2, <2>3 DEF Pending, Unlisted, SrcOf
<1>8. ASSUME AcceptInv, Limited("pps"), NEW s \in Src, NEW d \in CPU
      PROVE  Spends(accepted'[<<s, d>>], Slots(rates'.pps, s)[d], Limit("pps"),
                    Clock(d))
  <2>1. /\ Limit("pps") \in Nat \ {0}
        /\ Spends(accepted[<<s, d>>], Slots(rates.pps, s)[d], Limit("pps"),
                  Clock(d))
    BY <1>8, LimitIsHighest DEF AcceptInv
  <2>2. Slots(rates'.pps, s)[d] =
           IF s = s0 /\ d = c THEN next ELSE Slots(rates.pps, s)[d]
    <3>1. IsMap(rates.pps, Src, [CPU -> Slot])
      BY DEF TypeOK, RateMap
    <3>2. Slots(Touch(rates.pps, c, s0), s)[d] =
             IF s = s0 /\ d = c
             THEN Advance(c, Slots(rates.pps, s)[d], frame[c].pkt.len)
             ELSE Slots(rates.pps, s)[d]
      BY <1>1, <3>1, TouchSlots
    <3> QED
      BY <1>2, <3>2
  <2>3. CASE s = s0 /\ d = c
    <3>1. /\ Slots(rates.pps, s0)[c] \in Slot /\ now \in Nat
          /\ a >= Window /\ a <= now /\ now <= a + 1
      BY <1>1, RateSlots, ClockNumbers
    <3>2. accepted[<<s0, c>>] \in [Moments(now) -> Nat]
      BY <1>1 DEF CountsOK
    <3>3. \/ accepted'[<<s0, c>>] = accepted[<<s0, c>>]
          \/ /\ accepted'[<<s0, c>>] = OneMore(accepted[<<s0, c>>], a)
             /\ next.packets <= Limit("pps")
      <4>1. CASE Stops(c)
        BY <1>4, <4>1
      <4>2. CASE ~Stops(c)
        <5>1. next.packets <= Limit("pps")
          BY <1>8, <4>2, WithinLimits DEF CheckRate
        <5>2. <<s0, c>> \in DOMAIN accepted
          BY <1>1 DEF CountsOK
        <5> QED
          BY <1>4, <4>2, <5>1, <5>2
      <4> QED
        BY <4>1, <4>2
    <3> DEFINE f == accepted[<<s0, c>>]
               g == accepted'[<<s0, c>>]
               slot == Slots(rates.pps, s0)[c]
               max == Limit("pps")
               len == frame[c].pkt.len
    <3>4. /\ Spends(f, slot, max, a) /\ max \in Nat \ {0} /\ slot \in Slot
          /\ len \in Nat /\ f \in [Moments(now) -> Nat] /\ a \in Nat
          /\ frame[c].now_ns = a /\ now \in Nat
          /\ a >= Window /\ a <= now /\ now <= a + 1
          /\ \/ g = f
             \/ g = OneMore(f, a) /\ Advance(c, slot, len).packets <= max
      <4>1. Spends(f, slot, max, a) /\ max \in Nat \ {0}
        BY <1>1, <2>1, <2>3
      <4>2. slot \in Slot /\ len \in Nat /\ f \in [Moments(now) -> Nat]
        BY <1>1, <3>1, <3>2
      <4>3. /\ a \in Nat /\ frame[c].now_ns = a /\ now \in Nat
            /\ a >= Window /\ a <= now /\ now <= a + 1
        BY <1>1, <3>1
      <4>4. \/ g = f
            \/ g = OneMore(f, a) /\ Advance(c, slot, len).packets <= max
        BY <3>3
      <4> QED
        BY <4>1, <4>2, <4>3, <4>4
    <3> HIDE DEF f, g, slot, max, len, a
    <3>5. Spends(g, Advance(c, slot, len), max, a)
      BY <3>4, SpendsFrame
    <3> QED
      BY <1>1, <2>2, <2>3, <3>5 DEF f, g, slot, max, len, a
  <2>4. CASE ~(s = s0 /\ d = c)
    <3>1. accepted'[<<s, d>>] = accepted[<<s, d>>]
      BY <1>4, <2>4
    <3> QED
      BY <2>1, <2>2, <2>4, <3>1
  <2> QED
    BY <2>3, <2>4
<1>9. ASSUME ListingInv, Limited("new_src"), NEW d \in CPU
      PROVE  Spends(ListedSoon(d)', newSrc'[d], Limit("new_src"), Clock(d))
  <2>1. /\ Limit("new_src") \in Nat \ {0}
        /\ Spends(ListedSoon(d), newSrc[d], Limit("new_src"), Clock(d))
        /\ newSrc[d] \in Slot /\ Clock(d) \in Nat /\ now \in Nat
        /\ listed[d] \in [Moments(now) -> Nat]
    BY <1>9, LimitIsHighest, ClockNumbers DEF ListingInv, TypeOK, CountsOK
  <2>2. CASE d = c
    <3>1. ListedSoon(c)' = listed'[c]
      BY <1>1, <1>7 DEF ListedSoon
    <3>2. c \in DOMAIN listed
      BY <1>1 DEF CountsOK
    <3>3. listed'[c] = ListedSoon(c)
      BY <1>1, <1>4, <3>2 DEF ListedSoon, Pending
    <3> QED
      BY <1>2, <2>1, <2>2, <3>1, <3>3
  <2>3. CASE d # c
    <3>1. listed'[d] = listed[d]
      BY <1>4, <2>3
    <3>2. Pending(d)' => frame'[d] = frame[d]
      BY <1>3, <2>3 DEF Pending
    <3>3. ListedSoon(d)' = ListedSoon(d) \/ ListedSoon(d)' = listed[d]
      BY <1>7, <3>1, <3>2 DEF ListedSoon
    <3>4. Pending(d) => ListedSoon(d) = OneMore(listed[d], Clock(d))
      BY DEF ListedSoon, Clock, Pending
    <3>5. Spends(listed[d], newSrc[d], Limit("new_src"), Clock(d))
      <4>1. CASE Pending(d)
        BY <2>1, <3>4, <4>1, SpendsLess
      <4>2. CASE ~Pending(d)
        BY <2>1, <4>2 DEF ListedSoon
      <4> QED
        BY <4>1, <4>2
    <3> QED
      BY <1>2, <2>1, <3>3, <3>5
  <2> QED
    BY <2>2, <2>3
<1>10. AcceptInv => AcceptInv'
  <2>1. \A f, slot, max, b : Spends(f, slot, max, b)' = Spends(f, slot, max, b)
    BY <1>5 DEF Spends
  <2> QED
    BY <1>2, <1>5, <1>7, <1>8 DEF AcceptInv, Spends, Slots, Lookup
<1>11. ListingInv => ListingInv'
  BY <1>2, <1>5, <1>7, <1>9 DEF ListingInv, Spends
<1> QED
  BY <1>6, <1>10, <1>11 DEF BudgetKept

\* The stage of the new-source limit counts the source that the next stage is
\* to list, if it lets it on.
LEMMA BudgetNewSrc ==
    ASSUME TypeOK, TimesOK, CountsOK, NEW c \in DOMAIN frame,
           frame[c].at = "new_src", Judge(c),
           UNCHANGED <<accepted, listed>>
    PROVE  BudgetKept
<1> DEFINE a == frame[c].now_ns
<1>1. c \in CPU /\ a \in Nat /\ a = Clock(c)
  BY FrameFields DEF Clock
<1>2. /\ UNCHANGED <<now, rates>>
      /\ newSrc' = IF Unlisted(c) THEN [newSrc EXCEPT ![c] = Advance(c, @, 0)]
                                  ELSE newSrc
  <2>1. now' = now /\ newSrc' = NewSrcAfter(c) /\ rates' = RatesAfter(c)
    BY DEF Judge
  <2>2. rates' = rates
    BY <2>1 DEF RatesAfter, RateMap
  <2> QED
    BY <2>1, <2>2 DEF NewSrcAfter
<1>3. /\ DOMAIN frame' = DOMAIN frame
      /\ \A d \in DOMAIN frame : d # c => frame'[d] = frame[d]
      /\ frame'[c].pkt = frame[c].pkt /\ frame'[c].now_ns = a
      /\ frame'[c].at = "pps" => ~Stops(c)
      /\ ~Stops(c) => frame'[c].at = "pps"
  <2>1. "new_src" # "banned" /\ Onward(c) = Following(frame[c].pkt, "new_src")
    BY DEF Onward
  <2>2. Onward(c) = "pps"
    BY <2>1, PpsNext
  <2> QED
    BY <2>2, JudgeMoves
<1>4. Moments(now)' = Moments(now)
  BY <1>2 DEF Moments
<1>5. CountsOK'
  BY <1>2, <1>4 DEF CountsOK
<1>6. ASSUME NEW d \in CPU
      PROVE  /\ Clock(d)' = Clock(d)
             /\ d # c => ListedSoon(d)' = ListedSoon(d)
  <2>1. Clock(d)' = Clock(d)
    BY <1>2, <1>3 DEF Clock
  <2>2. d # c => Pending(d)' = Pending(d)
    BY <1>2, <1>3 DEF Pending, Unlisted, SrcOf
  <2>3. d # c /\ Pending(d) => frame'[d] = frame[d]
    BY <1>3 DEF Pending
  <2>4. ASSUME d # c PROVE ListedSoon(d)' = ListedSoon(d)
    <3>1. CASE Pending(d)
      BY <2>2, <2>3, <2>4, <3>1 DEF ListedSoon
    <3>2. CASE ~Pending(d)
      BY <2>2, <2>4, <3>2 DEF ListedSoon
    <3> QED
      BY <3>1, <3>2
  <2> QED
    BY <2>1, <2>4
<1>7. /\ ListedSoon(c) = listed[c]
      /\ ListedSoon(c)' = IF ~Stops(c) /\ Unlisted(c)
                          THEN OneMore(listed[c], a) ELSE listed[c]
  <2>1. ~Pending(c)
    BY DEF Pending
  <2>2. Unlisted(c)' = Unlisted(c)
    BY <1>2, <1>3 DEF Unlisted, SrcOf
  <2>3. Pending(c)' = (~Stops(c) /\ Unlisted(c))
    BY <1>3, <2>2 DEF Pending
  <2> QED
    BY <1>3, <2>1, <2>3 DEF ListedSoon
<1>8. ASSUME ListingInv, Limited("new_src"), NEW d \in CPU
      PROVE  Spends(ListedSoon(d)', newSrc'[d], Limit("new_src"), Clock(d))
  <2>1. /\ Limit("new_src") \in Nat \ {0}
        /\ Spends(ListedSoon(d), newSrc[d], Limit("new_src"), Clock(d))
    BY <1>8, LimitIsHighest DEF ListingInv
  <2>2. newSrc[d] \in Slot /\ newSrc \in [CPU -> Slot]
    BY DEF TypeOK
  <2>3. CASE d # c
    <3>1. newSrc'[d] = newSrc[d]
      BY <1>2, <2>2, <2>3
    <3> QED
      BY <1>6, <2>1, <2>3, <3>1
  <2>4. CASE d = c /\ ~Unlisted(c)
    <3>1. newSrc'[d] = newSrc[d] /\ ListedSoon(d)' = ListedSoon(d)
      BY <1>2, <1>7, <2>4
    <3> QED
      BY <2>1, <3>1
  <2>5. CASE d = c /\ Unlisted(c)
    <3> DEFINE f == listed[c]
               g == ListedSoon(c)'
               slot == newSrc[c]
               max == Limit("new_src")
    <3>1. Spends(f, slot, max, a) /\ max \in Nat \ {0}
      BY <1>1, <1>7, <2>1, <2>5
    <3>2. slot \in Slot /\ f \in [Moments(now) -> Nat]
      BY <1>1, <2>2 DEF CountsOK
    <3>3. /\ a \in Nat /\ frame[c].now_ns = a /\ now \in Nat
          /\ a >= Window /\ a <= now /\ now <= a + 1
      BY <1>1, ClockNumbers
    <3>4. \/ g = f
          \/ g = OneMore(f, a) /\ Advance(c, slot, 0).packets <= max
      <4>1. CASE Stops(c)
        BY <1>7, <4>1
      <4>2. CASE ~Stops(c)
        <5>1. Advance(c, newSrc[c], 0).packets <= Limit("new_src")
          BY <1>8, <2>5, <4>2, WithinLimits
        <5> QED
          BY <1>7, <2>5, <4>2, <5>1
      <4> QED
        BY <4>1, <4>2
    <3>5. newSrc'[c] = Advance(c, slot, 0)
      BY <1>1, <1>2, <2>2, <2>5
    <3> HIDE DEF f, g, slot, max, a
    <3>6. Spends(g, Advance(c, slot, 0), max, a)
      BY <3>1, <3>2, <3>3, <3>4, SpendsFrame
    <3> QED
      BY <1>1, <2>5, <3>5, <3>6 DEF g, max
  <2> QED
    BY <2>3, <2>4, <2>5
<1>9. ListingInv => ListingInv'
  BY <1>2, <1>4, <1>6, <1>8 DEF ListingInv, Spends
<1>10. AcceptInv => AcceptInv'
  BY <1>2, <1>4, <1>6 DEF AcceptInv, Spends, Slots, Lookup
<1> QED
  BY <1>5, <1>9, <1>10 DEF BudgetKept

\* Any step of the data plane, while the rate maps keep their entries.
LEMMA BudgetStep ==
    ASSUME "rates" \notin Reclaimable, TypeOK, TimesOK, CountsOK,
           [BudgetNext]_bvars
    PROVE  BudgetKept
<1>1. /\ now \in Nat
      /\ \A c \in CPU : Clock(c) \in Nat /\ Clock(c) <= now
  BY ClockNumbers DEF TypeOK
<1>2. ASSUME NEW c \in DOMAIN frame, Program(c), CountFrame(c)
      PROVE  BudgetKept
  <2>1. CASE Judge(c) /\ frame[c].at = "pps"
    BY <1>2, <2>1, BudgetPps
  <2>2. CASE Judge(c) /\ frame[c].at = "new_src"
    <3>1. UNCHANGED <<accepted, listed>>
      BY <1>2, <2>2 DEF CountFrame
    <3> QED
      BY <2>2, <3>1, BudgetNewSrc
  <2>3. CASE ~(Judge(c) /\ frame[c].at \in {"pps", "new_src"})
    <3>1. frame[c].at # "pps"
      <4>1. "pps" \notin {"unban", "throttle", "stamp", "reserve", "auto_ban",
                          "verdict"}
        OBVIOUS
      <4> QED
        BY <1>2, <2>3, <4>1 DEF Program, Unban, CheckThrottle, Stamp, Reserve,
                                AutoBan, Verdict
    <3>2. UNCHANGED <<accepted, listed>>
      BY <1>2, <3>1 DEF CountFrame
    <3>3. newSrc' = newSrc /\ rates'.pps = rates.pps
      <4>1. CASE Judge(c)
        <5>1. newSrc' = newSrc
          BY <2>3, <4>1 DEF Judge, NewSrcAfter
        <5>2. rates' = RatesAfter(c)
          BY <4>1 DEF Judge
        <5>3. rates'.pps = rates.pps
          BY <3>1, <5>2 DEF RatesAfter
        <5> QED
          BY <5>1, <5>3
      <4>2. CASE ~Judge(c)
        BY <1>2, <4>2 DEF Program, Unban, CheckThrottle, Stamp, Reserve,
                          AutoBan, Verdict
      <4> QED
        BY <4>1, <4>2
    <3>4. c \in DOMAIN frame' => frame'[c].at # "pps"
      <4>1. CASE Judge(c)
        <5>1. Onward(c) # "pps" /\ frame[c].at \in Judged
          BY <2>3, <4>1, PpsBefore DEF Judge
        <5> QED
          BY <4>1, <5>1, JudgeMoves
      <4>2. CASE Unban(c)
        <5>1. Following(frame[c].pkt, "banned") # "pps"
          BY <4>2, PpsBefore DEF Unban
        <5> QED
          BY <4>2, <5>1, FrameFields DEF Unban, Goto, Frame
      <4>3. CASE CheckThrottle(c) \/ Stamp(c) \/ Reserve(c) \/ AutoBan(c)
        BY <4>3, FrameFields DEF CheckThrottle, Stamp, Reserve, AutoBan, Goto,
                                 AfterReport, Frame
      <4>4. CASE Verdict(c)
        BY <4>4, VerdictMoves
      <4> QED
        BY <1>2, <4>1, <4>2, <4>3, <4>4 DEF Program
    <3>5. ASSUME NEW d \in CPU
          PROVE  /\ Clock(d)' \in Nat /\ Clock(d) <= Clock(d)'
                 /\ Pending(d)' => Pending(d)
                                   /\ frame'[d].now_ns = frame[d].now_ns
      <4>1. /\ now' = now /\ DOMAIN frame' \subseteq DOMAIN frame
            /\ \A e \in DOMAIN frame : e # c => e \in DOMAIN frame'
                                                /\ frame'[e] = frame[e]
            /\ c \in DOMAIN frame' => frame'[c].now_ns = frame[c].now_ns
        BY <1>2, ProgramMoves
      <4>2. Clock(d)' = Clock(d) \/ Clock(d)' = now
        BY <4>1 DEF Clock
      <4>3. Pending(d)' => /\ d # c /\ d \in DOMAIN frame
                           /\ frame'[d] = frame[d]
        BY <3>4, <4>1 DEF Pending
      <4>4. Pending(d)' => Pending(d)
        BY <3>3, <4>3 DEF Pending, Unlisted, SrcOf
      <4> QED
        BY <1>1, <4>2, <4>3, <4>4
    <3>6. now' = now
      BY <1>2, ProgramMoves
    <3> QED
      BY <3>2, <3>3, <3>5, <3>6, BudgetQuiet
  <2> QED
    BY <2>1, <2>2, <2>3
<1>3. ASSUME NEW c \in CPU, NEW p \in Packets, Arrive(c, p),
             UNCHANGED <<accepted, listed>>
      PROVE  BudgetKept
  <2>1. now' = now /\ newSrc' = newSrc /\ rates' = rates
    BY <1>3 DEF Arrive
  <2>2. /\ DOMAIN frame' = DOMAIN frame \cup {c} /\ c \notin DOMAIN frame
        /\ \A d \in DOMAIN frame : d # c => frame'[d] = frame[d]
        /\ frame'[c].now_ns = now /\ frame'[c].at # "pps"
    BY <1>3, ArriveMoves
  <2>3. ASSUME NEW d \in CPU
        PROVE  /\ Clock(d)' \in Nat /\ Clock(d) <= Clock(d)'
               /\ Pending(d)' => Pending(d)
                                 /\ frame'[d].now_ns = frame[d].now_ns
    <3>1. Clock(d)' = Clock(d)
      BY <2>1, <2>2 DEF Clock
    <3>2. Pending(d)' => d \in DOMAIN frame /\ frame'[d] = frame[d]
      BY <2>2 DEF Pending
    <3>3. Pending(d)' => Pending(d)
      BY <2>1, <3>2 DEF Pending, Unlisted, SrcOf
    <3> QED
      BY <1>1, <3>1, <3>2, <3>3
  <2> QED
    BY <1>3, <2>1, <2>3, BudgetQuiet
<1>4. ASSUME Write \/ ReadRing \/ Reclaim \/ UNCHANGED vars,
             UNCHANGED <<accepted, listed>>
      PROVE  BudgetKept
  <2>1. UNCHANGED <<now, frame, newSrc, rates>>
    BY <1>4, Elsewhere DEF ReadRing, vars
  <2>2. \A d \in CPU : Clock(d)' = Clock(d) /\ Pending(d)' = Pending(d)
    BY <2>1 DEF Clock, Pending, Unlisted, SrcOf
  <2> QED
    BY <1>1, <1>4, <2>1, <2>2, BudgetQuiet
<1> QED
  BY <1>2, <1>3, <1>4, BudgetTick DEF BudgetNext, bvars

\* The budget's own state is beside the data plane's, whose invariants hold.
LEMMA BudgetTypes == BudgetSpec => [](TypeOK /\ TimesOK)
<1>1. BudgetInit => Init
  BY DEF BudgetInit
<1>2. [BudgetNext]_bvars => [Next]_vars
  BY DEF BudgetNext, bvars, Next
<1>3. BudgetSpec => Spec
  BY <1>1, <1>2, PTL DEF BudgetSpec, Spec
<1>4. Spec => []TimesOK
  BY TimesStart, TimesStep, TypeCorrect, PTL DEF Spec
<1> QED
  BY <1>3, <1>4, TypeCorrect, PTL

----------------------------------------------------------------------------
\* A source gets at most two windows' worth but one frame through a CPU in
\* any second, with other CPUs, the daemon and the clock between the stages of
\* its frames, while the rate maps keep their entries: a map that loses the
\* source's starts its window anew.
THEOREM AcceptsBounded ==
    ASSUME "rates" \notin Reclaimable
    PROVE  BudgetSpec => []AcceptBudget
<1>1. TypeOK /\ CountsOK /\ AcceptInv => AcceptBudget
  <2> SUFFICES ASSUME TypeOK, CountsOK, AcceptInv, Limited("pps"),
                      NEW s \in Src, NEW c \in CPU, NEW t \in Moments(now)
               PROVE  accepted[<<s, c>>][t] <= 2 * Limit("pps") - 1
    BY DEF AcceptBudget
  <2>1. accepted[<<s, c>>] \in [Moments(now) -> Nat]
    BY DEF CountsOK
  <2> QED
    BY <2>1, SpendsTwice, LimitIsHighest, RateSlots DEF AcceptInv
<1>2. BudgetInit => CountsOK /\ AcceptInv
  BY BudgetStart
<1>3. TypeOK /\ TimesOK /\ CountsOK /\ AcceptInv /\ [BudgetNext]_bvars
         => CountsOK' /\ AcceptInv'
  BY BudgetStep DEF BudgetKept
<1> QED
  BY <1>1, <1>2, <1>3, BudgetTypes, PTL DEF BudgetSpec

\* A flood of new sources lists at most two windows' worth but one of them on
\* a CPU in any second, though a stage counts them and the next one lists
\* them; a source the map loses between the two is listed uncounted.
THEOREM ListingsBounded ==
    ASSUME "rates" \notin Reclaimable
    PROVE  BudgetSpec => []ListingBudget
<1>1. TypeOK /\ TimesOK /\ CountsOK /\ ListingInv => ListingBudget
  <2> SUFFICES ASSUME TypeOK, TimesOK, CountsOK, ListingInv, Limited("new_src"),
                      NEW c \in CPU, NEW t \in Moments(now)
               PROVE  listed[c][t] <= 2 * Limit("new_src") - 1
    BY DEF ListingBudget
  <2>1. /\ Limit("new_src") \in Nat \ {0} /\ newSrc[c] \in Slot
        /\ listed[c] \in [Moments(now) -> Nat]
        /\ now \in Nat /\ Clock(c) \in Nat
        /\ Spends(ListedSoon(c), newSrc[c], Limit("new_src"), Clock(c))
    BY LimitIsHighest, ClockNumbers DEF ListingInv, CountsOK, TypeOK
  <2>2. Spends(listed[c], newSrc[c], Limit("new_src"), Clock(c))
    <3>1. CASE Pending(c)
      <4>1. ListedSoon(c) = OneMore(listed[c], Clock(c))
        BY <3>1 DEF ListedSoon, Clock, Pending
      <4> QED
        BY <2>1, <4>1, SpendsLess
    <3>2. CASE ~Pending(c)
      BY <2>1, <3>2 DEF ListedSoon
    <3> QED
      BY <3>1, <3>2
  <2> QED
    BY <2>1, <2>2, SpendsTwice
<1>2. BudgetInit => CountsOK /\ ListingInv
  BY BudgetStart
<1>3. TypeOK /\ TimesOK /\ CountsOK /\ ListingInv /\ [BudgetNext]_bvars
         => CountsOK' /\ ListingInv'
  BY BudgetStep DEF BudgetKept
<1> QED
  BY <1>1, <1>2, <1>3, BudgetTypes, PTL DEF BudgetSpec
=============================================================================
