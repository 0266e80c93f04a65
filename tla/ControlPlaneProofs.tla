------------------------- MODULE ControlPlaneProofs -------------------------
(***************************************************************************)
(* The invariants of ControlPlane for any configuration files, loads and   *)
(* dynamic limits.  The actions are those of the monitor (M), the watcher  *)
(* and the dashboard; a step of the proof that an invariant is kept covers *)
(* the actions that change what its part of the invariant reads.           *)
(***************************************************************************)
EXTENDS ControlPlane, BpfMapProofs

\* The seconds counters stay natural numbers and keep their order.
LEMMA LaterMonotone ==
    ASSUME NEW a \in Nat, NEW b \in Nat, a <= b
    PROVE  Later(a) \in Nat /\ Later(b) \in Nat /\ Later(a) <= Later(b)
  BY NumbersAssumption DEF Later

\* The limits are natural numbers.
LEMMA LimitsNat == Limits \subseteq Nat
  BY FilesAssumption, NumbersAssumption DEF Limits, FilePps, File

\* The two states that a check leaves the monitor in.
LEMMA RestFact ==
    ASSUME mon \in MonitorState
    PROVE  /\ Rest(mon) \in MonitorState /\ Rest(mon).pc = "idle"
           /\ QuietMove \in MonitorState /\ QuietMove.pc = "set"
           /\ ~QuietMove.want
  BY DEF Rest, QuietMove, MonitorState

\* A put that succeeds or fails leaves a map of limits; a full map keeps its
\* ports, and a port that has a rule afterwards has the new one.
LEMMA RulesAfterFact ==
    ASSUME IsMap(kernelRules, Ports, Nat), NEW p \in Ports, NEW limit \in Nat
    PROVE  LET after == RulesAfter(p, limit)
           IN  /\ IsMap(after, Ports, Nat)
               /\ Full => DOMAIN after = DOMAIN kernelRules
               /\ p \in DOMAIN after => after[p] = limit
               /\ p \notin DOMAIN after => Full
               /\ DOMAIN kernelRules \subseteq DOMAIN after
               /\ \A x \in DOMAIN after \ {p} : x \in DOMAIN kernelRules
                                                /\ after[x] = kernelRules[x]
<1>1. CASE p \notin DOMAIN kernelRules /\ Full
  BY <1>1 DEF RulesAfter
<1>2. CASE ~(p \notin DOMAIN kernelRules /\ Full)
  <2>1. RulesAfter(p, limit) = Put(kernelRules, p, limit)
    BY <1>2 DEF RulesAfter
  <2> QED
    BY <2>1, <1>2 DEF IsMap, Put
<1> QED
  BY <1>1, <1>2

----------------------------------------------------------------------------
\* The configuration, the locks and the monitor's flags keep their types, and
\* no limit is ever in force that neither a file nor an attack gave.
THEOREM TypeCorrect == Spec => []TypeOK
<1>1. Init => TypeOK
  <2> SUFFICES ASSUME Init PROVE TypeOK
    OBVIOUS
  <2>1. PICK f \in Files : fwCfg = f /\ kernelCfg = Render(f)
                          /\ least = f.cooldown
                          /\ \E P \in SUBSET DOMAIN f.rules :
                                kernelRules = [p \in P |-> f.rules[p]]
    BY DEF Init
  <2>2. f \in File /\ f.pps \in Limits /\ IsMap(f.rules, Ports, Nat)
    BY FilesAssumption DEF Limits, FilePps, File
  <2>3. IsMap(kernelRules, Ports, Nat)
    BY <2>1, <2>2 DEF IsMap
  <2>4. /\ fwCfg \in File /\ fwCfg.pps \in Limits /\ least \in Nat
        /\ kernelCfg \in [pps : Limits, blackhole : BOOLEAN]
    BY <2>1, <2>2 DEF Render, File
  <2>5. mon \in MonitorState /\ auto \in AutoState
    BY DEF Init, MonitorState, AutoState
  <2>6. /\ reload.pc \in {"idle", "pushing", "rules", "putting"}
        /\ reload = [pc |-> reload.pc, rules |-> reload.rules]
        /\ IsMap(reload.rules, Ports, Nat)
    BY EmptyIsMap DEF Init
  <2> QED
    BY <2>3, <2>4, <2>5, <2>6 DEF Init, TypeOK
<1>2. TypeOK /\ [Next]_vars => TypeOK'
  <2> SUFFICES ASSUME TypeOK, [Next]_vars PROVE TypeOK'
    OBVIOUS
  <2> USE DEF TypeOK
  <2>1. CASE Sample
    <3>1. mon' \in MonitorState /\ anomaly' \in {"normal", "attack"}
      BY <2>1, NumbersAssumption DEF Sample, MonitorState
    <3>2. auto' \in AutoState /\ quiet' \in Nat
      BY <2>1, LaterMonotone DEF Sample, AutoState
    <3> QED
      BY <2>1, <3>1, <3>2 DEF Sample
  <2>2. CASE SkipSample
    BY <2>2, LaterMonotone DEF SkipSample, AutoState
  <2>3. CASE NoChange
    BY <2>3 DEF NoChange, MonitorState
  <2>4. CASE AttackEnds
    <3>1. fwCfg' \in File /\ fwCfg'.pps \in Limits
      BY <2>4, LimitsNat DEF AttackEnds, Restored, File
    <3>2. mon' \in MonitorState
      BY <2>4 DEF AttackEnds, MonitorState
    <3>3. /\ dyn' \in [active : BOOLEAN, original : Limits \cup {0}]
          /\ dyn'.active => dyn'.original \in Limits
      BY <2>4 DEF AttackEnds
    <3> QED
      BY <2>4, <3>1, <3>2, <3>3 DEF AttackEnds
  <2>5. CASE AttackBegins
    <3>1. fwCfg' \in File /\ fwCfg'.pps \in Limits
      BY <2>5, NumbersAssumption DEF AttackBegins, File, Limits
    <3>2. mon' \in MonitorState
      BY <2>5 DEF AttackBegins, MonitorState
    <3>3. /\ dyn' \in [active : BOOLEAN, original : Limits \cup {0}]
          /\ dyn'.active => dyn'.original \in Limits
      <4>1. dyn' = dyn \/ dyn' = [active |-> TRUE, original |-> fwCfg.pps]
        BY <2>5 DEF AttackBegins
      <4>2. /\ dyn \in [active : BOOLEAN, original : Limits \cup {0}]
            /\ dyn.active => dyn.original \in Limits
            /\ fwCfg.pps \in Limits
        OBVIOUS
      <4> HIDE DEF TypeOK
      <4>3. CASE dyn' = dyn
        BY <4>2, <4>3
      <4>4. CASE dyn' = [active |-> TRUE, original |-> fwCfg.pps]
        BY <4>2, <4>4
      <4> QED
        BY <4>1, <4>3, <4>4
    <3> QED
      BY <2>5, <3>1, <3>2, <3>3 DEF AttackBegins
  <2>6. CASE PushAdjusted
    BY <2>6 DEF PushAdjusted, Render, File, MonitorState
  <2>7. CASE CheckNothing
    BY <2>7, RestFact DEF CheckNothing
  <2>19. CASE ReadEnabled
    <3>1. mon' \in MonitorState
      BY <2>19, RestFact DEF ReadEnabled, MonitorState
    <3>2. least' \in Nat
      BY <2>19 DEF ReadEnabled, File
    <3> QED
      BY <2>19, <3>1, <3>2 DEF ReadEnabled
  <2>20. CASE ReadTrigger
    <3>1. Flood \in BOOLEAN
      BY DEF Flood
    <3>2. mon' \in MonitorState
      BY <2>20, <3>1 DEF ReadTrigger, MonitorState
    <3> QED
      BY <2>20, <3>2 DEF ReadTrigger
  <2>21. CASE ReadCooldown
    <3>1. mon' \in MonitorState
      BY <2>21 DEF ReadCooldown, MonitorState, File
    <3> QED
      BY <2>21, <3>1 DEF ReadCooldown
  <2>8. CASE CheckFlood
    <3>1. auto' \in AutoState
      BY <2>8 DEF CheckFlood, FloodFlags, AutoState
    <3>2. mon' \in MonitorState
      BY <2>8, RestFact DEF CheckFlood, MonitorState
    <3> QED
      BY <2>8, <3>1, <3>2 DEF CheckFlood
  <2>9. CASE CheckQuiet
    <3>1. auto' \in AutoState
      <4>1. CoolingSince \in Nat
        BY DEF CoolingSince, AutoState
      <4>2. \/ auto' = [auto EXCEPT !.active = FALSE, !.belowSet = FALSE]
            \/ auto' = [auto EXCEPT !.belowSet = TRUE, !.elapsed = CoolingSince]
        BY <2>9 DEF CheckQuiet
      <4> QED
        BY <4>1, <4>2 DEF AutoState
    <3>2. mon' \in MonitorState
      BY <2>9, RestFact DEF CheckQuiet
    <3> QED
      BY <2>9, <3>1, <3>2 DEF CheckQuiet
  <2>10. CASE MonitorSets
    BY <2>10 DEF MonitorSets, File, MonitorState
  <2>11. CASE MonitorPushes
    BY <2>11, RestFact DEF MonitorPushes, Render, File
  <2>12. ASSUME NEW f \in Files, SwapConfig(f) PROVE TypeOK'
    <3>1. f \in File /\ f.pps \in Limits
      BY FilesAssumption DEF Limits, FilePps
    <3>2. least' \in Nat
      BY <2>12, <3>1 DEF SwapConfig, File
    <3> QED
      BY <2>12, <3>1, <3>2 DEF SwapConfig
  <2>13. CASE ReloadPushes
    BY <2>13 DEF ReloadPushes, Render, File
  <2>14. CASE TakeRules
    <3>1. IsMap(fwCfg.rules, Ports, Nat)
      BY FilesAssumption DEF File
    <3> QED
      BY <2>14, <3>1 DEF TakeRules
  <2>22. ASSUME NEW p \in Ports, PutRule(p) PROVE TypeOK'
    <3>1. reload.rules[p] \in Nat
      BY <2>22 DEF PutRule, IsMap
    <3>2. IsMap(kernelRules', Ports, Nat)
      BY <2>22, <3>1, RulesAfterFact DEF PutRule
    <3>3. /\ reload'.pc = reload.pc /\ reload'.rules = Del(reload.rules, p)
          /\ reload' = [pc |-> reload'.pc, rules |-> reload'.rules]
      BY <2>22 DEF PutRule
    <3>4. IsMap(reload'.rules, Ports, Nat)
      BY <3>3 DEF IsMap, Del
    <3> QED
      BY <2>22, <3>2, <3>3, <3>4 DEF PutRule
  <2>23. CASE EndRules
    BY <2>23 DEF EndRules
  <2>15. CASE Press
    BY <2>15 DEF Press, File
  <2>16. CASE TuiSets
    BY <2>16 DEF TuiSets, File
  <2>17. CASE TuiPushes
    BY <2>17 DEF TuiPushes, Render, File
  <2>18. CASE UNCHANGED vars
    BY <2>18 DEF vars
  <2> QED
    BY <2>1, <2>2, <2>3, <2>4, <2>5, <2>6, <2>7, <2>8, <2>9, <2>10, <2>11,
       <2>12, <2>13, <2>14, <2>15, <2>16, <2>17, <2>18, <2>19, <2>20, <2>21,
       <2>22, <2>23 DEF Next, Monitor, Reload, Tui
<1> QED
  BY <1>1, <1>2, PTL DEF Spec

----------------------------------------------------------------------------
\* cfgMu excludes: whoever has changed fw.cfg and not pushed it yet holds it.
SyncInv ==
    /\ mu = "monitor" <=> mon.pc \in {"adjusted", "pushing"}
    /\ mu = "reload" <=> reload.pc = "pushing"
    /\ mu = "tui" <=> tui.pc = "pushing"
    /\ KernelInSync

\* Whatever the goroutines do in whatever order, config_map has what fw.cfg
\* has whenever no section of cfgMu is open.
THEOREM KernelFollows == Spec => []KernelInSync
<1>1. Init => SyncInv
  BY DEF Init, SyncInv, KernelInSync, Free
<1>2. TypeOK /\ SyncInv /\ [Next]_vars => SyncInv'
  <2> SUFFICES ASSUME TypeOK, SyncInv, [Next]_vars PROVE SyncInv'
    OBVIOUS
  <2>0. /\ mon \in MonitorState
        /\ tui \in [pc : {"idle", "set", "pushing"}, want : BOOLEAN]
        /\ mu \in {"free", "monitor", "reload", "tui"}
        /\ reload = [pc |-> reload.pc, rules |-> reload.rules]
    BY DEF TypeOK
  <2> USE <2>0 DEF SyncInv, KernelInSync, Free, MonitorState
  <2>1. CASE Sample \/ SkipSample \/ NoChange
    BY <2>1 DEF Sample, SkipSample, NoChange
  <2>2. CASE AttackEnds
    BY <2>2 DEF AttackEnds
  <2>3. CASE AttackBegins
    BY <2>3 DEF AttackBegins
  <2>4. CASE PushAdjusted
    BY <2>4 DEF PushAdjusted
  <2>5. CASE CheckNothing \/ CheckFlood \/ CheckQuiet
    BY <2>5 DEF CheckNothing, CheckFlood, CheckQuiet, QuietMove, Rest
  <2>13. CASE ReadEnabled \/ ReadTrigger \/ ReadCooldown
    BY <2>13 DEF ReadEnabled, ReadTrigger, ReadCooldown, Rest
  <2>6. CASE MonitorSets
    BY <2>6 DEF MonitorSets
  <2>7. CASE MonitorPushes
    BY <2>7 DEF MonitorPushes, Rest
  <2>8. ASSUME NEW f \in Files, SwapConfig(f) PROVE SyncInv'
    BY <2>8 DEF SwapConfig
  <2>9. CASE ReloadPushes \/ TakeRules \/ EndRules
    BY <2>9 DEF ReloadPushes, TakeRules, EndRules
  <2>14. ASSUME NEW p \in Ports, PutRule(p) PROVE SyncInv'
    BY <2>14 DEF PutRule
  <2>10. CASE Press \/ TuiSets
    BY <2>10 DEF Press, TuiSets
  <2>11. CASE TuiPushes
    BY <2>11 DEF TuiPushes
  <2>12. CASE UNCHANGED vars
    BY <2>12 DEF vars
  <2> QED
    BY <2>1, <2>2, <2>3, <2>4, <2>5, <2>6, <2>7, <2>8, <2>9, <2>10, <2>11,
       <2>12, <2>13, <2>14 DEF Next, Monitor, Reload, Tui
<1>3. SyncInv => KernelInSync
  BY DEF SyncInv
<1> QED
  BY <1>1, <1>2, <1>3, TypeCorrect, PTL DEF Spec

----------------------------------------------------------------------------
\* A limit that no file gave is a dynamic one, with the limit of a file saved
\* to return to, and the attack it is for is not over or just noticed as over.
DynamicInv ==
    /\ fwCfg.pps \notin FilePps => dyn.active
    /\ dyn.active => dyn.original \in FilePps
    /\ dyn.active /\ mon.pc = "adjust" => mon.old = "attack"
    /\ dyn.active /\ mon.pc # "adjust" => anomaly = "attack"

\* The dynamic limit ends with its attack and is never taken for the limit to
\* return to, whatever reloads happen during the attack.
THEOREM DynamicEnds == Spec => []DynamicLimitEnds
<1>1. Init => DynamicInv
  BY DEF Init, DynamicInv, FilePps
<1>2. TypeOK /\ DynamicInv /\ [Next]_vars => DynamicInv'
  <2> SUFFICES ASSUME TypeOK, DynamicInv, [Next]_vars PROVE DynamicInv'
    OBVIOUS
  <2>0. /\ mon \in MonitorState
        /\ fwCfg \in File
        /\ dyn \in [active : BOOLEAN, original : Limits \cup {0}]
        /\ anomaly \in {"normal", "attack"}
    BY DEF TypeOK
  <2> USE <2>0 DEF DynamicInv, MonitorState, File
  <2>1. CASE Sample
    BY <2>1 DEF Sample
  <2>2. CASE SkipSample \/ NoChange
    BY <2>2 DEF SkipSample, NoChange
  <2>3. CASE AttackEnds
    BY <2>3 DEF AttackEnds, Restored
  <2>4. CASE AttackBegins
    <3>1. CASE dyn' = dyn /\ fwCfg' = fwCfg
      BY <2>4, <3>1 DEF AttackBegins
    <3>2. CASE ~dyn.active /\ dyn' = [active |-> TRUE, original |-> fwCfg.pps]
      BY <2>4, <3>2 DEF AttackBegins
    <3> QED
      BY <2>4, <3>1, <3>2 DEF AttackBegins
  <2>5. CASE PushAdjusted \/ CheckNothing \/ CheckFlood \/ CheckQuiet
    <3>1. mon.pc # "adjust" /\ mon'.pc # "adjust"
      BY <2>5, RestFact DEF PushAdjusted, CheckNothing, CheckFlood, CheckQuiet
    <3> QED
      BY <2>5, <3>1 DEF PushAdjusted, CheckNothing, CheckFlood, CheckQuiet
  <2>10. CASE ReadEnabled \/ ReadTrigger \/ ReadCooldown
    <3>1. mon.pc # "adjust" /\ mon'.pc # "adjust"
      BY <2>10, RestFact DEF ReadEnabled, ReadTrigger, ReadCooldown
    <3> QED
      BY <2>10, <3>1 DEF ReadEnabled, ReadTrigger, ReadCooldown
  <2>6. CASE MonitorSets \/ MonitorPushes
    <3>1. mon.pc # "adjust" /\ mon'.pc # "adjust"
      BY <2>6, RestFact DEF MonitorSets, MonitorPushes
    <3> QED
      BY <2>6, <3>1 DEF MonitorSets, MonitorPushes
  <2>7. ASSUME NEW f \in Files, SwapConfig(f) PROVE DynamicInv'
    BY <2>7 DEF SwapConfig, FilePps
  <2>11. ASSUME NEW p \in Ports, PutRule(p) PROVE DynamicInv'
    BY <2>11 DEF PutRule
  <2>8. CASE ReloadPushes \/ TakeRules \/ EndRules \/ Tui
    BY <2>8 DEF ReloadPushes, TakeRules, EndRules, Tui, Press, TuiSets,
                TuiPushes
  <2>9. CASE UNCHANGED vars
    BY <2>9 DEF vars
  <2> QED
    BY <2>1, <2>2, <2>3, <2>4, <2>5, <2>6, <2>7, <2>8, <2>9, <2>10, <2>11
       DEF Next, Monitor, Reload
<1>3. DynamicInv => DynamicLimitEnds
  BY DEF DynamicInv, DynamicLimitEnds
<1> QED
  BY <1>1, <1>2, <1>3, TypeCorrect, PTL DEF Spec

----------------------------------------------------------------------------
\* A lockdown the monitor set has its flag, except between the step that
\* drops the flag and the one that ends the lockdown.
OrphanInv ==
    /\ owner = "auto" /\ fwCfg.blackhole =>
          auto.active \/ (mon.pc = "set" /\ ~mon.want)
    /\ mon.pc = "set" /\ mon.want => auto.active

\* No order of reloads, key presses and checks leaves a lockdown that the
\* monitor turned on and has forgotten.
THEOREM NoOrphan == Spec => []NoOrphanLockdown
<1>1. Init => OrphanInv
  BY DEF Init, OrphanInv
<1>2. TypeOK /\ OrphanInv /\ [Next]_vars => OrphanInv'
  <2> SUFFICES ASSUME TypeOK, OrphanInv, [Next]_vars PROVE OrphanInv'
    OBVIOUS
  <2>0. /\ mon \in MonitorState /\ auto \in AutoState
        /\ fwCfg \in File
    BY DEF TypeOK
  <2> USE <2>0 DEF OrphanInv, MonitorState, AutoState, File
  <2>1. CASE Sample \/ SkipSample \/ NoChange
    BY <2>1 DEF Sample, SkipSample, NoChange
  <2>2. CASE AttackEnds \/ AttackBegins \/ PushAdjusted
    <3>1. /\ fwCfg'.blackhole = fwCfg.blackhole
          /\ mon'.pc # "set" /\ mon.pc # "set"
      BY <2>2 DEF AttackEnds, AttackBegins, PushAdjusted, Restored
    <3> QED
      BY <2>2, <3>1 DEF AttackEnds, AttackBegins, PushAdjusted
  <2>3. CASE CheckNothing \/ ReadEnabled \/ ReadTrigger \/ ReadCooldown
    BY <2>3 DEF CheckNothing, ReadEnabled, ReadTrigger, ReadCooldown, Rest
  <2>4. CASE CheckFlood
    BY <2>4 DEF CheckFlood, FloodFlags, Rest
  <2>5. CASE CheckQuiet
    <3>1. CASE Cooled
      BY <2>5, <3>1 DEF CheckQuiet, QuietMove
    <3>2. CASE ~Cooled
      BY <2>5, <3>2 DEF CheckQuiet, Rest
    <3> QED
      BY <3>1, <3>2
  <2>6. CASE MonitorSets \/ MonitorPushes
    BY <2>6 DEF MonitorSets, MonitorPushes, Rest
  <2>7. ASSUME NEW f \in Files, SwapConfig(f) PROVE OrphanInv'
    BY <2>7 DEF SwapConfig
  <2>10. ASSUME NEW p \in Ports, PutRule(p) PROVE OrphanInv'
    BY <2>10 DEF PutRule
  <2>8. CASE ReloadPushes \/ TakeRules \/ EndRules \/ Tui
    BY <2>8 DEF ReloadPushes, TakeRules, EndRules, Tui, Press, TuiSets,
                TuiPushes
  <2>9. CASE UNCHANGED vars
    BY <2>9 DEF vars
  <2> QED
    BY <2>1, <2>2, <2>3, <2>4, <2>5, <2>6, <2>7, <2>8, <2>9, <2>10
       DEF Next, Monitor, Reload
<1>3. OrphanInv => NoOrphanLockdown
  BY DEF OrphanInv, NoOrphanLockdown
<1> QED
  BY <1>1, <1>2, <1>3, TypeCorrect, PTL DEF Spec

----------------------------------------------------------------------------
\* What RulesInForce says of a port: its rule is in force, or it has none for
\* lack of room.
Settled(p) ==
    IF p \in DOMAIN kernelRules THEN kernelRules[p] = fwCfg.rules[p] ELSE Full

\* While a reload puts the rules, a port is settled or still to be put with the
\* limit that the file gives it.
RulesInv ==
    /\ reload.pc = "idle" => \A p \in DOMAIN fwCfg.rules : Settled(p)
    /\ reload.pc = "putting" =>
          \A p \in DOMAIN fwCfg.rules :
              IF p \in DOMAIN reload.rules THEN reload.rules[p] = fwCfg.rules[p]
                                           ELSE Settled(p)

\* No action but a reload touches the rules, those of the file or in force.
LEMMA OthersKeepRules ==
    ASSUME TypeOK, Monitor \/ Tui
    PROVE  /\ fwCfg'.rules = fwCfg.rules
           /\ UNCHANGED <<kernelRules, reload>>
<1>0. fwCfg \in File
  BY DEF TypeOK
<1>1. CASE Sample \/ SkipSample \/ NoChange
  BY <1>1 DEF Sample, SkipSample, NoChange
<1>2. CASE AttackEnds
  BY <1>0, <1>2 DEF AttackEnds, Restored, File
<1>3. CASE AttackBegins
  BY <1>0, <1>3 DEF AttackBegins, File
<1>4. CASE PushAdjusted \/ ReadEnabled \/ ReadTrigger \/ ReadCooldown
  BY <1>4 DEF PushAdjusted, ReadEnabled, ReadTrigger, ReadCooldown
<1>5. CASE CheckNothing \/ CheckFlood \/ CheckQuiet \/ MonitorPushes
  BY <1>5 DEF CheckNothing, CheckFlood, CheckQuiet, MonitorPushes
<1>6. CASE MonitorSets
  BY <1>0, <1>6 DEF MonitorSets, File
<1>7. CASE Press \/ TuiPushes
  BY <1>7 DEF Press, TuiPushes
<1>8. CASE TuiSets
  BY <1>0, <1>8 DEF TuiSets, File
<1> QED
  BY <1>1, <1>2, <1>3, <1>4, <1>5, <1>6, <1>7, <1>8 DEF Monitor, Tui

\* After every reload each rule of the loaded file is in force, or its port has
\* none and the map is full: also of rules that earlier files left there.
THEOREM RulesApply == Spec => []RulesInForce
<1>1. Init => RulesInv
  BY DEF Init, RulesInv, Settled, Full
<1>2. TypeOK /\ RulesInv /\ [Next]_vars => RulesInv'
  <2> SUFFICES ASSUME TypeOK, RulesInv, [Next]_vars PROVE RulesInv'
    OBVIOUS
  <2>0. /\ IsMap(kernelRules, Ports, Nat) /\ IsMap(reload.rules, Ports, Nat)
        /\ reload = [pc |-> reload.pc, rules |-> reload.rules]
    BY DEF TypeOK
  <2>1. CASE Monitor \/ Tui
    BY <2>1, OthersKeepRules DEF RulesInv, Settled, Full
  <2>2. ASSUME NEW f \in Files, SwapConfig(f) PROVE RulesInv'
    BY <2>2, <2>0 DEF SwapConfig, RulesInv
  <2>3. CASE ReloadPushes
    BY <2>3, <2>0 DEF ReloadPushes, RulesInv
  <2>4. CASE TakeRules
    BY <2>4 DEF TakeRules, RulesInv
  <2>5. ASSUME NEW p \in Ports, PutRule(p) PROVE RulesInv'
    <3>1. /\ reload.pc = "putting" /\ reload'.pc = "putting"
          /\ p \in DOMAIN reload.rules
          /\ reload'.rules = Del(reload.rules, p)
          /\ kernelRules' = RulesAfter(p, reload.rules[p])
          /\ fwCfg' = fwCfg
      BY <2>5, <2>0 DEF PutRule
    <3>2. /\ DOMAIN reload'.rules = DOMAIN reload.rules \ {p}
          /\ \A q \in DOMAIN reload'.rules : reload'.rules[q] = reload.rules[q]
      BY <3>1 DEF Del
    <3>3. reload.rules[p] \in Nat
      BY <3>1, <2>0 DEF IsMap
    <3>4. /\ Full => DOMAIN kernelRules' = DOMAIN kernelRules
          /\ p \in DOMAIN kernelRules' => kernelRules'[p] = reload.rules[p]
          /\ p \notin DOMAIN kernelRules' => Full
          /\ DOMAIN kernelRules \subseteq DOMAIN kernelRules'
          /\ \A q \in DOMAIN kernelRules' \ {p} :
                q \in DOMAIN kernelRules /\ kernelRules'[q] = kernelRules[q]
      BY <3>1, <3>3, <2>0, RulesAfterFact
    <3>5. Full => Full'
      BY <3>4 DEF Full
    <3>6. ASSUME NEW q \in DOMAIN fwCfg.rules, q \notin DOMAIN reload'.rules
          PROVE  IF q \in DOMAIN kernelRules'
                    THEN kernelRules'[q] = fwCfg.rules[q] ELSE Full'
      <4>1. CASE q = p
        BY <4>1, <3>1, <3>4, <3>5 DEF RulesInv
      <4>2. CASE q # p
        <5>1. IF q \in DOMAIN kernelRules THEN kernelRules[q] = fwCfg.rules[q]
                                          ELSE Full
          BY <4>2, <3>1, <3>2, <3>6 DEF RulesInv, Settled
        <5> QED
          BY <4>2, <5>1, <3>4, <3>5
      <4> QED
        BY <4>1, <4>2
    <3>7. ASSUME NEW q \in DOMAIN fwCfg.rules, q \in DOMAIN reload'.rules
          PROVE  reload'.rules[q] = fwCfg.rules[q]
      BY <3>1, <3>2, <3>7 DEF RulesInv
    <3> QED
      BY <3>1, <3>6, <3>7 DEF RulesInv, Settled
  <2>6. CASE EndRules
    BY <2>6, <2>0 DEF EndRules, RulesInv, Settled, Full
  <2>7. CASE UNCHANGED vars
    BY <2>7 DEF vars, RulesInv, Settled, Full
  <2> QED
    BY <2>1, <2>2, <2>3, <2>4, <2>5, <2>6, <2>7 DEF Next, Reload
<1>3. RulesInv => RulesInForce
  BY DEF RulesInv, RulesInForce, Settled
<1> QED
  BY <1>1, <1>2, <1>3, TypeCorrect, PTL DEF Spec

----------------------------------------------------------------------------
\* The cooldown timer never shows more than the quiet time there was, and the
\* cooldown the check goes by is none shorter than the shortest since it began.
CooldownInv ==
    /\ auto.belowSet => auto.elapsed <= quiet
    /\ mon.pc \in {"trigger", "cooldown", "decide"} => least <= fwCfg.cooldown
    /\ mon.pc = "decide" => least <= mon.cooldown

\* The monitor drops its lockdown flag only after a cooldown_sec without a
\* check that saw the flood, one in force while the check ran, whatever is
\* reloaded before, between and after its reads.
THEOREM CooldownKept == Spec => CooldownObserved
<1>1. Init => CooldownInv
  BY DEF Init, CooldownInv
<1>2. TypeOK /\ CooldownInv /\ [Next]_vars => CooldownInv'
  <2> SUFFICES ASSUME TypeOK, CooldownInv, [Next]_vars PROVE CooldownInv'
    OBVIOUS
  <2>0. /\ mon \in MonitorState /\ auto \in AutoState /\ fwCfg \in File
        /\ quiet \in Nat /\ least \in Nat
    BY DEF TypeOK
  <2> USE <2>0 DEF CooldownInv, AutoState, MonitorState, File
  <2>1. CASE Sample \/ SkipSample
    <3>1. /\ auto' = [auto EXCEPT !.elapsed = Later(auto.elapsed)]
          /\ quiet' = Later(quiet)
      BY <2>1 DEF Sample, SkipSample
    <3>2. auto.belowSet => Later(auto.elapsed) <= Later(quiet)
      BY LaterMonotone
    <3>3. auto'.belowSet => auto'.elapsed <= quiet'
      BY <3>1, <3>2
    <3>4. /\ mon'.pc \notin {"trigger", "cooldown", "decide"}
          /\ UNCHANGED <<fwCfg, least>>
      BY <2>1 DEF Sample, SkipSample
    <3> QED
      BY <3>3, <3>4
  <2>2. CASE NoChange \/ PushAdjusted
    BY <2>2 DEF NoChange, PushAdjusted
  <2>3. CASE AttackEnds \/ AttackBegins
    BY <2>3 DEF AttackEnds, AttackBegins
  <2>4. CASE ReadEnabled
    BY <2>4 DEF ReadEnabled, Rest
  <2>5. CASE ReadTrigger
    BY <2>5 DEF ReadTrigger
  <2>6. CASE ReadCooldown
    BY <2>6 DEF ReadCooldown
  <2>7. CASE CheckNothing
    BY <2>7 DEF CheckNothing, Rest
  <2>8. CASE CheckFlood
    BY <2>8 DEF CheckFlood, FloodFlags, Rest
  <2>9. CASE CheckQuiet
    <3>1. /\ quiet' = quiet
          /\ ~auto'.belowSet \/ auto'.elapsed = CoolingSince
      BY <2>9 DEF CheckQuiet
    <3>2. mon' \in {QuietMove, Rest(mon)}
      BY <2>9 DEF CheckQuiet
    <3> QED
      BY <3>1, <3>2, RestFact DEF CoolingSince
  <2>10. CASE MonitorSets \/ MonitorPushes
    BY <2>10, RestFact DEF MonitorSets, MonitorPushes
  <2>11. ASSUME NEW f \in Files, SwapConfig(f) PROVE CooldownInv'
    <3>1. f \in File
      BY FilesAssumption
    <3> QED
      BY <3>1, <2>11 DEF SwapConfig
  <2>12. CASE ReloadPushes \/ TakeRules \/ EndRules
    BY <2>12 DEF ReloadPushes, TakeRules, EndRules
  <2>13. ASSUME NEW p \in Ports, PutRule(p) PROVE CooldownInv'
    BY <2>13 DEF PutRule
  <2>14. CASE Tui
    BY <2>14 DEF Tui, Press, TuiSets, TuiPushes
  <2>15. CASE UNCHANGED vars
    BY <2>15 DEF vars
  <2> QED
    BY <2>1, <2>2, <2>3, <2>4, <2>5, <2>6, <2>7, <2>8, <2>9, <2>10, <2>11,
       <2>12, <2>13, <2>14, <2>15 DEF Next, Monitor, Reload
<1>3. TypeOK /\ CooldownInv /\ [Next]_vars =>
         [auto.active /\ ~auto'.active => quiet >= least]_vars
  <2> SUFFICES ASSUME TypeOK, CooldownInv, [Next]_vars,
                      auto.active, ~auto'.active
               PROVE  quiet >= least
    OBVIOUS
  <2>1. CheckQuiet
    BY DEF Next, Monitor, Sample, SkipSample, NoChange, AttackEnds,
           AttackBegins, PushAdjusted, ReadEnabled, ReadTrigger, ReadCooldown,
           CheckNothing, CheckFlood, FloodFlags, MonitorSets, MonitorPushes,
           Reload, SwapConfig, ReloadPushes, TakeRules, PutRule, EndRules,
           Tui, Press, TuiSets, TuiPushes, vars, TypeOK, AutoState
  <2>2. mon.pc = "decide" /\ CoolingSince >= mon.cooldown
    BY <2>1 DEF CheckQuiet, Cooled, TypeOK, AutoState
  <2> QED
    BY <2>2 DEF CoolingSince, CooldownInv, TypeOK, AutoState, MonitorState
<1> QED
  BY <1>1, <1>2, <1>3, TypeCorrect, PTL DEF Spec, CooldownObserved
=============================================================================
