---------------------------- MODULE ControlPlane ----------------------------
(***************************************************************************)
(* The daemon's configuration as four goroutines change it: monitorStats   *)
(* (dynamic thresholds, auto-blackhole), the SIGHUP watcher (Reload), the  *)
(* dashboard ([SPACE]) and pushConfig(), which copies it into config_map.  *)
(*                                                                         *)
(* A step is what runs between two lock operations or two unlocked reads   *)
(* of fw.cfg, or the put of one port rule; a section of cfgMu is two       *)
(* steps, the assignment and the push that ends it.  Sample is one tick of *)
(* monitorStats, a second of time.                                         *)
(***************************************************************************)
EXTENDS Integers, FiniteSets, BpfMap

CONSTANTS
    Files,      \* the contents shivashield.yaml may have
    Ports,      \* <<port, proto>> of a port rule
    RuleMaps,   \* the port_rules a file may have: port |-> limit
    MaxRules,   \* the entries port_rules_map holds
    Loads,      \* the aggregate rates, PassPPS + DropPPS, of a tick
    DynLimits,  \* the values of max(5 * baseline, 10000)
    HasTui,     \* FALSE for load --no-tui
    MaxElapsed  \* bound of the model: seconds are counted up to here

\* The fields of config.Config that the daemon changes or that decide it.
File == [pps : Nat, blackhole : BOOLEAN, auto : BOOLEAN, trigger : Nat,
         cooldown : Nat, dynamic : BOOLEAN, rules : RuleMaps]

\* validate(): auto_blackhole needs a trigger_pps.
ASSUME FilesAssumption ==
    /\ Files \subseteq File /\ Files # {}
    /\ \A f \in Files : f.auto => f.trigger > 0
    /\ \A f \in Files : f.cooldown <= MaxElapsed
    /\ \A r \in RuleMaps : IsMap(r, Ports, Nat)
ASSUME NumbersAssumption ==
    /\ Loads \subseteq Nat /\ Loads # {}
    /\ DynLimits \subseteq Nat /\ DynLimits # {}
    /\ HasTui \in BOOLEAN
    /\ MaxRules \in Nat /\ MaxElapsed \in Nat

VARIABLES
    fwCfg,        \* *fw.cfg
    kernelCfg,    \* config_map[0], the fields that change
    kernelRules,  \* port_rules_map: port |-> limit
    mu,           \* who is in a write section of cfgMu
    mon,          \* monitorStats(): where it is, the state before, the tick's
                  \* load, what the check has read, the lockdown it sets
    anomaly,      \* the AnomalyDetector's currentState
    dyn,          \* dynamicPPSActive, originalPPS
    auto,         \* autoBlackholeActive, belowThresholdSet, seconds since
    reload,       \* the watcher: where it is, the rules it has yet to put
    tui,          \* the dashboard: where it is, the value it sets
    owner,        \* history: who last set fw.cfg.Blackhole.Enabled
    quiet,        \* history: seconds since the check last saw the flood
    least         \* history: the least cooldown_sec in force since the check
                  \* of this tick began

vars == <<fwCfg, kernelCfg, kernelRules, mu, mon, anomaly, dyn, auto, reload,
          tui, owner, quiet, least>>

----------------------------------------------------------------------------
\* pushConfig(): the fields of fw.cfg that config_map shows.
Render(k) == [pps |-> k.pps, blackhole |-> k.blackhole]

Full == Cardinality(DOMAIN kernelRules) >= MaxRules

\* Mutant of RulesAfter: a port that has a rule already keeps its limit.
RulesAfterNew(p, limit) ==
    IF p \in DOMAIN kernelRules \/ Full THEN kernelRules
                                        ELSE Put(kernelRules, p, limit)

\* The put of a rule, which fails when there is no entry to take for it.
RulesAfter(p, limit) ==
    IF p \notin DOMAIN kernelRules /\ Full THEN kernelRules
                                           ELSE Put(kernelRules, p, limit)

Free == mu = "free"

Later(t) == IF t < MaxElapsed THEN t + 1 ELSE t

----------------------------------------------------------------------------
\* monitorStats()

\* A tick: two snapshots give the rate, the detector takes it in.
Sample ==
    /\ mon.pc = "idle"
    /\ \E load \in Loads, state \in {"normal", "attack"} :
        /\ mon' = [mon EXCEPT !.pc = "adjust", !.old = anomaly, !.load = load]
        /\ anomaly' = state
    /\ auto' = [auto EXCEPT !.elapsed = Later(@)]
    /\ quiet' = Later(quiet)
    /\ UNCHANGED <<fwCfg, kernelCfg, kernelRules, mu, dyn, reload, tui,
                   owner, least>>

\* A tick whose snapshot failed, or the first.
SkipSample ==
    /\ mon.pc = "idle"
    /\ auto' = [auto EXCEPT !.elapsed = Later(@)]
    /\ quiet' = Later(quiet)
    /\ UNCHANGED <<fwCfg, kernelCfg, kernelRules, mu, mon, anomaly, dyn,
                   reload, tui, owner, least>>

NoChange ==
    /\ mon.pc = "adjust" /\ mon.old = anomaly
    /\ mon' = [mon EXCEPT !.pc = "check"]
    /\ UNCHANGED <<fwCfg, kernelCfg, kernelRules, mu, anomaly, dyn, auto,
                   reload, tui, owner, quiet, least>>

\* Mutant of Restored: the limit stays what the attack made it.
RestoredNot == fwCfg

Restored == [fwCfg EXCEPT !.pps = dyn.original]

\* Mutant of AttackEnds: restores a limit also when none was saved.
AttackEndsAlways ==
    /\ mon.pc = "adjust" /\ mon.old = "attack" /\ anomaly = "normal" /\ Free
    /\ fwCfg' = Restored
    /\ dyn' = [dyn EXCEPT !.active = FALSE]
    /\ mu' = "monitor" /\ mon' = [mon EXCEPT !.pc = "adjusted"]
    /\ UNCHANGED <<kernelCfg, kernelRules, anomaly, auto, reload, tui,
                   owner, quiet, least>>

AttackEnds ==
    /\ mon.pc = "adjust" /\ mon.old = "attack" /\ anomaly = "normal" /\ Free
    /\ \/ /\ dyn.active
          /\ fwCfg' = Restored
          /\ dyn' = [dyn EXCEPT !.active = FALSE]
          /\ mu' = "monitor" /\ mon' = [mon EXCEPT !.pc = "adjusted"]
       \/ /\ ~dyn.active
          /\ mon' = [mon EXCEPT !.pc = "check"]
          /\ UNCHANGED <<fwCfg, dyn, mu>>
    /\ UNCHANGED <<kernelCfg, kernelRules, anomaly, auto, reload, tui,
                   owner, quiet, least>>

AttackBegins ==
    /\ mon.pc = "adjust" /\ mon.old = "normal" /\ anomaly = "attack" /\ Free
    /\ \/ /\ fwCfg.dynamic /\ ~dyn.active
          /\ dyn' = [active |-> TRUE, original |-> fwCfg.pps]
          /\ \E d \in DynLimits : fwCfg' = [fwCfg EXCEPT !.pps = d]
          /\ mu' = "monitor" /\ mon' = [mon EXCEPT !.pc = "adjusted"]
       \/ /\ ~fwCfg.dynamic \/ dyn.active
          /\ mon' = [mon EXCEPT !.pc = "check"]
          /\ UNCHANGED <<fwCfg, dyn, mu>>
    /\ UNCHANGED <<kernelCfg, kernelRules, anomaly, auto, reload, tui,
                   owner, quiet, least>>

PushAdjusted ==
    /\ mon.pc = "adjusted"
    /\ kernelCfg' = Render(fwCfg)
    /\ mu' = "free" /\ mon' = [mon EXCEPT !.pc = "check"]
    /\ UNCHANGED <<fwCfg, kernelRules, anomaly, dyn, auto, reload, tui,
                   owner, quiet, least>>

----------------------------------------------------------------------------
\* checkAutoBlackhole(): reads Enabled, TriggerPPS and CooldownSec one after
\* the other without the lock, and decides by what it has read.

Flood == mon.load > fwCfg.trigger

\* The tick is over, and with it what the check had read.
Rest(m) == [m EXCEPT !.pc = "idle", !.old = "normal", !.flood = FALSE,
                     !.cooldown = 0, !.want = FALSE]

ReadEnabled ==
    /\ mon.pc = "check"
    /\ mon' = IF fwCfg.auto THEN [mon EXCEPT !.pc = "trigger"] ELSE Rest(mon)
    /\ least' = fwCfg.cooldown
    /\ UNCHANGED <<fwCfg, kernelCfg, kernelRules, mu, anomaly, dyn, auto,
                   reload, tui, owner, quiet>>

ReadTrigger ==
    /\ mon.pc = "trigger"
    /\ mon' = [mon EXCEPT !.pc = "cooldown", !.flood = Flood]
    /\ UNCHANGED <<fwCfg, kernelCfg, kernelRules, mu, anomaly, dyn, auto,
                   reload, tui, owner, quiet, least>>

ReadCooldown ==
    /\ mon.pc = "cooldown"
    /\ mon' = [mon EXCEPT !.pc = "decide", !.cooldown = fwCfg.cooldown]
    /\ UNCHANGED <<fwCfg, kernelCfg, kernelRules, mu, anomaly, dyn, auto,
                   reload, tui, owner, quiet, least>>

\* Mutant of FloodFlags: the cooldown timer is not reset while active.
FloodFlagsNoReset == [auto EXCEPT !.active = TRUE]

FloodFlags == [auto EXCEPT !.active = TRUE, !.belowSet = FALSE]

\* Mutant of CoolingSince: every quiet second starts the cooldown anew.
CoolingRestarts == 0

\* Seconds below the threshold, the first quiet check starting the timer.
CoolingSince == IF auto.belowSet THEN auto.elapsed ELSE 0

Cooled == CoolingSince >= mon.cooldown

\* No flood and no lockdown to end.
CheckNothing ==
    /\ mon.pc = "decide" /\ ~mon.flood /\ ~auto.active
    /\ mon' = Rest(mon)
    /\ UNCHANGED <<fwCfg, kernelCfg, kernelRules, mu, anomaly, dyn, auto,
                   reload, tui, owner, quiet, least>>

CheckFlood ==
    /\ mon.pc = "decide" /\ mon.flood
    /\ auto' = FloodFlags
    /\ mon' = IF auto.active THEN Rest(mon)
                             ELSE [mon EXCEPT !.pc = "set", !.want = TRUE]
    /\ quiet' = 0
    /\ UNCHANGED <<fwCfg, kernelCfg, kernelRules, mu, anomaly, dyn, reload,
                   tui, owner, least>>

\* Mutant of QuietMove: the flag is dropped and the lockdown stays.
QuietMoveForgets == Rest(mon)

QuietMove == [mon EXCEPT !.pc = "set", !.want = FALSE]

CheckQuiet ==
    /\ mon.pc = "decide" /\ ~mon.flood /\ auto.active
    /\ \/ /\ Cooled
          /\ auto' = [auto EXCEPT !.active = FALSE, !.belowSet = FALSE]
          /\ mon' = QuietMove
       \/ /\ ~Cooled
          /\ auto' = [auto EXCEPT !.belowSet = TRUE, !.elapsed = CoolingSince]
          /\ mon' = Rest(mon)
    /\ UNCHANGED <<fwCfg, kernelCfg, kernelRules, mu, anomaly, dyn, reload,
                   tui, owner, quiet, least>>

MonitorSets ==
    /\ mon.pc = "set" /\ Free
    /\ fwCfg' = [fwCfg EXCEPT !.blackhole = mon.want] /\ owner' = "auto"
    /\ mu' = "monitor" /\ mon' = [mon EXCEPT !.pc = "pushing"]
    /\ UNCHANGED <<kernelCfg, kernelRules, anomaly, dyn, auto, reload, tui,
                   quiet, least>>

\* Mutant of MonitorPushes: gives up the lock and leaves the push out.
MonitorPushesNot ==
    /\ mon.pc = "pushing"
    /\ mu' = "free" /\ mon' = Rest(mon)
    /\ UNCHANGED <<fwCfg, kernelCfg, kernelRules, anomaly, dyn, auto, reload,
                   tui, owner, quiet, least>>

MonitorPushes ==
    /\ mon.pc = "pushing"
    /\ kernelCfg' = Render(fwCfg)
    /\ mu' = "free" /\ mon' = Rest(mon)
    /\ UNCHANGED <<fwCfg, kernelRules, anomaly, dyn, auto, reload, tui,
                   owner, quiet, least>>

----------------------------------------------------------------------------
\* Reload(): fw.cfg becomes the file as it is now; then populatePortRules()
\* puts the file's port rules one by one, removes none and does not stop at one
\* that fails.

SwapConfig(f) ==
    /\ reload.pc = "idle" /\ Free
    /\ fwCfg' = f /\ owner' = "file"
    /\ mu' = "reload" /\ reload' = [reload EXCEPT !.pc = "pushing"]
    /\ least' = IF f.cooldown < least THEN f.cooldown ELSE least
    /\ UNCHANGED <<kernelCfg, kernelRules, mon, anomaly, dyn, auto, tui, quiet>>

ReloadPushes ==
    /\ reload.pc = "pushing"
    /\ kernelCfg' = Render(fwCfg)
    /\ mu' = "free" /\ reload' = [reload EXCEPT !.pc = "rules"]
    /\ UNCHANGED <<fwCfg, kernelRules, mon, anomaly, dyn, auto, tui,
                   owner, quiet, least>>

TakeRules ==
    /\ reload.pc = "rules" /\ Free
    /\ reload' = [pc |-> "putting", rules |-> fwCfg.rules]
    /\ UNCHANGED <<fwCfg, kernelCfg, kernelRules, mu, mon, anomaly, dyn, auto,
                   tui, owner, quiet, least>>

PutRule(p) ==
    /\ reload.pc = "putting" /\ p \in DOMAIN reload.rules
    /\ kernelRules' = RulesAfter(p, reload.rules[p])
    /\ reload' = [reload EXCEPT !.rules = Del(@, p)]
    /\ UNCHANGED <<fwCfg, kernelCfg, mu, mon, anomaly, dyn, auto, tui, owner,
                   quiet, least>>

EndRules ==
    /\ reload.pc = "putting" /\ DOMAIN reload.rules = {}
    /\ reload' = [reload EXCEPT !.pc = "idle"]
    /\ UNCHANGED <<fwCfg, kernelCfg, kernelRules, mu, mon, anomaly, dyn, auto,
                   tui, owner, quiet, least>>

----------------------------------------------------------------------------
\* [SPACE]: SetBlackhole(!IsBlackhole()).

Press ==
    /\ HasTui /\ tui.pc = "idle" /\ Free
    /\ tui' = [pc |-> "set", want |-> ~fwCfg.blackhole]
    /\ UNCHANGED <<fwCfg, kernelCfg, kernelRules, mu, mon, anomaly, dyn, auto,
                   reload, owner, quiet, least>>

TuiSets ==
    /\ tui.pc = "set" /\ Free
    /\ fwCfg' = [fwCfg EXCEPT !.blackhole = tui.want] /\ owner' = "tui"
    /\ mu' = "tui" /\ tui' = [tui EXCEPT !.pc = "pushing"]
    /\ UNCHANGED <<kernelCfg, kernelRules, mon, anomaly, dyn, auto, reload,
                   quiet, least>>

TuiPushes ==
    /\ tui.pc = "pushing"
    /\ kernelCfg' = Render(fwCfg)
    /\ mu' = "free" /\ tui' = [pc |-> "idle", want |-> FALSE]
    /\ UNCHANGED <<fwCfg, kernelRules, mon, anomaly, dyn, auto, reload,
                   owner, quiet, least>>

----------------------------------------------------------------------------
\* Start() pushes the config and the rules, as many as the map holds, then
\* starts the goroutines.
Init ==
    /\ \E f \in Files :
        /\ fwCfg = f /\ kernelCfg = Render(f) /\ least = f.cooldown
        /\ \E P \in SUBSET DOMAIN f.rules :
            /\ Cardinality(P) <= MaxRules
            /\ P = DOMAIN f.rules \/ Cardinality(P) = MaxRules
            /\ kernelRules = [p \in P |-> f.rules[p]]
    /\ mu = "free"
    /\ mon = [pc |-> "idle", old |-> "normal", load |-> 0, flood |-> FALSE,
              cooldown |-> 0, want |-> FALSE]
    /\ anomaly = "normal"
    /\ dyn = [active |-> FALSE, original |-> 0]
    /\ auto = [active |-> FALSE, belowSet |-> FALSE, elapsed |-> 0]
    /\ reload = [pc |-> "idle", rules |-> EmptyMap]
    /\ tui = [pc |-> "idle", want |-> FALSE]
    /\ owner = "file"
    /\ quiet = 0

Monitor ==
    \/ Sample \/ SkipSample
    \/ NoChange \/ AttackEnds \/ AttackBegins \/ PushAdjusted
    \/ ReadEnabled \/ ReadTrigger \/ ReadCooldown
    \/ CheckNothing \/ CheckFlood \/ CheckQuiet
    \/ MonitorSets \/ MonitorPushes

Reload ==
    \/ (\E f \in Files : SwapConfig(f)) \/ ReloadPushes
    \/ TakeRules \/ (\E p \in Ports : PutRule(p)) \/ EndRules

Tui == Press \/ TuiSets \/ TuiPushes

Next == Monitor \/ Reload \/ Tui

Spec == Init /\ [][Next]_vars

\* The ticker ticks and most snapshots succeed; a section of cfgMu ends; and
\* Go's mutex hands itself to the goroutine that waits longest, so that the
\* monitor is not kept out for ever by others that come and go.
FairSpec ==
    /\ Spec
    /\ SF_vars(Sample)
    /\ SF_vars(Monitor /\ mon.pc # "idle")
    /\ WF_vars(ReloadPushes) /\ WF_vars(TuiPushes)

----------------------------------------------------------------------------
\* Properties.

FilePps == {f.pps : f \in Files}

\* The limits a source may be under: of a file, or of an attack.
Limits == FilePps \cup DynLimits

MonitorState ==
    [pc : {"idle", "adjust", "adjusted", "check", "trigger", "cooldown",
           "decide", "set", "pushing"},
     old : {"normal", "attack"}, load : Nat, flood : BOOLEAN, cooldown : Nat,
     want : BOOLEAN]

AutoState == [active : BOOLEAN, belowSet : BOOLEAN, elapsed : Nat]

TypeOK ==
    /\ fwCfg \in File /\ fwCfg.pps \in Limits
    /\ kernelCfg \in [pps : Limits, blackhole : BOOLEAN]
    /\ IsMap(kernelRules, Ports, Nat)
    /\ mu \in {"free", "monitor", "reload", "tui"}
    /\ mon \in MonitorState
    /\ anomaly \in {"normal", "attack"}
    /\ dyn \in [active : BOOLEAN, original : Limits \cup {0}]
    /\ dyn.active => dyn.original \in Limits
    /\ auto \in AutoState
    /\ reload.pc \in {"idle", "pushing", "rules", "putting"}
    /\ reload = [pc |-> reload.pc, rules |-> reload.rules]
    /\ IsMap(reload.rules, Ports, Nat)
    /\ tui \in [pc : {"idle", "set", "pushing"}, want : BOOLEAN]
    /\ owner \in {"auto", "file", "tui"}
    /\ quiet \in Nat /\ least \in Nat

\* Outside the sections of cfgMu the XDP program runs under the config the
\* daemon shows: no path that changes fw.cfg forgets to push it or pushes a
\* half-changed one.
KernelInSync == Free => kernelCfg = Render(fwCfg)

\* The dynamic limit of an attack never outlives it, nor becomes the limit
\* that the next attack saves and restores: once the monitor has taken in
\* the end of the attack, thresholds.pps is one that a file gave.
DynamicLimitEnds ==
    anomaly = "normal" /\ mon.pc # "adjust" => fwCfg.pps \in FilePps

\* A lockdown that the monitor turned on is one that it will turn off: with
\* reloads and [SPACE] in any order, none is left without its flag.
NoOrphanLockdown ==
    mon.pc = "idle" /\ fwCfg.blackhole /\ owner = "auto" => auto.active

\* A port's rule in the loaded file is the rule in force once the reload is
\* through, or the port has none because the map is full, of the rules of this
\* file and of those before: a failed put leaves no earlier limit in force and
\* keeps out no rule that there is room for.
RulesInForce ==
    reload.pc = "idle" =>
        \A p \in DOMAIN fwCfg.rules :
            IF p \in DOMAIN kernelRules THEN kernelRules[p] = fwCfg.rules[p]
                                        ELSE Full

\* "deactivate after traffic drops for 30s": the lockdown ends only when no
\* check saw the flood for cooldown_sec, also if it flares up in between; a
\* reload during the check may decide which file's cooldown that is, and none
\* lets the lockdown end sooner than the shortest of them.
CooldownObserved ==
    [][auto.active /\ ~auto'.active => quiet >= least]_vars

\* Once the flood is over for good, with auto_blackhole on, the monitor ends
\* its lockdown, whatever reloads and [SPACE] do meanwhile.
LockdownLifts == <>[](~Flood /\ fwCfg.auto) => <>[]~auto.active

\* "activate if total traffic exceeds 10k PPS": a check that sees the flood
\* has the lockdown on when it is done.
LockdownOn ==
    [][mon.pc = "decide" /\ mon.flood /\ mon'.pc = "idle" /\ Free =>
          kernelCfg.blackhole \/ ~fwCfg.auto]_vars
=============================================================================
