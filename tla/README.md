# A TLA+ model of ShivaShield XDP

ShivaShield is an XDP firewall: a BPF program that judges every received frame,
and a Go daemon that loads it, feeds it its configuration, reads its reports and
reacts to floods. This directory models what the two do to the state they share,
checks it with TLC on small instances and proves the main invariants with TLAPS.

`PROJECT.json` lists the runs, the source lines behind every definition (`map`),
the hazards, the mutants and the theorems. Sources are named relative to the
repository root, `firewall.go` etc. standing for `internal/firewall/firewall.go`.

## The system

| Part | State | Operations | Modelled in |
|---|---|---|---|
| Data plane, `ebpf/shivashield.bpf.c` | 15 BPF maps: configuration, per-CPU counters of sources, flows and the new-source limit, blacklist, whitelist, known sources, port rules, GeoIP prefixes, event throttle, ring buffer, statistics | `shivashield_xdp()` on every frame, on every CPU | `XdpFilter`, `XdpBudget` |
| Ban life cycle, `banner.go`, part of `consumeEvents()` | `blacklist_map`, `toDelete`, the event at hand | `auto_ban()`, delete of an expired ban, `BanIP()`, `sweep()` every 5 s | `BanTable` |
| Control plane, `firewall.go`, `tui.go`, `config.go` | `fw.cfg`, `config_map`, `port_rules_map`, `originalPPS`, the automatic blackhole's flags | `monitorStats()` each second, `Reload()` on SIGHUP, `SetBlackhole()` from the dashboard, `pushConfig()` | `ControlPlane` |
| Loader and life cycle, `loader.go`, `main.go`, the systemd unit | XDP links, `PinPath`, the link's pin | `Load`, `Attach`, `Detach`, `unload`, a crash | `XdpLoader` |
| Event path, `consumeEvents()`, `leaderboard.go`, `alerts/discord.go` | limiter window, leaderboard, `dedupSeen`, `lastSent`, posts under way | meter, record, log, alert, cleanup | `EventPath` |
| Statistics, `stats.go`, `anomaly.go`, `history.go`, `monitorStats()` | `stats_map`, the last snapshot, the detector's baseline and state, the attack log, `pcapRunning` | `bump_stat()`, `ReadStats()`, `CalcRate()`, `Update()`, `LogAttack()`, the capture | `Telemetry`; its verdict is an input of `ControlPlane` |
| Commands and their files, `main.go`, `config_util.go` | `whitelist.txt`, `blacklist.txt`, `shivashield.yaml`; what the daemon made of them | `whitelist`, `blacklist` and `geoblock` with `add` and `remove`; the daemon's start and SIGHUP | `CliFiles` |
| GeoIP loader, dashboard's rendering, SSH detection, scripts | | | not modelled, but for what the modules above use of them |

How they interact:

- The program and the daemon share the BPF maps and hold no lock on them. The
  daemon writes `config_map`, the lists and the port rules; the program writes
  counters, bans and known sources; both write `blacklist_map`.
- The program reports through a ring buffer, at most once a second per throttle
  key, and loses what does not fit. `consumeEvents()` is the only reader, drops
  all but 500 events a second, and bans again whom an event names.
- Four goroutines change `fw.cfg`: `cfgMu` is held for each assignment and its
  push, but `consumeEvents()` and `checkAutoBlackhole()` read it without a lock.
- The monitor copies `stats_map` once a second while the CPUs go on, makes rates of
  two snapshots and a verdict of the rates; the verdict starts and ends a dynamic
  limit, a capture and a record in the attack log.
- Commands are processes of their own. They meet the daemon and one another in
  files that nobody locks, never in the maps: `loadLiveFirewall()` always fails.
- The loader attaches one link per interface and pins it at one path; a pinned
  link outlives the process, and the next start or `unload` removes it with
  `bpftool`, which may not be installed.

What is hard about it: interleavings on lock-free maps; expiries stamped from two
clocks; values read, then used after another goroutine changed them (the ban duration,
`originalPPS`, the automatic blackhole's flag); caps and LRU maps in a flood of invented
sources; windows that begin where traffic begins; failures and crashes in mid-start;
files that are rewritten in place. The 40 hazards of `PROJECT.json` give each one's line
and the properties aimed at it.

What makes each part correct:

- *Data plane*: the counters account for every frame; a ban is served and kept, but
  for frames that had looked before it was put; a blackhole lets no new source in; a
  limit bounds what gets through in any second.
- *Bans*: permanent ones stay, temporary ones end, nobody is banned who was not caught.
- *Control plane*: the kernel has the daemon's configuration, and the port rules that
  fit; what an attack changed is changed back; an automatic blackhole ends, and not
  before its cooldown.
- *Loader*: nothing of an earlier daemon, or of a failed start, stays attached.
- *Event path*: every table and every rate keeps to its bound in a flood.
- *Statistics*: no drop is shown without its reason, none is lost or seen twice; an
  attack ends when its traffic does, and is logged with a type.
- *Files*: what one command did undisturbed stays done; a reload does not take an
  empty file for the operator's.

## The modules

`BpfMap` - a BPF hash map as a function: `Put`, `Del`, `Lookup`.

`XdpFilter` - the data plane. A CPU takes in a frame (`Arrive`) and passes it through
the stages of `Order` one step at a time (`Judge`): `Stops(c)` is the condition under
which the stage that CPU `c`'s frame is at ends it, and one operator per map
(`RatesAfter`, `KnownAfter`, ...) what the stage leaves there. What touches a map twice
is more than one step: the lookup of a ban and its delete by key (`Unban`), the
throttle's lookup and its stamp (`CheckThrottle`, `Stamp`), the ring's reserve, the
ban. Between any two come the other CPUs, the daemon's single map writes, the ring
buffer's reader, LRU reclaim of the maps in `Reclaimable`, and time. `frame` holds the
program's locals, among them the clock read on arrival and the one read for an event.
What stays one step, and why:

- a stage's reads of one field of `config_map`, which the optimised build
  (`src/gen.go:6`, -O2) takes from one load; a push of the configuration, one update
  of the value; a per-CPU slot, which only its CPU touches; the lookup of a ban with
  the read of its expiry; reserve and submit in the ring buffer, whose reader waits
  for the first uncommitted record anyway;
- a tick is longer than a frame is in the program, so a frame sees one tick at most.

Frames are records of what the stages tell apart. `hist` is history: frames done,
sentences, who was seen outside of lockdown, each CPU's last reports, and the CPUs
whose frame had looked for a ban before the last one of its source was put (`late`).

`XdpBudget` - XdpFilter with counts, for each CPU and since each moment of the second
that ends now, of the frames of a source that passed its limit and of the sources that
were listed. It adds history and restricts nothing: every step is one of XdpFilter.

`BanPolicy` - what the ban life cycle promises, without its actors: a source is
caught, sentenced if it was caught, released unless it is held; a sentence is for ever
only while `ban_duration_sec` is 0 (`off`).

`BanTable` - `blacklist_map` at the grain of single accesses: a CPU looks up, deletes,
judges, bans; the consumer takes an event, decides by one read of the duration, bans by
another; the sweeper visits keys one by one, then deletes one by one. Its iterator is as
good as the map is quiet (`met`): after a change it may start over or end early, having
missed keys, and `iter.Err()` is not looked at. `now` is the kernel's clock and `now +
Epoch` the wall clock, and each stamp and comparison uses the one the code uses. The
other stages of a frame are one nondeterministic `Judge`. `Named` is what `parseEvent()`
and `net.ParseIP()` make of a source: an IPv4-mapped IPv6 address comes out as the IPv4
key. `Policy` is the refinement mapping to BanPolicy: the sentence of a source is the
kind of its entry, permanent at expiry 0.

`ControlPlane` - `monitorStats()`, `Reload()` and the dashboard on one
configuration. Steps end at the lock operations and unlocked reads of the code:
`checkAutoBlackhole()` reads enabled, trigger and cooldown in three steps and decides by
what it has read. A critical section is two steps, the assignment and the push. The
port rules are put one by one outside of it, into a map of `MaxRules` entries that is
never emptied: a put that finds no room fails, which is logged and passed over. The anomaly
detector's verdict and the sampled rate are inputs (`Sample`), as are the files.
The history variables say who set the blackhole last, for how long no check has seen
the flood, and the shortest cooldown in force since the check began.

`XdpLoader` - daemons one after the other: load, clean, attach (native, then generic),
pin, per interface; an interface that is not there; giving up; detach; a crash at any
step; and an `unload` that may run at any time, as the unit's ExecStop does. `Surviving`
is the kernel's rule that a link lives as long as its descriptor or its pin.

`EventPath` - the rest of `consumeEvents()`: limiter, leaderboard, log, alerter.
It leaves the ban out, which BanTable has, and it does not apply the kernel's
throttle to what arrives, so it allows more events than the program sends. The alert
interval is any of `Intervals`, 0 included, which `validate()` accepts. The
time compared and the time stored are one reading of the clock.

`Telemetry` - a CPU bumps the counters of a frame one by one; `ReadStats()` copies
them one counter and one CPU at a time, in the order of the indices; a lookup may
fail; `Observe` is the rest of the monitor's loop. Rates are whole numbers as
`CalcRate()` truncates them. The moving average is kept as its whole part: a sample
takes it to any value the real one may have, so verdicts that hinge on a fraction
come out both ways. `Weight` is 1/alpha. The record of an attack may be lost, as
`LogAttack()`'s error is not looked at.

`CliFiles` - a file is a sequence of lines. An `add` to a list is one append, which may
fail unnoticed, and which is glued to the last line of a list that was edited by hand
and has no newline there (`bare`). What rewrites a file is three steps, the read, the
truncation and the write; each may fail, or the command be killed (`Abort`), and of a
list's failures nothing is said. The write starts at offset 0 of what others have
appended since, and may cut a line in two: what is left of it is `Torn`, or spells one
of its `Parts`, as 1.2.3.4 is left of 11.2.3.4. A write that stops half-way through its
buffer is not modelled: the files are smaller than a page. `kept` and `gone` are
history: what an undisturbed command added or removed. A key is what `ParseIP()` makes
of a spelling. The daemon starts, stops and reloads at any time; a command gets at none
of its maps (`LiveAfterCommand`).

`MC*` modules give constants their values. `*Proofs` modules hold the theorems.

## The runs

All passing runs together fire every action. Bounds are constants named in the
modules: `MaxTime`, `MaxFrames`, `MaxEvents`, `MaxDaemons`, `MaxElapsed`, `MaxMissed`,
`MaxCommands`, and `MaxSpent`, the budget of the XDP runs, from which a frame takes its
`Cost` and a write or reclaim `WriteCost`. Runs with a clock that stops at `MaxTime` set
CHECK_DEADLOCK FALSE for that reason; the others keep it on.

| Run | What it checks | Bounds, and why they are enough |
|---|---|---|
| `xdp_filter` | `Accounting`: drop reasons add up and every frame that is done, but a runt, is counted once. `SentenceServed`: no frame that looks for its auto-ban passes the check early. `LockdownSealed`: a frame that found the blackhole on is accepted only if its source was seen outside of one. `BansKept`: no running ban is changed but by a frame that had looked before it was put. `ReportsSpaced`: a CPU's reports of a source and type are a window apart, less two ticks. | Two CPUs, an IPv4 and an IPv6 source with equal first 32 bits, ten kinds of frame, three configurations with limits of 1, windows of three ticks. The budget takes two costly frames, one and a write or reclaim, or scans, which ban and report, in place of either at half the cost: enough for the delete of a fresh ban, for two CPUs in one throttle window, for a ban's end. 1.2 million states. |
| `xdp_budget` | `AcceptBudget`, `ListingBudget`: on each CPU, in any second, at most two windows' worth of a source's frames or of new sources, less the one that opened the first window. | Limits of two and, after a reload in mid-frame, of one; four sources and frames, where the bound is three; windows of two ticks, so that they straddle. The bounds are met: with one less, TLC finds a counterexample to each. One CPU, as the bounds are per CPU; what CPUs do to one another's listings is for the theorem. |
| `ban_table` | `PermanentBansHold`, `OnlyOffendersBanned`, `TemporaryBansEnd`; `ImplementsPolicy`: every step is a step of BanPolicy or changes nothing there. | A permanent, an IPv4 and an IPv4-mapped source, durations 0 and 1 with reloads between them, a clock that outlives a ban. One CPU: the CPU, the consumer, the sweeper and the reloads interleave; the theorems cover any number of CPUs. |
| `control_plane` | `KernelInSync`, `DynamicLimitEnds`, `NoOrphanLockdown`, `RulesInForce`, `CooldownObserved`, `LockdownLifts`. | Two files that differ in every field, rates on either side of each trigger, cooldowns of one and two, three ports for a map of two. No bound on steps: the state space is finite. |
| `xdp_loader` | `CleanStart`, `NothingLeft`, `UnloadClears`. | Two interfaces, which may be missing, four daemons: a crash, a failed start, a restart and a stop in any order, with and without `bpftool`. |
| `event_path` | `LeaderboardCapped`, `EventBudget`, `DedupBounded`, `LogsSpaced`, `RecentStay`, `PostsBounded`, and `PostsBudgeted` for an interval of 0. | Three sources for a board of two, six pairs for a log of one before it is pruned, two events a window of two ticks, so that three, the bound, fall into a straddled second; five events; sources are symmetric. |
| `telemetry` | `ReasonsCoverDrops`: in a snapshot no drop lacks its reason. `CountedOnce`: after failed reads, too, each drop is in one delta. `TypeOK`: a record of the attack log has a type. `AttacksEnd`. | Two CPUs, two protocols, one frame for as many as the limit of drops (`DropLimit` 1), two frames: one makes the baseline and one the attack, or both the attack, or each falls into the middle of a copy. One read may fail between two that do not. `Weight` is 4 in place of 20: the average moves more, so that it moves at all in numbers this small. |
| `cli_files` | `AddedStay`, `RemovedStayGone`: the effect of an undisturbed command lasts. `ReloadKeepsSettings`: the defaults come into force only through a file seen between its truncation and its write, or left there by a command that failed or was killed. | Two processes and the appends, three commands: two that overlap, and one before or after. Two addresses, one an end of the other, two countries, files with and without `block_countries`, a list edited by hand. Without the exemption for what a rewrite cuts, TLC finds the removed 1.2.3.4 back as the end of 11.2.3.4. |

Four runs expect a violation of something the repository says:

| Run | The repository says | The code does |
|---|---|---|
| `ban_cut_short` | `ban_duration_sec` is the time an IP is blocked | the sweeper compares time since boot with time since 1970 and lifts every kernel ban at its next round |
| `control_lockdown_off` | `trigger_pps`: "activate if total traffic exceeds" | a reload ends the automatic blackhole but not its flag, and nothing turns it on again |
| `xdp_loader_all` | "supports multiple" interfaces | each attach detaches all links, those of the interfaces before it too |
| `ban_zero` | `ban_duration_sec`: "0 = drop packets but don't ban" | the consumer reads the duration twice; a reload to 0 in between makes `BanIP()` ban for ever |

More was seen on the way and is written down here instead of in a run:

- Sources that share the first 32 bits of their address share a throttle key, so
  the events of one hide those of the other, against the comment at line 169 of
  `shivashield.bpf.c`.
- A CPU that found an expired ban deletes by key whatever is there by then, a fresh
  ban included, and one past its lookup is accepted though another has banned the
  source meanwhile: hence `late` in `BansKept` and `SentenceServed`.
- `thresholds.new_src` is "(global)" in `shivashield.example.yaml:23`; `new_src_map`
  is per CPU, and so is the bound that `ListingBudget` states.
- `blacklist add`, "dropped instantly" in `README.md:85`, changes the file only:
  `loadLiveFirewall()` (`main.go:451`) asks for a firewall without an object file and
  always gets an error, so the ban begins with the next start.
- The end of an attack writes back the limit saved when it began, over one that a
  reload has set since.
- `blackhole on|off` says that the firewall is not running, for the same reason; so do
  the live halves of the other commands.
- `geoblock add` reports success when the file has no `block_countries`, and changes
  nothing.
- A reload puts no new `admin_ips` on the whitelist; they wait for a restart.

Where a property is conditional, the condition is the code's own limit, not a
convenience: `PermanentBansHold` leaves out a source that another source's events
name (an IPv4-mapped offender replaces the IPv4 address's permanent ban), and
BanTable has no LRU reclaim (`blacklist_map` holds 100000 entries; XdpFilter has
it). `TemporaryBansEnd` says that a temporary ban ends once the traffic that writes
`blacklist_map` does (`MaxFrames`): under writes that never cease the iterator need not
visit any key. `SentenceServed` ends with the daemon's write, the reclaim, the whitelist
or a late frame's delete. `ReportsSpaced` is per CPU, since the throttle's lookup and
stamp are two steps: CPUs that look at once report together. It assumes a throttle map
that keeps its entries, so its run leaves that map out of `Reclaimable`; `xdp_budget` has
the reclaim of that map. `AcceptBudget` and `ListingBudget` are stated where
`rate_limit_map` is not reclaimed: a full LRU map forgets what it counted and whom it
listed. Both say something of configurations that have the limit (`Limited`): 0 is none.
They are stated per CPU, as the limits are; the total over all CPUs is at most NumCPU
times as much, since a frame is taken in by one of them. `RulesInForce` excepts rules that
found `port_rules_map` full. `CooldownObserved` takes the shortest cooldown in force since
the check began: a reload after the read may raise it in vain. `RemovedStayGone` ends
where a rewrite has cut the entry from a longer line.

### Fairness

`BanTable!FairSpec`: the sweeper's ticker fires as long as the daemon runs
(`BanManager.Start`), and time passes. Nothing is assumed of the consumer or the
CPUs. `BanIP` is held back when its ban would outlast `MaxTime`, else its end lies
beyond the model's.

`ControlPlane!FairSpec`: the monitor's ticker ticks and reading the counters does
not fail for ever; a critical section ends; and the monitor, which needs the lock
again and again, gets it (strong fairness: Go's mutex hands itself over to a
goroutine that has waited for a millisecond). Nothing is assumed of reloads or keys.

`Telemetry!FairSpec`: the monitor's ticker goes on for as long as the daemon runs, and
so does a read once begun. `MaxMissed` bounds the reads that fail in a row. Nothing
is assumed of the CPUs: the last frames may stay half counted for ever.

`CliFiles` has no fairness: a command may stop anywhere.

## What is proved

For every value of the constants that meets the modules' named assumptions:

- `BpfMapProofs`: what a write, a delete and a lookup do to a map's type.
- `BanTableProofs`: `TypeCorrect`; `PermanentBans` by `PermanentInv`; `OffendersOnly`
  by `OffenderInv`. That a permanent ban stays depends on what is under way: no
  CPU is past the lookup, no event in the ring or with the consumer names such a
  source, and `toDelete` has none. That only offenders are banned needs that
  every event of a banning type, queued or in hand, is about one. `PolicyKept`, that
  BanTable implements BanPolicy, takes both invariants: an action that bans is a
  Sentence because of the second, one that deletes a Release because of the first,
  and `MappedPut` and `MappedDel` say that the mapping commutes with the two writes.
- `ControlPlaneProofs`: `TypeCorrect`; `KernelFollows` by `SyncInv` (who holds `cfgMu`
  is where the actors are); `DynamicEnds` by `DynamicInv` (a limit that no file
  gave means a saved one that a file gave, and an attack that is on, or whose
  beginning or end the monitor is about to act on); `NoOrphan` by `OrphanInv` (the
  flag may be down only while the monitor is about to turn the blackhole off);
  `RulesApply` by `RulesInv` (what a reload has still to put, and no more, may differ
  from the file); `CooldownKept` by `CooldownInv` (the cooldown's clock is never ahead of
  the quiet, and what the check has read is no less than the shortest cooldown).
- `XdpFilterProofs`, for any number of CPUs in mid-frame: `TypeCorrect` (`Placed`: a
  frame is where its exit takes it); `LockdownIsSealed` by `SealInv` (the known sources
  are among those seen out of lockdown, and so is a frame's source once its stage found
  the blackhole off); `RunningBansKept` and `SentencesServed` by `BanInv` (a frame past
  its lookup whose source is banned either is late or is about to delete the expired ban
  it met, and an unserved sentence is the entry in the map); `CountersAgree`;
  `ReportsAreSpaced` by `ReportInv` (the throttle's entry for the first 32 bits of a
  source is at most a frame older than a CPU's last report, or later, being shared);
  `AcceptsBounded` and `ListingsBounded` by `AcceptInv` and `ListingInv`: both say of a slot
  (`Spends`) that what went through since a moment after its window began is nothing or
  less than it counted, and since an earlier one a window's rest more. A CPU that finds
  another one's entry starts from a zeroed slot, since which nothing went through; a
  frame between the two stages of a listing is counted as if it had listed (`ListedSoon`);
  `TouchSlots` says that counting on one CPU leaves the others' slots alone.
- `XdpLoaderProofs`: `TypeCorrect` by `TypeInv` (a daemon at work on an interface has
  one to work on); `StartsClean`, `LeavesNothing` and `UnloadCleans` by `LinkInv`: every
  program on an interface is held by the one pin or belongs to the living daemon,
  and the interfaces the daemon is done with carry none or its own.
- `EventPathProofs`: `TypeCorrect`; `LeaderboardBounded` and `RecentKept` by `BoardInv`
  (an eviction gives up at least one entry of a finite, full board); `LoggedOnce` by
  `LogInv` (what was logged less than dedupTTL ago is in dedupSeen with that time, so
  pruning cannot forget it); `BudgetKept` by `MeterInv` (since a moment of the running
  window no more passed than the window counted, since one before it one window's worth
  more, less its opening event); `PostsLimited` by `PostInv` (two posts of a type start
  an interval apart and each ends in its timeout), counted with an injection of the
  posts into the intervals since they started; `PostsMetered`, the bound that an
  interval of 0 leaves, by `PostWindow` (the posts started since a moment are no more
  than the windows let through since then); `DedupLimited` by `LogWindow` (the pairs
  logged since a moment are no more than what the windows begun since then, and the one
  under way before, let through).
- `TelemetryProofs`: `TypeCorrect`, with which each record has a type; `DropsExplained` and
  `DropsCountedOnce` by `CountInv`. A snapshot is the sum of copies that the CPUs had
  at different moments: `SnapshotInv` names those copies, says that a CPU's drops were
  copied before their reasons and are no fewer than those in the last snapshot, and
  `ReasonInv` that a CPU counts a reason before its drop. The provers have no
  induction for sums, so a sum is the cardinality of the set of its units
  (`AddsUp`): one more CPU adds a disjoint set, and sums compare by injections.

- `CliFilesProofs`: `TypeCorrect` by `TypeInv`; `AdditionsStay` and `RemovalsStay` by
  `EntryInv`: what a process has read of a file still has every entry kept there and
  none that is gone, what is gone stays so through a write unless the lines that it met
  or their ends spell it, and where a process does not rewrite the file alone nothing
  is claimed of either; `SettingsKept` by `SettingsInv` (the configuration has its settings
  or is empty, and empty only while a command is at it or after it was met so).
  `WithoutLineKeeps` says what the loop of `removeIPFromFile()` leaves of a file of any
  length.

Where a proof needs induction over data (the loop of `removeIPFromFile()`, the greatest
of a finite set of limits), it goes by the least counterexample: `LeastNatural` in
`BpfMapProofs` says that a set of naturals has a least element, and what holds before
the first failure holds one step later.

The assumptions are those named in the modules: constants are of their types; the set
of configurations is finite, its fields having a width; in `CliFiles` no file stands for
the defaults or for an error, `Key` is defined for the texts and `Parts` for the lines.

The proofs cover any number of CPUs, sources, frames, configurations, files,
interfaces, events and limits, and do not depend on the bounds.

Every safety property of a passing run has its theorem. Only TLC can check the liveness
properties `TemporaryBansEnd`, `LockdownLifts` and `AttacksEnd`: proofs here have no
ENABLED. `ReportsAreSpaced`, `AcceptsBounded` and `ListingsBounded` have a hypothesis on
`Reclaimable`, without which their properties are false. Nothing is proved of the four
runs that expect a violation.

## What is not modelled

- Parsing of frames, bytes and text: a frame, a source or a file is a value.
- A field of `config_map` that changes between two loads in one stage of a frame, and a
  write of the configuration that a CPU sees in part. Telemetry takes it that a CPU's
  counters are seen in the order of its stores, as on x86.
- Byte rates, the text of a record of the attack log, `ReadHistory()` (nothing calls
  it), what `tcpdump` captures.
- YAML as text and the checks of `validate()` one by one: a file is read, refused or
  taken for empty. `list`, `status`, `version` and `help` change nothing.
- GeoIP's country loader, which nothing calls; the build, the install scripts; the
  dashboard's drawing and its lookup of countries. What `ss` and `sshd_config` say of
  SSH peers is any subset of a set.

## Plan

Done: the inventory; all components with concurrent state, with their runs; the
refinement of the ban life cycle; the type and safety theorems of all of them.

Next, in this order:

1. The safety that the liveness properties rest on, as far as it goes without fairness.
2. The total over all CPUs of what a source gets through, from `AcceptsBounded`, by
   injections as in `TelemetryProofs`.
3. A property for the throttle key that sources share (`ThrottleKey`): how long an event
   of one may hide those of another.
