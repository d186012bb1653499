# A TLA+ project for SENTRYX

SENTRYX is a host firewall.  An XDP program (`bpf/xdp_sentryx.c`) drops packets
in the kernel; a Go daemon (`cmd/sentryxd`, `internal/`) owns the kernel maps
the program reads, serves an HTTP API over them, persists the rules, applies a
policy file and runs background loops that block and unblock addresses on
their own.  A command line tool (`cmd/sxctl`) talks to one daemon or to a fleet.

This directory holds the TLA+ modules that model it, the TLC runs that check
them and the TLAPS proofs about them.  `PROJECT.json` says, definition by
definition, which lines of the code each one stands for.

## 1. Inventory

| Component | State | Operations | Interacts with |
|---|---|---|---|
| XDP packet pipeline (`bpf/xdp_sentryx.c:964`) | stats, drop reasons, activity, conn_table, all per packet and per CPU | one run per packet | reads every map the daemon writes |
| Token buckets (`bpf:524`, `:552`) | `rate_limits`, `bandwidth_limits` | refill, spend | seeded by `Firewall.RateLimit`/`BandwidthLimit` |
| SYN cookies (`bpf:712`-`:842`) | secret and previous secret, per-source SYN counter, verified sources | rotate, challenge, verify | `SetSynCookieConfig` |
| Port knocking (`bpf:849`) | `knock_cfg`, `knock_state`, `knock_unlocked` | one knock, one packet for the protected port | `SetKnockConfig` |
| ARP watch (`bpf:909`) | `arp_table`, `arp_alerts` | one ARP packet | polled by the detector |
| `firewall.Firewall` | the maps' handles, the mirror `rules`, `geoRules`, observers; one RWMutex | Block, Unblock, RateLimit, BandwidthLimit, BlockCIDR, ... | called by everything below |
| `store.Store` | `rules.json` | Load, Save (write and rename) | boot restore, `persist()` |
| HTTP API (`internal/api`) | none of its own | 24 handlers, run concurrently | Firewall, Store, detector, capture, registry, topology |
| Boot and shutdown (`cmd/sentryxd/main.go`) | - | attach, restore, policy, feeds, serve, stop | everything |
| Policy file (`internal/policy`) | - | Load (its own YAML subset), Apply | Firewall |
| DNS blocking (`internal/dnsresolve`) | domains, addresses of each domain | Refresh on a timer | Block/Unblock |
| GeoIP (`internal/geoip`) | countries, CIDRs of each country | Refresh on a timer | BlockCIDR/UnblockCIDR |
| Threat-intel feed (`internal/threatintel`) | addresses of the last good fetch | Refresh on a timer | Block/Unblock |
| Anomaly detector (`internal/anomaly`) | baselines, flagged addresses, alerts | poll on a timer | activity map, Block |
| Threat sharing (`internal/threatshare`) | registry of shared blocks and expiries | Report (outbound), Apply (inbound), sweep on a timer | block observer, Block/Unblock, other daemons |
| Topology recorder (`internal/topology`) | ring of 500 events, sequence number | Observe, Snapshot, Since | block observer, SSE handler |
| Packet capture (`internal/capture`) | session: running, file, reader; kernel switch `capture_cfg` | Start, Stop, drain | SetCaptureEnabled, ring buffer |
| `sxctl controller` | node list | fan out with retries | many daemons' APIs |
| `sxctl policy apply`, other commands | - | translate flags and files to API calls | one daemon |
| Windows and macOS backends | mirror of rules, OS rule table | as Firewall, through OS commands | - |
| `sentryx-setup`, dashboards, installers | - | download, install, display | - |

### What is hard here

* **Two copies of every rule.**  The kernel map and the Go mirror are written by
  separate statements, on many paths, and a third copy is on disk.
* **Handlers interleave.**  A handler is several `Firewall` calls and a
  `persist()` that reads under one lock and writes under another.
* **Automatic actors share one rule table.**  The DNS loop, the feed, the
  registry's sweep and the operator block and unblock the same addresses; each
  acts on what it remembers, releases its lock before it calls the firewall,
  and the table keeps one reason per address.
* **Per-CPU races in the kernel.**  Lookup, decide and update on the maps are
  not atomic; clocks are read before, unsigned differences wrap.
* **Crash and restart.**  Maps are not pinned; only `rules.json` survives.
* **Time.**  Windows, TTLs, secret rotation, tickers.

The hazards, each at its line and with the properties that cover it, are in
`PROJECT.json`.

## 2. Plan

Order: what decides whether a packet is dropped and who may change that first,
then what changes it behind the operator's back, then the rest.

| # | Modules | Abstract specification | Proofs | State |
|---|---|---|---|---|
| 1 | `RuleTable`: maps, mirror, disk, handlers, boot, crash | - | type, mirror, limits, file, restore | done |
| 2 | `StealthGate`, `PortKnock`, `KnockTrail`: port knocking | `StealthGate` | type, safety, who knocks gets in, refinement | done |
| 3 | `ThreatShare`: reports, registry, sweep, fleet | - | type, origin, tracking, first reports | done |
| 4 | `Feeds`: DNS, GeoIP and threat-intel loops on one table | - | type, memory of blocks, listed is blocked | done |
| 5 | `Capture`: sessions, timers, drain goroutines, kernel switch | - | type, switch, reader, data | done |
| 6 | `SynCookie`: challenge, secret rotation, trust | - | type, trust, acceptance | done |
| 7 | `Detector`: activity counters, polls, baselines, alerts | - | type, alerts, floods, steady sources | done |
| 8 | `TokenBucket`, `Pipeline`: the checks of `xdp_sentryx` in order, the buckets, what a drop records | `TokenBucket` | type, bucket bound, refinement, blocks, drops | done |
| 9 | `Topology`, `OsBackend`: the ring and its stream, on top of the Windows and macOS backends whose observers feed it | - | quiet targets, the page | done |
| 10 | `PolicyFile`, `Controller`: reading a policy, and pushing it to a fleet | the file read as a whole (`Meaning`) | reading, report | done |
| 11 | one abstract rule table of one reason per address, implemented by `RuleTable`, `Feeds` and `ThreatShare` | that table | refinement | open |
| 12 | `SynWindow`: the count of `syn_rate_bump`, two CPUs | rate per window | window bound | open |
| 13 | ARP watch: `handle_arp`, the alerts and the detector's poll | - | - | open |

`Pipeline` includes `TokenBucket` and takes the TCP stage as the set of its
outcomes; `PortKnock` and `SynCookie` have that stage itself.  What is proved of
them composes: a packet leaves the stage with one of these outcomes.

## 3. The modules and the code

Every module has an `MC` module with the instances TLC checks and, where
something is proved, a `...Proofs` module.  Operators whose name is that of
another definition followed by `_Something` are mutants: a way the code could
plausibly be wrong, each marked as such, which a property must be able to tell
from the code.  Nothing refers to them.

### RuleTable

State: `blocklist` and `limits` are the kernel maps (keyed by parsed address),
`rules` the mirror `Firewall.rules` (keyed by the string of the request), `disk`
is `rules.json`.  One `Firewall` call holds the firewall's lock for its whole
length and is one action; a *handler* is a sequence of such calls, so
`handleCreateRule` is `CreateBlock`, `CreateLimit` for each limit asked for and
`CreatePersist`, then `persist()` is `PersistList` (under the firewall's lock)
and `PersistSave` (under the store's).  A map may be full, an IPv6 address takes
no limit, a save may fail.  The detector, the feeds and the registry appear as
`AutoBlock` and `AutoUnblock`, which never persist.  `Stop` is a crash or a
shutdown: the maps go with the process, the file stays, and the boot loop of
`main()` rebuilds the table entry by entry (`BootEntry`) and applies the policy
after that.  Where `LoadMayFail`, `Start` may find a file it cannot read
(`store.Load` fails): `main()` then warns and goes on with an empty table, and
the next save overwrites the file.  The runs have it `TRUE`.

Not told apart: labels and times of a rule.  Two names may spell one address
(`AddrOf`); `Canonical` says that none do.

### StealthGate, PortKnock, KnockTrail

`PortKnock` is `handle_port_knock` as CPUs run it: `Receive` takes the
timestamp, then one action per map access (`LookupProgress`; `Advance`, or
`Unlock` followed by `StartAfresh`; `CheckUnlocked`), interleaved with other
CPUs and with LRU evictions.  `now - last <= window` is unsigned: `InWindow`
says what that amounts to.  Steps are counted from 1, in the code from 0.  Its
`Next` is the program under the configuration it started with.

`StealthGate` is what the feature promises: a packet for the protected port
passes only for a source that knocked the whole sequence in order, each knock
within the window of the one before, at most three windows ago.  `PortKnock`
carries the knocks seen as a history variable `syns` and implements
`StealthGate` (`GateSpec`).

`KnockTrail` adds the operator who changes the configuration (`SetKnockConfig`
overwrites one map entry and keeps progress and unlocks) and remembers each
source's latest knocks, to state the other half: who knocks right gets in
(`KnockerGetsIn`).  Under a change of configuration `UnlockEarned` is false:
progress made under the old sequence counts toward the new one (section 6).

### ThreatShare

The rule table of each daemon is reduced to one reason per address (`block`);
`entries` is `Registry.entries`.  A report is a record in `net`: it may be lost
at any time (peer down, 5xx, timeout) and is delivered in any order.
`Registry.Apply` is `ApplyBlock` then `ApplyEntry`, `sweep` is `SweepCollect`
then one `SweepUnblock` per address, because the lock is released in between.
`phase` tells the time before `AddBlockObserver` from the time after it: blocks
restored or fed during boot are not relayed.  `SweepUnblock` may fail, and then the
block stays without its entry.  `origin`, `accepted`, `orphaned`, `lifted` are
history; an orphan is a shared block nobody knows the end of, brought back by
the file or left by a failed unblock.

### Feeds

One process per loop (`pc`): a refresh fetches, blocks what is new one address
at a time, unblocks what is gone one address at a time, and replaces `current`.
`dnsresolve` and `geoip` go on when a source fails, `threatintel` gives up.
Operators, other loops, reconfiguration and crashes come between any two
steps.  An operator's create and its save are one action here; `RuleTable`
splits them.  An `Unblock` may fail (`UnblockGone`): the loop forgets the address
all the same.  `missed` (blocks that were refused) and `orphaned` (rules brought back by
the file, blocks that could not be lifted) are history.

### Capture

`Start` holds `r.mu` for its whole length and is one action.  `Stop` is three:
`CallStop` or `TimerStop` under `r.mu` (both `EndSession`), then `StopClose` and
`StopDisable` with the lock released.  `TimerFires` and `TimerStop` are two,
because `time.AfterFunc` runs `Stop` in a goroutine of its own: a timer that has
fired can no longer be disarmed and calls `Stop` on whatever session runs by
then.  On the other side `capture_packet` looks at the switch (`CheckSwitch`) and
copies the packet afterwards (`Submit`), each session's drain goroutine reads the
ring (`Read`) and appends under `r.mu` (`Append`).  What no reader took stays in
the ring.  The bytes of the packets and of the file are left out.

### SynCookie

One run of the program for the first SYN of a flow is `AdmitSyn`, or
`ChallengeSyn`, `CheckSecret`, the three stores of a rotation (`RotatePrev`,
`Renew`, `Stamp`) if it is due, and `Mint`; for a bare ACK it is `Ack` and, if
the current secret does not match, `AckPrev`.  The runs of several CPUs
interleave.  A cookie is the flow, the number of the secret, and the epoch it
was made from, known modulo `Epochs` (three bits).  The secret the daemon seeds
is stamped with the wall clock, which the time since boot never reaches, so the
first challenge rotates it.  The previous secret is seeded 0 (`KnownSecret`), which
everybody knows: until the first rotation, an ACK that comes with a cookie
nobody gave, computed under it (`Computed`), is accepted.  `syn_rate_bump` returns *some* count: what the
thresholds do with it is modelled, how it is counted is not.
`cookies`, `raced`, `guessed` and the `clean` and `stale` marks are history: they name
the runs a rotation overlapped, and the sources that are trusted for a
made-up cookie.

### Detector

`activity` is the kernel's map: a source without packets has no entry, an entry
is never emptied.  `CountPacket` and `CountSyn` are the two additions of
`track_activity`, and what another CPU has counted in between is in `pending`.
`ActivitySnapshot` reads one entry per `Read`, so a poll mixes moments; what it
has read of one entry is taken as of one moment.  `Judge` is one turn of the loop of
`poll` under `d.mu`.  A rate is the number of packets since the poll before, as
in the code, which divides by the configured interval whatever time has passed;
time itself is not in the model, so polls come as late as they like.  The
weighted average of old rate and sample is *some* number between the two:
nothing checked depends on the weight.  `flood`, `samples`, `mixed` and `alerts`
are history.

### TokenBucket, Pipeline

`TokenBucket` is `rate_exceeded` and `bandwidth_exceeded`, which differ in their
unit only.  A check is the four steps the compiled code has: `Lookup` (the
entry's address and the time), `Measure` (the loads the refill is computed from),
`Read` (the load of the tokens), `Write` (the stores, or none when the packet is
dropped without a refill).  Two CPUs interleave them.  `SetLimit` is
`RateLimit`/`BandwidthLimit`: a Put replaces the element of the map, so a check
that holds the old one goes on with memory nobody looks up any more, hence
`entry` from source to slot and `bucket` by slot.  The seed's stamp is the wall
clock, the kernel's the time since boot; differences and products wrap at
`Word`.  `meter` is history: what a slot has let through since a mark that
`Watch` may set at any time, and how many of its stores raced.

`Pipeline` is the packet's way: `LookupV6`, or `LookupBlocklist`, `LookupGeo`, the
buckets, and for a drop the count and `record_drop`, which looks its entry up
and then adds to it or inserts it.  The daemon changes the tables in
between.  `Unblock` deletes twice, so there is a state (`busy`) between its
deletes, and `Forget` is the second one.  The program looks up the raw bits of
`ip->saddr`; the daemon writes the key that `ipToKey`, `v6Key` or `cidrToGeoKey`
makes of the address it was given.  `KeyOf` and `KeyCovers` say whose address that
key is: the address's own on a big-endian host and for IPv6, that of the reversed
bytes for IPv4 on a little-endian one.  Two marks of a packet are history: `denied`
is the keys that matched its source when it was received and have not been lifted since,
`meant` the blocks the daemon was given for its address.  `due` is
history: the drops that the explanations of a source should count.

### PolicyFile, Controller

`PolicyFile` is `policy.Load`, one line a step: the section it is in (`sect`), the
entry it builds (`open`) and `Flushed`, which a header, an item, a version and
the end of the file run.  A line comes as its kind, key and value; what
`strings.Cut` and `strconv` do to it is in the tables `Number` and `Unquoted` of
the instance, which give `""`, quoted numbers and numbers out of range.
`Meaning` says the same without a state: which lines belong to which section,
and of a key the last line that says something.

`Controller` is `sxctl` with the policy so read.  `Begin` sets up `fanOut`:
`Launch` takes a place of the semaphore for one node after the other, the
goroutine of a node runs `Send`, then `Answer` or `Timeout`, and `Leave` gives the place
back.  A request is in `wire` from `Send` on, also after its client has given up:
`Serve` may take it, stage by stage (block, rate, bandwidth), at any later time.
A stage may fail and leaves what came before it.  `nodeRequest` and `apiRequest`
treat a refusal differently, and an answer that breaks off while it is read.
Operators delete blocks meanwhile (`Remove`).  `policy` is history: what the policy
said when the command was started, whatever the command makes of it.  So are
`removed` and `late`, for what a report can not know.

### Topology, OsBackend

`Topology` is the recorder, the two handlers that read it and the page: `Snapshot`
and `LatestSeq` are the two locks of one request, `StreamTick` is a tick of the
stream and what the page draws of it, `Reopen` is the browser, which comes back
with the address the stream was first opened with.  `RestartMap` loses the ring.
An event is its number.  `lost`, `base`, `old` are history: what was out of the
page's reach, where it began, and whether its daemon was restarted.

`OsBackend` is `firewall.Firewall` of Windows and macOS.  A call is `Command` (a
process of the operating system, no lock held), `Record` (the mirror under
`f.mu`) and `Observers`, which is `Topology!Observe`.  On Windows `os` counts the
rules of one name: `netsh` adds another and deletes all.  `CloseWindows` and
`CloseOne`, or `CloseDarwin`, are the shutdown, `Crash` may come at any time and
leaves the operating system's rules.  `left` and `mixed` are history: rules an earlier
life left, and targets that two calls worked on at once.

## 4. What the runs check

A *pass* run explores every state of its instance.  A *violation* run checks
one sentence of the repository against the model, and TLC finds the execution
that contradicts it; `PROJECT.json` quotes the sentence and the line.

| Run | Shows |
|---|---|
| `RuleTable_handlers` | with overlapping handlers, the detector, full maps, failing saves and a stop at any point: `MirrorAgrees` and `ListedLimitsEnforced` (what the API lists is what the kernel does), `AckedSurvives` (what was answered and surely saved is in force after every restart that could read the file), `RestoreFaithful` (the restore loop rebuilds each saved rule with its limits) |
| `PortKnock_race` | two CPUs and evictions: `UnlockEarned`, and the refinement of `StealthGate` |
| `KnockTrail_serial` | `KnockerGetsIn`, after any wrong, late or repeated knocks and any reconfiguration |
| `ThreatShare_fleet` | two daemons that report to each other, with crashes, losses, reordering, operators, saves and unblocks that fail: `SharedHasOrigin` (no relay of a relay), `SharedTracked`, `FirstReportEnforced`, `SharedExpires` |
| `Feeds_shared` | a DNS feed, a threat-intel feed and an operator on one address, with blocks and unblocks that fail: `BlocksRemembered`, `ListedBlocked`, `RolledOffLifted` |
| `Capture_sessions` | callers and timers race on three sessions: `SwitchTracked`, `ReaderOpen`, `SwitchOnForSession`, `DataKept`, `TimedEnds` |
| `SynCookie_tiers` | two CPUs, two rotations, evictions, reconfiguration, made-up cookies: `AnswerAccepted`, `TrustEarned` |
| `Detector_polls` | packets arrive while polls read, judge and fail: `AlertsPaidFor` (no alert for one burst), `FloodFlagged` (no SYN flood slips through), `SteadyNotFlagged` |
| `Pipeline_cpus` | two CPUs, the daemon changing blocks, ranges and limits: `MeterBound` (a bucket lets through its burst and its rate, whatever raced or wrapped, and two bursts more for each raced store), `BlockedStops` (no packet passes a key that was in the lists when it came in), `DropsExplained` (explanations never exceed the drops, and miss few) |
| `Pipeline_littleendian` | *violation*: one CPU of a little-endian host lets a packet of a blocked IPv4 address go on, because the list has its reversed bytes (`BlockInForce`) |
| `Controller_push` | every policy of five lines, pushed or applied, with lost, late and repeated requests and refusals: `ParsedAsWritten` (what is loaded is what the file says), `ReportHonest` (a node with a tick is as the policy says, in all that the command carries over), `CommandEnds` |
| `OsBackend_map` | calls that cross each other, the shutdown and a crash at any step, broken streams: `QuietAgrees` (listed is enforced where no calls crossed), `StreamComplete` (the map misses nothing but what the ring dropped or the two locks let through, and draws nothing twice) |

### Bounds

Each bound is a constant, named in the `.cfg`.

* `RuleTable`: two names with an address each, one kind of limit with the values
  0 and 1, maps with room for one entry, two handlers, a policy that blocks one
  of the names.  A lost update takes two handlers; a full map takes two
  addresses and one place; the two kinds of limits go through the same code.
* `PortKnock`: `MaxTime` 3 stops the clock and `MaxSyns` 4 the number of knocks;
  the window is shorter than the clock, so a knock in time, a late one and an
  unlock that runs out all occur.  Two CPUs are what one race on `knock_state`
  takes.  `KnockTrail` runs one CPU with six knocks and three configurations of
  three, two and no steps, the last of which switches the feature off.
* `ThreatShare`: two daemons that name each other, one address, `MaxReports` 2
  (a refresh takes two), `MaxTime` 4 against lifetimes of 2 and 1.  `Expiry` is
  cut off below `MaxTime`, so every expiry is reached.
* `Feeds`: two domains and the one list of the threat-intel feed, two addresses,
  one of them named by both feeds and by the operator.  An address appears,
  disappears and changes hands.
* `Capture`: three sessions (a late timer needs two, a late `Stop` as well, the
  third follows both), two callers, one packet.
* `Feeds` and `ThreatShare` let any unblock fail, `RuleTable` any load: one failure is
  enough for an orphan or an empty table, and the instances have several.
* `SynCookie`: one source with two flows, two CPUs, `Quantum` 1, `Epochs` 3,
  `Rotate` 2, `MaxTime` 3: two rotations, a cookie of every age up to one that
  the three values of the epoch take for a new one, three challenges.  `MaxLag`
  is how many ticks one run of the program may take.
* `Detector`: one source, because sources share nothing but the poll; nine
  packets against a floor of 2, two strikes and a multiplier of 2: three polls to
  have a baseline, an anomalous one after it, two alerts.  One CPU is in the middle of
  counting a SYN at a time.
* `Pipeline`: two CPUs, an IPv4 and an IPv6 source, one range, one bucket ever put (two
  CPUs race on one), three packets: one fills the burst, two race.  `Unit` 2,
  `Word` 32 and a wall clock of 22 make the first difference wrap, the product
  wrap, and a fraction of a token get lost.  `MaxReasons` 1 makes the drop reasons full.
  The passing run has a host on which keys are addresses (`BigEndian`); an instance of the
  other kind needs an address more, its reverse, which is too many states, and
  what holds there is proved (section 5).  `Pipeline_littleendian` is small: one
  CPU, one packet, the address and its reverse.
* `Controller`: files of up to five lines (an item with a field, a header and a
  field after it, and one line more) that make up to two block entries; two
  nodes, one of them with a wrong token; two attempts; `Parallel` 1, so that the
  second node waits for the first one's place, and 0, which stands for the
  default; one late request at a time.  The numbers are cut off at 2, ports per
  sequence at 1, so that both can be overstepped.
* `OsBackend`: two goroutines that work on one address, or on two ranges; up to
  two rules of one name; a ring of two events, a first request for one,
  four events in the life of a daemon: the ring overflows under a page that is open.

### Fairness

* `ThreatShare!Fairness`: the clock runs; a handler that has blocked goes on to
  record the expiry (no blocking call in between); `Registry.Run` is started
  once and never returns before shutdown, so the sweep's ticker keeps firing and
  its loop over expired addresses ends; boot ends.  That a report arrives is not
  assumed.
* `Feeds!FairSpec`: `Run` loops on a ticker until shutdown and every HTTP client
  and resolver call ends, so a refresh that is under way goes on and a new one
  starts.  That a source answers is not assumed.
* `Capture!FairSpec`: the runtime fires a timer that is armed and runs its
  goroutine, and a `Stop` that has ended a session reaches its end (nothing in
  it waits).  That anybody calls `Stop` is not assumed.
* `Controller!ControlSpec`: the goroutines of the client run and its timeouts fire.
  Nothing is asked of the daemons or of the network.  That a timeout fires needs a
  positive `--timeout`: with 0, `http.Client` has none and a daemon that never
  answers keeps the command waiting.

The clock of a bounded instance stops at `MaxTime`, so runs with a clock switch
TLC's deadlock check off; so do `Capture`, `Detector`, `Pipeline`, `Controller` and
`OsBackend`, whose sessions, packets, requests and rules are bounded.

## 5. What is proved

The proofs hold for every value of the constants that the `ASSUME`s allow.  Each
strengthens the property to an inductive invariant, shows that every action
keeps it, and ends with PTL.

* `RuleTableProofs!TypeCorrect`; `MirrorCorrect`, `LimitsCorrect`, `AckedCorrect` and
  `RestoreCorrect` under `Canonical`, which the code does not guarantee (section 6).
  The boot loop also writes map and mirror, so the invariant says what it has
  still to go through.  `AckedCorrect` and `RestoreCorrect` follow a rule around
  the circle of table, list in a handler's hand, file and boot loop (`SavedInv`):
  what is on disk once fitted the maps, so a boot, which starts with empty maps,
  has room for every entry it has still to put back; and no list in a handler's
  hand contradicts what was acknowledged, nor what that handler is about to
  acknowledge (`AckedInv`, `PendingInv`).  A boot that cannot read the file leaves
  the circle: it restores nothing, and what had been acknowledged is known to be
  open again.
* `PortKnockProofs!TypeCorrect`, `UnlockIsEarned`, `GateRefined`, `KnockerIsLetIn`.  `UnlockEarned` is not
  inductive: whether an unlock is earned depends on `progress`, whether progress
  is earned depends on `syns`, and a CPU holds an old look-up in `pkt`
  meanwhile.  The invariant says that every index in `progress` or in a CPU's
  hand is the length of a knocked prefix that ended at the stamp beside it.
  `KnockerIsLetIn` is the other direction, under an operator's changes of
  configuration: an index in `progress` is at least as long as the run of right
  knocks that ends the trail.  It assumes one packet at a time and no eviction, for either
  loses progress, and sequences of distinct ports and not of one port
  (section 6).
* `ObserverProofs!TypeCorrect`, `OriginCorrect`, `TrackingCorrect`,
  `FirstReportCorrect` are about `ThreatShare`.  `OriginCorrect` needs that reports in flight, saved blocks and
  half-applied reports have an origin too.  `TrackingCorrect` excepts, inside
  the property, the orphans: what a restart brought back from the file, and what
  the sweep forgot before its unblock failed.
  `FirstReportCorrect` follows the one report of an address: being applied, then
  entered and blocked, then collected by a sweep that has not unblocked it yet,
  and its entry gone.
* `ObserverProofs!QuietlyAgrees` and `StreamIsComplete` are about `OsBackend` and
  `Topology`.  For the first, a call none has crossed is alone on its target and
  what its command did is still so when it reaches the mirror (`CommandHolds`);
  a closing daemon has noted what it leaves (`NotedLeft`).  For the second, the
  ring is a run of sequence numbers that ends at the newest, so whatever the
  handlers cut from it is a run (`NewerRun`); what a page has not seen is in the ring
  or known to be lost (`InReach`).
* `IntakeProofs!TypeCorrect`; `FeedsRemember`, except for rules the file brought back and
  blocks whose unblock failed.  The invariant
  follows an address from `todo` to `fresh` to `current`.  `ListedCorrect` reads it
  the other way: what is in `fresh` or `current`, and nobody else's, is blocked or
  was refused.
* `IntakeProofs!ReportCorrect`.  The tick is about the end, the invariant about every
  moment before: no request is ahead of the goroutine that sent it
  (`NoneAhead`), so a request served late is one of the goroutine's own past;
  what a request has done is known at each of its stages (`UnderWay`) and stays
  done behind a goroutine that had no error (`Answered`); a limit is the
  newest that some goroutine wrote, or the host has had a late one
  (`LimitsSet`).  At the end every request has been answered (`SentHonest`).  What
  was sent is then compared with the policy (`Carried`): its entries in their
  order, with the limits the command carries, and after `apply` both settings.
* `IntakeProofs!ReadCorrect`.  The reader's state is related to the lines so far:
  what is open is what the lines of the last entry or section say, and what
  `flush` would make of it is the meaning of the file so far (`ReadInv`).  A line
  then changes the reader and the meaning alike, which needs how a line more
  changes everything the meaning is made of: where lines belong (`NewOpener`),
  what they say (`BuiltGrows`), which entry is which (`EntriesStep`).  The file
  need not be short: the proof is over the lines it is read in.
* `CaptureProofs!TypeCorrect`, `SwitchIsTracked`, `ReaderStaysOpen`,
  `SwitchStaysOn`, `DataIsKept`.  Every `Stop` under way holds the number of an earlier session,
  so what it closes is never the running one's; while a session runs that no
  `Stop` overlapped, no `Stop` is under way.
* `SynCookieProofs!TypeCorrect`, `TrustIsEarned`, `AnswerIsAccepted`.  The last one
  follows every clean cookie from being made with the current secret, to the
  previous one, to too old to matter, with one rotation per `Rotate` at most as
  long as no two overlapping runs rotate.  `TrustIsEarned` needs that
  the known secret is the previous one only as long as the daemon's seed has not
  been rotated (`SeedGoes`).
* `DetectorProofs!TypeCorrect`, `AlertsArePaidFor`, `FloodIsFlagged`,
  `SteadyIsNotFlagged`.  All rest on one invariant of the counts: baseline below
  snapshot below counter, SYNs below packets, and no more than one SYN per CPU
  missing.  Packets then pay for strikes and alerts; every flood that a poll saw
  is a strike; and a baseline is never below all samples it was made of.
* `PipelineProofs!TypeCorrect`, `BucketsBound`, `Refines`, `LimitsHold`, `BlocksHold`,
  `BlocksTakeEffect`, `DropsAreExplained`.  `BucketsBound` keeps an account of each bucket: what it has let
  through and the tokens that are left are at most a burst, the refills since
  the mark and the fraction that is not refilled yet, and each raced store is charged two
  bursts.  It is proved of `TokenBucket`; a step of `Pipeline` is one of
  `BucketNext` or leaves the buckets alone (`Refines`), which gives
  `LimitsHold`.  `BlocksHold` needs that what denies a packet is still in the tables and that the
  packet has not passed the stage that looks there; it holds for every `KeyOf`, and
  speaks of keys.  `BlocksTakeEffect` speaks of the addresses that were blocked,
  and has the assumption that the two are the same (`NetworkOrder`).  `DropsAreExplained` counts
  the CPUs that have counted a drop and not recorded it yet.

The assumption behind `AnswerIsAccepted` is `Rotate >= 2 * Quantum - 1 + MaxLag`.
The code has `Rotate = 2 * Quantum` exactly, which leaves a run one tick: a run
that takes longer and straddles a rotation at the last moment of a cookie's two
epochs may refuse it.  `TrustEarned` and acceptance are modulo `Epochs`: with the
code's three bits a cookie is valid again eight epochs later.

Every invariant that a passing run checks is proved, and so are the refinements and the
action properties.  Only model-checked: the liveness properties (`SharedExpires`,
`RolledOffLifted`, `TimedEnds`, `CommandEnds`), which are out of the prover's
reach here.  That the model's own bounds (`MaxLines`, `MaxEntries`, `MaxLate`) do
not matter is part of the proofs: none of them is used.

## 6. Where the code and its documentation disagree

Shown by a run:

* **Blocks of IPv4 addresses miss on little-endian hosts.**  `ipToKey`
  (`firewall_linux.go:984`) makes the integer of the address's bytes in big-endian
  order, the map library writes it in the host's order, and the program looks up
  `ip->saddr` as it came (`xdp_sentryx.c:1009`).  On x86 or arm64 the entry for
  10.0.0.1 is the one 1.0.0.10 finds (`Pipeline_littleendian`), against
  `firewall_linux.go:438-440` and `:982-983`.  Ranges (`cidrToGeoKey`) and limits go the same
  way; IPv6 keys are bytes and are right.  Addresses the daemon reads back from
  the kernel's maps (`keyToIP`) are reversed as well: what the detector blocks by
  itself is the source it saw, under its reversed name.

Met while modelling, and excepted by name in the properties that would be false:

* A rule file that cannot be read (a parse error, no permission) is a warning:
  `main.go:181-182` goes on, serves with an empty table, and the next `persist()`
  overwrites the file.  `store.go:1-5` says that rules survive a restart.
  `AckedSurvives` and `RestoreFaithful` except such a boot.
* A failed unblock is forgotten.  `sweep` deletes the entry before it tries
  (`threatshare.go:270-280`), the feeds replace `current` whether or not it worked
  (`resolve.go:166-171`, `geoip.go:186-191`, `threatintel.go:128-131`): the block stays
  and nobody tries again.  `netsh` and `pfctl` may well fail.  `SharedTracked`,
  `SharedExpires`, `BlocksRemembered` and `RolledOffLifted` except it (`orphaned`).
* The daemon seeds the previous cookie secret with 0 (`firewall_linux.go:392-396`), and
  the program accepts cookies under it (`xdp_sentryx.c:1143-1145`): until the first rotation
  anybody can compute one, where the comment above the seed says that the random
  value "is what actually makes cookies unguessable".  `TrustEarned` names these
  sources (`guessed`).
* A tick of `sxctl` is not about the whole policy: `policy apply` drops
  `rate_limit_kbps` (`cmd/sxctl/policy.go:45-60`), `controller push` sends blocks only and
  drops `syn_cookie` and `knock` (`controller.go:141-162`), where `policy.go:7-13`
  and `:575-577` say that a file means the same whichever way it is applied.  `ReportHonest` is about what the command carries (`Carries`).
* A created rule can be missing after a restart.  `persist()` lists under
  one lock and saves under another; the older list can be saved last
  (`server.go:660`).  `AckedSurvives` speaks of what was surely saved.
* A refreshed shared block can be listed and not enforced: `sweep` unblocks
  after releasing `reg.mu` (`threatshare.go:276`).  `FirstReportEnforced` speaks
  of addresses reported once.
* A capture can record nothing: `Stop` turns the switch off after releasing
  `r.mu`, and a session may have started meanwhile (`pcap_linux.go:220`).
  `SwitchOnForSession` excepts sessions that a `Stop` overlapped.
* On Windows, a `Block` and an `Unblock` of one address that cross leave a rule
  listed that the operating system does not have, and `netsh` then fails to
  delete it: it cannot be unblocked until it is blocked again
  (`firewall_windows.go`).  `QuietAgrees` excepts such targets (`mixed`).  Rules survive a
  crash of the daemon, enforced and listed nowhere (`left`).
* A request of `controller push` that comes through after its client has given
  up and tried again can block what an operator deleted meanwhile, or put an
  earlier entry's limit back, under a report with a tick (`late`).
* A rotation can cost both secrets.  Two runs in flight, or one whose timestamp
  is older than the stamp it reads, rotate twice (`xdp_sentryx.c:718`), and every
  challenge still out is lost.  The comment at 709-711 calls the race harmless.
  `AnswerAccepted` excepts it by name (`raced`).

Met while modelling; no property speaks of these:

* A feed takes over an operator's block.  It overwrites the reason of an address
  that is on its list (`threatintel.go:118`, `firewall_linux.go:480-489`) and unblocks the address
  when it rolls off, whoever blocked it (`threatintel.go:128`), although
  `threatintel.go:33-34` says that it never touches rules created for any other
  reason; `resolve.go:120-123` says the same of the DNS loop.
* Two spellings of one IPv6 address are two entries of the mirror and one of the
  map: deleting one leaves the other listed and not enforced.  Why the proofs
  assume `Canonical`.
* Limits set by `PUT` are not persisted; they reach the file with the next
  create or delete only.
* A knock sequence that names a port twice cannot be completed (`matched_step`
  keeps the last index), and nothing rejects it.
* Progress and unlocks made under one knock configuration count under the next.
  Where the next is a sequence of one port, which nothing rejects, an index left over
  locks its source out: each knock in time is taken for a fresh first step and
  unlocks nothing (`xdp_sentryx.c:849`), until one comes after the window.
* A shared block restored from the file has no expiry, and a feed's restored
  block is lifted by no feed.
* A report for an address that is blocked locally turns the block into a shared
  one, which then expires.
* Blocks made during boot are relayed to nobody.
* A feed remembers a block that failed as made and never retries it
  (`resolve.go:174`); one country whose zone file cannot be had loses its blocks
  (`geoip.go:158`).
* A bucket is seeded with the wall clock and refilled by the time since boot:
  the first difference wraps, harmlessly, as `MeterBound` shows.  So does the
  product, for a bucket of one Gbit/s that was idle for two and a half minutes.  The fraction
  of a token is lost at each refill, so a low rate under steady traffic gives
  less than its limit.
* A timer that fired before its session was stopped by hand ends the next
  session; packets left in the ring are recorded by the next one.
* User space never resets the activity counters, as the comment at
  `xdp_sentryx.c:200-202` says it does: the map fills up for good, and a source
  that comes after is invisible to the detector.
* A poll that finds a counter smaller than before counts a normal sample of rate
  0, where the comment at `detector.go:172-175` says "no data this round".
* A flood of anything but SYNs that starts with a source's first packet sets its
  own baseline.  A source that is blocked is still counted and, as long as it goes
  on, flagged again every `ConsecutiveSamples` polls.
* `handleTopology` takes the events and the latest sequence number under two
  locks (`server.go:521`): the dashboard, which streams from that number, never
  sees an event recorded in between.  After a restart of the daemon its old
  number is ahead of the new ones, and the page stays silent until they catch up.
* The comment at `xdp_sentryx.c:12-14` says that every drop is recorded with a
  reason; bare ACKs of unknown flows and dropped IPv6 packets are not, and the
  former are dropped with SYN cookies off as well.
* A policy that is applied again with a limit lowered to 0 leaves
  the old limit: a limit of 0 is not sent on.  An entry with a limit is blocked first, where
  the comment at `policy.go:104` says it is limited instead.
* `controller push` tries a refusal (401, 400) again like a lost connection, which
  `policy apply` does not.
* `ruleName` writes `_` for `:` and for `/`, so the Windows rules of an IPv6
  address and of a range can have one name.
* ARP alerts are an LRU map: after an eviction the count starts at 1 again while
  the detector remembers the old one (`detector.go:234`), and flips go unreported
  until it is exceeded.
* The minimal policy the setup wizard writes (`block: []`) is rejected by
  `policy.Load`.

## 7. What is not modelled

* Open (section 2): ARP watch, the count of `syn_rate_bump`, the states
  of a tracked connection.  None of them writes a table another module reads
  except through the outcomes that are modelled.
* Left out for good: the API's middleware other than `withAuth`, client names,
  read-only handlers, flags, logging and signals of `sentryxd`, TLS, `sxctl`'s
  single requests and `benchmark`, `loadNodes`, `doctor`, the
  Windows service wrapper, the setup wizard, dashboards and installers.  None
  keeps state the firewall acts on.
* A hash map's element that the kernel uses again for another key while a CPU still
  holds it; a daemon that crashes while a push is under way (it loses what was
  not saved, as in `RuleTable`).
* Abstracted inside the modules: labels and times of rules, the layout of files,
  JSON and pcap, IPv6 against IPv4 beyond what decides whether a call is
  refused, the states of a tracked connection, hashing and secrets beyond
  "equal or different".  Kernel maps are sequentially consistent in the models;
  a store of several words is split where the code splits it.
