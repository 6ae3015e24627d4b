# LIAS and the Discovery Service: a TLA+ verification project

The repository holds two Go services and their shared library.

* **DIS**, the Discovery and Inventory Service (`apps/discovery-service`),
  watches a LAN through several providers (netlink, DHCP, Pi-hole and active
  enrichers), correlates their observations into devices with a persistent
  identity (PDID), keeps the inventory in memory and in SQLite, and announces
  changes over server-sent events.
* **LIAS**, the LAN Internet Access Scheduler (`apps/lias`), mirrors the
  inventory of DIS, decides for every device whether it may use the Internet
  (policies, tags, schedules, pauses, extensions), and drives the nftables sets
  of the kernel.

The modules here model the parts whose state changes are hard to get right or
hard to test. They are written from the Go source; `PROJECT.json` names the
lines behind every definition.

## Inventory

| Component | State | Operations | Interacts with | Hard because |
|---|---|---|---|---|
| LIAS firewall synchroniser (`nftables/`) | believed sets, handles, kernel table | sync, apply, rebuild, flush, restart | reads device cache and policy engine; HTTP flush | the belief is never compared with the kernel |
| LIAS schedule engine (`schedule/engine.go`) | schedules, merged cache, reverse index, next change | upsert, delete, evaluate, timer | called by handlers and by every evaluation | two locks in one evaluation |
| LIAS temporary policies (`api/handlers.go`, `policy/engine.go`, `cmd/lias/main.go`, `storage/sqlite.go`) | policies and schedules in engines and tables | pause, unpause, extend, cancel, sweep, hydrate | handlers, sweep goroutine, restart | several engines, no transaction |
| LIAS policy precedence (`policy/engine.go`) | policies, tags | EvaluateAction, GetEffectivePolicy | firewall loop, snapshot handler | the same precedence written twice |
| LIAS schedule windows (`schedule/parser.go`, `scheduleconflict/`) | none | Evaluate, ProjectSchedule, MergeSchedules | schedule engine, handlers | overnight windows, equal ends, dates |
| LIAS device cache and DIS client (`sync/`) | devices, sticky tags, cursor | poll, SSE events, fetches, migration | DIS over HTTP | one goroutine per event, polls in between |
| LIAS identity migration (`identitymigration/`, `storage/identity_migration.go`) | redirects, rewritten rows | migrate, reconcile | database, policies, cache | three steps, a crash in between |
| LIAS broker and sessions (`api/broker.go`, `api/session.go`) | ring, clients, sessions | subscribe, broadcast, replay | every handler | ring wraps, slow clients |
| LIAS REST handlers (`api/handlers.go`, `tags/`) | users, tags, vacation | CRUD, snapshot | engines and storage | engine and database changed in turn |
| DIS inventory (`inventory/cache.go`) | devices, MAC/IP/hostname indices | upsert, demote, delete, purge | correlation engine | an index may name another device by then |
| DIS correlation and presence (`correlation/engine.go`) | clones of records, dirty set | observe, promote, sweep, flush | providers, debouncer, storage | clone, work, write back |
| DIS debouncer (`correlation/debounce.go`) | pending events | submit, flush, load | storage, SSE broker | suppression, recovery |
| DIS identity decisions (`correlation/identity_engine.go`, `storage/identity.go`) | aliases, candidates, redirects | bind, revoke, confirm, reject, split | handlers, cache | database first, cache in steps |
| DIS enrichment (`discovery/orchestrator.go`) | queue, pending, in-flight clones | trigger, worker, apply | inventory | seconds between read and write |
| DIS SSE broker (`api/sse.go`) | ring, clients | subscribe, broadcast, replay | LIAS client | as the LIAS broker |
| providers, enrichers, scoring, OUI, web UI, reporting | none, or I/O | | | not modelled |

What makes each correct is listed with it under *Modules*; `PROJECT.json` lists
the hazards at their lines, and says which have no property and why.

## Modules

### Nftables (`Firewall_proofs`, `MCNftables`)

`Builder.Sync` is split where the code can be interleaved: it lists the cache
(`StartSync`), evaluates the listed devices one at a time against policies that
may change meanwhile (`Evaluate`), and then applies the difference between the
desired and the believed sets (`Commit`, `Unchanged`). A refused batch makes the
builder forget its belief and rebuild; `Rebuild`, `NotRebuilt` and
`RebuildEarly` are the ways `reinitializeConn` can end. `FlushTable` is the
HTTP handler, `Restart` a crash of the process: kernel sets outlive it, the
belief does not. Kernel side: a batch deletes only elements that are there, is
refused as a whole, and a packet meets the rules in the order of `addRules`
(`Verdict`).

| Run | Shows |
|---|---|
| `nft_steady` | two devices that share an address, no fault: the belief mirrors the kernel (`MirrorsKernel`), and once inputs are calm every block and every allow is enforced, also for a trigger that was dropped (`Converges`) |
| `nft_faults` | one device, all five kinds of fault: no phantom element, listed blocks drop, blocks converge after refusals and restarts |
| `nft_infra` | violated: a block element left over from before a restart drops a device that has become infrastructure |

Two more divergences are visible in the model and have no run of their own.
`main.js:2256` promises that flushed sets are rebuilt by the next sync:
`FlushTable` leaves the builder's belief as it is, so the next difference is
empty. `builder.go:169` promises a full repopulation after a failed batch: when
`Init` returns early (`RebuildEarly`), `Apply` queues nothing and succeeds, and
the builder takes its sets for installed. `NoPhantomElement` and
`BlocksConverge` therefore exclude both until a restart.

Fairness: weak fairness of `SyncStep`, the ten-second ticker of `Sync.Run`,
whose `recover()` keeps the loop alive. The liveness properties assume that
inputs and faults eventually stop (`EventuallyCalm`), which the environment
decides; the trigger alone is not relied on.

Proved for any devices, addresses and fault sets (`Firewall_proofs`, which has
the theorems of this module and of `PolicyPrecedence`):
`TypeOK`, `MirrorsKernel`, `NoPhantomElement`, `ListedBlocksDrop`. `MirrorsKernel`
is not inductive: after the first fault it says nothing. The inductive
invariant adds that under benign faults handles and table exist and the belief
is part of the kernel, from which a batch that deletes believed elements can
always be committed.

### ScheduleEvaluation, ScheduleCache, ScheduleWindow, ScheduleEngine (`ScheduleEngine_proofs`, `MCScheduleCache`)

`ScheduleEvaluation` is the promise of `EvaluateBundle`: the answer is what the
schedules mean at one moment of the call. `ScheduleCache` has the two locks of
the code: a `Miss` under the read lock, then `Fill`, `FilledMeanwhile` or
`FailClosed` under the write lock, with upserts and deletes in between. What the
answer is worth is in `ScheduleWindow`: `EvaluateSchedule` and
`NextStateChange` of `parser.go`, `Project`, `Conflicting` and `Merge` of
`conflict.go`, as operators on times. `ScheduleEngine` composes the two: every
content of the cache has a timetable (`Says`), a policy may name its schedules
in any order (`Orders`), and what the merge of the timetables refuses in some
order, the cache fails closed on (`ConflictsAssumption`). Its properties are
about the answers of the cache. In `MCScheduleCache` the contents are a bedtime,
a time for games in it and one for homework before it.

| Run | Shows |
|---|---|
| `schedule_cache` | the cache is never stale (`CacheIsCurrent`) and no caller can tell that it exists (the refinement `AsIfUncached`); an answer that is left to the windows, and any two weekly schedules that a merge accepts, never contradict themselves: at every minute the windows that are open have one action and the merged schedule has it (`MergedIsUnambiguous`); no action changes before the instant the timer is set to (`NothingChangesBefore`) |

Two schedules, all four bundles and two callers: a third caller or schedule
adds no new pair of interleaved steps. The windows are looked at over weeks of
three days of three hours, every pair of one-rule schedules with every set of
days, every start and end and both actions, and a few with dates: three days have
a day before, a day after and an end of the week, three hours have a window
inside a day, one to its end and one over midnight. `Open` is the independent
reading of a window (it opened at its start on one of its days and has not
lasted its duration), against which both the projection and the evaluation are
checked.

`TypeOK`, `CacheIsCurrent` and the refinement are proved for every set of
schedules and bundles; the invariant needed is `CacheIsCurrent` itself with
`TypeOK`: an entry is current and indexed under each of its members.

`MergedIsUnambiguous` and `NothingChangesBefore` are proved too, from what
`validateScheduleRules` leaves: weekdays, two different minutes of the day, and
any action, as nothing validates it (`TimetablesAssumption`). The theorems behind
them, `NeverAmbiguous` and `TimerInTime`, are about bundles of any number of
schedules with any number of rules, days and weeks of any length and any time:

* Division by a day and by a week is unique (`Division`), so the next minute is on
  the same day or the first of the next (`NextMinute`), and `Matches` and
  the independent reading `Open` are the same for a weekly rule
  (`MatchesIsOpen`).
* A rule that matches covers the minute of the week in one of the segments it is
  projected to (`MatchesInSegment`). Two rules that match at once therefore
  overlap, and if they disagreed `MergeSchedules` would refuse them
  (`OneActionAtATime`); whichever is the shortest has the one action.
* From one minute to the next no rule begins or ends unless the next is a
  boundary (`WeekStep`, `DatesStep`); the eight days that `NextStateChange` looks
  at have every boundary before the one it answers, or there is none at all
  (`NothingInBetween`). The first minute with another answer would be one
  (`SameUntilNextChange`, by a least counterexample).
* That the rules of a merge are the rules of its schedules (`Flattened`) is a least
  counterexample as well, in the function behind `FlattenSeq`.
* By the refinement, an answer of the cache is the meaning of its bundle at that
  moment, so what is left to the windows is a merge that was accepted
  (`AnswersAdmitted`), and the two theorems are about it.

Where the code does not keep what it says:

* `README.md:484` calls the check one that ensures "conflicting rules cannot be
  saved". `ImportPolicies` does not run it, `UpdateSchedule` checks a schedule
  against itself and not against those it is attached to others with, and rules
  with dates are projected by their weekdays, if they have any.
  `MergedIsUnambiguous` is therefore about weekly rules; a bundle that turned
  contradictory fails closed.
* A window with dates that runs over midnight ends there: the rest of it does
  not match, and midnight is no boundary of `NextStateChange`, which promises the
  "exact next timestamp" (`parser.go:174`). `NothingChangesBefore` excludes these
  windows; the firewall notices with its ten-second ticker.
* The last date lasts to the midnight that ends it, that instant included
  (`parser.go:51`). A window with dates that starts at midnight is therefore open
  again for that instant, one minute in the model, and its end is no boundary of
  `NextStateChange`: a timer set at that instant is late. An attempt to prove `NothingChangesBefore`
  without this exception (`Lingers`) failed here, and TLC has the counterexample
  as soon as a window with dates starts at 0.
* Both maps of day names agree on three letters only: a day spelled `monday` is
  projected by one and ignored by the other.
* `Merge` makes a bundle a whitelist as soon as one rule allows, so a bedtime
  attached with a time for games blocks all day but for that time.

### TempPolicy (`_proofs`, `MCTempPolicy`)

The handlers for pausing, unpausing, extending and cancelling, one call of an
engine or of the database per step; the sweep loop of `main`; and a restart
that hydrates the engines. A tick is half a minute so that a pause can start
in the middle of one.

| Run | Shows |
|---|---|
| `temp_serial` | one request at a time, crashes anywhere: nothing cancelled or swept returns, everything expired is removed |
| `temp_races` | two requests at a time, failing writes, crashes: a pause in force blocks |

A restart that finds one expired policy deletes the schedules of all pauses and
extensions: `sqlite.go:277` means to "clean up any schedules they privately
owned", the statement has no policy in it. A pause then fails closed, but
unpausing and the page lose its schedule. The model has the step; `PauseBlocks`
holds all the same.

The sweep of `main.go:124` deletes rows by name after the engine has let the
policies go: the row of an extension that is renewed in between is deleted too.
The engine still has the policy, a restart forgets it. The model takes these
steps; `temp_races` promises only what a pause blocks.

The schedule of a pause ends with the minute, its policy up to a minute later
("honored normally until ExpiresAt", `shared/models/policy.go:41`): `PauseBlocks`
promises no more than the minute, and a run of the stronger statement would
fail.

Fairness: handlers run to their end, the sweep ticks every 15 seconds. Bounds:
`MaxTime`, `MaxPauses` and `Hour` are named constants; two pauses and one
expiry within the time bound are enough for a sweep or restart to meet a
renewed policy. Handlers are symmetric in `temp_races`, which checks no
liveness.

`TypeOK`, `PauseBlocks` and `NothingReturns` are proved for any pauses,
extensions, handlers and time bounds, provided that some policy can be made.

* `PauseBlocks`, for any number of requests, failing writes and crashes: whatever
  the engine, the database or a request has under the name of a pause comes with
  a schedule that ends in the same minute as the policy (`PausesTimed`). A pause
  in force then has this schedule in the engine, which blocks, or one that is
  missing, which fails closed. No handler puts another schedule under the name.
* `NothingReturns`, as in `temp_serial` for one request at a time and writes that do
  not fail (`Serial`); the races of the code break it otherwise. A row that
  the engine does not have is about to be overwritten by the one request
  (`OneWrites`); what a request is about to save is in force and has not expired
  (`GrantsAhead`, `SavesInForce`), because the clock stands still while one is
  served, so no sweep can give it up in between.

### PolicyPrecedence (`Firewall_proofs`, `MCPolicyPrecedence`)

`EvaluateAction` (the firewall) and `computeDeviceEffectiveStatus` with
`GetEffectivePolicy` (the dashboard) side by side, over every policy state the
handlers produce for one device. Go ranges over maps in any order, so an
evaluator is the set of its possible answers. The names of its specification
(`PolicySpec`, `PolicyTypeOK`) keep it apart from `Nftables`, with which it shares
a module of proofs.

| Run | Shows |
|---|---|
| `policy_agree` | the two copies agree while the global policy is enabled, temporary policies have the highest priority and a pause is in its window (`StatusAgrees`); the firewall's answer is one enforceable action unless two device policies tie (`Decisive`) |

`README.md:890` says of tags "If ANY tag evaluates to BLOCK" the device is blocked, "a
fail-closed OR model". `EvaluateAction` (`engine.go:273`) returns allow as soon
as one tag has an allow policy and never asks the schedules of the others.

The premises of `StatusAgrees` are where the copies part. A device policy above
priority 1000 keeps a device connected that is shown as paused, and a pause is
shown until it is swept although its window has run out. Vacation mode does not
enable a `global_default` that was posted or imported disabled, and device
policies then still allow.

`policy_agree` has one tag: the evaluators pool the policies of all tags of the
device, so two policies of one tag meet in the same ways as policies of two.
`StatusAgrees` and `Decisive` are proved for any tags, policies, priorities and
schedules; the invariant is the shape of what each handler puts under each ID,
since what makes the copies agree is that nothing but a temporary policy reaches
its priority. `Decisive` needs one thing more, that there is a best policy: the
priorities in the engine are bounded at any time (`Bounded`), although those that
handlers accept are not.

### Enrichment (`_proofs`, `MCEnrichment`)

`TriggerEnrichment` is three steps: the checks and the mark under `pendingMu`
(`Admit`, or `Coalesce` when the device is pending), and the non-blocking send
(`Push`, or `Drop` when the channel is full, which takes the mark back). A
worker takes a request with its mark (`Take`), clones the record (`Get`), runs
the enrichers on the clone (`Enrich`), writes it back (`WriteBack`,
`WriteAgain`: the code calls `Upsert` twice) and clears the mark
(`ClearPending`). Meanwhile providers write clones of their own (`Observe`,
`Observed`), `purgeOffline` removes devices, and cooldowns end. Of a record the
model keeps what gates the scanner.

| Run | Shows |
|---|---|
| `enrich` | a device that is pending has exactly one holder, a caller, a queue place or a worker (`OneHolder`); no device is scanned unforced more often than the retry limit without a reset (`RetryLimit`); no device stays pending (`Released`) |

Two devices and a queue of one are enough for a full queue and for a request
that waits until its device is cooling down or purged; two workers for two
requests in execution; `d2` is identified from the start, so that the scanner's
gate is seen from both sides while the state space stays small. A forced request
upgrades a request that is queued, but one that arrives while a worker has the
normal request is forgotten (`orchestrator.go:181`). One retry is
enough to meet the limit; a provider that writes back an old clone sets the
attempts back, which the history variable `scans` follows. Fairness: callers
and workers run; every enricher is bounded by a timeout. A purged device comes
back with the clone of a worker or provider that has read it before: the model
has it and no property denies it.

`OneHolder`, `RetryLimit` and `TypeOK` are proved for any devices, callers,
workers, providers and capacity. The invariant states `OneHolder` without sets of
holders: no two callers, no two places and no two workers have the same device,
no two of the three kinds have it, and the mark is there exactly when one has
(`Holding`). For `RetryLimit` the attempts account for the scans in the clone of
a worker from `Get` to the end of `WriteAgain`, and in the cache unless a worker
is about to write (`Counting`): what a provider writes back before that is
overwritten, and as no two workers have one device, no other clone counts.

### Inventory, Correlation (`_proofs`, `MCCorrelation`)

`Inventory` is the cache of DIS as a value: one operator for each method that
holds the lock. `Correlation` has one goroutine for each provider; it looks the
device of an observation up (`Observe`), works on a clone of the record and
writes the clone back (`Write`), then marks it dirty (`Mark`); a device that is
not found gets a record (`Create`) and a row (`Persist`), and is deleted again
when the row cannot be written (`PersistFails`). At the same time the flusher
saves dirty records in batches (`FlushTake`, `FlushSave`, `FlushFails`), the
staleness and purge sweeps run (`Demote`, `Purge`), the deferred-online loop
promotes devices that waited (`DeferredTake`, `DeferredWrite`), administrators
bind and revoke MAC aliases, and the process restarts from its rows.

A lookup is one step, and a write with the claims of hostnames around it: in
between a step acts on the cache through calls that each lock it, and the clone
is as old either way. `LastSeen` is an age, seen within `staleThreshold`, within
`offlineTTL` or before; `Age` passes time for no record whose clone is held, as
clones are held for milliseconds, and the sweep of every 20 seconds demotes
before the five minutes of a hostname's owner or the day of a purge have passed.
A row is the part of the record `saveDeviceTx` updates; rows are hydrated with
the `last_seen` of their insertion, taken to be over a day old. Left out: the
memory-only mode, the suppression of repeated observations, services and the
source log (they make a record dirty and nothing else), identity candidates,
scores, vendors, events.

`overwritten` and `heard` are history variables: whose record was replaced by an
older clone, and which devices have answered since the start.

| Run | Shows |
|---|---|
| `correlation` | an index names a device that is there and has the key (`IndexNamesHolder`); a record that differs from its row is on the way to it, also when a batch fails or a record changes while it is saved (`ChangesReachStorage`); a device is online only when it answered since the start (`OnlineNeedsEvidence`) |

Two devices, two MACs (one of them private, so that identities can be promoted)
and one address, over which two devices compete; two providers, one that is
evidence of presence and one that is not, which work on the same record at the
same time. Three observations create a device, let another MAC displace it and
overtake one clone with another; one binding and one restart each meet all of
these. The DHCP and OpenWrt sources differ from these two in what they report,
not in their steps. Devices are symmetric.

All four are proved for any devices, keys, sources and bounds. The conjunction of
`TypeOK` and `IndexNamesHolder` is inductive: a lookup only hands out records
that are there because of `IndexNamesHolder`, and each method of the cache is
shown to keep it, whichever clone it is given. On top of it,
`OnlineNeedsEvidence` needs that clones and deferred promotions have been heard
too (`Evidence`); a clone that is written after a demotion is then no exception.
`ChangesReachStorage` needs that a batch has the record as it is, unless the
device is marked again or about to be (`BatchCurrent`), and that a new identity
is nowhere yet (`Known`), so that a created device replaces nothing.

What else the model reaches, and no property denies:

* `README.md:60` promises identities that survive service restarts. `last_seen`
  is volatile (`sqlite.go:625`): rows keep that of their insertion, so the first
  purge after a restart drops every device that was inserted over a day ago and
  has not been observed yet, and what is observed next under its MAC gets a new
  PDID. The same happens to a device that returns after a day.
* `Delete` and `purgeOffline` drop the index entries of the keys of a device
  without asking whom they name: another device that has taken the address is
  not found by it until its next `Upsert`.
* Every observation of a known device sets `LastSeen` (`engine.go:584`), also a
  lease or a Pi-hole entry that is no evidence of presence, and the staleness sweep
  looks at nothing else: a device that Pi-hole lists stays online after it has
  gone silent. `DIS_VALIDATION_AND_RESOURCE_BUDGETS.md:39` says "Offline transition
  | 2–5 minutes; current positive-evidence horizon is 3 minutes".
* A promotion without a hostname clears the canonical hostname of the record
  (`engine.go:600`), which still owns it.
* A write that was overtaken is lost, and a device that was purged meanwhile
  comes back. `ChangesReachStorage` excludes such a record until a restart.
* Two providers that both find nothing for a new MAC each create a device, and a
  Pi-hole client without a MAC creates one with every poll, as its address is
  not indexed for it.

### IdentityDecisions (`_proofs`, `MCIdentityDecisions`)

What DIS does about devices that may be one: `recordIdentitySignals` and the
identity API over `storage/identity.go`, on the cache of `Inventory`. An observer
looks its device up (`Observe`) or makes one (`Create`, `Persist`), reads the
index of aliases (`Check`), writes an alias (`Save`), notes it in the index
(`Note`), proposes a candidate (`Propose`) and writes its clone back (`Write`).
Of an administrator's request each transaction is one step and each call of
the cache another: `BindTake`, `Bind`, `BindNote`; `Revoke`, `RevokeNote`;
`Reject` and `Reopen`; `ConfirmTake`, `Confirm` (a decision and its merge in one
transaction), `ConfirmDelete`, `ConfirmUpsert`; `SplitTake`, `Split`,
`SplitUpsert`, `SplitAdd`. The flusher saves batches of clones meanwhile,
decided candidates are forgotten after their retention, every transaction may
fail, and a restart hydrates the cache and the index from the rows.

| Run | Shows |
|---|---|
| `identity` | a decision and its merge stand or fall together (`DecisionIsMerge`); a merged device is neither listed nor loaded again (`MergedIsGone`); its PDID leads to a device that is there, after any order of merges (`RedirectsLead`); no MAC gets lost between the rows of two devices (`MACsAreStored`); what was revoked stays revoked through observations and restarts (`RevokedStaysRevoked`); no two devices are verified by one alias (`OneVerifiedOwner`) |

Four PDIDs: two devices that may be one, one merged before, so that the next
merge makes a chain, and one that a split or an observation makes. Two
administrators meet in every pair of steps, one observer meets both; two
requests are a merge and whatever disturbs it. `MaxDepth`, 8 in the code, is 3:
a chain can reach it. `db` holds the tables, and the history variables name what
the exceptions are about: `ghosts` (merged devices a clone was written back
for), `overwritten` (an older clone replaced a record, or a row that a merge or
a split had written first), `denied` (revoked and not bound since), `disturbed`
(merged, split, or revoked under an observation). The run reaches 1.8 million
states.

These exceptions are real; the model reaches each of them:

* A clone that an observer or a batch holds across a merge is written back: the
  merged device is listed again, or has a row again, next to its redirect. If it
  is then merged the other way round, the redirects are a cycle.
* Confirm and split do not mark what they write, and a batch that was taken before
  overwrites the merged row with the older clone.
* A merge or split moves the rows of aliases and not the entries of the index: the next
  observation finds no entry, upserts the alias and takes `revoked` back.
  `DIS_VALIDATION_AND_RESOURCE_BUDGETS.md:80` promises that a revoked alias
  stays so. Both can also leave two devices with one verified alias.
* `mergeDeviceData` makes the MAC of the source current, and the index of the
  cache has current MACs only: the target's own MAC then gets a new PDID, which
  `:76-77` of the same document rules out for known MACs.
* A chain of eight redirects resolves to nothing.

All six properties and `TypeOK` are proved for any devices, MACs, credentials,
observers, requests and bounds, from the named assumptions: an earlier run has
left devices with one MAC each, candidates between two different ones
(`UpsertIdentityCandidate` refuses a pair of equals, `storage/identity.go:275`)
and merged ones that lead to them; PDIDs are strings of a fixed length, hence
finitely many. The invariant has four layers, each relative to those before:

* `Sound`: types, and what the MAC index names is cached with that MAC, so that a
  lookup hands out a record.
* `AliasInv`: an alias has the id of its device unless both were disturbed, the
  index in memory knows of each stored alias or a goroutine or request is about
  to tell it, and a denied alias is known to be revoked or its revocation is on
  the way there. `RevokedStaysRevoked` follows; `OneVerifiedOwner` needs it for
  observers that note an alias instead of saving it.
* `DeviceInv`: a new PDID is nowhere yet, a device that is being created or
  split off is one goroutine's or request's own, and one request decides at a
  time, on a candidate that stays open (`identityMu`). `DecisionIsMerge` and
  `MergedIsGone` are part of it. Redirects have no cycle (`Lead`), because the
  target of a merge is not merged itself; a path without a cycle has no more
  redirects than there are PDIDs, so `Resolve` finds its end.
* `StorageInv`: a row that has a MAC is that of a record with it, or of the target
  of a merge whose record is still to get it, and not of a device that is about
  to lose it (`RowFollows`). A MAC that is expected in the rows and is in none is
  owed by a device that is dirty or in a batch with it (`Covered`). `INSERT OR
  IGNORE` then never loses a MAC for good: what the holder gives up is inserted
  for whom still has it.

`MACsAreStored` turned out false for larger bounds than the run's when
`overwritten` named records only: an observer that saves its new device after a
second observer and a merge have changed it, or a batch that is saved between
the transaction and the cache of a merge, replaces a newer row although every
record is current. The history now names these rows as well, and the theorem is
about what is left.

### LiasSync, DeviceSettings (`LiasSync_proofs`, `MCLiasSync`)

`LiasSync` composes four parts: DIS, whose inventory changes and whose broker
has a bounded channel for its client and no memory of what it dropped
(`Broadcast`); `DISClient` with its poller (`PollGet`, `PollRemove`,
`PollUpsert`), its stream (`HandleRemoved`, `HandleChange`,
`HandleReidentified`) and the goroutine of each event (`Patch`, `Get`, `Put`);
`Coordinator.MigrateIdentity`, in three steps over the database, the engine and
the cache (`MigrateStore`, `MigrateEngine`, `MigrateCache`); and administrators
who set tags (cache first), pause (engine first) or assign a person (database
first). Connections are lost, transactions and writes fail, answers come late
or not at all, and the process crashes anywhere.

`DeviceSettings` is the promise of a migration: what is set for a device changes
one whole setting at a time and moves to the survivor at once, tags united, the
survivor's person first, the stronger policy kept. `SettingsMoveWhole` is that
specification under the mapping from the tables.

| Run | Shows |
|---|---|
| `lias_sync` | once DIS is calm the cache is its inventory in the end and stays so, whatever was lost or late (`Converges`); a merge is followed unless its event is lost, its transaction fails or LIAS crashes before it (`MergesAreFollowed`); between requests and migrations the cache and the engine apply what is stored, also after a crash inside a migration (`MemoryFollowsStore`); late log entries land with the survivor after any number of merges (`RedirectsLand`); the tables refine `DeviceSettings` (`SettingsMoveWhole`) |

Three PDIDs, two listed and paused with different priorities and one merged
before, so that one more merge makes a chain and a collision of policies; two
MACs, one tag besides `generic`; a channel for one event, so that two in a row
overflow it; two goroutines for events that overtake each other. `MaxChanges`,
shared by DIS and the administrators, lets two changes follow each other in
every state of the client, `MaxFaults` two faults.

Fairness: the stream, the goroutines and the poller run (HTTP clients have
timeouts, the poller a ticker), and the grace period of five minutes passes.
Nothing is assumed of the connection: `Converges` rests on the poller.

What the exceptions stand for:

* A migration that fails is logged as one that "will be retried safely"
  (`dis_client.go:377`); nothing retries it, and as LIAS asks DIS for no replay an
  event that was lost is lost. The tags, person and policies of the merged device
  then stay with a PDID that no longer exists. `lost` names these merges.
* A request that overlaps a migration may leave memory and database apart until
  the next start; so does a failed write after memory has changed. `raced` names
  these devices.
* The poller and the stream write `lastSeenInDIS` without a lock. The runtime
  may abort the process; the model has it as a restart.
* `device.removed` is never sent by this DIS: a purged device stays with LIAS
  for the five minutes of grace.

`TypeOK`, `RedirectsLand`, `MemoryFollowsStore` and the refinement
`SettingsMoveWhole` are proved for any devices, MACs, tags, persons, policies and
bounds. What an earlier run has left is a constant (`Kept`): merged devices have
a redirect to one that is not merged and are not listed any more, which is what
`MigrateIdentityState` leaves. The invariant:

* `MergesInOrder`: the event of a merge comes before those of later merges of its
  survivor, so a migration never moves to a device that was migrated before. The
  channel may lose events but does not reorder them, and one stream handles them.
* `RedirectsWhole`: no redirect leads to a migrated device.
* `MemoryKept`: for every device that is not `raced`, the cache and the engine have
  what is stored, or as much of it as the request or migration that is at it has
  written (`Half`, `Carried`). The fetches and polls in between keep persons and
  sticky tags, in whichever order they arrive (`Refreshed`).

The refinement needs no more of the policies than integer priorities:
`MigrateIdentityState` picks the stronger of two rows and is a step of
`DeviceSettings`, every other statement changes one setting or none.

### Administration (`_proofs`, `MCAdministration`)

The handlers of the management API, each as the steps between which others can
come: memory first and database second (tags, policies, schedules, vacation, the
tags of a device: `MemoryFirst`, `Persist`) or the other way round (users, names,
owners, imports: `StoreFirst`, `Save`, `Remember`), and the bump of the
revision last (`Bump`). `Snapshot` reads the revision, one engine after the
other, and the revision again, three times at most. The value of an object is
the number of the request that wrote it: the model tells versions apart, not
what is in them. What a policy means is in `PolicyPrecedence`, what a schedule
means in `ScheduleWindow`.

| Run | Shows |
|---|---|
| `admin` | a client that is told 304 has what is served, unless a request has changed something and not announced it yet (`ETagIsSound`); no row assigns a device to a user who is not there (`AssignedUsersExist`), nor does memory once all requests are answered (`ServedUsersExist`); when no request is in progress what is served is what is stored, so a restart changes nothing (`ServedIsStored`) |

One object of each kind and `global_default`: requests interfere through one
object, through a user and a device, or through the revision. Two requests meet in
every pair of steps; two faults are a failed write and a restart.

The history variables name the exceptions:

* `torn`: two requests for one object at a time, or a failed write after memory
  was changed, leave memory and database apart until a restart.
* `silent`: a handler that fails there returns before it bumps the revision; a
  client keeps its 304 until something else changes.
* The revision starts at 1 with every start (3 once tags and names are loaded),
  so the ETag of an earlier run may match by chance: `got.run` keeps such a
  client out of `ETagIsSound`.
* Vacation mode reads the policy before it writes it, so one saved in between is
  lost; of two writes to one object the code promises the last.

The four properties and `TypeOK` are proved for any objects, requests at a time
and bounds. `Kept`, the rows of an earlier run, assigns devices to users who are
there, which is what the statements leave. `AssignedUsersExist` needs the types
only: `Accepts` decides in the step that writes. For `ServedIsStored` an object
that is not torn has one request, and is alike in both places but for the
progress of that request (`Agreement`). For `ETagIsSound` a snapshot with the
present revision has every announced object as far as it has been read
(`SnapshotsSound`): the objects of the cache are announced in the step that
changes them, all others by the bump, which makes the snapshot's revision an
old one.

## What is proved, what is checked

Proved by TLAPS, for all values of the constants: every invariant that a run
checks and the two refinements, as theorems listed in `PROJECT.json` and
described with the modules above. Each rests on the named assumptions of its
module and on an inductive invariant given there; `NothingReturns` has a
hypothesis, `Serial`, which the run `temp_serial` meets. `TypeOK` of
`TempPolicy`, `IdentityDecisions`, `LiasSync` and `Administration` is proved and
in no run.

| Proofs | Of |
|---|---|
| `Firewall_proofs` | `Nftables`, `PolicyPrecedence` |
| `ScheduleEngine_proofs` | `ScheduleCache`, `ScheduleWindow`, `ScheduleEngine` |
| `TempPolicy_proofs` | `TempPolicy` |
| `Enrichment_proofs` | `Enrichment` |
| `Correlation_proofs` | `Inventory`, `Correlation` |
| `IdentityDecisions_proofs` | `Inventory`, `IdentityDecisions` |
| `LiasSync_proofs` | `LiasSync`, `DeviceSettings` |
| `Administration_proofs` | `Administration` |

A recursive function over an interval with one fixed body is within reach, by a
least step at which a claim fails, from the well-foundedness of the naturals:
`SaveDevicesBatch`, `Resolve` and `Redirects` in `IdentityDecisions_proofs`,
`FlattenSeq` in `ScheduleEngine_proofs`.

Only model-checked:

* Everything about liveness (`Converges` of both, `BlocksConverge`,
  `ExpiredIsRemoved`, `Released`, `MergesAreFollowed`), which the proof system
  does not reach.
* The run that is expected to be violated.

## Plan

The modules are written and their safety properties are proved. What the code
still has and the models have not is listed below, and under the hazards without
a property in `PROJECT.json`.

## Not modelled

Network protocols of the providers and enrichers, OUI lookup, score weights,
HTTP parsing, configuration, metrics, reports and the page itself are I/O or
pure formatting: they keep no state the properties depend on. The kernel, SQLite
and Go's map order are modelled from how the code uses them: a batch and a
statement are atomic, a map is ranged over in any order.

The debouncer of DIS and the rings of the two brokers are left out. What they
deliver makes LIAS fetch a record or a browser read a snapshot, which both may
do at any time in the models, and neither code nor docs say what exactly must
arrive. What reading them shows:

* `LoadPending` leaves `SourceGroups` nil, and the next observation of a
  recovered event writes to it (`debounce.go:89`): the process panics.
* A change that is coalesced keeps the payload of the first (`debounce.go:117`), a revert
  deletes the pending event from memory and not its row, and a crash between
  broadcast and delete announces a change twice.
* A merge deletes the pending rows of its source, not the debouncer's memory.
* Replay walks the ring from its first slot, not from its oldest event
  (`broker.go:118`).

The timer of the schedule engine is not modelled as a process: a `Stop` that
races its tick is harmless, as a sync is idempotent and the ticker comes anyway.
Daylight saving is left out of `ScheduleWindow`: its times are minutes that all
exist once.
