# Formal models of Mac Monitor

Mac Monitor is a menu bar program for macOS. One process samples the machine every five seconds, keeps the
samples in SQLite, serves a web page that shows them live and in retrospect, and notifies the user of full
volumes and of processes that use a lot of CPU for long. The parts that are hard to test are the ones that
have to be right over hours, restarts and failures: which alerts are active, what the user has been told
about them, and what becomes of a notification that cannot be delivered. This directory models those first.

All paths below are relative to `src/`.

## The system

| Component | State | Operations | Hard behaviour | Correct when |
|---|---|---|---|---|
| Alert rules and engine, `internal/alerts/engine.go`, `disk.go` | the map `alerts` (under `mu`), the `kick` channel | `New`, `ObserveSnapshot`, `set`, `save`, `Ignore`, `Unignore` | crash between database and map, failed writes, wall clock changes, pruner deleting rows the map keeps | announced when an episode begins, escalates or is due again, never otherwise; a restart changes nothing |
| CPU rule, `internal/alerts/cpu.go` | previous sample, a track per busy process | `sampleCPUOnce`, `resolveCPU` | config read before, alerts changed after measuring; sleep; restart while load goes on; names that cannot be read | an alert begins after sustained load, lasts while the load does, never for an ignored process |
| Delivery, `internal/alerts/delivery.go` | none but the loop's position, list and timer | `runDelivery`, `deliverDue`, `deliver`, `runCommand` | two clocks, lost wake-ups, timeouts, lost outcomes, shutdown in a send, stale lists | every row is sent or given up after all retries; shown once if no outcome is lost |
| Alert storage, `internal/storage/alerts.go` | tables `alerts`, `notifications` | `SaveAlert`, `DueNotifications`, `NextAttemptAt`, `UpdateNotification`, `pruneAlerts` | transactions, pruning under readers | record and notifications are one transaction |
| Snapshot storage, `internal/storage/storage.go` | table of snapshots | `Insert`, `Query`, `QueryDownsampled`, `Latest`, `Prune`, `reclaim` | downsampling over gaps, pruning and compaction | buckets cover the range, nothing younger than the retention is lost |
| Config store, `internal/config/config.go` | the config, its file, `loadErr` | `Open`, `Get`, `Update`, `write` | crash in a write, edits by the user meanwhile | the file is never truncated, a broken file is never overwritten |
| Native notifications, `internal/notify` | the table of requests under way | `Send`, `complete`, `action` | late and missing answers of macOS | each answer reaches its request or nobody |
| HTTP server and hub, `internal/server` | the set of live clients | `handleLive`, `Broadcast`, the API handlers | slow, leaving and joining clients | a client never holds up the collector, and sees snapshots in order |
| Disk collector, `internal/collector/disk.go` | none | `collectDisk` | partial failure: one volume cannot be read | a volume that is mounted keeps its alert |
| Process list, `internal/collector/processes.go` | `procCache` | `CollectProcesses` | overlapping requests, pids used again | rates are of real CPU time, and over a short time when the answer says so |
| Menu bar, `internal/tray` | setting, marks, icon, queue of clicks | `Run`, `handleEvents`, `animate` | clicks while busy, changes shown in another thread, login item changed elsewhere | marks and icon tell the truth; it ends when asked |
| Web page, `web/src/App.jsx` | history, view, live state | `fetchHistory`, `setView`, `onmessage` | late and reordered answers | what is shown is what was asked for last, without holes |
| Wiring, `cmd/mac-monitor/main.go` | - | `main`, `runCollector`, `runPruner` | start and shutdown order | nobody calls a part that does not exist yet |

How they interact: `runCollector` calls `Insert`, `ObserveSnapshot`, `Broadcast` and `SetCPU` for every sample.
`ObserveSnapshot` and `sampleCPUOnce` call `set`, which calls `save`, which writes both alert tables and kicks
the delivery loop. The delivery loop reads and updates the notifications table and sends through `notify` or a
shell command. `Ignore` is called by the HTTP server and, through `notify`, by the button of a notification. The
pruner runs beside all of them. `mu` orders the callers of `set`; the delivery loop, the pruner and a crash do
not take it.

## Modules

| Module | Models | Runs |
|---|---|---|
| `AlertRules` | `diskLevel` and the decisions of `set` as operators on alert records | all of the engine's |
| `AlertContract` | what the engine promises: episodes and announcements, no process, memory or database | through `KeepsContract` |
| `AlertEngine` | `New`, `ObserveSnapshot`, `set`, `save`, `SaveAlert`, `pruneAlerts`, crash and restart | through `VolumeAlerts` |
| `VolumeAlerts` | `collectDisk` in front of the engine: which volumes a snapshot lists | `alert_engine`, `volume_left_out` |
| `Delivery` | the delivery loop over the notifications table | `delivery`, `delivery_stuck`, `delivery_stale` |
| `CpuSampler` | the CPU rule with `Ignore` and `Unignore` | `cpu_sampler`, `cpu_ignore_race` |
| `ConfigContract` | what the config store promises: changes at once or not at all | through `KeepsConfigContract` |
| `ConfigStore` | `Open`, `Load`, `Update`, `write`, the text of durations, crashes, a user who edits | `config_store` |
| `LiveView` | storing, pruning, hub, `handleLive`, `handleHistory` and the page's history | `live_view`, `live_view_hole` |
| `AppShell` | `main` from start to exit, the menu bar item, the bridge to macOS notifications | `app` |
| `ProcCache` | overlapping requests for the process list over one cache | `proc_cache` |
| `..._proofs` | theorems about each of these modules | proofs |
| `MC...` | instances for TLC | |

An operator whose comment says "Mutant" is a plausible bug in the definition below it; no specification uses it.
Each property of a passing run is violated when one of them takes the place of the definition it varies.

### AlertEngine

`alerts` is the map in memory, `stored` the alerts table, `queued` every notification that `SaveAlert` ever
committed. `pc`, `snap` and `todo` say where `ObserveSnapshot` is: each of its two loops visits the keys of
`todo` one at a time in any order (the second loop ranges over a Go map). One visit is one call of `set`, which
does nothing or changes the map only (`Set`), commits (`Save`) or fails to commit (`FailSave`). After a commit
the record is in `saving` until `SaveDone` puts it in the map and kicks the delivery loop; a crash (`Restart`)
may come before that, and so may the pruner. `Restart` is allowed in every state and loads the map from the
table, as `New` does. `Tick` and `SetClockBack` move the wall clock both ways.

The model keeps of an alert the fields `set` decides with. The used space is in whole percent; thresholds are
those of the config and the hysteresis is the code's constant. A key without a row is `NoAlert`, Go's zero
value. That `ObserveSnapshot` is called once at a time follows from `runCollector`, its only caller.

`AlertContract` has an episode per key and the set of announcements. `EpisodeOf` shows an active row as an
episode and a resolved one as none, so the pruner, the map, crashes and failed writes are stuttering steps.

### VolumeAlerts

`mounted` is what the Mac has, `collectDisk` the set of lists the function may return: of the partitions that
are mounted and pass its filters, those whose usage was read. A snapshot is collected and evaluated in one
goroutine, so `Collect` is `ObserveSnapshot` with one of these lists. `unread` remembers, for the properties,
which mounted volumes the list left out; to `disk.go` in the rules they look unmounted.

### Delivery

`rows` is the notifications table, `due` the list `deliverDue` works through, `pc` the position of the loop:
`fetch`, `deliver`, `sending`, `record`, `arm`, `armed` (the timer is set, the select not reached), `wait`,
`stopped`. `Queue` is the commit of `SaveAlert`, `Kick` the non-blocking send that follows it; between the two
`owed` is set, and a crash there loses the kick. Each database call of the loop has a failing variant. A send
may succeed, fail without effect, or fail after it was shown (a late answer, a command that exits with an error
at its end); it may end when its context does, by timeout or by shutdown (`Cancel`). Rows disabled in the config
fail at once.

There are two clocks. `next_attempt_at`, and with it what is due, is a time of the wall clock; `time.After` and
the context of a send count a monotonic clock that stands still while the Mac sleeps. Both are kept as
distances: `wait` is what the wall clock has to go until a row's `next_attempt_at`, `timer` and `sendLeft` are
what is left on the monotonic clock. `Tick` moves both, `WallClockRunsAhead` (the Mac sleeps, or the clock is set
forward) and `SetClockBack` move the wall clock alone; only how far it is set back in all needs a bound. When it
is set back, each row that was due may stop being due or may have been due for longer than that.

`setBack`, `lagging` (the wall clock has run ahead since the timer was set) and `heldBack` (rows not attempted
yet that stopped being due) are history: they are the excuses of the properties that speak of times.

`shown`, `excused` and `banner` are history: how often the user saw a row, for which rows an outcome was lost,
and which native notification is on display. All rows are of one alert: the loop looks at nothing that tells
alerts apart.

### CpuSampler

Steps of `sampleCPUOnce`: `ReadConfig` (line 44), `Sample` (lines 52-132, the sampler's own state only) and
`Report` (lines 134-142, under `mu`), with `RuleIsOff` and `SampleFails` for its early returns. `Ignore` saves
the config, `IgnoreResolves` is its second half under `mu`; a sample may run between the two, and an `Ignore`
between any two steps of a sample. Load is `low`, `mid` or `high`: below half of the threshold, below it, above
it. An alert is only its being active; saves that fail are subsets of what should have changed. Times are in
sample intervals: more than `Gap = 3` between two samples counts as sleep, as in the code. `Fold` is the
lower-case form of a name; the ignore list is kept in that form because every use of it compares with
`EqualFold`.

A process may be read under any name of `NamesOf`: nothing, when its name cannot be read, in which case the code
calls it "pid N", or that of another program that it has become or that has got its pid. `Sample` chooses a
reading for each process (`nameOf`). As in the code, the name is read when a track begins while alerts are active
or when it first fires, and kept in the track from then on, whatever it would be read as later. When a track
begins, the name decides whether it takes over an active alert. The age of a track that fires is text in the
alert, so it is not told apart.

`reading`, `above`, `justified` and `misread` are history, kept independently of the tracks: what was measured
last, for how long a process has been above the threshold, which processes were above it for `Duration` or took
over an active alert, and above half of it since, and which alerts were not taken over because a process that
may have their name was read under another one when its track began.

### ConfigStore

`file` and `tmp` are `config.json` and its temporary file, `cfg` and `loadErr` the store's fields. `pc` follows
`Open` ("create", when there is no file) and `Update` ("update", then "swap" between the rename and the
assignment). `Write` happens in two steps, because `os.WriteFile` empties the file before it fills it; each call
may fail (`WriteFails`) and the process may end between any two steps (`Stop`), leaving its temporary file.
`UserEdits` replaces the file by any of `UserFiles` at any time: complete, with a key missing, refused by
`validate`, with a duration that is refused, or not JSON. Of the settings the model keeps the ignore list, which `Update` changes, and the
retention, which is a `Duration` and so goes through `MarshalDuration` and `ParseDuration`; their text is a
sequence of numbers with units. There are two grammars, as in the code: a text that ends in "d" must be one
number before it, any other goes to `time.ParseDuration`, which adds up units and knows no "d". So `1d12h` is
refused, and `MarshalDuration` must not write it. `Store.mu` is held from the first to the last step of an update, so there is one
at a time.

`ConfigContract` knows neither temporary file nor text: a change turns the settings in use and the saved ones at
once. It lets a change overwrite what a user has edited since the start, as the code does: `README.md:35` asks
users to restart the app after an edit, and until then `Update` writes what was loaded.

### LiveView

A snapshot is its timestamp, time is in collection intervals. `Collect` stores (or fails to), `Broadcast` puts
the snapshot into the channel `send`, or drops it for a client whose channel is full, `Prune` deletes. `send`
stands for the channel and for what the socket holds; `OnMessage` takes from it. `requests` are the calls of
`/api/history` in flight: `HandleHistory` answers one from the table at some point of its life, `Arrive`
delivers, in any order, `FetchFails` loses. `isNewest` is the comparison of `seq` with `fetchSeq`. `history`,
`loaded`, `span`, `end` and `maxSpan` are the variables of `App.jsx`, `timer` the armed `fetchTimer`.
`ConfigArrives` changes `maxSpan` after the page has begun to work. Pages are independent: the hub never waits
for one, so one is enough.

`asked` (the view of the newest request) and `why` (why the page lacks a snapshot: never sent, paused,
downsampled, overwritten by an answer that was made before it, or cut off by an answer whose range ends before
it) are history. `Ascending` is the `ORDER BY` of the queries, written by rank so that it can be proved about;
`KeptFrom`, the `filter` of `onmessage`, uses it for the places that are kept.

### AppShell

`main` is how far `main` has come, `blocks` Cocoa's main queue, which is worked through (`RunBlock`) once
`Tray.Run` is in its loop. `clicks` is `menuClickCh`; a click on a full channel is dropped. `handler` is where
`handleEvents` is: in its select, waiting for the command `open` ("opening"), between the calls of a click on the
animation (`TakeAnimate`, `MarkAnimate`, `SaveAnimate`) or on the login item (`TakeLaunch` reads what macOS has,
`SetLaunch` changes it or fails, `ReadLaunch` reads again, `ShowLaunch` queues the mark), between cancelling and
dispatching the end ("quitting"), or ended. Every other thread may run between two of these. `login` is what
macOS has, `seen` what the program read last. `ChangeLogin` is the user in System Settings, at any time; the
program reads the login item at its start and around a click only, and `outside` remembers that it was changed
since. `Animate` is one tick: speed and
color are reduced to whether the icon turns and whether what is on the screen is `tilted`. Its drawing block
counts as executed at once. A behaviour has the items and calls of one `scenario`. `PickIgnore` is the button of a notification, which may be one of an earlier run.

`sending`, `sender` and `result` are the one call of `Send` there is at a time, `pending` the table, `done` the
channels. `Complete` looks up the channel and `PassOn` sends to it, without the lock between, so that `Send`
may time out in the middle. A channel is reached through its number only, hence `done` is indexed by it.

### ProcCache

`times` and `lastCall` are the cache; each request goes through `List`, `ReadCache`, one `Measure` per process
(which may fail, and is left out) and `WriteCache`, with any steps of other requests between. `cpu` is the CPU
time of the process that has a pid; `spent`, for the properties, of all that ever had it. As in the code, a
request stamps what it measures with the time it began. The clock is the monotonic one of Go's `time.Time`.

## What the runs show

| Run | Instance | Distinct states | Result |
|---|---|---|---|
| `alert_engine` | an external volume and one that is not shown, readings 50, 89, 94, 96 against 90/95, Repeat 1, Retention 0, clock 0..1, with fairness | 59,104 | passes |
| `volume_left_out` | the same | | violated |
| `delivery` | 2 rows, native only or both channels, 1 retry, wall clock set back by 1, with fairness | 274,635 | passes |
| `delivery_stuck` | both channels, commands may outlive their context | | violated |
| `delivery_stale` | native only, 2 retries | | violated |
| `cpu_sampler` | 2 processes of one name, which cannot always be read for one of them, Duration 2, the name ignored in another case, with fairness | 97,896 | passes |
| `cpu_ignore_race` | 1 process that may be ignored, Duration 2 | | violated |
| `config_store` | 2 names, 7 retentions, 11 user files | 31,371 | passes |
| `live_view` | clock 10..12, channel of 1, 2 requests, 2 changes of the view, a raw and a downsampled span, retention 2 | 5,528,339 | passes |
| `live_view_hole` | the same with 1 request, retention 4 | | violated |
| `app` | clicks on all items, or 2 sends and clicks on Quit; channel of 2 clicks, main queue of 2 blocks, with fairness | 323,676 | passes |
| `proc_cache` | 2 overlapping requests, 1 pid, staleThreshold 1, clock 1..4, CPU time 0..2 | 4,730,921 | passes |

Disk rule, safety: `MemoryMatchesTable`, `LevelWasAnnounced`, `NotifiedIsQueued`, the action property
`Hysteresis` and the refinement `KeepsContract`. Liveness: `FullVolumeIsReported`, `FreedVolumeIsResolved`,
`ReminderComes`, and `LeftOutVolumeIsReportedAgain`: a full volume that is now and then left out of a snapshot
loses its alert each time, but is reported again each time.

Delivery, safety: `DueIsCurrent` (the list read at the beginning stays true to the table, and no row in it is
sent before its time by more than the clock was set back), `GivenUpAfterEveryRetry` (and a row waits no longer
than the retry it is at, and what the clock was set back by), `ShownOnceUnlessExcused` (at most one display
unless a crash, a failed update or a wrong error hid the first), `ArmedForQueue` (no lost wake-up; the timer is
late for a row only if the wall clock ran ahead since it was set, and is never longer than the delay it was set
for; no wake-up with nothing pending), `FirstAttemptsInOrder` (rows that stopped being due because the clock was
set back aside). Liveness: `EveryNotificationSettles`.

CPU rule, safety: `BeginsAfterSustainedLoad` (and under the name that was read for the process),
`OngoingLoadKeepsAlert` (an alert survives restarts and sleeps unless a process of its name was read under
another one just then; while its track lasts, what its name would be read as does not matter). Liveness:
`EndedLoadIsResolved`, `LastingLoadIsReported` (under one of its names, which does not come and go),
`IgnoredIsResolved`.

Config store: `TypeOK` (of which the first conjunct says that no crash leaves a truncated `config.json`),
`RestartChangesNothing` (what an update wrote, durations in their short form included, is accepted by the parser
and loads as the settings in use), `BrokenFileIsKept` and the refinement `KeepsConfigContract`.

Live view: `HistoryInOrder` (no snapshot twice although it comes in answers and over the socket),
`FetchedViewIsLoaded` (after the newest answer the view is covered, whatever came late) and `HolesAreExplained`
(a raw history lacks a snapshot of its range only for one of the five reasons).

App: `IgnoreFindsEngine`, `ChecksAreTrue` (of the moments in which `handleEvents` waits and its blocks have run,
and of the login item only if System Settings did not change it since it was read), `RestingIconIsUpright`, `AnswersReachTheirRequest`. Liveness:
`AnswersAreTaken` (no thread of macOS is kept waiting by a `Send` that gave up) and `EndsWhenAsked` (a Quit
queued behind another click included).

Process list: `ReadyRatesAreRecent`, `RatesAreReal`.

### Violations

1. `delivery_stuck`: `runCommand` collects output in a `bytes.Buffer` and sets no `WaitDelay`. When the context
   ends, the shell is killed, but `cmd.Run` waits until every child that inherited the pipe has closed it. The
   one delivery loop waits with it: that row and all others stay pending (README.md:48 promises that failed
   deliveries are retried and then marked failed).
2. `delivery_stale`: the retry of an older notification replaces a newer one of the same alert on display
   (notify.go:49 says that a newer one replaces the older).
3. `cpu_ignore_race`: a sample that copied the ignore list before an `Ignore` begins an alert after it has
   returned (README.md:39: ignored processes are never reported). `IgnoredIsResolved` shows that the alert does
   not last; its notification is out.
4. `volume_left_out`: `collectDisk` leaves out a volume whose usage it cannot read; if another is listed, the
   alert of the volume is resolved as if it were unmounted (engine_test.go:161: a failed collection must not
   resolve anything; disk.go:36: unmounted volumes can't be full) and announced again as a new episode.
5. `live_view_hole`: the snapshots of a pause are not appended, and on the return to live `setView` takes the
   view for covered, so nothing is fetched and later snapshots are appended behind the hole (App.jsx:63,
   README.md:105).

### Seen while modelling

Behaviour that the properties allow, because no text of the repository clearly promises otherwise:

- Active alerts are looked up by lower-cased name: a process whose name differs only in case from one with an
  active alert is reported at once, without the time `cpu.duration` asks for (`TakesOver`, cpu.go:94).
- A process whose name cannot be read fires as "pid N". After a restart or a sleep its track begins anew; if the
  name is read differently then, the alert is resolved although the load goes on, and a new one is announced
  under the other name (`misread`).
- The timer of the delivery loop is monotonic, what is due is decided by the wall clock: after a sleep a row is
  overdue while the timer has as much left as before, although the comment at delivery.go:27 says the loop sleeps
  until a notification is due (`lagging`). A kick, or the end of the timer, makes up for it.
- A wall clock that is set back makes a row wait longer by as much, and lets a row that is queued then go before
  an older one that has not been attempted (`heldBack`). The older one takes its place on display later.
- A change of the login item in System Settings is not shown in the menu until the item is clicked or the program
  is started again (`outside`), and the click then reverses what macOS has, not what the mark says.
- A request that is in flight when the user returns to a view that is already loaded replaces the history by the
  other view's until the next interaction: `setView` does not cancel it.
- A live snapshot that arrives while an answer is under way that was made before it is overwritten by that
  answer (`why` is "overtaken").
- A page that has a live snapshot and fetches an earlier view loses it again: the answer's range ends before it
  (App.jsx:160-175). Back in a live view, `setView` does not ask whether the history still reaches the present
  (App.jsx:191), and the next snapshot is appended behind the hole (`why` is "cut off"). This is violation 5 by
  another way.
- A downsampled live view asks again with every snapshot until an answer arrives, and each request supersedes
  the one before: answers that take longer than an interval are never shown.
- `[NSApp terminate:]` calls `exit`, so that the deferred calls of `main` and what follows `Run` in it never
  run.
- A rate in the process list is divided by the time between the beginnings of two calls, not between the two
  measurements of the process.

### Bounds and why they are enough

- *One volume that is shown* (`alert_engine`): `set` reads and writes the record of one key, and the loops visit
  keys one by one, so volumes meet only in `todo`, in the kick, and in whether a snapshot lists any volume at
  all. A snapshot that leaves it out stands for one with other volumes in it, the case in which it is resolved.
  The theorems hold for any set of volumes.
- *Readings*: one inside and one outside each hysteresis band, with the band of the critical level (93..95)
  reached from below and above; 50 ends both levels.
- *MaxTime = 1, Repeat = 1, Retention = 0*: an announcement gets due, and a resolved row gets old enough to be
  pruned, within the clock's range, and the clock may be set back from either. `Restart` and failures are
  unbounded.
- *MaxRows = 2*: a retry of an older row next to a new row; one `SaveAlert` that queues for both channels.
- *One retry* (`delivery`): a first and a last attempt; two of different length in `delivery_stale`.
- *MaxSetBack = 1* (`delivery`): as far as the one retry lasts, so that a row that was due, or a retry under way,
  waits again. The theorems hold for any. *sendTimeout = 0*: a send may time out in any state from its begin
  on, which covers what a longer time allows, since a step of the others may come first in any case.
- *Duration = 2, Gap = 3*: a load that has lasted too short, long enough, and a sleep. `above` and the age of a
  track stop at Duration, `sincePrev` at Gap + 1: nothing compares them with more. Two processes of one name:
  one alert for both, which the load of either keeps. The first may be read as "pid 1" instead, so that it takes
  over the alert or not, or has an alert of its own. The theorems hold for any names.
- `config_store` has no bound but its sets: retentions whose text has one, two or three units, ends in a round
  number, or is a whole number of days; files of each kind that `Load` tells apart, and both kinds of duration
  that mix "d" with another unit.
- `live_view`: three snapshots are enough for a hole with one on each side; two requests for one that is late;
  two changes of the view for going away and coming back. The snapshots of a pause, of a full channel (of one)
  and of an answer under way are each within the clock's range; retention 2 is shorter than the longer span. A
  closed page is not followed further: it does not connect again.
- `app`: two sends for a late answer to the first; a channel of two clicks, so that a Quit waits behind another
  click and a third one is dropped; with two
  blocks a mark can have an outdated one and a current one under way. `MaxBlocks` bounds what users and handlers
  dispatch; the block that ends the program is not bounded. The menu and the bridge to notifications share nothing but the
  end of the program, so a behaviour of the instance has clicks on every item, or sends and Quit (`Scenarios`).
- `proc_cache`: two requests can interleave in every way; a pid may pass from process to process while they do.
  A clock of four steps holds two calls that are too far apart and two that are not. The theorems hold for any
  number of requests and processes.
- Deadlock is checked in every run (clocks can tick, requests be made) but `app`, whose program exits.

### Fairness and why the code justifies it

- `AlertEngine`: `runCollector`'s ticker keeps calling `ObserveSnapshot`, which runs to its end without blocking
  on anything but the database (weak fairness of `Observe`). A database that refuses a write does not refuse it
  for ever (strong fairness of `Save`). `VolumeAlerts` says the same of its own steps (`VFairness`). The
  properties assume that the process is not restarted for ever (`FinitelyManyRestarts`) and speak of a volume
  whose readings stay on one side.
- `Delivery`: the goroutine runs (weak fairness of its steps), time passes on both clocks (weak fairness of `Tick`), reads and updates do not fail for ever (strong
  fairness of `Fetch`, `Arm` and, per row, `Record`), a send ends when its context does, which `delivery_stuck`
  takes away for commands. Nothing is assumed about sends succeeding. A program that was told to stop is started
  again; without that its rows wait, as they should.
- `CpuSampler`: the ticker keeps sampling, samples and saves do not fail for ever, `Ignore` runs to its end. The
  properties assume that samples are not for ever more than three intervals apart (`SamplesKeepComing`): a Mac
  that always sleeps between two samples has no sustained load to report.
- `AppShell`: the goroutines and the main thread run (weak fairness of the steps of `main`, of `RunBlock`,
  `TakeClick` and `PassOn`); in `OpenReturns`, which is one of `TakeClick`, this means that the command `open`
  ends. Go's select chooses at random among its ready cases, so a done context is seen although clicks keep
  coming (strong fairness of `SeeCancel`). Nothing is assumed of macOS answering, of users or of the ticks of
  the animation.
- `ConfigStore`, `LiveView` and `ProcCache` have safety properties only, and no fairness.

## Proofs

All theorems hold for every value of the constants that the modules' assumptions admit.

`AlertEngine_proofs`, for every finite set of volumes, every pair of thresholds, any repeat interval, retention
and set of channels:

- `TypeCorrect`: `Spec => []TypeOK`.
- `MemoryMatches`, `LevelAnnounced`, `NotifiedQueued`: the three safety invariants of the run.
- `HysteresisKept`: the action property of the run, from the invariant and `LoopInv`: the second loop of
  `ObserveSnapshot` visits no volume that the snapshot lists.
- `ContractKept`: `Spec => KeepsContract`, the refinement.
- `DiskLevelStable`, `DiskLevelMonotone`: what `diskLevel` returns holds its ground under the same reading, and
  is monotone in the reading and in the previous level.

The inductive invariant is `IInv`, the conjunction of the type invariant and the three safety invariants.
`LevelWasAnnounced` and `NotifiedIsQueued` speak of the table, but what a save writes to the table is computed
from the map: a level that moves within what was announced copies `notifiedLevel` and `notifiedAt` from the
map's record, and that the copy is announced and queued follows only because the map agrees with the table
(`MemoryMatchesTable`). The latter in turn needs the record in `saving` while a commit has not reached the map.
The lemmas `SavedResolved`, `SavedNotified` and `SavedQuietly` say what `set` makes of a record in its three
cases; they carry both the invariants and the refinement, where they become `End`, `Begin` or `Repeated`, and
`Move` of the contract.

`VolumeAlerts_proofs`: `CollectorRefinesEngine` shows that the engine behind its collector is a behaviour of
`AlertEngine` (every `Collect` is an `Observe`, mounting is a stuttering step), so that all of the above holds
for it; with `ContractKept`, `CollectorKeepsContract` follows.

`AppShell_proofs`, for any number of sends, clicks and blocks:

- `TypeCorrect` (`TypeOK`), by an invariant that also has the types of the two queues' members.
- `IgnoreWaits` (`IgnoreFindsEngine`), by `Made`: no step enters the run loop, or gets ready to, without an
  engine.
- `AnswersOwn` (`AnswersReachTheirRequest`), by `Own`: the channel of a request holds an answer to that request
  or nothing, and between two calls nothing is left in `result`.
- `IconRests` (`RestingIconIsUpright`), by `Upright`: a tick that found the animation off has left the icon
  upright.
- `MarksAreTrue` (`ChecksAreTrue`), by `Marks`. The property speaks of an idle handler and an empty main queue
  only and is not inductive. `Marks` says for each position of the handler what is still to be seen to: between
  `TakeAnimate` and `MarkAnimate` the mark is outdated, until `SaveAnimate` what is saved, from `TakeLaunch` to
  `ShowLaunch` the mark of the login item, and before `ReadLaunch` what the program saw of it. While blocks are
  under way a mark on the screen is outdated besides; `Comes` says when this is harmless: either no block
  under way concerns the mark and it is right, or the last block that does carries the right value. Three lemmas
  say what `Comes` makes of appending a block about something else, of appending one about the mark, and of
  removing the first.

`ProcCache_proofs`, for any requests, pids and thresholds:

- `TypeCorrect`: its type invariant, which no run checks for this reason.
- `RatesRecent` (`ReadyRatesAreRecent`), by `Recent`: all entries of the cache are of one time, `lastCall`,
  because a request replaces the map instead of entering its times into it; a process that one call missed has
  no rate in the next.
- `RatesReal` (`RatesAreReal`), by `Fits`: of a CPU time that was measured, whoever has the pid now has used no
  more since than all that had it. `FitsOn` shows that this stays so while processes work, end and begin.

`Delivery_proofs`, for any number of rows, channels, configs and schedules of retries:

- `TypeCorrect` (`TypeOK`), `ListIsCurrent` (`DueIsCurrent`) and `RetriesAreMade` (`GivenUpAfterEveryRetry`),
  which are inductive together. The wall clock moves in both directions in all of them; the bounds on a row's
  wait have `setBack` in them, and `MovedWait` says what each move of the clock does to a wait.
- `ShownOnce` (`ShownOnceUnlessExcused`), by `Seen`: what was shown of a row that is still pending is excused, or
  its outcome is the one about to be recorded.
- `NoWakeUpLost` (`ArmedForQueue`), by `Armed`, which says the same already while the timer is set and the select
  is not reached. A tick takes as much from the timer as from what a row waits for; a clock that runs ahead sets
  `lagging`; one that is set back only makes rows wait longer than the timer. That `Arm` finds the earliest row takes a minimum of a set of numbers; it exists because the
  order of the naturals is well-founded (`Least`).
- `OldOnlyAsRetry` (`FirstAttemptsInOrder`, an action property), by `InOrder`: rows not attempted yet that are
  older than one in the list are in the list too, unless an outcome was lost or the clock was set back while they
  were due (`MayBeLate`).

`CpuSampler_proofs`, for any processes, any names each may be read to have, any folding of them and any duration:
`TypeCorrect` (`TypeOK`), `BeginsForAReason` (`BeginsAfterSustainedLoad`) and `OngoingIsKept`
(`OngoingLoadKeepsAlert`). Both action properties speak of what was measured, the code decides by its tracks and
the names in them. The invariant relates them: a track that does not fire is as old as the load above the
threshold (`TracksMeasure`); a track fires exactly if its process is justified (`TracksFireForAReason`), under a
name that was read for it (`TracksAreNamed`); each active alert that was not misread has a process that fires
under its name, or that has no track and will be read (`ActiveIsCarried`); and what a sample is about to report
or resolve agrees with what it measured (`FiringIsMeasured`, `RestIsDown`).

`ConfigStore_proofs`, for any names, retentions and files a user may leave:

- `RoundTrip`: what `MarshalDuration` writes for any number of seconds `ParseDuration` reads back, by the grammar
  that the text's last unit selects: whole days as one number, anything else by the other, so that there must be
  no "d" in it (`ParseAsUnits`). A duration has at most three parts in text, so the sum in `ParseUnits` is unfolded
  by hand.
- `TypeCorrect` (`TypeOK`), `RestartIsHarmless` (`RestartChangesNothing`), `BrokenIsKept` (`BrokenFileIsKept`), by
  `Phases`: what the program is doing, with what. `ContractKept` is the refinement `KeepsConfigContract`.

`LiveView_proofs`, for any clock, buffer, retention, spans, bucket size and number of requests:

- `TypeCorrect` (`TypeOK`), and `InOrder` (`HistoryInOrder`), which needs that answers and the snapshots on their
  way are in order. It rests on the lemma `AscendingIs`, that the enumeration by rank has every element of a
  finite set of integers once and in order: the ranks of the elements are pairwise different (`Ranks`), so they
  are all the numbers below the cardinality.
- `FetchedIsCovered` (`FetchedViewIsLoaded`), by `NewestCovers`: the newest request covers the view it was made
  for, also when the clock has moved on.
- `NoUnexplainedHole` (`HolesAreExplained`), by `Accounted`: each stored snapshot of a raw history's range, up to
  the present, is in the history, or still to come behind all of it, or will not come for a reason; by
  `AnswersAreComplete`: an answer has all that is stored of its range, since what is stored later is later; and
  by `NotYetIsPending`: what the page has not received is on its way.

The assumptions are those in the modules: percentages and times are natural numbers (`config.validate` refuses
negative ones), there is a finite, non-empty set of volumes, bounds are natural numbers, retentions are positive
(`config.validate`), a file that a user leaves and `Load` accepts gives a config (`FilesAssumption`), the first
view of a page is within its limits (App.jsx:64-70).

Each inductive invariant was checked with TLC on the instance of its run before it was proved.

Only model-checked: all liveness properties, since the prover does not do liveness under fairness. Every safety
invariant, action property and refinement of a passing run is a theorem.

## Not modelled

- `Engine.Status`, `RecentNotifications`, the texts of alerts: they are displayed, nothing is decided from them.
- `Latest`, which nothing on the page calls; the schema migrations and the vacuuming of freed pages in
  `storage.go`, which run inside SQLite and change no row; the columns of a snapshot.
- The alert engine reads its thresholds and channels at start only (README.md:35); a restart with other channels
  or with the CPU rule switched off is modelled.
- A loss of power: `write` does not `fsync`, so the rename may reach the disk before the text. The crashes of
  `ConfigStore` are those of the process.
- Disk levels that are switched off (0) and thresholds under two points apart are not in the instance of
  `alert_engine`; the theorems about the engine and about `diskLevel` hold for them.
- Real percentages and durations in seconds; the choice of the worst process of a name for the text of an alert.
- The other collectors (CPU, memory, network, GPU, power): they read counters of the operating system and keep
  no decisions. That a collection fails is an action of `LiveView`, that a process is missed one of `CpuSampler`
  and `ProcCache`.
- A clock that is set back, in `LiveView`: the table and the page order by timestamp, and the model's snapshots
  have distinct ones. (In the engine and delivery it is set back and runs ahead.)
- The page's charts, formatting and rate functions (`utils.js`): layout and arithmetic on floats. Its polled
  tabs show what they get.
- How fast the delivery loop spins when the database refuses it, and how often a downsampled page asks again:
  time need not pass between two steps of these models.
- Code outside the repository is modelled from its use: Cocoa's main queue, that delegates of notifications are
  called on it and completion handlers on other threads, SQLite's transactions, gopsutil's reads.
- Embedded files and the landing page have no logic.

## What is left

1. `AlertSystem`: engine and delivery over the one notifications table; a pending notification against the
   alert's level when it is shown (delivery sends it although the alert has been resolved meanwhile).
2. Larger instances of `LiveView`: a client channel of more than one, three changes of the view.
