# z-ui in TLA+

z-ui is a panel for Xray: an HTTP application over SQLite (`web/`, `database/`)
that keeps inbounds, users and settings, and a runtime layer (`runtime/`,
`xray/`) that keeps a child Xray process in line with them. This directory
specifies it, model-checks it with TLC and proves theorems about it with TLAPS.

There is one specification per place where independent actors meet: the runtime
layer, the port guard, the inbound rows, the access log, the inbound form, the
database file and the settings table. Sections: inventory, modules, model and
code, runs, proofs, what the runs and the models found, limits, plan.

## 1. Inventory

| Component | State | Operations | Hard behaviours | Correct when |
|---|---|---|---|---|
| Planner, client, builder (`runtime/planner.go`, `client.go`, `builder.go`) | none; a plan is a list of calls | `Build`, `Plan`, `Apply` | order of calls; a call executed but not answered | the calls are accepted, reach the desired inbounds, leave others alone |
| Manager (`runtime/manager.go`) | mutex, process, snapshot; setting `runtimeDirty` | `Sync`, `Stop`, `HealthCheck`, `IsRunning` | partial plans, failed starts, late starts, failed status writes | the snapshot describes the running Xray; a clean end means the desired inbounds |
| Reconciler, Xray service (`runtime/reconciler.go`, `web/service/xray.go`) | flag `isNeedXrayRestart` | `Reconcile`, `RecoverIfDirty`, `RestartXray` | the database is read before the mutex | no committed change is forgotten |
| Cron jobs (`web/job/`, `web/controller/inbound.go`) | `checkTime` | apply (10 s), check (30 s), inbound check, traffic | cron does not wait for the previous run | a failed apply is retried |
| Xray process (`xray/process.go`) | `cmd`, exit error, log lines | `Start`, `Stop`, `IsRunning` | killed but not yet reaped | |
| Server lifecycle (`main.go`, `web/web.go`) | cron, listener | start, SIGHUP, stop | jobs and handlers in flight during a restart | jobs of the old server do not undo the new one's work |
| Xray update, status (`web/service/server.go`) | binary, last status | `UpdateXray`, `GetStatus` | stop and restart from an HTTP handler | |
| Inbound store (`web/service/inbound.go`, `web/html/xui/inbounds.html`) | inbound and client rows; the row each page was shown | add, update, enable, reset, delete | check outside the transaction, write-back of a stale row | one inbound per port; clients whole |
| Traffic accounting (`web/job/xray_traffic_job.go`, `AddTraffic`) | counters in Xray and in the rows | query and reset, add, quota, expiry | reset, then a failure | every byte is counted at most once; quotas end |
| Protocol modules (`protocol/`, `runtime/builder.go`, `web/assets/js/model/xray.js`) | none | `normalize`, `Validate`, `BuildInbound`, `toJson`, `fromJson`, `genLink` | normalisation at every read and write, twice implemented | stable; what was validated runs |
| Inbound form (`web/html/xui/inbound_modal.html`) | the form, the schema cache, requests under way | open, edit, OK, answers | answers out of order, a double click | saved once; credentials kept |
| Port guard (`scripts/zui-port-guard-sync`, `web/service/port_guard.go`) | nft sets, state file, ban columns | sync cycle, unban, whitelist | two processes; rebuild deletes live bans | rules follow the database; bans end for a reason |
| Access source log (`web/service/access_source.go`) | offset, counts, cached report | incremental read | rotation, truncation, partial lines | each event counted once |
| Certificates (`web/service/certificate.go`) | files and metadata | scan, import | several files, one failing | pair stays consistent |
| Bootstrap and migrations (`database/`, `main.go`) | the file, the ledger, backups | `InitDB`, `runMigrations`, `ensureBootstrapState` | crash between steps; two processes | each migration once; data kept |
| Users (`web/service/user.go`) | password and its hash | login, change | the login writes too | the last password chosen logs in |
| Settings (`web/service/setting.go`, `setting.html`, `x-ui.sh`) | key/value rows without a unique key; the form of each page | `saveSetting`, `UpdateAllSetting`, `ResetSettings`, the certificate command | read then create; ids of deleted rows come back; half of a form; old pages | one row per key; the page tells the truth |
| Sessions, CSRF; panel restart; connection sniffing; v2-ui import; shell scripts; configuration and logging; vendored libraries | | | | see PROJECT.json for why each is left out |

How they interact: a page sends the whole row it was shown, changed in the
form; a handler commits it through the inbound store and then sets
`isNeedXrayRestart`; the apply entry of cron consumes the flag and reconciles;
the check job probes Xray and recovers or raises the flag again; boot, SIGHUP
and `UpdateXray` force a restart. All of them meet in `Manager.Sync` under one
mutex, and read the database before they take it. The traffic job and
`CheckInboundJob` close the loop: they write rows and raise the flag. The port
guard and the commands of `x-ui` are other processes on the same database.

The hazards this code is exposed to are listed in `PROJECT.json` under
`hazards`, each at its line, with the properties that watch it or the reason
why none does.

## 2. Modules

| Module | What it is |
|---|---|
| `RuntimePlan` | Data of the runtime layer and its pure algorithms: snapshots as tables of inbounds, the planner, the order of a plan, the effect of one call. No variables. |
| `PlanApply` | A state machine for `Planner.Plan` then `Client.Apply`, with no failures: what a plan promises by itself. |
| `RuntimeManager` | The runtime layer: workers (boot and SIGHUP, apply runs, check jobs, update handlers), database, flags, manager, Xray, failures. |
| `SyncPromise` | What the runtime layer promises of Xray, without mutex, plans, calls and processes. `RuntimeManager` implements it. |
| `RuntimeHistory` | `RuntimeManager` with history variables that record which change a reconcile has read; states convergence. They add no guard. |
| `PortGuard` | The port guard: runs of the sync script, `Unban`, `Status` and the row written by `UpdateInbound`, nft, the clock, dying runs and reboots. |
| `InboundStore` | The rows of inbounds and clients under pages, handlers, the traffic job and the check job, with SQLite's write lock and failing statements. |
| `StorePromise` | What the store promises of its two tables: whole saves, deletions and job updates, one after the other. `InboundStore` implements it. |
| `AccessSource` | The incremental reader of the access log against a log that grows, rotates and moves. |
| `AccessTally` | What the report promises, without offsets, locks or files. `AccessSource` implements it (`Tally == INSTANCE AccessTally WITH ...`). |
| `InboundCodec` | Pure: what the browser, `protocol/` and the runtime builder make of an inbound, and its share link. No variables. |
| `InboundForm` | The inbound form and its asynchronous calls, saving through `InboundCodec`. |
| `PanelDatabase` | The database file opened by the panel and by commands, beside scripts that only write: backup, migrations, bootstrap, accounts. |
| `PanelSettings` | The settings table under settings pages, requests and jobs of the panel, and commands. |
| `MCTables`, `MCPlanApply`, `MCRuntimeManager`, `MCRuntimeHistory`, `MCPortGuard`, `MCInboundStore`, `MCAccessSource`, `MCInboundForm`, `MCPanelDatabase`, `MCPanelSettings` | Instances for TLC: tables, kinds of disturbance, symmetry. |
| `PlanApplyProofs`, `RuntimeManagerProofs`, `PortGuardProofs`, `InboundStoreProofs`, `AccessSourceProofs`, `InboundFormProofs`, `PanelDatabaseProofs`, `PanelSettingsProofs` | Theorems. `RuntimeManagerProofs` is about `RuntimeManager` and `RuntimeHistory`. |

Composition: `PlanApply` and `RuntimeManager` use the planner of `RuntimePlan`,
`RuntimeHistory` extends `RuntimeManager`, `InboundForm` uses `InboundCodec`.
`InboundStore` and the runtime meet only in committed rows and one flag:
`RuntimeManager` takes any commit (`EditInbounds`) where `InboundStore` says which can
happen.

The abstract specifications are shown to be implemented both ways: TLC checks
`ImplementsPromise`, `ImplementsStore` and `ImplementsTally` on a run, TLAPS
proves them for every value of the constants. In the refinement mapping of
`SyncPromise`, a reconcile has read what its `want` shows the planner from
`acquire` on (`Held`), it is changing Xray while it is at `apply`, `fallback` or
`restart` (`Changing`), and Xray serves what the planner can see of `live` when
it runs and nobody is changing it (`Serves`). The mapping of the other two is the
identity on some of the variables.

Operators whose name begins with `Bug` are faulty variants of the definition
that follows them. No specification uses them; they are there to be put in the
place of the original, and show that the properties would notice.

## 3. How the model corresponds to the code

**Data.** A table maps a tag to an inbound or `NoInbound`. An inbound is what
`splitInboundState` makes of it: `core` (the comparable part), `users` (by
email) and `anon`, the user with an empty email that is left out of both. The
protocol factory emits at most one client per inbound (`BuiltInbound`); the
runtime modules do not rely on that, only `PlanApply` starts from it. A
configuration (`Snapshot.Raw`) is a table and a template value.

**Plan.** `Plan` is the set of operations of the two loops. `Ready` keeps the
order that matters: removals first, a changed user removed before it is added.
The alphabetical order between tags is abstracted to any order, so what holds
here holds for the code's order. `ReplaceInbound` is two calls, as in
`applyOperation`: `Remaining` leaves an `AddInbound` after the first. `Accepts`
is external: what Xray's HandlerService requires of a call.

**Workers.** One goroutine is one worker; `pc` is the next step of it, `want`
the snapshot it built. Steps:

| Label | Code |
|---|---|
| `template`, `rows` | `BuildRuntimeSnapshot`: two reads, outside the mutex |
| `acquire` | `Sync` takes `mu` and branches: unchanged (`verify`), forced, not running or no snapshot (`restart`), plan (`ping`), empty plan (`clear`) |
| `verify`, `ping` | `healthCheckLocked` |
| `apply` | `Client.Apply`, one action per call; `ApplyCallFails` for the error, with the call executed or not |
| `fallback` | `markRuntimeIssueLocked` of `fallbackFullRestartLocked` |
| `restart`, `wait` | `fullRestartLocked`: kill, start, adopt the snapshot, wait for health; `StartFails` |
| `giveup` | the error returns of `fullRestartLocked`: mark dirty, unlock |
| `clear` | `clearRuntimeStatusLocked`, unlock |
| `probe`, `recover`, `reprobe`, `failed` | `CheckXrayRunningJob.Run` and `RecoverIfDirty` |
| `stop` | `Manager.Stop` in `Server.Stop` and `UpdateXray` |

Cron starts a job again without waiting for its previous run; `ApplyJobs` with
two members is two runs of the same entry. The health probe of the check job
runs outside the mutex and may fail whatever Xray does.

**Xray.** `proc` goes `none`, `starting`, `up`, `killed`, `exited`. A killed
process counts as running until `Wait` has reaped it, as in `IsRunning`.
`live` is the configuration Xray really has.

**Disturbances.** Each failure of the environment takes one unit of
`MaxDisturbances`; a cfg says which kinds may happen: `crash` (Xray exits),
`panel` (the panel dies and systemd starts it), `sighup`, `update`, `build`
(a read or a conversion fails), `save` (a settings write or read fails), `api`
(a call fails or times out while Xray is up), `start` (`Process.Start` fails),
`slow` (ten seconds pass). Failures that follow from the state (nobody listens,
Xray rejects the call) are not disturbances and cost nothing.

**Server.** `serving` is false until boot has reached the end of `startTask`;
from then on handlers may commit (`EditInbounds`, `EditTemplate`), also between
`Server.Stop` and the new server's `startTask`, because `Shutdown` gets a context
that is already cancelled and does not wait for them. Checks are scheduled
(`Scheduled`) while cron runs, which a SIGHUP stops.

**Simplifications.** SIGTERM is `PanelCrash` (nothing the runtime needs
happens at exit beyond the kill). A server that fails to start ends the panel
and is not modelled. After a SIGHUP the old server's check run in flight counts
on the counter of the new job; in the code it would count on its own, which is
never read again. The moment between `Process.Start` and the child's `exec`, in
which `cmd.Process` is nil, is merged with `starting`. The text of
`runtimeLastError` is dropped; that its write may fail is kept
(`ClearRuntimeStatus`).

**Port guard.** `limit`, `bannedUntil` and `whitelist` are the database,
`table` the nft table (per port its rules, the number of sources in `pg4_<port>`
and the end of its element in `blocked_ports`), `stateFile` is `desired.conf`,
`lock` the holder of the lock file. A run of the script is a process whose `pc`
is its next step; a handler of the panel is another. Both are started at any
time. Steps of a run:

| Label | Code (`scripts/zui-port-guard-sync`) |
|---|---|
| `lock` | `flock -w 20`; `Busy` is its timeout |
| `settings`, `rows` | `parse_desired`: two reads of the database |
| `compare` | same text as `desired.conf`, and `table_exists` |
| `delete`, `create`, `ports` | `build_rules`; `AddRules` is one port, with the last of its commands |
| `save` | `desired.conf` is written |
| `list`, `select`, `commit` | `record_runtime_bans`: nft is listed, rows are read until one shows no current ban, then one transaction |

`Unban` is `unblock`, `flush`, `forget`; `UpdateInbound` is `ReadInbound` and
`SaveInbound`. Every port has one enabled inbound; adding, deleting, disabling
and `portGuardEnabled` are left out, a guard can be switched off (`Off`). A
whitelisted port has a line of its own in `desired.conf` (`Skipped`); the script
writes that line for every inbound on the port, guarded or not. Loopback
inbounds are not distinguished. Window and ban time are one value for all
ports. Time is counted in ticks: a run that reads the clock twice within a tick
reads the same, and the end of a ban is taken from nft exactly. What nft does
with a packet of a new source (`NewSource`) and with timeouts is external: an
element is added while the set has room, otherwise the port is blocked. `torn`
is a history variable; no guard reads it. `Kill` is any death of
a run with the lock held: `set -e`, or the kill by `SyncNowBlocking`.

**Inbound rows.** `rows` and `clientRows` are the two tables; upload and
download are one counter (`used`). A page holds the row it was shown in `form`
and posts all of it, counter and `enable` included, because the list's buttons
and the dialog send `dbInbound`. `writer` is SQLite's write lock, taken by a
transaction's first write; `stagedRows` and `stagedClients` are what that
transaction sees. `pc` of a page:

| Label | Code |
|---|---|
| `idle`, `open` | nothing asked; a row shown (`getInbounds`) |
| `check` | `checkPortExist`, outside the transaction |
| `read` | `GetInbound` in `UpdateInbound`, also outside |
| `save` | `Save` of the row, or the deletion of its client rows |
| `clients` | `saveInboundWithClients` after the row; the deletion of the row |
| `commit` | the commit |

`Rollback` is any statement or commit that fails, `GiveUp` a handler that fails
before it. `QueryTraffic` reads and resets Xray's counters, `LoseTraffic` loses
the answer or the transaction, `AddTraffic` is its transaction,
`DisableInvalidInbounds` one UPDATE of the check job, `XrayRestarts` forgets the
counters. History variables say where every unit of traffic went (`sent`,
`booked`, `charged`), which list of clients was saved last (`submitted`), which
pages show an old row (`stale`) and which rows such a page has overwritten.
`AddInbounds` and the user id are left out; a client belongs to one inbound.

**Access log.** A log is a sequence of pieces: whole lines, or the head and the
tail of one, so that a reader can see a line half written; a piece is the unit
of `offset` and `size`. `LookUp` finds the path before the mutex (`mu`) is
taken; `Begin` is `analyze` up to `readNewEvents`, `Stat` opens the file and
compares its size, `Read` is one piece met by the scanner, `EndOfFile` applies
the events and sets the offset, `Fail` is an error of any of them. `Restart` of
the panel forgets everything, `Expire` is the thirty seconds for which a report
is cached. `MaxRead` is `accessSourceMaxReadBytes`. History: `raced` (lines
written while a request read), `blind` (the log was emptied and no `Stat` has
seen it), `cut` (what `MaxRead` left out), `split` (a line half written when its
size was taken). Every line is one the report counts; parsing, windows and
profiles of addresses are left out.

**Inbound codec.** An inbound is a protocol, settings and a stream whose absent
keys are `None`; kept are the keys that decide who may connect and how.
`SettingsFromJson`, `SettingsToJson`, `Opened`, `Payload` and `Link` are the
browser's; `Checked` and `Accepted` are `Validate` in `validateInboundRuntime`,
which changes the inbound it is given; `Written` is what is stored, `Split` and
`Attach` the separation of the clients, `BuildState` and `Factory` the way to
Xray, `Running` all of it for a stored row. `Legacy` are rows written by older
releases: any inbound without clients of its own whose stream settings have a
network, which every release of the form has written (`Networked`).

**Inbound form.** The browser is single-threaded: an action is the code between
two awaits. `tasks` are the confirm callbacks under way (`sent`, `saved` or
`refused` by the server, `closing`), `asked` the schema requests without an
answer. Answers come in any order and may fail; `Fails` from `saved` is a save
whose answer was lost. A save is one step on the server, since its races are
`InboundStore`'s. A certificate or a key pair is chosen in one step
(`EditCert`, `EditPair`), though the dialog has fields for it and two buttons,
whose answers come from the server; that these may be late is left out
(section 7).
`wanted` is a history variable: the protocol and credential of the last save
(`Submitted`), as the protocol's settings define it.

**Database file.** `ledger` is `schema_migrations`, the other parts of `file`
are what the four migrations, the bootstrap and the accounts touch. A process
goes `off`, `need`, `copy`, `ledger`, then `check` and `apply` per version, then
`count`, `port`, `portrow`, `user` (`ensureBootstrapState`), `open`; a command
that changes the account goes on with `write`. `Die` may happen at any step. A
migration with its ledger row is one transaction, hence one action; the check
before it is not (`Refused`: the primary key rejects the second). A backup is
whole unless somebody committed while it was copied (`torn`): another process
that is past its own backup, or an outsider (`OutsiderCommits`), that is
`record_runtime_bans` of the port guard's script, which a timer starts every
30 s, or a `sqlite3` call of `x-ui.sh`. Outsiders write rows no step here reads,
so they matter only under a copy. The first
start finds an empty file, one of an older release, one half-way, or one whose
ledger was cleared. `Verify` and `SavePlain` are the two steps of a login; `login`
is what it has verified. History: `chosen` (the password last set), `overtaken`
(a backfill came after a change), `overlapped` (two processes in the bootstrap),
`intruded` (an outsider committed under a copy, and no whole copy was made since).

**Settings.** `rows` has ids and no unique key, as the table. `NewId` is the
highest id and one: the column is a plain integer primary key, so a reset or a
deletion lets ids come back. `Find` and `Write` are the two statements of
`saveSetting`: `Write` creates a row or saves the one that was found by its id,
whichever key has that id by then (`Target`, `Put`, `Hit`). `WriteFails` is its
error, after which `UpdateAllSetting` goes on with the next key; `Answer` ends
the request, and after a success the page that waits for it loads again.

A writer is a request or a job of the panel, or a command. `page` is what a page
has loaded, `want` what a writer saves: all keys of a form, edited or not
(`Submit`), or one key (`Sets`): `x-ui setting`, or the panel on a key the page
does not show, such as `runtimeDirty` (`Hidden`). A page may submit again while
its request is under way, since the button is only covered by a spinner that
comes half a second late; `from` says which page waits for which request.
`DeleteKey` and `InsertKey` are the two SQL statements of the certificate command
in `x-ui.sh`, `ResetSettings` the reset. `GetAllSetting` takes the newest row of
a key (`Loaded`), `getSetting` the oldest (`Effective`). History: `begun` and
`edited` (what a writer set out to save, and which of it was changed in the
form), `touched` (per page and writer, keys that a statement has changed since
the page was loaded; for a writer, by others after it had saved them, or before
when its form was already old), `crossed` (a statement changed a key while
another writer was between look-up and write of it).

## 4. Runs

| Run | Question | Bounds |
|---|---|---|
| `plan_apply` | Does a plan do its work from every table to every table? | 2 tags, 2 cores, 2 emails, 2 credentials: every operation and every pair of operations on one tag and on two |
| `runtime_faults` | Do the snapshot, the plans and `runtimeDirty` stay honest under failures? | one worker of each kind, 3 tags and two tables whose difference takes all five operations, 2 templates (symmetric), 1 change of either, any 2 disturbances of all 9 kinds: a failure during the recovery of a failure |
| `runtime_overlap` | Is any committed change forgotten, and is a sync all or nothing? | 2 apply runs (symmetric), 1 check job, 2 changes, 1 failing sync: the smallest instance in which a run overtakes another and a third reconcile may repair it |
| `runtime_liveness` | Does Xray end up on the database's inbounds? | 1 apply run, 1 check job and boot, 1 change of the inbounds or the template, any 1 disturbance: a change at any moment of a SIGHUP, too |
| `port_guard` | Do rules, bans and `desired.conf` agree whatever overlaps, and does the timer restore the rules? | 2 ports, guards on or off, 2 runs, 1 handler, 1 change, 1 kill or reboot, ban and clock of 1 tick: a rebuild while another run waits, dies or lists, and a ban that ends |
| `inbound_store` | Are rows, client rows and traffic kept by racing pages and jobs? | 2 pages (symmetric) with 2 requests, 2 ids, 2 ports, 2 clients, 2 units of traffic, 1 failure: two saves of one row, of two rows on one port, a deletion under an update, with the traffic job between any two steps |
| `inbound_quota` | Does an exhausted inbound end, whoever enables it again? | 1 page with 2 requests, quotas and expiries of 0 and 1, a clock of 1: both boundaries are met exactly |
| `access_source` | Which lines does the report count, and how often? | 3 lines on 2 paths, whole or in two pieces, 2 requests (symmetric), a read limit of 2 pieces, 1 truncation, 1 failure or restart |
| `inbound_form` | Does an inbound survive the form, the server and the way back? | VMess, VLESS and HTTP, TCP and WebSocket, 2 keys, 2 forms with 2 changes each, an old mKCP row: protocols that change under a late schema, a second form while the first is being saved, an old row saved again |
| `inbound_form_password` | Is an HTTP proxy with a password asked for it? | 1 form, 2 changes; expected to fail (section 6) |
| `panel_database` | Does a file get migrated and bootstrapped once, whatever dies? | the panel and 1 command, 1 inbound, 2 ports, 2 passwords, 1 death, outsiders that commit under any copy |
| `panel_settings` | Is what pages show and save what the panel uses? | 1 page, 2 requests (symmetric) and a command, 2 keys and a hidden one, 2 values, 3 events (a page loaded, a save begun, a statement that fails), every table with one row per key: half of a form, an old form, a key two writers create, a row saved by an id that has changed hands. A page that submits, is loaded again and submits stands for two pages |

Deadlock checking is off where the system may really stop: a finished plan
(`plan_apply`), a browser whose user leaves the page (the two runs of
`InboundForm`), and settings nobody saves any more (`panel_settings`, whose events
come to an end). In all other runs a state without successor is an error.
`MCInboundForm` gives TLC a view: a closed modal keeps its last form, which
nothing reads before the next one overwrites it.

Type invariants are proved for every bound (section 5) and therefore not run
again.

Properties of interest:

- `LiveMatchesSnapshot`: nothing ever reads the configuration back from Xray;
  the next plan is computed from `Manager.snapshot`. So outside a sync that is
  changing it, the snapshot has to describe the running process, through partial
  plans, failed starts, kills and restarts.
- `PlanIsAcceptable`: Xray never rejects a call of a plan; restarts come from
  failures only.
- `CleanSyncHasDesired`: no error path of `Sync` ends with `runtimeDirty` reset
  on something other than the desired inbounds. The one exception is stated in
  the property: the write of `runtimeDirty` itself failed.
- `QuietMeansInSync`, `Converges`: the database is what Xray runs, when all is
  quiet and eventually. They excuse two accidents (`overtaken`, `lostBuild`),
  which are real (section 6); the point of the excused form is that there is no
  third way to forget a change.
- `ImplementsPromise`: a sync may fail at any call, fall back, fail to start and
  give up, while other reconciles wait with older or newer reads. Seen from
  outside it still ends with all of what its own reconcile read, or with no Xray;
  nothing is changed between syncs; and `runtimeDirty` is reset only by a sync
  whose contents Xray has.
- `BystandersUndisturbed`: the purpose of incremental apply. Users and inbounds
  that do not change are not touched at any moment.
- `StateTellsRules`: the "unchanged" path touches nothing, so everything rests
  on `desired.conf` telling the rules in force, through overlapping runs,
  changes during a rebuild, reboots that take the rules but not the file. The
  excuse (`torn`) is a run that died while it built.
- `RulesFollowConfiguration`: with that excuse, the rules follow the database.
- `BansEndWithCause`: a running ban ends by its timeout, an unban, a reboot or
  because `desired.conf` really changes, never because two runs rebuilt the
  same rules one after the other.
- `OneInboundPerPort`: two handlers may both pass `checkPortExist`; what keeps
  the ports apart is the unique column under the write lock, in the database
  and in what an open transaction sees.
- `ClientsAreSubmitted`: the clients of an inbound with users are the whole list
  of one save, although rows and clients are saved in two statements, a save
  without a list leaves the old rows and every read merges them back.
- `ImplementsStore`: a handler saves or deletes in two statements after two reads
  outside the transaction, and the jobs write in between. What is committed is a
  whole save, a whole deletion or a job's update, and none touches another
  inbound.
- `CountedOnce`, `TrafficIsKept`: no unit of traffic is counted twice; one is
  lost only by a failure between Xray and the row, or by a page that saved an
  old row.
- `QuotaEnds`: whatever a stale page enables again, the job ends it.
- `TwiceOnlyIfRaced`, `NothingMissed`: the scan runs to the end of the file,
  the offset stops at the size found before it. A line written in between is
  read again; nothing before the offset is missed, save what the read limit
  cuts off (`cut`), a line of which a size was taken between its halves
  (`split`) and the tail of a line whose head went with an emptied log.
- `ReopenIsNoOp`: opening a row the panel saved and pressing OK changes
  nothing. Browser and server each have a codec; this is where they must agree.
- `RunsWhatWasChecked`: normalisation is applied at every read and write, and
  `Validate` works on the very inbound that is stored. The configuration that
  was validated has to be the one every later build makes of the row.
- `CredentialsSurvive`, `LinkReaches`: what the user typed, under whichever
  schema, is what Xray asks for and what the share link says. A Shadowsocks
  form whose password is emptied while it still holds a client, written under
  the late schema of another protocol, submits that client's password, because
  `normalizeShadowsocks` takes it.
- `LedgerIsTrue`, `BackedUpFirst`, `ClientsKept`: a version in the ledger is one
  the data has, a whole copy from before it is on the disk although it is taken
  of a live file beside others that migrate, and no step on the way loses an
  inbound's clients. The excuse of the second (`intruded`) is a script that
  commits during the copy; that no death and no other migrating process is a
  second way to lose the backup is what it says.
- `ShownLogsIn`: the login writes the plain copy of a password it has verified;
  save in that one race, `x-ui info` shows a password that works.
- `PageShowsWhatIsUsed`, `SaveSticks`, `UneditedKept`: the page and the panel
  read the table by different rules, the page saves keys nobody edited, and a
  save goes by an id that may have changed hands. All three hold for a key until
  a statement of somebody else has changed it (`touched`), which includes the
  statement that was meant for another key, or has met another writer of it
  (`crossed`).

**Fairness.** For the runtime layer, `Fairness` assumes that a handler that
committed goes on, that cron fires its entries, that goroutines are scheduled,
that an Xray that was started comes up and a killed one is reaped. Taking the
mutex is strongly fair: `sync.Mutex` hands over in order once a waiter has
starved for a millisecond. For the port guard: systemd fires the timer (a
oneshot unit every 30 s, restarted after it ends) and a process that runs goes
on; `Busy` ends a wait for the lock, so `flock` needs no strong fairness. For
the inbound rows: a handler goes on, and cron runs `CheckInboundJob` every 30 s.
For the database file: systemd starts the panel again when it has failed
(`Restart=on-failure`), and a started panel goes on. No fairness is put on
disturbances, deaths, failures, edits, requests, packets or traffic. Liveness is
checked with a bounded number of those, "after the last of them".

## 5. Proofs

All theorems are for any finite or infinite sets of tags, users, workers,
pages, ports, inbounds and tables, and any bounds. The assumptions are the named
ones of the modules (`RuntimePlanAssumption`, `RuntimeManagerAssumption`,
`PortGuardAssumption`, `InboundStoreAssumption`, `AccessSourceAssumption`,
`KeysAssumption`, `NoneAssumption`, `FormAssumption`, `DatabaseAssumption`,
`SettingsAssumption`, and `ParametersGiven` of `InboundStore`, whose parameter
sets are not empty): null values are not values, kinds of processes are disjoint,
bounds are numbers, the settings have finitely many keys, rows of older releases are inbounds without
clients whose stream settings have a network. They are as weak as the encoding
needs and TLC evaluates them in every run.

- `PlanApplyProofs`. The key fact is `RemainingIsPlan`: after a ready call,
  what is left of a plan is the plan from Xray's new table. With it a partly
  applied plan needs no bookkeeping. The inductive invariant is `ApplyTypeOK` and
  `pending = Plan(running, desired)`; it is needed because `NoCallRejected` alone says
  nothing of the calls after the next one. From it: `CallsAreAccepted`,
  `AppliedIsDesired`, `WithdrawnGoFirst`. `BystandersAreLeftAlone` carries one
  more conjunct about the unchanged parts.
- `RuntimeManagerProofs`. `IInv` is the conjunction of `TypeOK`,
  `LockDiscipline`, `HasSnapshot` (a worker past the read of the template has a
  snapshot), `RunsSomething` (a running Xray has a configuration),
  `LiveMatchesSnapshot`, `PlanTracksXray` (before the first call the plan leads
  from the manager's snapshot, and between calls from what Xray has, to what the
  worker wants) and `Adopted` (where a sync is about to end, the manager's
  snapshot shows the planner the inbounds the worker wants). The last two are
  what makes it inductive: without them the step from the last call to the
  adopted snapshot could not be shown to restore `LiveMatchesSnapshot`.
  There is one lemma per conjunct, by cases on the actions; then
  `ManagerTypeOK`, `SyncsExclude`, `SnapshotIsTruthful`, `PlansAreAcceptable` and
  the action property `CleanSyncIsOnDesired`.
  `RuntimeImplementsPromise` is the refinement of `SyncPromise`: one lemma per
  kind of step says what it looks like from outside. The end of a plan needs
  `PlanTracksXray` and `RemainingIsPlan` (an empty plan means that Xray has what
  the worker wants), the end of a sync needs `Adopted` and `LiveMatchesSnapshot`.
  For `RuntimeHistory`, `QuietMeansInSync` says nothing before everything is
  quiet. The strengthening `HInv` says where a change is until then
  (`ChangeOnItsWay`): flagged, about to be read, waiting for the mutex in hands
  nobody newer can contradict (`Waits`), or in Xray, with no older read able to
  enter unnoticed (`Arrived`). It rests on `ReadsAreDated` (a worker that read
  after the last change has the database's inbounds) and `GivesUpOnDesired` (a
  failed sync leaves no Xray on other inbounds than it wanted). Theorems:
  `NoChangeIsLost`, `QuietXrayIsInSync`.
- `PortGuardProofs`. `IInv` adds to the checked invariants `LockIsHeld` (a run
  past the lock file holds it) and `SavedAreBuilt` (a run about to write
  `desired.conf` has its rules in the table): `StateTellsRules` says nothing
  while a run builds, so the step that ends the silence needs both. The lemmas
  `OutsideKeepsRules` and `QuietKeepsRules` say once that handlers, kernel,
  clock and the other steps of a run leave the rules alone. Theorems:
  `PortGuardTypeOK`, `RunsExclude`, `BlockedPortsAreGuarded`,
  `StateFileTellsRules`, and the action property `BansEndByCause`: a run that
  deletes the table did so because what it read differs from `desired.conf`,
  which only the holder of the lock writes.
- `InboundStoreProofs`. `IInv` ties the transaction to the tables:
  `StagedOverDatabase` (what a transaction sees is the database with its own
  writes over it, so a commit loses nobody's work), `PortIsFree` (its row has a
  port no other row has; this is what `OneInboundPerPort` needs at the commit,
  and holds because nobody else commits in between), `FormHasClient` and
  `OwnClients`. Theorems: `InboundStoreTypeOK`, `PortsAreUnique`,
  `ClientsHaveInbound`, `ClientsAreWhole`. `TrafficCountedOnce` is inductive with
  the types alone; `OnlyStalePagesLoseTraffic` needs `FormIsFresh`: a page that is not
  stale shows the counter of its row. `StoreImplementsPromise` reads the
  atomicity off the same `IInv`: at the commit, `StagedOverDatabase` makes the
  transaction's view the database with one inbound changed, `PortIsFree` and
  `FormHasClient` make that change a `Save`.
- `AccessSourceProofs`. `Inv` says which lines may still be counted:
  `UnreadIsCountable` for those behind the offset, `ScanIsCountable` for a scan
  under way, whose lines behind the size it works with were all written during
  it. `NothingMissed` needs the opposite direction: `Coverage` says that every
  piece before the offset is covered, and that a scan under way has found, or
  was right to pass over, every piece it has read so far (`ScanCoverage`, which
  also says what the scanner skips after the read limit). The shape of the log
  (`LogShape`: a tail follows its own head) is needed where the scanner meets a
  line in two pieces: found at its tail, the line covers its head too.
  Theorems: `AccessSourceTypeOK`, `LinesCountOnce`, `NothingIsMissed`, `CountsFollowLog`,
  `CachedReportIsTally`, and `ReportImplementsTally`: every step of the reader is
  a step or a stutter of `AccessTally`. The abstract `Count` demands
  that no line is counted a third time, which is where `Inv` is used.
- `InboundFormProofs`. The first half are lemmas about the codecs of
  `InboundCodec`, for all inbounds: a normalisation applied twice is applied once
  (`NormalizeTwice`), `Attach` undoes `Split` (`AttachUndoesSplit`), what the
  browser opens and sends again is what was stored (`SettingsComeBack`,
  `ResentIsSame`), what a later build makes of a stored row is what was validated
  (`StoredBuild`), and Xray asks for what was submitted (`CredentialRuns`). They
  are proved protocol by protocol. The second half is the form: `FormInv` ties
  the stored row to the request that wrote it (`SavedByRequest`: row, clients,
  `wanted` and `passed` all stem from one accepted inbound), says that whatever is
  edited or sent is an inbound of the codec (`ModalTyped`, `TasksTyped`), and that
  a form whose button can be pressed has no callback under way
  (`OneTaskPerForm`). Theorems: `InboundFormTypeOK`, `FormsSaveOnce`,
  `ReopeningIsNoOp`, `RowsRunAsChecked`, `SubmittedCredentialsRun`,
  `LinksReachWhatRuns`.
- `PanelDatabaseProofs`. `Inv` adds to the invariants `Progress` (a process has
  only passed versions that are in the ledger), `KnowsCovered` (a process that
  may still apply a version, or has seen the file change under its copy, knows
  that all missing versions are backed up, or that an outsider intruded),
  `LoginIsOpen` and `BootstrapAlone`. `KnowsCovered` is the argument of
  `BackupComesFirst`: a torn copy is torn by an outsider, or by a process of
  which `KnowsCovered` holds already (`TornIsCovered`), and only a whole copy,
  which lacks every missing version, ends the excuse (`IntrudedStays`,
  `WholeCopyCovers`). Theorems: `DatabaseTypeOK`,
  `LedgerTellsTheTruth`, `NobodyOpensUnmigrated`, `ClientsStayInOnePlace`,
  `NoClientsLost`, `BackupComesFirst`, `BootstrapsOnce`, `LastPasswordLogsIn`,
  `ShownPasswordLogsIn`.
- `PanelSettingsProofs`. `Inv` says what a writer knows of the row it has found:
  until somebody meets it, the id is the key's only row, or the key has none
  (`Knows`), and if the id has come back as the row of another key it set out to
  save, that key counts as touched for it (`Stale`). `Saved` is what a writer has already put into
  force, `Pending` what a form under way still shows rightly; `StageShape`,
  `IdsUnique` and `Bounded` (the ids are finitely many, so that a newest row
  exists) are the ground these stand on. Theorems: `SettingsTypeOK`,
  `KeysHaveOneRow`, `PagesShowWhatIsUsed`, `SuccessIsSaved`, `UneditedStays`.

Only model-checked: the liveness properties `Converges`,
`RulesFollowConfiguration`, `QuotaEnds` and `Opens`, because a proof of them
needs fairness and ENABLED, which are beyond the prover. Every safety property
of a passing run is a theorem. `PasswordSurvives` is false (section 6).

## 6. What the runs and the models found

One disagreement is shown by a run that is expected to fail
(`inbound_form_password`; `PROJECT.json` has the line and the quotes): an HTTP
inbound saved with password authentication is stored, listed and run without a
password. `httpModule.Validate` reads `settings.auth` and deletes it from the
inbound it was given; the next normalisation takes the missing flag for "off" and
drops the accounts. `CredentialsSurvive` leaves HTTP out for this reason.

The others are stated as the excuses of the properties, so that what holds in
spite of them could be checked and proved:

1. With no failure at all, a reconcile that read the database earlier enters
   `Sync` later and restores older inbounds; nothing corrects it until the next
   edit (`overtaken`).
2. `isNeedXrayRestart` is consumed before the snapshot is built; one failed
   build, and the change waits for the next edit (`lostBuild`).
3. `runtimeDirty` is read only when Xray is unhealthy. When a slow Xray comes up
   after `Sync` gave up, the flag stays set.
4. A user without an email is invisible to the planner; a changed credential
   ends in an empty plan and a clean status. A changed template alone behaves
   the same way, but the panel asks for a restart then.
5. Any change of `desired.conf` deletes the nft table with the running bans of
   all ports (the last cause in `BansEndWithCause`).
6. An unban between the listing and the transaction of `record_runtime_bans` is
   overwritten; the row says banned, nft does not block. `UpdateInbound` writes
   back the end of a ban likewise.
7. After a reboot the first run of the port guard dies half-way; the table exists
   and `desired.conf` matches, so the missing rules are never added (`torn`).
8. A page that saves an old row takes traffic off it (`overwritten`).
9. A log that was emptied and has grown back past the offset is taken for the
   old one, until it is shorter again (`blind`);
   `PROJECT_HISTORY/014_IP_PROFILE_ENHANCEMENT.md:115` says that truncation resets
   the counts. Lines written during a read may count twice (`raced`).
10. Two processes that start on an empty file both bootstrap it (`overlapped`):
    two users, two ports. A login that verified a password before a change saves
    its plain copy after it (`overtaken` in `PanelDatabase`); the new password
    logs in, `x-ui info` shows the old one.
11. Two writers of a new settings key both create it (`crossed`); from then on
    the page shows the newest row and the panel uses the oldest. A page puts back
    what others changed since it was loaded (`touched`). A writer that found a
    row before a reset or a deletion saves it by its id afterwards; when the id
    has gone to another key, that key's row becomes its own, and the other key,
    a hidden one too, falls back to its default.
12. `backupDatabase` is an `io.Copy` of the live file. A commit of the port
    guard's script or of `x-ui.sh` during it tears the copy, and the migration
    goes on without a whole backup (`intruded`).

Seen while reading, outside the models: the browser opens an old row whose
network it no longer offers (mKCP, QUIC) as TCP, and saving it makes it so; the
duration parsers of the port guard read the `m` of nft's `ms` as minutes.

## 7. Not modelled

Per component with its reason in `PROJECT.json`.

- Runtime layer: `GetResult` and the cached result, versions, the queue of log
  lines, the conversions to JSON and protobuf inside `Build`, downloads in
  `UpdateXray`, the HTTP server.
- Port guard: the texts (logs, whitelists, nft listings and their durations),
  IPv4 counts, and inbounds that come, go or are disabled under a running script.
- Inbound store: `AddInbounds`, which only the v2-ui import calls.
- Protocols: the options that are copied through unchanged (paths, headers,
  methods, limits), fallbacks, mtproto and lists of several clients from older
  releases.
- Access log: parsing, windows, profiles of addresses and the MaxMind lookups.
- Inbound form: late answers of `generateRealityKeyPair` and
  `importDiscoveredCertificate`, which do not set the modal's loading flag. An
  answer that comes after the form was sent, closed or opened on another row, and
  writes the pair or the certificate into the form there is then, is not covered
  by `CredentialsSurvive` and the others.
- Database file: an older binary that still runs beside the migration, beyond the
  commits under a copy that `OutsiderCommits` stands for.
- Settings table: the two requests of a page that loads (the answer and the new
  form are one step), and requests whose answers come after the page was left.
- Certificates: file operations and X.509 parsing started by one click.
- Sessions, CSRF tokens, login throttling, connection sniffing, the panel's own
  restart, the import and the shell scripts: per request or one-shot, with no
  state shared with the rest beyond what the other modules take as a cause
  (`PanelCrash`, `BeginRestart`).
- The libraries under `web/assets`, which are third-party and most of the
  repository's JavaScript.

## 8. What is left

In the order in which it would add most:

1. `PortGuard` with inbounds that come, go, move or are disabled under a running
   script, composed with the rows of `InboundStore`.
2. The texts the port guard parses on both sides (durations, whitelists), as
   functions against one reference definition.
3. An abstract specification of the port guard (the rules jump from one committed
   configuration to another) and of the settings table (a map), and their
   refinement.
4. `QuietMeansInSync` on top of `SyncPromise`: which of its behaviours the two
   accidents are.
5. Certificates: import and the pair's consistency.
