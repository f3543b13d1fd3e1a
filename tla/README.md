# NimOS: TLA+ specifications and proofs

NimOS is a NAS operating environment: a Go daemon (`src/daemon/`) that manages Btrfs
pools, shares, Docker apps, their exposure to the network, backups and accounts, a
Svelte desktop (`src/src/`), and a C++ torrent service (`src/torrentd/`). This directory
holds the specifications of the daemon, the model-checking runs on small instances, and
machine-checked proofs.

The storage core came first because a mistake there destroys data and because it is the
hardest to test: SQLite, the kernel and the daemon's memory are updated in separate steps,
by handlers, goroutines, a boot recovery and periodic loops, and the daemon may die
between any two of them. The rest of the daemon has the same shape: rows say what should
be, something outside (Caddy, ufw, a DDNS provider, Docker, systemd, Btrfs snapshots)
is what is, and handlers without a common lock change both while a loop reconciles them.

## 1. Inventory

### Storage

| Component | State | Operations | Talks to |
|---|---|---|---|
| Service (`storage_service.go`, `storage_http_v2.go`) | `storageMu` and the locals of the call that holds it | create, destroy, add, remove, replace, convert, rename, compression, scan | repository, executor |
| Repository and schema (`storage_repo*.go`, `storage_schema.sql`) | tables of pools, assignments, operations, metadata | one transaction per step | everybody |
| Executor (`storage_executor_real.go`) | none | mkfs, mount, umount, wipefs, `btrfs device/replace/balance` | kernel |
| Recovery (`storage_recovery.go`) | orphans, watcher goroutines | settle or take over what a dead daemon left | repository, kernel |
| Layout reconciliation (`storage_layout_reconcile.go`, `storage_pool_enrich.go`) | self-heal goroutines | correct the profile, mark drift, accept it | repository, kernel |
| Mounts (`storage_mount_reconcile.go`, `storage_pool_rename.go`, `storage_startup.go`, `storage_common.go`) | rows, fstab and its backup, the kernel's mounts, directories | remount, repair a wrong mount, rename, sweep directories | fstab, kernel, observer |
| Handlers by name, import, wipe (`storage_btrfs_pool.go`, `storage_btrfs_import.go`, `storage_wipe.go`) | what they saw in the observer's snapshot | destroy, export, import, wipe | `storageMu`, repository, kernel, observer |
| Observer (`storage_observer.go`, `storage_btrfs_probe.go`) | snapshot, fingerprint, trigger, `forceNext` | rescan every 60 s or on demand | handlers read its snapshot |
| Device reconciler (`storage_reconciler.go`, `storage_scheduler.go`) | `prevMissing`, `last_seen_at` | scan every 30 s, remount when a disk is back | repository, mounts |
| Health and alarms (`storage_health.go`, `storage_health_monitor.go`, `hardware.go`) | histories in memory, notifications | read, judge, notify on a change | pools, SMART |
| Shares and managed folders (`shares_service.go`, `managed_folders_*.go`) | rows, subvolumes, Linux groups, ACLs | create, edit, delete, reconcile at boot | Btrfs, Linux accounts, pools |
| NimBackup (`backup.go`) | jobs, snapshots on both sides, `backupRunningJobs` | run, schedule, prune, edit | Btrfs, the paired device |

### The rest of the daemon

| Component | State | Operations | Talks to |
|---|---|---|---|
| Exposure (`network_exposure_*.go`) | rows with applied marks, one configuration, ports opened by NimOS | edit, reconcile every 30 s | Caddy, ufw |
| Dynamic DNS (`network_ddns_*.go`, `breaker.go`, `nimos_secrets.go`) | entries, tokens in another table, the breaker | create, edit, delete, reconcile every 60 s | the provider |
| Events and retention (`network_events.go`, `network_retention_runner.go`, `network_repo_audit.go`) | rows of events, operations, snapshots; rate limits | emit, deduplicate, purge | every reconciler |
| Reconciler scheduler (`network_reconciler.go`) | contexts, a wait group | register, start, stop, run once | every reconciler |
| Docker (`docker_*.go`, `db_operations.go`) | rows of apps and operations, compose files, containers | install the engine, deploy, rebuild, uninstall, adopt | Docker, the pool |
| Docker updates (`docker_updates*.go`) | local and remote digests | check, update, deploy | the registry |
| Services and NimHealth (`services.go`, `nimhealth_*.go`) | `service_instances`, a cache of the engine | detect, reconcile every 30 s, start, stop | systemd, Docker, pools |
| Maintenance (`maintenance*.go`, scrub schedule) | schedules, a history, scrubs | tick every minute, run by hand, edit | files, Btrfs |
| WireGuard (`wireguard.go`) | a state file, `wg0.conf`, the interface | set up, pair, exchange, remove | the remote NAS |
| Files and uploads (`files.go`, `files_secroot.go`; `uploadTasks.js` of the desktop) | files, chunk files, the tasks of the desktop | paste, delete, rename, mkdir, upload, upload in chunks, cancel | the file system |
| Accounts (`auth.go`, `db.go`) | users, sessions, grants, limits, Linux and Samba accounts | set up, log in, change, second factor, delete | SQLite, Linux |
| Shield (`shield*.go`) | block list in memory and in a table, windows, a queue | judge events, block, expire, whitelist, toggle | every HTTP request |

What is hard, and what makes each one right:

* **Concurrency.** A conversion runs in a goroutine without `storageMu`; a rename, the
  sweep of directories, shares, files, Docker jobs, WireGuard and accounts take no lock at all.
  *Right:* no two pools share a disk; a call changes only its own pool; a sweep removes no
  user's file; a session belongs to an account; a folder is whole; a file moved or uploaded is
  whole somewhere.
* **Failure.** A command may fail half way or be killed after its effect; a transaction may
  fail; a provider refuses. *Right:* completed means done; what failed is settled, retried
  or undone in the end; a provider is not hammered.
* **Crash and restart.** Balances, replacements, containers, snapshots and ufw rules outlive the
  daemon; histories and windows do not. *Right:* at boot everything is settled or taken over,
  and what was told or blocked is known again.
* **Stale state.** Handlers judge by a cached snapshot, by rows read before a call or by a copy
  of a file. *Right:* an announced change reaches a snapshot; an edit is never lost behind an
  applied mark; an older answer of the registry does no lasting harm.
* **Liveness.** *Right:* operations settle; pools, apps, routes, entries and services end as
  they are declared or as they are.

The hazards, line by line, with the property that covers each, are in `PROJECT.json`.

Not modelled: the router's ports (no code writes `network_ports`), HTTP and static files,
the socket's plumbing, archives and downloads, virtual machines, notifications' display, the
Svelte desktop, `torrentd`, shell scripts. Section 6 says why.

## 2. Modules

```
OperationLifecycle          what storage_operations promises
        ^ implemented by (checked and proved)
StorageLayout  <-- StorageLayoutProperties <-- MCStorageLayout <----+
        ^                 ^            ^-- StorageLayoutProofs      |
        ^                 ^                 ^-- LifecycleProofs     |
StorageAdmin   <-- StorageAdminProperties <-- MCStorageAdmin        |
                          ^-- StorageAdminProofs                    |
                                                                    |
PoolMounts  PoolHealth  Backup  Services  <-- MCStorageDaemon
DeviceReconciler  <-- MCDeviceReconciler <--+
StorageObserverLoop  NetworkExposure        |
NetworkDdns  DockerApps  AppUpdates         |
ReconcilerScheduler  <----------------------+-- MCNetworkDaemon
NetworkEvents  Maintenance  WireGuard  Accounts  Shield
FileMoves  Uploads  Shares  <-- MCDaemonSafety
```

Proofs, each extending the modules it is about: `StorageLayoutProofs`; `LifecycleProofs` (of
`StorageLayout` again: operations, completions, the lock of a conversion), `StorageAdminProofs`,
`PoolProofs` (of `PoolHealth`, `Shares` and `PoolMounts`); `MonitorProofs` (of `StorageObserverLoop` and `ReconcilerScheduler`);
`NetworkProofs` (of `NetworkExposure`, `NetworkEvents` and `NetworkDdns`); `AccessProofs` (of `WireGuard`,
`Accounts` and `Shield`); `DaemonProofs` (of `Maintenance`, `Uploads`, `FileMoves`, `Backup` and `DockerApps`).

### StorageLayout

State in three groups, which is how failure splits it: `db` survives everything,
`kernel` survives the daemon, `daemon` dies with it.

* A member of `Pools` is a filesystem (its UUID) and the row that may describe it:
  `mkfs` makes a fresh one, so an identity is born once.
* `call` is the holder of `storageMu` with its locals. Its `step` follows the
  code: `validated` (checks made), `run` (the row is inserted, in a transaction
  of its own), `wipe` (destroy only), `persist` (the last transaction), `failing`
  (`markOperationFailed`). `Begin*` are the handlers up to the insertion, `Run*`
  the commands, `Persist*` the transactions.
* `conv[o]` is the goroutine of a conversion, `heal` the writes of the self-heal
  goroutines, `watch` the watchers of balances taken over at boot, `orphans`,
  `remount` and `drift` the lists that the boot's loops are still going through.
* Reading a pool (`GetPool`, `ListPools`) is a step with an effect: the profile
  served is the one on disk if the filesystem is mounted and could be read, and a
  difference with the row starts a self-heal.
* The kernel: `disk` (whose superblock a disk carries), `data` (profiles of the
  block groups: two of them in the middle of a conversion), `balance`,
  `copying` (replacements under way), `mounted`, `fstab`, `due`.

### OperationLifecycle

A row opens `in_progress`, is settled once, and at most one open row holds a pool.
`StorageLayoutProperties!ImplementsLifecycle` instantiates it over the status and
pool columns of `ops`.

### StorageAdmin

Adds the handlers that write no operation row: destroy and export by name,
import, wipe; `primary` (metadata), the observer's snapshot and the imports
that wait for the mutex with what they saw. The actions of `StorageLayout` run
unchanged next to them.

### StorageObserverLoop

The loop of the observer alone: a state of the disks is the number of changes so
far, so that "this change is in the snapshot" is a comparison. `MarkForced` and
`Trigger` are the two halves of `InvalidateNow`; `Wake`, `ConsumeForced`,
`Fingerprint`, `Probe`, `Publish` are the steps of `tryReconcile`.

### DeviceReconciler

Time is counted in cycles of 30 s: `age` is the time since `last_seen_at`, up to
one more than the threshold. `Scan`, `Compare` and `MountPool` are `runCycle`.

### PoolMounts

Where a pool is mounted: the row's mount point (`poolAt`), the lines of fstab and its
backup, the stack of mounts of each mount point, the directories and their age, what
udisks mounted below `/media`. An import, an export or a destruction holds the lock
(`locked`); a rename (`renaming`), `reconcileMountState` (`reconciles`) and the sweep
(`sweeps`) hold none and are sequences of steps. A disk that is `late` at boot starts a
reconcile when it is back only if a cycle of the `DeviceReconciler` has `noticed` it missing;
one that is there before that (`quick`) starts none (`storage_reconciler.go:204-214`), and
`PoolsComeBack` excepts its pool. `Overlaps` is a bound: in the storage run no request
begins while somebody else is at work, in `sweep_import` it may. Lines are looked for
as the code does it, by substring or by field, so the names of the pools matter: `Longer` are
those that contain another's.

### PoolHealth

One pool with its disks. `SmartScan` and `HealthCheck` are the two monitors with their
histories, `Diagnostics` and `Verdict` are `CollectDiagnostics` and `ComputePoolHealth`,
`ShouldNotify` the deduplication. The `told*` variables are the last notification of each kind.

### Shares

`place`, `nested` and `filled` are the file system, `groups` and `joined` the Linux side,
`shareRows` and `folderRows` the tables; a request is a record in `calls` with the step it
has reached. `ReconcileShares` is the one of boot; `OfPool` judges by the prefix of the
path, as `storage_common.go` does. Nothing in the code keeps a deletion away from the creation
of the same folder, and nothing does in the model: `taken` is the history of the creations whose folder,
share or pool another request deleted after they had made the subvolume and before they recorded it.
`PersistFolder` writes the row, `RecordFolderPermission` the permission after it, which may fail unnoticed.

### Backup

Rows of jobs, snapshots on the source and on the device, and the goroutines: `runs` (the steps
of `executeBackupJob`) and `cleanups` (the retention). A snapshot is its timestamp. `UpdateJob` passes
the body of the request on as it came, so that a client writes `status`, `nextRun`, `source` or
`lastSnap` too; `byHand` is the history of the jobs whose `last_snap` a request wrote.

### Services

The rows of the registry against systemd, Docker and the pool. Three goroutines may be in a
pass (`Passers`), each with its listings read at different moments; `orders` are starts and
stops, `removal` is `dockerUninstall`.

### NetworkExposure

Rows with the generation they were edited and applied at, the singleton configuration with the
ports NimOS opened (`managed`), Caddy and ufw outside. `pass` has the snapshot that a
pass works from; an administrator's transaction may fall between any two of its steps. What a
row routes to is one value.

### NetworkDdns

Entries and tokens in two tables, so that a handler has steps; `ddnsPass` is the pass over the
entries with what it read, `breaker` the breaker of the provider. `kept`, `strayOps` and `burst`
are histories for the properties.

### NetworkEvents

SQLite in WAL mode: a transaction that read before a commit of another (`stale`) fails when it
writes. `Emit` is such a transaction; the purge runs in its own goroutine and emits too.

### DockerApps

Every handler is a record in `jobs`, and the jobs interleave between two effects on Docker, the
pool or the database. A deployment writes the compose file, reads `.env`, empties it and fills it in four
steps. Those that fail are only logged, and it goes on. `compose` has the secret of `.env`, `volume` the one the
database was created with; `torn` are the stacks whose `.env` was lost sight of, `wiped` those somebody asked
to wipe. `ops` are the operations that clients poll, `lost` those whose worker died or whose last
update failed, `adoption` the reconciler's pass with the listing it read.

### AppUpdates

A digest is the number of times its tag moved. `inquiries` are calls to the registry under way,
`digesters` the goroutines that write local digests after a deploy, which pulls the images and goes
on without them if that fails. The check of an app is an endpoint, which no ticker calls.

### ReconcilerScheduler

Contexts are numbered by `Start`; `loops` are the goroutines of `runReconciler` with the context
they hear, `owner` the callers of Start and Stop with the step they have reached, `asides` the
passes of `RunOnce`, for which nobody waits.

### Maintenance

Ticks come a minute apart and the n-th one may read minute n or n - 1; the ticker's channel keeps
one. `loop` is `maintenanceTickLoop` with the sweep it is in and the time it was started
with. The scheduler of scrubs is a loop of its own.

### WireGuard

Each request carries the copy of the state that it read (`copy`) and writes it back: nothing
orders them.

### Accounts

One step per statement or command, between which other requests run. `Opened` has the foreign key
that SQLite enforces on every connection, `MigrateUsers` and `MigrateSessions` the take-over of the
JSON files of an earlier version.

### Shield

The middleware, the one event loop and the administrators' handlers. The block list is in memory and,
written afterwards, in `shield_blocks`; one tick of `clock` is the window of
the counters, so that a counter is the last tick with events and their number.

### FileMoves

A folder has a name in each of its files to an inode, so that a file that is open outlives its
name, as `removeAllIn` and a reader meet it. A request is a record in `transfers` with its position in `copyTreeIn`,
`removeAllIn` or `handleFileUpload`; requests interleave at each call to the file system.
A single file is pasted as a folder of one, a file name stands for the content, the inspection and
the removal of one file are one step. `Careful` says that clients keep
apart: a destination does not exist and is named by no other request, a source is written by none.
A reader whose file is emptied under it is no longer `intact`: its copy
is never whole. `MaxInodes` bounds the files made, as a guard.
No code asks for `Careful`; `daemon_safety` shows what holds for such clients, section 7 what
careless ones may do.

### Uploads

Both ends of an upload in chunks: the task manager of the desktop (`tasks`) and the handlers of the daemon
(`handlers`), which do not stop when the client goes away. `chunks` is the directory of the upload,
`final` the file. Requests for one name meet freely, as they do in the code; `met` is the history that they
did. `uploads_meet` shows what such a meeting does to the file (`DoneIsWhole`), `WholeUnlessMet`
that nothing else does it.

### Composition

The components of one run keep their state apart: what one needs of another is an
environment action of its own module (the pool of a share disappears, the mount of a pool
comes and goes, a container dies). `MCStorageDaemon`, `MCNetworkDaemon` and `MCDaemonSafety`
put several into one run by a variable `focus` that names the component a behaviour moves;
the others stay in an initial state. The state spaces then add up instead of multiplying, and the
fairness of each component is restated while it has the focus. What the components *do* share
is modelled inside one module: layout calls, recovery and mount in `StorageLayout`, the
handlers by name and the observer in `StorageAdmin` (which extends it), the registry,
Docker and the pool in `Services`, the tokens and the breaker in `NetworkDdns`.

## 3. Runs

| Run | Result | What it asks |
|---|---|---|
| `layout_safety` | holds, 443 000 states | `TypeOK`, `DeviceExclusive`, `NoForeignOverwrite`, `ConversionLocked`, `CompletesWhatItDid`, `ImplementsLifecycle` |
| `admin_safety` | holds, 1 000 000 states | `AdminTypeOK`, `PrimaryExists`, `DeviceExclusive`, `CallsSpareOthers`, `FreshWipeSpares` |
| `layout_liveness` | holds, 282 000 states | `OpsSettle`; of `PoolMounts` `PoolsKeepTheirLines`, `FilesAreSafe`, `PoolsComeBack`; of `PoolHealth` `DamageNeverHelps`, `DamageIsTold`; of `Backup` `BackupsAreSound`, `JobsRecover`; of `Services` `ServicesSettle` |
| `reconciler` | holds, 231 000 states | `PoolsReturn`; of `NetworkExposure` `FirewallKeepsItsWord`, `CaddyConverges`; of `NetworkDdns` `DdnsIsSound`, `DdnsSettles`; of `DockerApps` `SecretsKept`, `AppsStayRegistered`, `InstallsEnd`; `BadgeTellsTheTruth` of `AppUpdates`; `StopMeansStopped` of `ReconcilerScheduler`; `AnnouncedIsSeen`, `VisibleIsSeen` of `StorageObserverLoop` |
| `daemon_safety` | holds, 1 540 000 states | `NoDoubleRows`, `OnceADay`, `AddressesDistinct`, `SessionsHaveAccounts`, `BlocksAreEarned`; `NothingIsLost` of `FileMoves`, `WholeUnlessMet` of `Uploads`; `FoldersBornWhole` of `Shares` |
| `drift_missed` | violated | the drift that `detectLayoutDrift` should mark is healed by its own listing |
| `watcher_unverified` | violated | a balance taken over is completed whatever came of it |
| `replace_unfinished` | violated | a replacement completes while the copy goes on |
| `wipe_managed` | violated | a stale snapshot lets a pool's disk be wiped |
| `reconciler_quick` | violated | a disk back too soon leaves its pool unmounted |
| `sweep_import` | violated | the sweep of directories removes the files of a pool mounted after it looked |
| `uploads_meet` | violated | an upload resumed while its aborted request still runs is shown as done and is not whole |

The violated properties state what a comment or a document says of the program;
`PROJECT.json` quotes it.

### Bounds

Storage core: two pools and two disks are the least that let pools compete for a
disk, replace one by another and reach `raid1`, whose minimum is two; three operation rows
allow a create, a conversion and something that meets it. One crash per behaviour
(`MaxCrashes`) puts a restart between any two steps; what recovery leaves after one
restart (`RecoverSkips`) is what a second would find. `single` and `raid1` are
the profiles whose minima differ. The layout part of `layout_liveness` and the violation
runs use one pool and two rows: they are about one pool's story. `admin_safety` leaves out
crashes and layout calls other than create, which `layout_safety` has, and lets
the observer publish one snapshot (`MaxScans`): one is enough to be stale.
`MaxChanges` = 2 with a handler and the daemon's own start gives a change during a rescan and one
after it, and two who announce at once.
`Threshold` = 3 cycles (the code's 90 s over 30 s), two outages.
Symmetry over pools, disks and rows is used in safety runs only; the
profiles, which the constants tell apart, are not symmetric.

The other components, and the case each bound is there for:

* `PoolMounts`: two file systems and two mount points, one name inside the other, so that a
  search by substring may hit the wrong line; two requests (an import and a rename, or a
  destruction) and one fault (a late device, a reboot, a failed command). Requests take their
  turn (`Overlaps = FALSE`), though the sweep or a rename would not wait in the code: `sweep_import` and
  section 7 say what happens then. The exception of `FilesAreSafe` takes three requests after a reboot
  (section 7).
* `PoolHealth`: a pair of disks, two changes (worse, and better or worse again) and one restart
  that empties the histories.
* `Shares`: one share, one folder, two pools whose paths are prefixes of one another, three
  requests of two administrators, one fault: enough for a folder to be deleted twice and made again
  in between, which is what `taken` excepts and section 7 tells.
* `Backup`: one job with two sources and two destinations to move between, retention of one, two
  snapshots before the disk is full, one edit (of any field), one fault.
* `Services`: one service with a pool, one without, one app, three goroutines in passes, one
  request and one fault.
* `NetworkExposure`: one app, one administrator, two edits in one pass, two ports of which one is
  SSH's, one fault. `NetworkDdns`: one domain spelled in two ways, a breaker that opens at
  once, two edits and one fault, so that an edit meets an open breaker.
* `DockerApps`: one stack and one container, two jobs, one fault. `AppUpdates`: one image, one
  release, two calls, two faults, two checks that answer in either order.
  `ReconcilerScheduler`: two owners, four calls: a Start within a Stop within a Start.
* `NetworkEvents`: a key of each level, two emitters and the purge, five hours of two-hour days.
  `Maintenance`: days of two minutes, two of them, two requests, one restart. `WireGuard`:
  two remotes, two overlapping requests after a state that may have a peer.
  `Accounts`: two accounts, two requests at once, one restart or fault. `Shield`: two
  addresses, two names, a queue of one, three requests, two ticks, one restart.
* `FileMoves`: two shares, one of them with two folders, so that there is a copy and a move inside a share and across
  shares; two files and a link, two clients with a request each, one fault or crash.
  `Uploads`: two versions of one name, two chunks, two requests in the daemon at once (one of them late),
  one abort, so that a task is paused and resumed or cancelled before the other, one fault. `uploads_meet` has
  one version and no fault: a pause is enough.

With the bounds of the runs every action of every module fires in a passing run.

`CHECK_DEADLOCK FALSE` in the storage runs and `daemon_safety`: once pools are born, rows and
requests used up, nothing may be left to do, and that bound is the model's. `MCNetworkDaemon`
checks deadlock for the `DeviceReconciler`, whose loop never rests; the other components may
rest (`Rest`).

### Fairness

The layout: weak fairness of the call, the boot, each goroutine
and the end of each balance. Go schedules what is runnable, systemd restarts the
daemon (`Restart=always`), a balance ends. It does not ask requests to come, and
liveness is checked with transactions that do not fail (`DbFaults = FALSE`),
because the code itself leaves a row `in_progress` until the next boot if both
attempts to fail it do. The observer's and the reconciler's `SF` on `Probe` and
`Scan` say that a command tried every cycle does not fail for ever.

The other components: weak fairness of each goroutine that the code starts with a ticker
(the health monitors, the scheduler of backups, the passes of NimHealth, the reconcilers of
DDNS, exposure and Docker), and of each handler and goroutine that is
under way. Faults and edits are bounded, so "in the end" means after the last of them; a
device that is late comes up (`DeviceComesUp`), the cycle that sees it back reconciles the mounts
(`DevicesReappear`), a cooldown of the breaker passes, the registry answers or
times out. No ticker checks for updates, so that `BadgeTellsTheTruth` has a premise, `PageIsOpened`:
somebody opens the app's page (`docker_updates_http.go:109`) as long as a check is due. Nothing else is
assumed of administrators, containers, Caddy's restarts or crashes. `Shares`, `ReconcilerScheduler` and `MCDaemonSafety` claim no liveness and
state no fairness.

## 4. Proofs

Each theorem holds for every value of the constants that the assumptions allow: any number of
disks, requests, faults and restarts. The assumptions are the named ones of the modules, which TLC
evaluates in the runs; a hypothesis that a theorem adds to them stands in the table.

| Module | Theorem | Property | Inductive invariant |
|---|---|---|---|
| `StorageLayoutProofs` | `Typing`, `DisksExclusive`, `DiskSafety` | `TypeOK`, `DeviceExclusive` | `DiskInv` |
| | `ForeignDisksSpared` | `NoForeignOverwrite` | `DiskInv`, then step by step |
| `LifecycleProofs` | `Ownership` | (`OwnerInv`) | `DiskInv`, `OwnerInv` |
| | `TableKeepsPromise` | `ImplementsLifecycle` | `OwnerInv`, then step by step |
| | `FilesystemsSound` | (`FsInv`) | `DiskInv`, `FsInv` |
| | `CompletionsTrue` | `CompletesWhatItDid` | `CallDone`, `ConvDone` over the three above |
| | `ConversionHolds` (if `~Deadline`) | `ConversionLocked` | `CommandHeld` over the three above |
| `StorageAdminProofs` | `AdminTypes`, `AdminDisksExclusive` | `AdminTypeOK`, `DeviceExclusive` | `AdminInv` |
| | `OthersSpared`, `FreshWipes` | `CallsSpareOthers`, `FreshWipeSpares` | `AdminInv`, then step by step |
| | `PrimaryKept` (if `"destroy" \notin Kinds`) | `PrimaryExists` | `AdminInv`, itself |
| `PoolProofs` | `StatusIsMonotone` | `DamageNeverHelps` | none: a fact about every state |
| | `WholeFolders` | `FoldersBornWhole` | `SharesInv`, then step by step |
| | `LinesFollowPools` (if no rename meets a request that holds the lock) | `PoolsKeepTheirLines` | `Tidy`, until the first fault |
| `MonitorProofs` | `Typing`, `SkippedIsSeen` | `ObserverTypeOK`, `SkipIsSafe` | `ObserverInv` |
| | `StopsForGood` | `StopMeansStopped` | `SchedInv` |
| `NetworkProofs` | `FirewallIsKept` | `FirewallKeepsItsWord` | `FirewallInv` |
| | `EventsOnce` | `NoDoubleRows` | `EventsInv` |
| | `DdnsSound` | `DdnsIsSound` | `DdnsInv` |
| `AccessProofs` | `TunnelAddresses` | `AddressesDistinct` | `WgInv` |
| | `NoOrphans` | `SessionsHaveAccounts` | `AccountsInv` |
| | `BlocksEarned` | `BlocksAreEarned` | `ShieldInv` |
| `DaemonProofs` | `DailyOnce` | `OnceADay` | `MaintenanceInv` |
| | `UploadsWhole` | `WholeUnlessMet` | `UploadsInv` |
| | `FilesKept` (if `Careful`) | `NothingIsLost` | `FilesInv` |
| | `BackupsSound` | `BackupsAreSound` | `BackupInv` |
| | `AppsKeepSecrets` | `SecretsKept` | `AppsInv` |

The theorems of `StorageAdminProofs` are about `TrueSpec`: what an import saw still holds when it
writes. The storage ones assume `MinDisks`, `KernelMin` positive, `DfRank` injective into the
naturals, `Kinds` among the six, the null values outside their sets, and, for imports, that some
profile makes do with one disk (`SingleAssumption`). The others assume that bounds are naturals and sets of
names finite; `ShieldAssumption` also that the daemon's own policy keeps to the limits of
`sanitizeShieldConfig`. Those of `Accounts` and `NetworkExposure` need none.

**Storage layout.** `DeviceExclusive` is not inductive: the transaction that assigns a disk does not
look whether it is free. `DiskInv` adds what the call under way knows:
while `call` is not idle the daemon is up, the disks it brings in are assigned to nobody
and those it takes out are assigned to its own pool (`CallInv`). That stays true
because every other writer of the assignments needs the mutex, or runs only at
boot, before requests are served (`BootInv`: no call and no conversion unless the
daemon is up; orphans only while it boots). `ConvInv` keeps the target profiles of
conversions and balances well typed. The proof has one lemma per group of actions
(`RequestsDiskInv`, `CommandsDiskInv`, `PersistDiskInv`, ...), each by cases on the
action, and `NextDiskInv` puts them together. `ForeignDisksSpared` then needs that a
command touches only the disks its call brings in or takes out (`CommandSpares`)
and that other steps of a call touch none (`OthersSpare`).

**Operations.** The table implements `OperationLifecycle` because each open row has one owner: the call
(`CallRow`), a conversion's goroutine (`ConvRow`), a watcher or the boot's list (`LeftRow`), and two
open rows never hold one pool (`OneHolder`). Rows whose closing transaction failed belong to nobody
until the next boot. `StepImplements` maps every step to one of the abstract specification, or to a stutter.

**Completions.** That `completed` is true rests on the filesystems: what is mounted has a disk, data
and a balance only while mounted (`FsInv`); on that the command of the call has put its disks
where the closing transaction says (`CallDone`), and a conversion waits for its own balance, whose end
leaves the profile that was asked for (`ConvDone`). Rows taken over at boot are excepted, as in the
property: `watcher_unverified` shows why.

**The lock of a conversion.** `CommandHeld`: a balance that a command started has an open row that
holds the pool, whose goroutine waits for the balance or died with the daemon. With `Deadline` the watcher
gives the lock up after 24 h while the balance runs, so the theorem is about `~Deadline`.

**Handlers by name.** They run under the same mutex as the service's calls, without a row. What
`StorageLayoutProofs` says of the steps beside a call is said there for any holder of the mutex
(`BesideInv`, `BesideSteps`), and serves both modules. `OwnFs` adds that an assigned disk carries its pool's
filesystem or none; with it an import that still finds what it saw takes nobody's disk. `primary_pool` names a pool
of the table as long as pools are destroyed by name: `DestroyPool` of the service leaves it as it is
(section 6), which is the hypothesis of `PrimaryKept`.

**Observer.** A rescan is skipped when the fingerprint equals the last one. That is safe because
`tryReconcile` takes the fingerprint before it probes, so that the one kept with a snapshot is
never newer than what the snapshot shows (`Behind`).

**Health.** `ComputePoolHealth` is a list of rules of which the first that applies wins. Besides what
is found, only a missing disk may change which rules apply; `VerdictMonotone` goes by cases on the
status the pool had and shows that a graver or equal rule applies with more found. The
sets of diagnostics are finite because the pool's disks are (`HealthAssumption`).

**Scheduler.** What the wait group counts are the loops (`Counted`), so the `Stop` that returns
leaves none. A `Start` that had copied the reconcilers before that `Stop` may still make its
loops: they have a context that is done and never leave the settle delay (`LateOnes`). For this, a
`Start` has a context of its own and makes one loop of each reconciler (`OwnContexts`, `NotYetMade`).

**Exposure.** Edits save the configuration without the list of managed ports, so the list that a pass read
is still the table's when it has worked out what to open (`FreshList`). Between `ufw` and the
save the pass itself holds the list (`Managed`). The invariant asks of the records only their
fields (`Shapes`), since no value matters.

**Events.** Two emitters may look for a row at once and find none. The one that writes second fails,
since its transaction read before a commit: for those that are not `stale`, what the lookup
found still holds (`LookupHolds`). The purge only takes rows away, and commits too.

**Dynamic DNS.** An entry and its token share a number that is never given again (`NumbersNew`), so a
request that works with a number read before finds its own pair or none (`RequestsOwn`). Between
cooldowns the breaker counts every failure there was (`BreakerCounts`).

**WireGuard.** Requests write back copies of the state that may be old, so what holds of the file must
hold of every copy (`WgJobSound`). `Sound` adds to distinct addresses and keys that every
address is below the counter of the same copy, from which the next address is taken.

**Accounts.** A foreign key keeps a session from being written without its account. What has to be
shown is that no other statement removes an account: `Exists` is a row with a password, an
`UPDATE` writes the one its request carries, and every request that writes one carries one
(`RequestSound`).

**Shield.** Each failure is counted at most once on each path to a block. `Counted`: the counter of
the window, the names tried and the streak of an address, each with the failures of the address that
are still queued or being judged, are at most the failures there were. A judgement that blocks has a count
of at least `Fewest` (`BlocksOnEnough`), hence so many failures; the goroutine carries that
through its steps (`WorkSound`), the table through a restart. Dropped events and edits of the policy only leave more
room. The proof counts the queue with an injection (`WaitingMore`, `WaitingLess`).

**Maintenance.** A tick is never later than now (`TimesPast`), the runs of a day are those the history
knows (`RunsKnown`), and a run that is due has none before it on the day of its tick (`RunIsFirst`).

**Uploads.** `UploadsInv` is `met \/ Watched`. Until requests have met, one upload of the name goes on
(`OneGoes`) and at most one request works that nothing was started behind (`Fresh`); those that are late
have nobody waiting for them (`LateDead`) and take no step without `met`. The one that works is the
going task's (`TasksRequest`), which need not hear of it any more; the chunks below the one it writes are
that task's or missing (`RequestOwn`, `GoingOwn`), and so is what it has joined (`JoinedOwn`). With none at work, a
task all of whose chunks were answered has its file (`AllAnswered`).

**Files.** A stored file is whole in a folder that nobody is about to clear (`Kept`). For a cut that means:
what it has not yet copied is still in its source, what it has copied is whole in its destination
(`Spares`), and it removes the source only after every file went well. It needs that no inode has two
names (`Inodes`), one writer per open file (`Out`), and clients that keep apart (`Orderly`, from
`Careful`); without them the property is false (section 7).

**Backup.** `backupRunningJobs` marks the job of every run that works (`RunsMarked`), whatever status a
request writes in the row; what a run writes down was received (`SentIsReceived`), and puts right what a request
wrote (`byHand`); a retention lists only snapshots older than the newest of its source (`NewestSpared`).

**Docker.** No lock orders deployments, so the secret is in `.env` or in the hands of those that have read it and
not yet written it. `HoldersAgree`: all of those hold one secret, the one of `.env` if that has one. A
deployment that finds none and draws one while another holds its own breaks this, and so do a `.env`
that cannot be read and a writing cut short between its two steps: those put the stack in `torn`, where
the property promises nothing. The volume is deleted only by a job that was asked to (`WipesAsked`).

**Folders.** A request that has made a subvolume finds it, and the row of its share, until it answers, or it is in
`taken` (`MadeIsThere`): each step that takes away a subvolume, a share or a pool puts there the creations
it hits, and no other step takes anything away that another request has made. `BornWholeStep` then looks
at the one action that adds a row.

**Mounts.** `Tidy`: fstab has exactly the lines of the managed pools (`QuietLines`), but for the line
that an import has still to write or a removal has already erased (`LockedLines`), and for the one that a rename has moved
before the row (`RenameLines`). That needs that no two pools share a mount point (`UnsharedIn`), or a line might be
taken for another pool's, and that nothing of a reboot is left (`Undisturbed`). Sweeps, which take no lock, may run
at any time: they touch no line. A rename takes none either, and it writes back a copy of
fstab: next to an import it drops the line that the import adds. The hypothesis of `LinesFollowPools`,
`[](locked = Free \/ renaming = Free)`, is therefore needed (`Apart`). Failing commands are the first fault,
where the property ends.

**Only model-checked.** Every safety property of the runs that hold has a theorem except `FilesAreSafe`. It holds
in the run, where requests take their turn; with `Overlaps` it fails, by a sweep (`sweep_import`) and also without
one, by a rename that meets a destruction while the boot reconciles (section 7). A theorem would have to
exclude both, and would be one about requests in sequence.
Every liveness property stays with TLC, since liveness under fairness and ENABLED are out of the
prover's reach: `OpsSettle`, `PoolsComeBack`, `DamageIsTold`, `JobsRecover`, `ServicesSettle`, `PoolsReturn`,
`CaddyConverges`, `DdnsSettles`, `AppsStayRegistered`, `InstallsEnd`, `BadgeTellsTheTruth`, `AnnouncedIsSeen`,
`VisibleIsSeen`. No property needs induction over data, and no module of the project has a RECURSIVE operator.

## 5. What the models assume of the world

* `btrfs filesystem df` lists data profiles in the order raid10, raid1, single,
  raid1c3; the code takes the first line.
* A balance or a replacement excludes device operations on its filesystem; it
  waits while the filesystem is unmounted and the kernel resumes it at the mount.
  `umount` is refused while the *command* that started a balance holds the mount point.
* `wipefs` without `-f` and `mkfs` cannot open a disk of a mounted filesystem.
* `btrfs replace start` without `-B` returns at once. The copy may end well (the
  old disk leaves) or not (the new one does).
* Balances and copies started by the daemon may survive its crash, as
  `storage_recovery.go` expects, or end with it (`BalanceEnds` and `ReplaceEnds` without
  success, at any time); other commands do not survive.
* A line of fstab may be mounted by systemd late, since it is `nofail`. A mount with a
  disk missing fails (no `degraded`). A mount over a mount hides it; `umount` removes the
  one on top.
* One transaction of SQLite is atomic; with `DbFaults`, or by the bounded faults of the other
  modules, it may fail. Every connection enforces foreign keys, as `db.go` asks. In WAL mode a
  transaction that has read cannot write after another has committed (`SQLITE_BUSY_SNAPSHOT`).
* Docker, Caddy, ufw, systemd, the DDNS provider and the registry of images are
  known by how `src/daemon` calls them: a call takes effect and succeeds, or fails without
  effect, and a container or an engine may stop by itself.

## 6. Not modelled, and why

* HTTP routing, static files and the socket's plumbing: they keep no state that a property
  could be about; each handler they lead to is a first action of its component.
* Of `files.go`, archives (zip, unzip), browsing, downloads, and the tests of a path against the
  root of its share: one request, one path, nothing shared.
* The router's ports: no code writes `network_ports`, so that the reconciler's list is empty.
* Virtual machines, hardware readings other than SMART, the display of notifications: commands and
  text without a protocol.
* Remote shares and the pairing of NimBackup: both ends would have to be modelled from one.
* Quotas of shares and of apps, capability files, translations: data.
* Of a `PUT` of a backup job, the writing of a JSON null in a column that hides the row from
  `dbBackupJobList`; several fields in one `PUT` are several requests.
* The Svelte desktop, `torrentd`, packaging and shell scripts: other languages and no part in the
  protocols above.
* In the storage core: names, compression and the generation counter (nothing modelled decides by
  them; a pool is its UUID there, and `PoolMounts` has the names); a crash in the run of
  `StorageAdmin`; `ConversionLocked` past the 24 h deadline, which gives the lock up while
  the balance runs, as the code intends.
* Imports are checked under `TrueSpec`: what the import saw still holds when it
  writes. Without that assumption two pools may come to share a disk.
* `DestroyPool` of the service leaves the fstab line and `primary_pool` as they are,
  so `PrimaryExists` is stated for the handlers by name.

## 7. What was noticed on the way

Disagreements with a comment or a document that a run shows are the runs that expect a
violation. The following were seen while reading the code for the models. The models do what
the code does, so each property is stated at the strength the code has.

Storage:

* `deleteSharesForPool` (`storage_common.go:19-27`) compares paths by prefix: destroying `data`
  removes the rows of `data2`'s shares.
* A power cut between the line and the row of a rename (`storage_pool_rename.go`) leaves the pool's
  line with the new name and its row with the old one. Another pool imported under the new name
  gets no line, since there is one (`appendFstab`), and is destroyed later. A device of the first pool that
  comes up between the `umount` and the `os.RemoveAll` of the destruction (`storage_btrfs_pool.go:84-95`) starts
  `reconcileMountState`, which takes no lock: it finds the second pool not mounted, runs `mount` on its
  mount point, which mounts the first, and the files of that one are removed. TLC finds this in 25 states with
  three requests; it is the exception that `FilesAreSafe` makes.
* A rename takes no lock, and its new name is free until it writes its row. With `Overlaps`, a pool imported under
  that name and destroyed meanwhile takes the renamed one with it: the rename mounts it
  there between the `umount` and the `os.RemoveAll` (13 states, no fault). If the reconcile of a boot
  mounts it instead and the rename then fails and puts the lines back, not even the exception of
  `FilesAreSafe` applies (18 states, no sweep).
* A share with managed folders cannot be destroyed, yet its row goes (`shares_service.go:402-403`); if the
  share's row disappears while a folder is created, the roll-back fails silently.
* `managed_folders_service.go:21` says "NUNCA se persiste en DB un estado a medias". Half a folder is
  recorded when a deletion meets the creation, which is what `FoldersBornWhole` excepts by `taken`.
  `DeleteManagedFolder` finds a folder by its id and later deletes what is at its path (`:198-224`), without a
  lock: of two deletions of a folder the second removes the subvolume that was made again since (13 states). And
  the pool may be destroyed, and the share made again on another pool, between the subvolume and the row (9 states).
* `PUT /api/backup/jobs/:id` passes its body on to `dbBackupJobUpdate` (`backup.go:490-495, 1833-1843`), so that a
  client writes `lastSnap`, `status` and `nextRun`: a job with a base no device has, one that looks
  running, or one that never falls due. The next success puts `lastSnap` right.
* `backup.go:878`: the parent of an incremental send may have been pruned, by the retention or by
  hand, between the choice and the send. `/etc/exports` is read, changed and written without a lock
  (`backup.go:2783-2860`); `Already mounted` returns before the mount is saved (`backup.go:2565`).
* `btrfsVdevTypeForProfile` (`storage_pool_enrich.go:113`) makes `raid1c3` a mirror that may lose one
  disk; `storage_health.go:582-611` says two.
* A scrub that could not start "will be retried" and is not; late ticks may start it twice. The
  recovery of a pool is not told after a restart, since the histories are empty.
* `parseBtrfsDeviceStats` trims digits from the right, which turns `nvme0n1` into `nvme0n`.

Services and Docker:

* `reconcileServices` takes a failed `ListPools` for an empty list and deletes the rows of
  every pool service (`services.go:604-626`); the next passes register them again.
* `serviceStart` of a service without a pool always fails (`services.go:410`); the guard
  `poolLocked` is never true. After the destruction of its pool `docker@pool` is
  registered and deleted at every tick.
* `dockerUninstall` deletes the row before `docker.json` (`docker_install.go:516-530`), so that a
  detection in between registers it again. An older refresh of the Docker cache may overwrite
  a newer one.
* `.env` is emptied before it is written, and what cannot be read counts as absent. A writing that fails or
  that a crash cuts short, and two deployments of a stack that overlap and draw a password each (11 states),
  leave the database with a password that no file has, although `docker_async.go:250-265` and
  `docker_stacks.go:142-158` call the resolution of `{RANDOM}` idempotent. These are the stacks in `torn`.
* The update that ends an operation may fail and is then only logged (`docker_async.go:114-116, 126-128`). The row
  stays `running` for good, as one whose worker died does: nothing at boot looks at `nimos_operations`, and
  nobody calls `DeleteExpired`. These are the operations in `lost`.
* Native apps may keep a row `installing` for ever. A comment in `docker_updates_http.go` expects
  the update check to refresh local digests, which it does not; after a deploy the local digest is taken to be the remote one.

Network and maintenance:

* An applied mark is written for the edit that the pass read, not the one that was sent
  (`network_exposure_repo.go:246`).
* The daily maintenance is missed when its minute passes during another sweep, and a sweep that ends
  after midnight suppresses the next day's. `PUT` of the schedule is an unlocked read-modify-write.
* `Stop` of the scheduler waits for loops started meanwhile; `RunOnce` does not recover a panic.
* WireGuard: the state file is an unlocked read-modify-write, so that two pairings may
  leave one; `addWGPeer` updates the endpoint of a loop copy (`wireguard.go:218-226`); the initiator's
  `AllowedIPs` name its own address; `startWGTunnel` is commented out at boot.

Accounts and Shield:

* Backup codes are a read-modify-write, and a second-factor verification may enable a secret of a
  concurrent set-up. A password change next to a login leaves a session of the old password, a change of role
  leaves sessions with the old one. Nothing keeps the last administrator.
* A Shield that starts disabled has no event loop when it is enabled later (`shield.go:523-544`). Expired
  blocks stay in the table; `apiEnumWindow.count` asks for a key that is never added; a
  shorter block overwrites a longer one; failures that were queued before a successful login are judged after it.

Files and uploads. With `Careful = FALSE`, TLC finds `NothingIsLost` violated:

* A file copied onto itself is emptied, by a single request: `copyFileIn` opens the source and then the
  destination with `O_TRUNC` (`files_secroot.go:139-147`), `handleFilePaste` never compares the two
  (`files.go:600-664`), and the desktop proposes the same name (`FileManager.svelte:265-281`).
* A failed paste removes its destination, whatever was in it before (`files.go:645`); two cuts into
  one folder share that fate. A file that arrives in the source of a cut
  between shares after it was listed is removed with the source. Links are not copied, and are removed.
* A copy of a folder into a folder inside it goes on into what it has just copied.
* `handleFileUpload` rejects a file exactly as large as the room that is left, after it has written it.

Requests for one name that meet, of which the run `uploads_meet` has the shortest story:

* An upload resumed while the handler of the aborted call still runs has two writers of one chunk; a last
  chunk sent again after it was joined finds no chunk 0, and the joined file is removed
  (`files.go:985-1005`); two tasks of one name mix their chunks.
* The directory of the chunks is named by a hash of path and name without a separator, so that
  two different uploads may share it.

## 8. Plan

1. (done) The storage core with its abstract specification; type correctness and the
   exclusiveness of disks proved.
2. (done) The rest of the daemon, one module per component, in three composed runs.
3. (done) Proofs of the safety properties of the storage core, its refinement included, and of the
   components: section 4.
4. What survives a reboot of the lines of fstab, as an invariant, and `FilesAreSafe` stated so that it
   says which files a sweep or a rename may hit, and proved.
5. `DockerApps` and `Backup` with larger bounds, in runs of their own; archives; the pairing of
   NimBackup from the side that is here.
