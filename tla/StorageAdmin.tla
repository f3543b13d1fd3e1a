---------------------------- MODULE StorageAdmin ----------------------------
(* The storage handlers that do not keep an operation row, on top of          *)
(* StorageLayout: destroy and export of a pool by name (storage_btrfs_pool.go),*)
(* import (storage_btrfs_import.go) and the wipe of one disk                  *)
(* (storage_wipe.go). They share storageMu and the disks with the service     *)
(* calls; import and wipe decide by the cached snapshot of StorageObserver.   *)
EXTENDS StorageLayout

CONSTANT MaxScans   \* how many snapshots the observer publishes

ASSUME MaxScansAssumption == MaxScans \in Nat

\* Some profile makes do with one disk: the default of an import is "single".
ASSUME SingleAssumption == \E a \in Profiles : MinDisks[a] = 1

VARIABLES
  primary,   \* storage_metadata.primary_pool
  probe,     \* the scan the observer has under way, or NoScan
  snap,      \* the published ObservedSnapshot
  imports    \* import requests that wait for storageMu with what they saw

observer  == <<probe, snap>>
adminVars == <<vars, primary, observer, imports>>

NoScan == [on |-> [d \in Disks |-> NoPool], mounted |-> {},
           df |-> [p \in Pools |-> NoProfile], managed |-> {}, taken |-> FALSE, generation |-> 0]

\* probeBtrfsFilesystems: what the disks and the kernel say now.
ProbeNow == [on |-> disk, mounted |-> mounted,
             df |-> [p \in Pools |-> IF p \in mounted /\ data[p] # {}
                                      THEN FirstProfile(data[p]) ELSE NoProfile],
             managed |-> {}, taken |-> TRUE, generation |-> snap.generation + 1]

-----------------------------------------------------------------------------
(* StorageObserver.tryReconcile: a probe, then the crossing with the table of *)
(* pools, then the publication. When it runs is StorageObserverLoop's matter. *)

ScanProbe ==
  /\ phase = "up" /\ ~probe.taken /\ snap.generation < MaxScans
  /\ probe' = ProbeNow
  /\ UNCHANGED <<vars, primary, snap, imports>>

\* Mutant: the generation is counted at the probe and again here.
ScanPublishTwice ==
  /\ probe.taken
  /\ snap' = [probe EXCEPT !.managed = rows, !.generation = @ + 1]
  /\ probe' = NoScan
  /\ UNCHANGED <<vars, primary, imports>>

ScanPublish ==
  /\ probe.taken
  /\ snap' = [probe EXCEPT !.managed = rows]
  /\ probe' = NoScan
  /\ UNCHANGED <<vars, primary, imports>>

-----------------------------------------------------------------------------
(* destroyPoolBtrfs and exportPoolBtrfs *)

Serve == phase = "up" /\ call = Idle

\* ListPools and, for a destruction, the policy, which lets any pool of the
\* table be destroyed. The enrichment of the other pools is a Read of each.
BeginByName(kind, p, served) ==
  /\ Serve
  /\ GetPool(p, served)
  /\ call' = [Idle EXCEPT !.kind = kind, !.pool = p, !.outs = DevicesOf(p),
                          !.step = "unmount"]
  /\ UNCHANGED <<db, kernel, phase, conv, watch, orphans, remount, drift,
                 bootstep, crashes, primary, observer, imports>>

\* poolHasSubmounts or unmountStrict refuses.
StrictUnmountFails ==
  /\ call.step = "unmount"
  /\ call' = Idle
  /\ UNCHANGED <<db, kernel, phase, conv, heal, watch, orphans, remount, drift,
                 bootstep, crashes, primary, observer, imports>>

\* unmountStrict: `umount -f`, then findmnt must show nothing.
StrictUnmount ==
  /\ call.step = "unmount"
  /\ balance[call.pool].by # "command"
  /\ mounted' = mounted \ {call.pool}
  /\ balance' = IF balance[call.pool].by = "kernel"
                THEN [balance EXCEPT ![call.pool].by = "paused"] ELSE balance
  /\ Goto("unmounted")
  /\ UNCHANGED <<db, disk, data, born, fstab, due, copying, phase, conv, heal,
                 watch, orphans, remount, drift, bootstep, crashes, primary,
                 observer, imports>>

\* The shares and the line of fstab go; export skips the wipe.
DropFstab ==
  /\ call.step = "unmounted"
  /\ fstab' = fstab \ {call.pool}
  /\ Goto(IF call.kind = "destroyByName" THEN "wipeAll" ELSE "forget")
  /\ UNCHANGED <<db, disk, data, born, mounted, due, balance, copying, phase,
                 conv, heal, watch, orphans, remount, drift, bootstep, crashes,
                 primary, observer, imports>>

\* `wipefs -af` on each device, mounted or not; the results are not looked at.
WipeAll(W) ==
  /\ call.step = "wipeAll"
  /\ W \subseteq call.outs
  /\ disk' = WipedDisks(W)
  /\ data' = DataAfter(disk') /\ balance' = BalanceAfter(disk')
  /\ copying' = CopyingAfter(disk')
  /\ Goto("forget")
  /\ UNCHANGED <<db, born, mounted, fstab, due, phase, conv, heal, watch,
                 orphans, remount, drift, bootstep, crashes, primary, observer,
                 imports>>

\* Mutant: the metadata is not looked at when the pool goes.
RemovePoolKeepingPrimary(next) ==
  /\ call.step = "forget" /\ next = NoPool
  /\ DeletePool(call.pool)
  /\ ops' = Detached(call.pool, ops)
  /\ call' = Idle
  /\ UNCHANGED <<kernel, phase, conv, watch, orphans, remount, drift, bootstep,
                 crashes, primary, observer, imports>>

\* removePoolFromDB: if the pool was the primary one another managed pool
\* takes its place, or none does.
RemovePoolFromDB(next) ==
  /\ call.step = "forget"
  /\ DeletePool(call.pool)
  /\ ops' = Detached(call.pool, ops)
  /\ LET others == {q \in rows' : control[q] = "managed"} IN
       IF primary # call.pool THEN next = primary
       ELSE IF others # {} THEN next \in others ELSE next = NoPool
  /\ primary' = next
  /\ call' = Idle
  /\ UNCHANGED <<kernel, phase, conv, watch, orphans, remount, drift, bootstep,
                 crashes, observer, imports>>

RemovePoolFails ==
  /\ DbFaults /\ call.step = "forget"
  /\ call' = Idle
  /\ UNCHANGED <<db, kernel, phase, conv, heal, watch, orphans, remount, drift,
                 bootstep, crashes, primary, observer, imports>>

-----------------------------------------------------------------------------
(* importPoolBtrfs *)

\* The snapshot is read, and judged, before storageMu is taken. The number of
\* devices the superblock expects is not kept: what is left of a filesystem
\* that lost a disk may be imported here.
BeginImport(p) ==
  /\ phase = "up" /\ imports = {}
  /\ \E d \in Disks : snap.on[d] = p
  /\ p \notin snap.managed
  /\ imports' = {[pool |-> p, on |-> {d \in Disks : snap.on[d] = p},
                  mounted |-> p \in snap.mounted, df |-> snap.df[p]]}
  /\ UNCHANGED <<vars, primary, observer>>

\* storageMu is taken; the filesystem is mounted unless the snapshot said so.
ImportMount(r) ==
  /\ Serve /\ r \in imports
  /\ imports' = imports \ {r}
  /\ IF r.mounted THEN UNCHANGED <<mounted, balance>>
                  ELSE Exists(r.pool) /\ MountEffect(r.pool)
  /\ call' = [Idle EXCEPT !.kind = "import", !.pool = r.pool, !.ins = r.on,
                          !.to = IF r.df = NoProfile
                                 THEN CHOOSE a \in Profiles : MinDisks[a] = 1
                                 ELSE r.df,
                          !.step = "adopt"]
  /\ UNCHANGED <<db, disk, data, born, fstab, due, copying, phase, conv, heal,
                 watch, orphans, remount, drift, bootstep, crashes, primary, observer>>

\* The name is taken, or the mount fails.
ImportRefused(r) ==
  /\ Serve /\ r \in imports
  /\ imports' = imports \ {r}
  /\ UNCHANGED <<vars, primary, observer>>

\* CreatePool of the repository: the btrfs_uuid is unique, the devices of the
\* snapshot are assigned as they are, the first pool becomes the primary one.
ImportPersist ==
  /\ call.step = "adopt"
  /\ call.pool \notin rows
  /\ rows' = rows \cup {call.pool}
  /\ profile' = [profile EXCEPT ![call.pool] = call.to]
  /\ control' = [control EXCEPT ![call.pool] = "managed"]
  /\ members' = [d \in Disks |-> IF d \in call.ins THEN members[d] \cup {call.pool}
                                  ELSE members[d]]
  /\ primary' = IF rows = {} THEN call.pool ELSE primary
  /\ Goto("addFstab")
  /\ UNCHANGED <<ops, kernel, phase, conv, heal, watch, orphans, remount, drift,
                 bootstep, crashes, observer, imports>>

\* appendFstab, after the transaction and outside it.
ImportFstab ==
  /\ call.step = "addFstab"
  /\ fstab' = fstab \cup {call.pool}
  /\ call' = Idle
  /\ UNCHANGED <<db, disk, data, born, mounted, due, balance, copying, phase,
                 conv, heal, watch, orphans, remount, drift, bootstep, crashes,
                 primary, observer, imports>>

ImportFails ==
  /\ call.step = "adopt"
  /\ call.pool \in rows \/ DbFaults
  /\ call' = Idle
  /\ UNCHANGED <<db, kernel, phase, conv, heal, watch, orphans, remount, drift,
                 bootstep, crashes, primary, observer, imports>>

-----------------------------------------------------------------------------
(* handleWipe *)

\* Mutant: force is taken to cover managed filesystems too.
PassesWhenForced(d, force) == snap.on[d] = NoPool \/ force

\* detectFilesystemOnDisk, by the snapshot alone: a disk it shows in no
\* filesystem is clean, one in an unmanaged filesystem passes with force.
PassesPreFlight(d, force) ==
  snap.on[d] = NoPool \/ (force /\ snap.on[d] \notin snap.managed)

\* wipeDiskWithOptions: the disk's own mount is forced off, which may not
\* succeed, and its start, its end and its signatures are overwritten anyway,
\* unless the first write fails (FailFast).
WipeDisk(d, force, off, written) ==
  /\ Serve
  /\ PassesPreFlight(d, force)
  /\ off \subseteq {p \in mounted : p = disk[d] /\ balance[p].by # "command"}
  /\ mounted' = mounted \ off
  /\ disk' = WipedDisks(IF written THEN {d} ELSE {})
  /\ data' = DataAfter(disk') /\ copying' = CopyingAfter(disk')
  /\ balance' = [p \in Pools |->
                   IF p \in off /\ BalanceAfter(disk')[p].by = "kernel"
                   THEN [balance[p] EXCEPT !.by = "paused"]
                   ELSE BalanceAfter(disk')[p]]
  /\ UNCHANGED <<db, born, fstab, due, daemon, crashes, primary, observer,
                 imports>>

-----------------------------------------------------------------------------
AdminInit ==
  /\ Init
  /\ primary = NoPool /\ probe = NoScan /\ snap = NoScan /\ imports = {}

ByName ==
  \/ \E p \in Pools, served \in Profiles :
       \E kind \in {"destroyByName", "exportByName"} : BeginByName(kind, p, served)
  \/ StrictUnmountFails \/ StrictUnmount \/ DropFstab
  \/ \E W \in SUBSET Disks : WipeAll(W)
  \/ \E next \in Pools \cup {NoPool} : RemovePoolFromDB(next)
  \/ RemovePoolFails

Import ==
  \/ \E p \in Pools : BeginImport(p)
  \/ \E r \in imports : ImportMount(r) \/ ImportRefused(r)
  \/ ImportPersist \/ ImportFstab \/ ImportFails

\* A crash loses what the daemon had in memory, the snapshot included.
LayoutStep ==
  /\ Next
  /\ UNCHANGED primary
  /\ IF phase' = "down" THEN probe' = NoScan /\ snap' = NoScan /\ imports' = {}
                        ELSE UNCHANGED <<observer, imports>>

AdminNext ==
  \/ LayoutStep
  \/ ScanProbe \/ ScanPublish
  \/ ByName
  \/ Import
  \/ \E d \in Disks, force, written \in BOOLEAN, off \in SUBSET Pools :
       WipeDisk(d, force, off, written)

AdminSpec == AdminInit /\ [][AdminNext]_adminVars
=============================================================================
