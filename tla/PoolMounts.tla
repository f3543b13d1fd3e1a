----------------------------- MODULE PoolMounts -----------------------------
(***************************************************************************)
(* Where a pool is mounted: the row's mount point, the line of /etc/fstab, *)
(* the kernel's mounts and the directories under /nimos/pools, which       *)
(* import, export, destroy and rename change one after the other, which a  *)
(* boot reconciles, and whose leftovers a sweep removes                    *)
(* (storage_mount_reconcile.go, storage_common.go, storage_pool_rename.go, *)
(* storage_btrfs_pool.go, storage_btrfs_import.go, storage_startup.go).    *)
(*                                                                         *)
(* A mount point keeps its stack of mounts, the last one on top.  A pool   *)
(* is its file system.                                                     *)
(***************************************************************************)
EXTENDS Integers, Sequences, FiniteSets, TLC

CONSTANTS
  Filesystems,      \* the Btrfs file systems
  MountPoints,      \* /nimos/pools/<name>
  First, Home,      \* the pool that is managed at first, and where
  Longer,           \* the mount points whose name contains that of Home
  Overlaps,         \* bound: may a request begin while somebody else is at work
  MaxMountRequests, \* bound: requests of the administrators
  MaxMountFaults    \* bound: reboots, commands that fail, devices that come late

Nowhere == "nowhere"
Media == "media"
Free == [op |-> "none"]
NoBackup == [lines |-> {}, usable |-> FALSE]

ASSUME MountAssumption ==
  /\ First \in Filesystems /\ Nowhere \notin Filesystems
  /\ Home \in MountPoints /\ Nowhere \notin MountPoints /\ Media \notin MountPoints
  /\ Overlaps \in BOOLEAN
  /\ MaxMountRequests \in Nat /\ MaxMountFaults \in Nat

VARIABLES
  poolAt,     \* storage_pools: the mount point of a managed pool, or Nowhere
  fsTab,      \* /etc/fstab: [lines, torn]
  fstabBak,   \* /var/lib/nimos/fstab.bak: [lines, usable]
  stack,      \* the kernel: mount point -> sequence of file systems
  strays,     \* file systems mounted below /media by udisks2
  device,     \* of a file system, as the DeviceReconciler knows it: "up", "late" (not
              \* there yet), "noticed" (and found missing), "back" (after that), or
              \* "quick" (there before a cycle missed it, with no reconcile to come)
  poolDirs,   \* mount point -> "none", "fresh" (< 5 min) or "old"
  files,      \* file systems that still have their files
  mountBoot,  \* what is left of the boot: a sequence of phases
  locked,     \* the import, export or destroy that holds storageMu, or Idle
  renaming,   \* the rename under way (it takes no lock), or Idle
  reconciles, \* reconcileMountState under way: by -> record, or Idle
  sweeps,     \* cleanOrphanPoolDirs under way: by -> record, or Idle
  mountRequests, mountFaults  \* what is left of the bounds

mountVars == <<poolAt, fsTab, fstabBak, stack, strays, device, poolDirs, files, mountBoot,
               locked, renaming, reconciles, sweeps, mountRequests, mountFaults>>

\* What the mounts are made of, and who is at work on them.
onDisk == <<poolAt, fsTab, fstabBak, stack, strays, device, poolDirs, files>>
actors == <<mountBoot, locked, renaming, reconciles, sweeps>>

\* What has no device yet.
Late == {f \in Filesystems : device[f] \in {"late", "noticed"}}

Reconcilers == {"boot", "reappear"}
Sweepers == {"boot", "maintenance", "destroy"}
Line(fs, mp) == [fs |-> fs, mp |-> mp]

MountInit ==
  /\ poolAt = [f \in Filesystems |-> IF f = First THEN Home ELSE Nowhere]
  /\ fsTab = [lines |-> {Line(First, Home)}, torn |-> FALSE]
  /\ fstabBak = NoBackup
  /\ stack = [m \in MountPoints |-> IF m = Home THEN <<First>> ELSE << >>]
  /\ strays = {} /\ device = [f \in Filesystems |-> "up"]
  /\ poolDirs = [m \in MountPoints |-> "old"]
  /\ files = Filesystems
  /\ mountBoot = << >>
  /\ locked = Free /\ renaming = Free
  /\ reconciles = [b \in Reconcilers |-> Free]
  /\ sweeps = [s \in Sweepers |-> Free]
  /\ mountRequests = MaxMountRequests
  /\ mountFaults = MaxMountFaults

---------------------------------------------------------------------------
(* The kernel. *)

Top(mp) == IF stack[mp] = << >> THEN Nowhere ELSE stack[mp][Len(stack[mp])]
Mounted(mp) == stack[mp] # << >>                         \* mountpoint -q
Somewhere(f) == f \in strays \/ \E m \in MountPoints : \E i \in 1..Len(stack[m]) :
                                  stack[m][i] = f
Push(f, mp) == [stack EXCEPT ![mp] = Append(@, f)]
Popped(mp) == [stack EXCEPT ![mp] = SubSeq(@, 1, Len(@) - 1)]

\* mount <mp>: what the line of fstab says, unless it is on top already.
FstabMounts(mp) == {f \in Filesystems \ Late : Line(f, mp) \in fsTab.lines /\ Top(mp) # f}
Mounts(mp) ==
  IF FstabMounts(mp) = {} \/ poolDirs[mp] = "none" THEN stack
  ELSE Push(CHOOSE f \in FstabMounts(mp) : TRUE, mp)

\* os.MkdirAll: a directory that is there keeps its age.
MkDir(mp) == poolDirs' = [poolDirs EXCEPT ![mp] = IF @ = "none" THEN "fresh" ELSE @]

\* os.RemoveAll: the files of what is mounted on top go, the mount stays.
RemoveAll(mp) ==
  /\ files' = files \ {Top(mp)}
  /\ poolDirs' = [poolDirs EXCEPT ![mp] = IF Mounted(mp) THEN @ ELSE "none"]

Fails == mountFaults > 0 /\ mountFaults' = mountFaults - 1

\* The HTTP server is up before the storage phase of the boot, not before
\* the restore.
BootDone == \A i \in DOMAIN mountBoot : mountBoot[i] # "restore"

\* Somebody else is at work on the mounts.
AtWork == \/ locked # Free \/ renaming # Free \/ mountBoot # << >>
          \/ \E b \in Reconcilers : reconciles[b] # Free
          \/ \E s \in Sweepers : sweeps[s] # Free

Request ==
  /\ mountRequests > 0
  /\ mountRequests' = mountRequests - 1
  /\ Overlaps \/ ~AtWork

---------------------------------------------------------------------------
(* /etc/fstab. *)

\* Mutant: the mount point is looked for anywhere in the file.
HasSubstring(lines, mp) ==
  \E l \in lines : l.mp = mp \/ (mp = Home /\ l.mp \in Longer)

\* fstabHasMountpoint: the second field, exactly.
HasMountpoint(lines, mp) == \E l \in lines : l.mp = mp

\* removeFstabEntry: the other lines, exactly.
Kept(lines, mp) == {l \in lines : l.mp # mp}

\* transformFstabMountPoint.
Transformed(lines, old, new) ==
  {IF l.mp = old THEN Line(l.fs, new) ELSE l : l \in lines}

WriteFstab(lines) == fsTab' = [lines |-> lines, torn |-> FALSE]
BackUp == fstabBak' = [lines |-> fsTab.lines, usable |-> ~fsTab.torn]

---------------------------------------------------------------------------
(* Import, under storageMu: mount, row, line. *)

Working(pc) == locked.op # "none" /\ locked.pc = pc
To(pc) == locked' = [locked EXCEPT !.pc = pc]
Done == locked' = Free

\* The observer's snapshot shows a complete file system nobody manages.
BeginMountImport(f, mp) ==
  /\ Request
  /\ locked = Free
  /\ poolAt[f] = Nowhere /\ f \in files \ Late
  /\ locked' = [op |-> "import", fs |-> f, mp |-> mp,
                pc |-> IF f \in strays THEN "row" ELSE "mount"]
  /\ IF f \in strays THEN UNCHANGED poolDirs ELSE MkDir(mp)
  /\ UNCHANGED <<poolAt, fsTab, fstabBak, stack, strays, device, files, mountBoot, renaming,
                 reconciles, sweeps, mountFaults>>

\* mount UUID=... <mp>, verified; a failure leaves the directory.
MountImported ==
  /\ locked.op = "import" /\ Working("mount")
  /\ \/ /\ poolDirs[locked.mp] # "none" /\ Top(locked.mp) # locked.fs
        /\ stack' = Push(locked.fs, locked.mp)
        /\ To("row")
        /\ UNCHANGED mountFaults
     \/ Done /\ UNCHANGED stack /\ IF poolDirs[locked.mp] # "none" THEN Fails
                                   ELSE UNCHANGED mountFaults
  /\ UNCHANGED <<poolAt, fsTab, fstabBak, strays, device, poolDirs, files, mountBoot,
                 renaming, reconciles, sweeps, mountRequests>>

\* The row: the name is unique, a failure leaves the mount.
RecordImported ==
  /\ locked.op = "import" /\ Working("row")
  /\ IF \E f \in Filesystems : poolAt[f] = locked.mp \/ locked.fs \notin files
       THEN Done /\ UNCHANGED poolAt
       ELSE /\ poolAt' = [poolAt EXCEPT ![locked.fs] =
                            IF locked.fs \in strays THEN Media ELSE locked.mp]
            /\ To("append")
  /\ UNCHANGED <<fsTab, fstabBak, stack, strays, device, poolDirs, files, mountBoot,
                 renaming, reconciles, sweeps, mountRequests, mountFaults>>

\* appendFstab: O_APPEND, unless the mount point has a line already.
AppendFstab ==
  /\ locked.op = "import" /\ Working("append")
  /\ IF HasMountpoint(fsTab.lines, poolAt[locked.fs]) THEN UNCHANGED fsTab
     ELSE WriteFstab(fsTab.lines \cup {Line(locked.fs, poolAt[locked.fs])})
  /\ Done
  /\ UNCHANGED <<poolAt, fstabBak, stack, strays, device, poolDirs, files, mountBoot,
                 renaming, reconciles, sweeps, mountRequests, mountFaults>>

---------------------------------------------------------------------------
(* Export and destroy, under storageMu: unmount, files, line, row. *)

BeginMountRemoval(op, f) ==
  /\ Request
  /\ locked = Free
  /\ poolAt[f] \in MountPoints
  /\ locked' = [op |-> op, fs |-> f, mp |-> poolAt[f], pc |-> "unmount"]
  /\ UNCHANGED <<onDisk, mountBoot, renaming, reconciles, sweeps, mountFaults>>

\* unmountStrict: umount -f, then nothing may be mounted there.
UnmountStrict ==
  /\ Working("unmount")
  /\ \/ /\ stack' = IF Mounted(locked.mp) THEN Popped(locked.mp) ELSE stack
        /\ IF Len(stack[locked.mp]) > 1 THEN Done
           ELSE To(IF locked.op = "destroy" THEN "erase" ELSE "unline")
        /\ UNCHANGED mountFaults
     \/ Fails /\ Done /\ UNCHANGED stack
  /\ UNCHANGED <<poolAt, fsTab, fstabBak, strays, device, poolDirs, files, mountBoot,
                 renaming, reconciles, sweeps, mountRequests>>

EraseMountPoint ==
  /\ Working("erase")
  /\ RemoveAll(locked.mp)
  /\ To("unline")
  /\ UNCHANGED <<poolAt, fsTab, fstabBak, stack, strays, device, mountBoot, renaming,
                 reconciles, sweeps, mountRequests, mountFaults>>

\* removeFstabEntry: read, copy to the backup, truncate and write.
RemoveFstabEntry ==
  /\ Working("unline")
  /\ IF HasMountpoint(fsTab.lines, locked.mp)
       THEN WriteFstab(Kept(fsTab.lines, locked.mp)) /\ BackUp
       ELSE UNCHANGED <<fsTab, fstabBak>>
  /\ To("unrow")
  /\ UNCHANGED <<poolAt, stack, strays, device, poolDirs, files, mountBoot, renaming,
                 reconciles, sweeps, mountRequests, mountFaults>>

\* wipefs for a destroy, then removePoolFromDB; a destroy sweeps afterwards.
RemoveRow ==
  /\ Working("unrow")
  /\ poolAt' = [poolAt EXCEPT ![locked.fs] = Nowhere]
  /\ files' = IF locked.op = "destroy" THEN files \ {locked.fs} ELSE files
  /\ IF locked.op = "destroy" THEN To("sweep") ELSE Done
  /\ UNCHANGED <<fsTab, fstabBak, stack, strays, device, poolDirs, mountBoot, renaming,
                 reconciles, sweeps, mountRequests, mountFaults>>

---------------------------------------------------------------------------
(* Rename, which takes no lock and has no operation while it works. *)

Renaming(pc) == renaming.op # "none" /\ renaming.pc = pc
RenameTo(pc) == renaming' = [renaming EXCEPT !.pc = pc]

\* The name is free; the pool is mounted and gets its label and directory.
BeginRename(f, mp) ==
  /\ Request
  /\ renaming = Free
  /\ poolAt[f] \in MountPoints /\ Mounted(poolAt[f])
  /\ \A g \in Filesystems : poolAt[g] # mp
  /\ renaming' = [op |-> "rename", fs |-> f, old |-> poolAt[f], new |-> mp,
                  pc |-> "read", seen |-> {}]
  /\ MkDir(mp)
  /\ UNCHANGED <<poolAt, fsTab, fstabBak, stack, strays, device, files, mountBoot, locked,
                 reconciles, sweeps, mountFaults>>

\* origFstab is read; without a line for the old name the rename gives up.
ReadFstab ==
  /\ Renaming("read")
  /\ renaming' = IF HasMountpoint(fsTab.lines, renaming.old)
                   THEN [renaming EXCEPT !.pc = "rewrite", !.seen = fsTab.lines]
                   ELSE Free
  /\ UNCHANGED <<onDisk, mountBoot, locked, reconciles, sweeps, mountRequests,
                 mountFaults>>

RewriteFstab ==
  /\ Renaming("rewrite")
  /\ WriteFstab(Transformed(renaming.seen, renaming.old, renaming.new))
  /\ fstabBak' = [lines |-> renaming.seen, usable |-> TRUE]
  /\ RenameTo("unmount")
  /\ UNCHANGED <<poolAt, stack, strays, device, poolDirs, files, mountBoot, locked,
                 reconciles, sweeps, mountRequests, mountFaults>>

\* A mount that is in use: what was read is written back.
UnmountOld ==
  /\ Renaming("unmount")
  /\ \/ /\ Mounted(renaming.old)
        /\ stack' = Popped(renaming.old)
        /\ RenameTo("mount")
        /\ UNCHANGED <<fsTab, mountFaults>>
     \/ /\ IF Mounted(renaming.old) THEN Fails ELSE UNCHANGED mountFaults
        /\ WriteFstab(renaming.seen)
        /\ renaming' = Free
        /\ UNCHANGED stack
  /\ UNCHANGED <<poolAt, fstabBak, strays, device, poolDirs, files, mountBoot, locked,
                 reconciles, sweeps, mountRequests>>

MountNew ==
  /\ Renaming("mount")
  /\ \/ /\ Mounts(renaming.new) # stack
        /\ stack' = Mounts(renaming.new)
        /\ poolDirs' = [poolDirs EXCEPT ![renaming.old] =
                          IF Mounted(renaming.old) THEN @ ELSE "none"]
        /\ RenameTo("row")
        /\ UNCHANGED <<fsTab, mountFaults>>
     \/ /\ IF Mounts(renaming.new) # stack THEN Fails ELSE UNCHANGED mountFaults
        /\ WriteFstab(renaming.seen)
        /\ stack' = IF Line(renaming.fs, renaming.old) \in renaming.seen
                         /\ Top(renaming.old) # renaming.fs /\ poolDirs[renaming.old] # "none"
                      THEN Push(renaming.fs, renaming.old) ELSE stack
        /\ renaming' = Free
        /\ UNCHANGED poolDirs
  /\ UNCHANGED <<poolAt, fstabBak, strays, device, files, mountBoot, locked, reconciles,
                 sweeps, mountRequests>>

\* The transaction with the new name: a row that is gone stays so.
RecordRename ==
  /\ Renaming("row")
  /\ poolAt' = [poolAt EXCEPT ![renaming.fs] =
                  IF @ = Nowhere \/ \E g \in Filesystems : poolAt[g] = renaming.new
                    THEN @ ELSE renaming.new]
  /\ renaming' = Free
  /\ UNCHANGED <<fsTab, fstabBak, stack, strays, device, poolDirs, files, mountBoot, locked,
                 reconciles, sweeps, mountRequests, mountFaults>>

---------------------------------------------------------------------------
(* reconcileMountState, at boot and when a device comes back: the pools,   *)
(* one after the other, each looked at and then put right.                 *)

KnownPools == {f \in Filesystems : poolAt[f] # Nowhere}

StartReconcile(b) ==
  reconciles' = [reconciles EXCEPT ![b] =
                   [op |-> "reconcile", todo |-> KnownPools, at |-> poolAt, fs |-> Nowhere]]

\* Mutant: only a pool that is not mounted at all is looked after.
CaseMissing(f, mp) == IF ~Mounted(mp) /\ ~Somewhere(f) THEN "missing" ELSE "ok"

\* What reconcileMountState finds: a wrong place, layers, nothing, or all well.
CaseOf(f, mp) ==
  IF f \in strays THEN "stray"
  ELSE IF Len(stack[mp]) > 1 THEN "stacked"
  ELSE IF ~Mounted(mp) THEN "missing" ELSE "ok"

LookAtPool(b) ==
  /\ reconciles[b] # Free /\ reconciles[b].fs = Nowhere
  /\ IF reconciles[b].todo = {} THEN reconciles' = [reconciles EXCEPT ![b] = Free]
     ELSE \E f \in reconciles[b].todo :
            LET mp == reconciles[b].at[f] IN
            reconciles' = [reconciles EXCEPT ![b] =
              [op |-> "reconcile", todo |-> @.todo \ {f}, at |-> @.at, fs |-> f]
              @@ [case |-> IF mp = Media THEN "ok" ELSE CaseOf(f, mp),
                  pops |-> IF mp = Media THEN 0 ELSE Len(stack[mp]) - 1]]
  /\ UNCHANGED <<onDisk, mountBoot, locked, renaming, sweeps, mountRequests,
                 mountFaults>>

Looked(b) == reconciles[b] # Free /\ reconciles[b].fs # Nowhere
NextPool(b) == reconciles' = [reconciles EXCEPT ![b] =
                 [op |-> "reconcile", todo |-> @.todo, at |-> @.at, fs |-> Nowhere]]

\* reconcileUnstack: as many umounts as layers were seen, then a mount again.
Unstack(b) ==
  /\ Looked(b) /\ reconciles[b].case = "stacked"
  /\ LET mp == reconciles[b].at[reconciles[b].fs] IN
     IF reconciles[b].pops > 0 /\ Mounted(mp)
       THEN /\ stack' = Popped(mp)
            /\ reconciles' = [reconciles EXCEPT ![b].pops = @ - 1]
       ELSE /\ stack' = IF Mounted(mp) THEN stack ELSE Mounts(mp)
            /\ NextPool(b)
  /\ UNCHANGED <<poolAt, fsTab, fstabBak, strays, device, poolDirs, files, mountBoot, locked,
                 renaming, sweeps, mountRequests, mountFaults>>

\* reconcileRelocate, and a pool that is not mounted.
MountFromFstab(b) ==
  /\ Looked(b) /\ reconciles[b].case \in {"stray", "missing"}
  /\ stack' = Mounts(reconciles[b].at[reconciles[b].fs])
  /\ strays' = IF reconciles[b].case = "stray" THEN strays \ {reconciles[b].fs} ELSE strays
  /\ NextPool(b)
  /\ UNCHANGED <<poolAt, fsTab, fstabBak, device, poolDirs, files, mountBoot, locked,
                 renaming, sweeps, mountRequests, mountFaults>>

LeaveMounted(b) ==
  /\ Looked(b) /\ reconciles[b].case = "ok"
  /\ NextPool(b)
  /\ UNCHANGED <<onDisk, mountBoot, locked, renaming, sweeps, mountRequests,
                 mountFaults>>

\* A reconcile has yet to look at the pool.
WillBeLookedAt(f) ==
  \/ \E i \in DOMAIN mountBoot : mountBoot[i] = "reconcile"
  \/ \E b \in Reconcilers : reconciles[b] # Free /\ f \in reconciles[b].todo

DeviceComesUp(f) ==
  /\ f \in Late
  /\ device' = [device EXCEPT ![f] = IF @ = "noticed" THEN "back"
                                     ELSE IF WillBeLookedAt(f) THEN "up" ELSE "quick"]
  /\ UNCHANGED <<poolAt, fsTab, fstabBak, stack, strays, poolDirs, files, actors,
                 mountRequests, mountFaults>>

\* A cycle of the DeviceReconciler finds a device that has not been seen for
\* longer than MissingThreshold.
NoticeMissing(f) ==
  /\ BootDone /\ reconciles["reappear"] = Free
  /\ device[f] = "late"
  /\ device' = [device EXCEPT ![f] = "noticed"]
  /\ UNCHANGED <<poolAt, fsTab, fstabBak, stack, strays, poolDirs, files, actors,
                 mountRequests, mountFaults>>

\* A cycle finds devices that were missing before, and only those, again:
\* onDeviceReappear, which the cycle waits for.
DevicesReappear ==
  /\ reconciles["reappear"] = Free
  /\ \E f \in Filesystems : device[f] = "back"
  /\ device' = [f \in Filesystems |-> IF device[f] = "back" THEN "up" ELSE device[f]]
  /\ StartReconcile("reappear")
  /\ UNCHANGED <<poolAt, fsTab, fstabBak, stack, strays, poolDirs, files, mountBoot, locked,
                 renaming, sweeps, mountRequests, mountFaults>>

---------------------------------------------------------------------------
(* cleanOrphanPoolDirs: at boot, after a destroy, as a maintenance task.   *)
(* None of the requests above has an operation in progress, so that the    *)
(* guard of the maintenance task never sees them.                          *)

Known == {poolAt[f] : f \in KnownPools}
Listed == [op |-> "sweep", known |-> Known, doomed |-> Nowhere,
           todo |-> {m \in MountPoints : poolDirs[m] # "none"}]
Swept(s) == sweeps' = [sweeps EXCEPT ![s] = Free]

\* The list of pools, refused when it is empty, then the directories.
StartSweep(s) == sweeps' = [sweeps EXCEPT ![s] = IF Known = {} THEN Free ELSE Listed]

BeginMaintenanceSweep ==
  /\ Request
  /\ sweeps["maintenance"] = Free /\ mountBoot = << >> /\ Known # {}
  /\ StartSweep("maintenance")
  /\ UNCHANGED <<onDisk, mountBoot, locked, renaming, reconciles, mountFaults>>

BeginDestroySweep ==
  /\ Working("sweep")
  /\ StartSweep("destroy")
  /\ Done
  /\ UNCHANGED <<onDisk, mountBoot, renaming, reconciles, mountRequests, mountFaults>>

\* Mutant: what is mounted is not asked for.
OrphanUnlessKnown(m, known) == m \notin known /\ poolDirs[m] = "old"

\* The three rules: not known, nothing mounted, not recent.
Orphan(m, known) == m \notin known /\ ~Mounted(m) /\ poolDirs[m] = "old"

JudgeDir(s) ==
  /\ sweeps[s] # Free /\ sweeps[s].doomed = Nowhere
  /\ IF sweeps[s].todo = {} THEN Swept(s)
     ELSE \E m \in sweeps[s].todo :
            sweeps' = [sweeps EXCEPT ![s].todo = @ \ {m},
                         ![s].doomed = IF Orphan(m, sweeps[s].known) THEN m ELSE Nowhere]
  /\ UNCHANGED <<onDisk, mountBoot, locked, renaming, reconciles, mountRequests,
                 mountFaults>>

RemoveDir(s) ==
  /\ sweeps[s] # Free /\ sweeps[s].doomed # Nowhere
  /\ RemoveAll(sweeps[s].doomed)
  /\ sweeps' = [sweeps EXCEPT ![s].doomed = Nowhere]
  /\ UNCHANGED <<poolAt, fsTab, fstabBak, stack, strays, device, mountBoot, locked, renaming,
                 reconciles, mountRequests, mountFaults>>

---------------------------------------------------------------------------
(* Reboots. *)

\* The write that the power cut hits: nothing, part of it, or half a line.
Cut == CASE Renaming("rewrite") -> {[lines |-> l, torn |-> t] :
                 l \in SUBSET Transformed(renaming.seen, renaming.old, renaming.new),
                 t \in BOOLEAN}
         [] Working("append") -> {fsTab, [fsTab EXCEPT !.torn = TRUE]}
         [] Working("unline") -> {[lines |-> l, torn |-> t] :
                 l \in SUBSET Kept(fsTab.lines, locked.mp), t \in BOOLEAN}
         [] OTHER -> {fsTab}

\* The system mounts the lines of fstab; a device may be late, udisks2 may
\* have been quicker, two units may mount the same line.  systemd makes the
\* directory of a line it mounts.
PowerCut ==
  /\ Fails
  /\ fsTab' \in Cut
  /\ fstabBak' = IF fsTab' = fsTab THEN fstabBak
                 ELSE IF Working("append") THEN fstabBak
                 ELSE [lines |-> fsTab.lines, usable |-> ~fsTab.torn]
  /\ \E how \in [Filesystems -> {"line", "twice", "late", "stray"}] :
       /\ device' = [f \in Filesystems |-> IF how[f] = "late" THEN "late" ELSE "up"]
       /\ strays' = {f \in Filesystems : how[f] = "stray"}
       /\ stack' = [m \in MountPoints |->
            LET fs == {f \in Filesystems : Line(f, m) \in fsTab'.lines
                                             /\ how[f] \in {"line", "twice"}}
            IN IF fs = {} THEN << >>
               ELSE LET f == CHOOSE f \in fs : TRUE
                    IN IF how[f] = "twice" THEN <<f, f>> ELSE <<f>>]
  /\ mountBoot' = <<"restore", "reconcile", "sweep">>
  /\ locked' = Free /\ renaming' = Free
  /\ reconciles' = [b \in Reconcilers |-> Free]
  /\ sweeps' = [s \in Sweepers |-> Free]
  /\ poolDirs' = [m \in MountPoints |->
                    IF poolDirs[m] = "none" /\ stack'[m] = << >> THEN "none" ELSE "old"]
  /\ UNCHANGED <<poolAt, files, mountRequests>>

\* restoreFstabIfCorrupt: an empty file, or one cut at a line's end, is valid.
RestoreFstabIfCorrupt ==
  /\ mountBoot # << >> /\ Head(mountBoot) = "restore"
  /\ IF fsTab.torn /\ fstabBak.usable THEN WriteFstab(fstabBak.lines) ELSE UNCHANGED fsTab
  /\ mountBoot' = Tail(mountBoot)
  /\ UNCHANGED <<poolAt, fstabBak, stack, strays, device, poolDirs, files, locked, renaming,
                 reconciles, sweeps, mountRequests, mountFaults>>

BootReconcile ==
  /\ mountBoot # << >> /\ Head(mountBoot) = "reconcile"
  /\ StartReconcile("boot")
  /\ mountBoot' = Tail(mountBoot)
  /\ UNCHANGED <<onDisk, locked, renaming, sweeps, mountRequests, mountFaults>>

\* After the boot's own reconcile has ended.
BootSweep ==
  /\ mountBoot # << >> /\ Head(mountBoot) = "sweep" /\ reconciles["boot"] = Free
  /\ StartSweep("boot")
  /\ mountBoot' = Tail(mountBoot)
  /\ UNCHANGED <<onDisk, locked, renaming, reconciles, mountRequests, mountFaults>>

BootStep == RestoreFstabIfCorrupt \/ BootReconcile \/ BootSweep
ReconcileStep(b) == LookAtPool(b) \/ Unstack(b) \/ MountFromFstab(b) \/ LeaveMounted(b)
SweepStep(s) == JudgeDir(s) \/ RemoveDir(s)
LockedStep ==
  \/ MountImported \/ RecordImported \/ AppendFstab
  \/ UnmountStrict \/ EraseMountPoint \/ RemoveFstabEntry \/ RemoveRow \/ BeginDestroySweep
RenameStep == ReadFstab \/ RewriteFstab \/ UnmountOld \/ MountNew \/ RecordRename

MountNext ==
  \/ BootStep \/ LockedStep \/ RenameStep
  \/ \E f \in Filesystems, m \in MountPoints :
       BootDone /\ (BeginMountImport(f, m) \/ BeginRename(f, m))
  \/ \E op \in {"export", "destroy"}, f \in Filesystems : BootDone /\ BeginMountRemoval(op, f)
  \/ \E b \in Reconcilers : ReconcileStep(b)
  \/ \E s \in Sweepers : SweepStep(s)
  \/ BeginMaintenanceSweep
  \/ \E f \in Filesystems : DeviceComesUp(f) \/ NoticeMissing(f)
  \/ DevicesReappear
  \/ PowerCut

(* Whoever holds the lock or has begun a rename, a reconcile or a sweep goes *)
(* on, the boot does, a late device comes up, and the DeviceReconciler, which *)
(* ticks every 30 s, sees that one is back.                                  *)
MountFairness ==
  /\ WF_mountVars(BootStep)
  /\ WF_mountVars(LockedStep) /\ WF_mountVars(RenameStep)
  /\ \A b \in Reconcilers : WF_mountVars(ReconcileStep(b))
  /\ \A s \in Sweepers : WF_mountVars(SweepStep(s))
  /\ \A f \in Filesystems : WF_mountVars(DeviceComesUp(f))
  /\ WF_mountVars(DevicesReappear)

MountSpec == MountInit /\ [][MountNext]_mountVars /\ MountFairness

---------------------------------------------------------------------------
Quiet == locked = Free /\ renaming = Free /\ mountBoot = << >>
           /\ \A b \in Reconcilers : reconciles[b] = Free

(* Only the destruction of a pool removes files, and those of its pool: no  *)
(* sweep does (maintenance.go:6, "this subsystem never touches the user's   *)
(* data"), no boot, and no removal of another pool.  A rename that a power  *)
(* cut has hit may leave the line of a pool with the mount point that       *)
(* another one takes later, so that mount <mount point> finds the former:   *)
(* what fstab mounts there is all that a destruction may hit besides.       *)
FilesAreSafe ==
  [][\A f \in files \ files' :
       /\ locked.op = "destroy"
       /\ locked.fs = f \/ Line(f, locked.mp) \in fsTab.lines]_mountVars

(* A managed pool has its own line in fstab, so that the next boot mounts  *)
(* it: whatever the names of the pools, however they were imported,        *)
(* renamed and removed (the "saga" of appendFstab).                        *)
PoolsKeepTheirLines ==
  (Quiet /\ mountFaults = MaxMountFaults)
    => \A f \in Filesystems : poolAt[f] \in MountPoints
                                => Line(f, poolAt[f]) \in fsTab.lines

(* After a boot a managed pool that has its line ends mounted at its mount *)
(* point, once, whatever the system did with it: late, twice, elsewhere;   *)
(* unless an import has mounted another file system over it, or its device *)
(* came up so soon after the boot's reconcile that no cycle missed it: the *)
(* run reconciler_quick shows that such a pool stays unmounted.            *)
PoolsComeBack ==
  []<>(\A f \in Filesystems :
         \/ ~Quiet
         \/ device[f] = "quick"
         \/ poolAt[f] \notin MountPoints \/ poolDirs[poolAt[f]] = "none"
         \/ Line(f, poolAt[f]) \notin fsTab.lines
         \/ \E i \in DOMAIN stack[poolAt[f]] : stack[poolAt[f]][i] # f
         \/ stack[poolAt[f]] = <<f>>)
=============================================================================
