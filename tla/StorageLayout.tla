---------------------------- MODULE StorageLayout ----------------------------
(* The layout-operation core of the NimOS storage daemon: the service calls   *)
(* that create, destroy and reshape Btrfs pools (storage_service.go), the     *)
(* operation rows they keep in SQLite, the goroutines that outlive a call     *)
(* (conversion, profile self-heal, balance watcher), the recovery run at boot *)
(* (storage_recovery.go), mount and drift reconciliation, and the kernel and  *)
(* the disks they all act on.                                                 *)
(*                                                                            *)
(* A member of Pools is one Btrfs filesystem together with the row of         *)
(* storage_pools that may describe it: mkfs makes a fresh one every time.     *)
EXTENDS Integers, FiniteSets

CONSTANTS
  Pools,        \* filesystem identities (btrfs_uuid)
  Disks,        \* registered devices (storage_devices, known by serial)
  Ops,          \* identifiers of storage_operations rows
  Profiles,     \* Btrfs data profiles
  MinDisks,     \* Profile.MinDisks of storage_types.go
  KernelMin,    \* the disks below which the kernel refuses a profile
  DfRank,       \* the order in which `btrfs filesystem df` lists Data profiles
  Kinds,        \* the kinds of request the environment issues
  DbFaults,     \* whether a SQLite transaction may fail
  Deadline,     \* whether the 24 h limit of a balance watcher may pass
  MaxCrashes,   \* how many daemon crashes and machine reboots may happen
  NoPool, NoOp, NoProfile

ASSUME MinDisksAssumption ==
  MinDisks \in [Profiles -> Nat \ {0}] /\ KernelMin \in [Profiles -> Nat \ {0}]

ASSUME DfRankAssumption ==
  /\ DfRank \in [Profiles -> Nat]
  /\ \A a, b \in Profiles : DfRank[a] = DfRank[b] => a = b

ASSUME KindsAssumption ==
  Kinds \subseteq {"create", "destroy", "add", "remove", "replace", "convert"}

ASSUME BoundsAssumption ==
  DbFaults \in BOOLEAN /\ Deadline \in BOOLEAN /\ MaxCrashes \in Nat

ASSUME NoneAssumption ==
  NoPool \notin Pools /\ NoOp \notin Ops /\ NoProfile \notin Profiles

VARIABLES
  \* SQLite
  rows,      \* the pools with a row in storage_pools
  profile,   \* storage_pools.profile
  control,   \* storage_pools.control_state
  members,   \* storage_pool_devices: the pools each disk is assigned to
  ops,       \* storage_operations
  \* the kernel and the disks
  disk,      \* the filesystem whose superblock a disk carries, or NoPool
  data,      \* the profiles that a filesystem's data block groups have
  born,      \* the filesystems made so far
  mounted,   \* the mounted filesystems
  fstab,     \* the filesystems with a line in /etc/fstab
  due,       \* the ones the system may still mount from fstab after a reboot
  balance,   \* the conversion balance of each filesystem
  copying,   \* the replacements under way, <<old disk, new disk>>
  \* the daemon
  phase,     \* "down", "core" (bootCore) or "up" (HTTP is served)
  call,      \* the call that holds storageMu
  conv,      \* the goroutine of each conversion
  heal,      \* pending self-heal writes, <<pool, profile>>
  watch,     \* operations with a watchReadoptedBalance goroutine
  orphans,   \* operations RecoverPendingOperations has still to settle
  remount,   \* pools a run of reconcileMountState has still to visit
  drift,     \* pools detectLayoutDrift has still to visit, <<pool, profile>>
  bootstep,  \* progress of bootStorage: "mount", "drift" or "done"
  crashes

db     == <<rows, profile, control, members, ops>>
kernel == <<disk, data, born, mounted, fstab, due, balance, copying>>
daemon == <<phase, call, conv, heal, watch, orphans, remount, drift, bootstep>>
vars   == <<db, kernel, daemon, crashes>>

-----------------------------------------------------------------------------
(* Vocabulary *)

Active   == "in_progress"
Terminal == {"completed", "failed"}

NoBalance == [by |-> "none", to |-> NoProfile]

\* storageMu is free.
Idle == [kind |-> "none", pool |-> NoPool, ins |-> {}, outs |-> {},
         to |-> NoProfile, wipe |-> FALSE, op |-> NoOp, step |-> "idle"]

AbsentOp == [kind |-> "none", pool |-> NoPool, fs |-> NoPool,
             to |-> NoProfile, status |-> "absent"]

\* The devices of a pool as the repository hydrates them.
DevicesOf(p) == {d \in Disks : p \in members[d]}

\* Some disk carries the filesystem (btrfs filesystem show <uuid>).
Exists(p) == \E d \in Disks : disk[d] = p

\* readRealDataProfile: the profile of the first "Data," line.
FirstProfile(S) == CHOOSE a \in S : \A b \in S : DfRank[a] <= DfRank[b]

\* Mutant: the query of deviceIsAssigned misses the assignment.
DeviceNeverAssigned(d) == d \notin Disks

\* deviceIsAssigned
DeviceIsAssigned(d) == members[d] # {}

\* Mutant: the index covers the operations that wait, not the ones that run.
PendingOn(p) == \E o \in Ops : ops[o].pool = p /\ ops[o].status = "pending"

\* The index idx_one_layout_op_per_pool: does an operation hold the pool?
ActiveOn(p) == \E o \in Ops : ops[o].pool = p /\ ops[o].status = Active

\* readBalanceStatus: an unmounted filesystem reports no balance.
BalanceActive(p) == p \in mounted /\ balance[p] # NoBalance

\* What enrichPool may serve as the profile of a pool: the row's when the
\* filesystem is not mounted or its reading fails, else the one on disk.
Served(p) == {profile[p]} \cup
             (IF p \in mounted /\ data[p] # {} THEN {FirstProfile(data[p])} ELSE {})

\* reconcilePoolProfileWithReality: a served profile that differs from the
\* row starts a goroutine that will write it.
HealAfter(p, served) ==
  IF served # profile[p] THEN heal \cup {<<p, served>>} ELSE heal

\* wipefs and mkfs cannot open a disk of a mounted filesystem.
Writable(d) == disk[d] \notin mounted

\* What is left of data, balances and replacements once the disks carry dk.
DataAfter(dk) ==
  [p \in Pools |-> IF \E d \in Disks : dk[d] = p THEN data[p] ELSE {}]
BalanceAfter(dk) ==
  [p \in Pools |-> IF \E d \in Disks : dk[d] = p THEN balance[p] ELSE NoBalance]

CopyingAfter(dk) == {c \in copying : dk[c[1]] = disk[c[1]] /\ dk[c[2]] = disk[c[2]]}

WipedDisks(W) == [d \in Disks |-> IF d \in W THEN NoPool ELSE disk[d]]

SetStatus(o, s) == [ops EXCEPT ![o].status = s]

\* ON DELETE SET NULL of storage_operations.pool_id.
Detached(p, os) == [o \in Ops |-> IF os[o].pool = p
                                   THEN [os[o] EXCEPT !.pool = NoPool]
                                   ELSE os[o]]

-----------------------------------------------------------------------------
(* Requests: storageMu is taken, the request is validated and its operation   *)
(* row is about to be inserted.                                               *)

Lock(kind, p, ins, outs, to, wipe) ==
  call' = [kind |-> kind, pool |-> p, ins |-> ins, outs |-> outs, to |-> to,
           wipe |-> wipe, op |-> NoOp, step |-> "validated"]

Serving(kind) == phase = "up" /\ call = Idle /\ kind \in Kinds

\* CreatePool up to its preflight, which reads a cached snapshot: it may pass
\* whatever the disks carry.
BeginCreate(p, ins, to, wipe) ==
  /\ Serving("create")
  /\ p \notin born \cup rows
  /\ Cardinality(ins) >= MinDisks[to]
  /\ \A d \in ins : ~DeviceIsAssigned(d)
  /\ Lock("create", p, ins, {}, to, wipe)
  /\ UNCHANGED <<db, kernel, phase, conv, heal, watch, orphans, remount, drift,
                 bootstep, crashes>>

\* GetPool, which enriches the pool, and the policy of a layout change.
GetPool(p, served) ==
  /\ p \in rows
  /\ served \in Served(p)
  /\ heal' = HealAfter(p, served)

Managed(p) == control[p] = "managed"

BeginDestroy(p, served) ==
  /\ Serving("destroy")
  /\ GetPool(p, served)
  /\ Lock("destroy", p, {}, DevicesOf(p), NoProfile, FALSE)
  /\ UNCHANGED <<db, kernel, phase, conv, watch, orphans, remount, drift,
                 bootstep, crashes>>

BeginAdd(p, served, d, wipe) ==
  /\ Serving("add")
  /\ GetPool(p, served) /\ Managed(p)
  /\ ~DeviceIsAssigned(d)
  /\ Lock("add", p, {d}, {}, NoProfile, wipe)
  /\ UNCHANGED <<db, kernel, phase, conv, watch, orphans, remount, drift,
                 bootstep, crashes>>

BeginRemove(p, served, d) ==
  /\ Serving("remove")
  /\ GetPool(p, served) /\ Managed(p)
  /\ d \in DevicesOf(p)
  /\ Cardinality(DevicesOf(p)) - 1 >= MinDisks[served]
  /\ Lock("remove", p, {}, {d}, NoProfile, FALSE)
  /\ UNCHANGED <<db, kernel, phase, conv, watch, orphans, remount, drift,
                 bootstep, crashes>>

BeginReplace(p, served, old, new) ==
  /\ Serving("replace")
  /\ GetPool(p, served) /\ Managed(p)
  /\ old \in DevicesOf(p)
  /\ ~DeviceIsAssigned(new)
  /\ Lock("replace", p, {new}, {old}, NoProfile, FALSE)
  /\ UNCHANGED <<db, kernel, phase, conv, watch, orphans, remount, drift,
                 bootstep, crashes>>

BeginConvert(p, served, to) ==
  /\ Serving("convert")
  /\ GetPool(p, served) /\ Managed(p)
  /\ to # served
  /\ Cardinality(DevicesOf(p)) >= MinDisks[to]
  /\ Lock("convert", p, {}, {}, to, FALSE)
  /\ UNCHANGED <<db, kernel, phase, conv, watch, orphans, remount, drift,
                 bootstep, crashes>>

-----------------------------------------------------------------------------
(* CreateOperation, in a transaction of its own *)

\* The row is inserted in_progress. INV-1 does not constrain a NULL pool_id,
\* which is what CreatePool inserts. ConvertProfile hands over to a goroutine
\* and returns; every other call goes on with the lock held.
OpenOp(o) ==
  /\ call.step = "validated"
  /\ ops[o] = AbsentOp
  /\ call.kind # "create" => ~ActiveOn(call.pool)
  /\ ops' = [ops EXCEPT ![o] =
               [kind |-> call.kind,
                pool |-> IF call.kind = "create" THEN NoPool ELSE call.pool,
                fs |-> call.pool, to |-> call.to, status |-> Active]]
  /\ IF call.kind = "convert"
     THEN conv' = [conv EXCEPT ![o] = "start"] /\ call' = Idle
     ELSE call' = [call EXCEPT !.op = o, !.step = "run"] /\ UNCHANGED conv
  /\ UNCHANGED <<rows, profile, control, members, kernel, phase, heal, watch,
                 orphans, remount, drift, bootstep, crashes>>

\* The insert is refused: another layout operation holds the pool, or the
\* transaction fails.
RefuseOp ==
  /\ call.step = "validated"
  /\ (call.kind # "create" /\ ActiveOn(call.pool)) \/ DbFaults
  /\ call' = Idle
  /\ UNCHANGED <<db, kernel, phase, conv, heal, watch, orphans, remount, drift,
                 bootstep, crashes>>

-----------------------------------------------------------------------------
(* The Btrfs commands. A command that was killed, because the client's        *)
(* connection closed and its context with it, may have had its effect.        *)

Running(kind) == call.step = "run" /\ call.kind = kind

Goto(step) == call' = [call EXCEPT !.step = step]

\* The command has no effect and fails; so does the check after the umount
\* when somebody has mounted the pool again.
RunFails ==
  /\ call.step = "run" \/ (call.step = "wipe" /\ call.pool \in mounted)
  /\ Goto("failing")
  /\ UNCHANGED <<db, kernel, phase, conv, heal, watch, orphans, remount, drift,
                 bootstep, crashes>>

\* CreateFilesystem or AddDevice stops after wiping some of the disks.
RunWipes(W) ==
  /\ call.step = "run" /\ call.kind \in {"create", "add"} /\ call.wipe
  /\ W \subseteq call.ins
  /\ \A d \in W : Writable(d)
  /\ disk' = WipedDisks(W)
  /\ data' = DataAfter(disk') /\ balance' = BalanceAfter(disk')
  /\ copying' = CopyingAfter(disk')
  /\ Goto("failing")
  /\ UNCHANGED <<db, born, mounted, fstab, due, phase, conv, heal, watch,
                 orphans, remount, drift, bootstep, crashes>>

\* CreateFilesystem, MountFilesystem, the check of the mount and appendFstab.
\* mkfs without -f refuses a disk that carries a filesystem. The call goes on
\* only if the filesystem got mounted.
RunCreate(up, ok) ==
  /\ Running("create")
  /\ \A d \in call.ins : IF call.wipe THEN Writable(d) ELSE disk[d] = NoPool
  /\ ok => up
  /\ disk' = [d \in Disks |-> IF d \in call.ins THEN call.pool ELSE disk[d]]
  /\ data' = [DataAfter(disk') EXCEPT ![call.pool] = {call.to}]
  /\ balance' = BalanceAfter(disk') /\ copying' = CopyingAfter(disk')
  /\ born' = born \cup {call.pool}
  /\ mounted' = IF up THEN mounted \cup {call.pool} ELSE mounted
  /\ fstab' = IF ok THEN fstab \cup {call.pool} ELSE fstab
  /\ Goto(IF ok THEN "persist" ELSE "failing")
  /\ UNCHANGED <<db, due, phase, conv, heal, watch, orphans, remount, drift,
                 bootstep, crashes>>

\* DestroyFilesystem: umount without -l, refused while a command holds the
\* mount point; a balance the kernel resumed by itself is paused.
RunUnmount ==
  /\ Running("destroy")
  /\ balance[call.pool].by # "command"
  /\ mounted' = mounted \ {call.pool}
  /\ balance' = IF balance[call.pool].by = "kernel"
                THEN [balance EXCEPT ![call.pool].by = "paused"] ELSE balance
  /\ Goto("wipe")
  /\ UNCHANGED <<db, disk, data, born, fstab, due, copying, phase, conv, heal,
                 watch, orphans, remount, drift, bootstep, crashes>>

\* DestroyFilesystem: WipeDevice on each device; one that fails is logged.
RunWipe(W) ==
  /\ call.step = "wipe"
  /\ W \subseteq call.outs
  /\ \A d \in W : Writable(d)
  /\ disk' = WipedDisks(W)
  /\ data' = DataAfter(disk') /\ balance' = BalanceAfter(disk')
  /\ copying' = CopyingAfter(disk')
  /\ Goto("persist")
  /\ UNCHANGED <<db, born, mounted, fstab, due, phase, conv, heal, watch,
                 orphans, remount, drift, bootstep, crashes>>

\* No device operation runs while a balance or a replacement does.
CanReshape(p) ==
  /\ p \in mounted /\ balance[p] = NoBalance
  /\ \A c \in copying : disk[c[1]] # p

\* btrfs device add, without -f, after the optional wipe.
RunAdd(ok) ==
  /\ Running("add")
  /\ CanReshape(call.pool)
  /\ \A d \in call.ins : IF call.wipe THEN Writable(d) ELSE disk[d] = NoPool
  /\ disk' = [d \in Disks |-> IF d \in call.ins THEN call.pool ELSE disk[d]]
  /\ data' = DataAfter(disk') /\ balance' = BalanceAfter(disk')
  /\ copying' = CopyingAfter(disk')
  /\ Goto(IF ok THEN "persist" ELSE "failing")
  /\ UNCHANGED <<db, born, mounted, fstab, due, phase, conv, heal, watch,
                 orphans, remount, drift, bootstep, crashes>>

\* The kernel's own limit on the disks of a filesystem.
KernelAllows(p, profiles, leaving) ==
  \A a \in profiles :
    Cardinality({d \in Disks \ leaving : disk[d] = p}) >= KernelMin[a]

\* btrfs device remove
RunRemove(ok) ==
  /\ Running("remove")
  /\ CanReshape(call.pool)
  /\ \A d \in call.outs : disk[d] = call.pool
  /\ KernelAllows(call.pool, data[call.pool], call.outs)
  /\ disk' = WipedDisks(call.outs)
  /\ Goto(IF ok THEN "persist" ELSE "failing")
  /\ UNCHANGED <<db, data, born, mounted, fstab, due, balance, copying, phase,
                 conv, heal, watch, orphans, remount, drift, bootstep, crashes>>

\* btrfs replace start -f overwrites the new disk and returns: without -B the
\* copy goes on in the background. WipeDevice on the old disk, still in use,
\* fails and is only logged.
RunReplace(ok) ==
  /\ Running("replace")
  /\ CanReshape(call.pool)
  /\ \A d \in call.outs : disk[d] = call.pool
  /\ \A d \in call.ins : Writable(d)
  /\ disk' = [d \in Disks |-> IF d \in call.ins THEN call.pool ELSE disk[d]]
  /\ data' = DataAfter(disk') /\ balance' = BalanceAfter(disk')
  /\ copying' = CopyingAfter(disk') \cup (call.outs \X call.ins)
  /\ Goto(IF ok THEN "persist" ELSE "failing")
  /\ UNCHANGED <<db, born, mounted, fstab, due, phase, conv, heal, watch,
                 orphans, remount, drift, bootstep, crashes>>

-----------------------------------------------------------------------------
(* The closing transaction of a call *)

\* What the transaction of each kind of call writes besides the status.
PersistCreate ==
  /\ call.kind = "create"
  /\ rows' = rows \cup {call.pool}
  /\ profile' = [profile EXCEPT ![call.pool] = call.to]
  /\ control' = [control EXCEPT ![call.pool] = "managed"]
  /\ members' = [d \in Disks |-> IF d \in call.ins THEN members[d] \cup {call.pool}
                                  ELSE members[d]]
  /\ ops' = [ops EXCEPT ![call.op].pool = call.pool,
                        ![call.op].status = "completed"]
  /\ UNCHANGED heal

\* The deletion cascades to the assignments, and a self-heal that was on its
\* way will find no row.
DeletePool(p) ==
  /\ rows' = rows \ {p}
  /\ members' = [d \in Disks |-> members[d] \ {p}]
  /\ heal' = {h \in heal : h[1] # p}
  /\ UNCHANGED <<profile, control>>

PersistDestroy ==
  /\ call.kind = "destroy"
  /\ DeletePool(call.pool)
  /\ ops' = Detached(call.pool, SetStatus(call.op, "completed"))

\* Mutant: the disk that left stays assigned.
PersistOnlyAssigns ==
  /\ call.kind \in {"add", "remove", "replace"}
  /\ members' = [d \in Disks |-> IF d \in call.ins THEN members[d] \cup {call.pool}
                                  ELSE members[d]]
  /\ ops' = SetStatus(call.op, "completed")
  /\ UNCHANGED <<rows, profile, control, heal>>

PersistMembers ==
  /\ call.kind \in {"add", "remove", "replace"}
  /\ members' = [d \in Disks |-> IF d \in call.ins THEN members[d] \cup {call.pool}
                                  ELSE IF d \in call.outs
                                       THEN members[d] \ {call.pool}
                                       ELSE members[d]]
  /\ ops' = SetStatus(call.op, "completed")
  /\ UNCHANGED <<rows, profile, control, heal>>

Persist ==
  /\ call.step = "persist"
  /\ PersistCreate \/ PersistDestroy \/ PersistMembers
  /\ call' = Idle
  /\ UNCHANGED <<kernel, phase, conv, watch, orphans, remount, drift, bootstep,
                 crashes>>

PersistFails ==
  /\ DbFaults /\ call.step = "persist"
  /\ Goto("failing")
  /\ UNCHANGED <<db, kernel, phase, conv, heal, watch, orphans, remount, drift,
                 bootstep, crashes>>

\* Mutant: the row gets a status the recovery and the index do not know.
MarkOperationRolledBack(o, s) ==
  /\ s \in {"failed", Active}
  /\ ops' = SetStatus(o, "rolled_back")

\* markOperationFailed: both attempts may fail, and the row stays in_progress.
MarkOperationFailed(o, s) ==
  /\ s \in {"failed"} \cup (IF DbFaults THEN {Active} ELSE {})
  /\ ops' = SetStatus(o, s)

FailCall(s) ==
  /\ call.step = "failing"
  /\ MarkOperationFailed(call.op, s)
  /\ call' = Idle
  /\ UNCHANGED <<rows, profile, control, members, kernel, phase, conv, heal,
                 watch, orphans, remount, drift, bootstep, crashes>>

-----------------------------------------------------------------------------
(* The goroutine of ConvertProfile, which runs without storageMu *)

ConvAt(o, step) == conv[o] = step

\* btrfs balance start on the mount point.
ConvStart(o) ==
  /\ ConvAt(o, "start")
  /\ IF CanReshape(ops[o].fs) /\ KernelAllows(ops[o].fs, {ops[o].to}, {})
     THEN /\ balance' = [balance EXCEPT ![ops[o].fs] =
                           [by |-> "command", to |-> ops[o].to]]
          /\ conv' = [conv EXCEPT ![o] = "balancing"]
     ELSE /\ conv' = [conv EXCEPT ![o] = "failing"]
          /\ UNCHANGED balance
  /\ UNCHANGED <<db, disk, data, born, mounted, fstab, due, copying, phase, call,
                 heal, watch, orphans, remount, drift, bootstep, crashes>>

\* SetPoolProfile and the status; the row of the pool must still be there.
ConvPersist(o) ==
  /\ ConvAt(o, "persist")
  /\ ops[o].pool # NoPool
  /\ profile' = [profile EXCEPT ![ops[o].pool] = ops[o].to]
  /\ ops' = SetStatus(o, "completed")
  /\ conv' = [conv EXCEPT ![o] = "none"]
  /\ UNCHANGED <<rows, control, members, kernel, phase, call, heal, watch,
                 orphans, remount, drift, bootstep, crashes>>

ConvPersistFails(o) ==
  /\ ConvAt(o, "persist")
  /\ DbFaults \/ ops[o].pool = NoPool
  /\ conv' = [conv EXCEPT ![o] = "failing"]
  /\ UNCHANGED <<db, kernel, phase, call, heal, watch, orphans, remount, drift,
                 bootstep, crashes>>

ConvFail(o, s) ==
  /\ ConvAt(o, "failing")
  /\ MarkOperationFailed(o, s)
  /\ conv' = [conv EXCEPT ![o] = "none"]
  /\ UNCHANGED <<rows, profile, control, members, kernel, phase, call, heal,
                 watch, orphans, remount, drift, bootstep, crashes>>

-----------------------------------------------------------------------------
(* Readers and the self-heal they start; no mutex is involved *)

\* GetPool and ListPools of an HTTP request.
Read(p, served) ==
  /\ phase = "up"
  /\ GetPool(p, served)
  /\ UNCHANGED <<db, kernel, phase, call, conv, watch, orphans, remount, drift,
                 bootstep, crashes>>

\* The goroutine of reconcilePoolProfileWithReality.
SelfHeal(h, ok) ==
  /\ h \in heal
  /\ ok \/ DbFaults
  /\ heal' = heal \ {h}
  /\ profile' = IF ok THEN [profile EXCEPT ![h[1]] = h[2]] ELSE profile
  /\ UNCHANGED <<rows, control, members, ops, kernel, phase, call, conv, watch,
                 orphans, remount, drift, bootstep, crashes>>

\* resolvePoolRecoveryAccept, which resolvePoolRecoveryResume ends with.
AcceptRecovery(p) ==
  /\ phase = "up"
  /\ p \in rows /\ control[p] = "recovery"
  /\ p \in mounted /\ data[p] # {}
  /\ profile' = [profile EXCEPT ![p] = FirstProfile(data[p])]
  /\ control' = [control EXCEPT ![p] = "managed"]
  /\ UNCHANGED <<rows, members, ops, kernel, phase, call, conv, heal, watch,
                 orphans, remount, drift, bootstep, crashes>>

-----------------------------------------------------------------------------
(* Boot *)

Orphans == {o \in Ops : ops[o].status = Active}

\* bootCore: RecoverPendingOperations lists the operations left behind.
StartDaemon ==
  /\ phase = "down"
  /\ phase' = "core"
  /\ orphans' = Orphans
  /\ UNCHANGED <<db, kernel, call, conv, heal, watch, remount, drift, bootstep,
                 crashes>>

Settle(o, s) ==
  /\ o \in orphans
  /\ s \in Terminal
  /\ ops' = SetStatus(o, s)
  /\ orphans' = orphans \ {o}

\* resolveOrphanCreatePool: rolled back or inconclusive, both are failed.
RecoverCreate(o) ==
  /\ ops[o].kind = "create"
  /\ Settle(o, "failed")
  /\ UNCHANGED <<rows, profile, control, members, kernel, phase, call, conv,
                 heal, watch, remount, drift, bootstep, crashes>>

\* resolveOrphanDestroyPool: if no disk carries the filesystem any more the
\* row goes, in a transaction of its own, and then the operation completes.
RecoverDestroyRow(o) ==
  /\ o \in orphans /\ ops[o].kind = "destroy"
  /\ ~Exists(ops[o].fs) /\ ops[o].pool # NoPool
  /\ DeletePool(ops[o].pool)
  /\ ops' = Detached(ops[o].pool, ops)
  /\ UNCHANGED <<kernel, phase, call, conv, watch, orphans, remount, drift,
                 bootstep, crashes>>

RecoverDestroy(o) ==
  /\ ops[o].kind = "destroy"
  /\ \/ ~Exists(ops[o].fs) /\ ops[o].pool = NoPool /\ Settle(o, "completed")
     \/ (Exists(ops[o].fs) \/ DbFaults) /\ Settle(o, "failed")
  /\ UNCHANGED <<rows, profile, control, members, kernel, phase, call, conv,
                 heal, watch, remount, drift, bootstep, crashes>>

LayoutKinds == {"add", "remove", "replace", "convert"}

\* Mutant: a layout operation left behind is closed whatever its balance does.
RecoverLayoutBlindly(o) ==
  /\ ops[o].kind \in LayoutKinds
  /\ Settle(o, "failed")
  /\ UNCHANGED <<rows, profile, control, members, kernel, phase, call, conv,
                 heal, watch, remount, drift, bootstep, crashes>>

\* resolveOrphanLayoutOp without a balance: inconclusive.
RecoverLayout(o) ==
  /\ ops[o].kind \in LayoutKinds
  /\ ops[o].pool = NoPool \/ ~BalanceActive(ops[o].pool)
  /\ Settle(o, "failed")
  /\ UNCHANGED <<rows, profile, control, members, kernel, phase, call, conv,
                 heal, watch, remount, drift, bootstep, crashes>>

\* Mutant: the operation is kept in_progress and nobody watches the balance.
ReadoptUnwatched(o, watched) ==
  /\ o \in orphans /\ ops[o].kind \in LayoutKinds
  /\ ops[o].pool # NoPool /\ BalanceActive(ops[o].pool)
  /\ orphans' = orphans \ {o}
  /\ watched
  /\ UNCHANGED <<db, kernel, phase, call, conv, heal, watch, remount, drift,
                 bootstep, crashes>>

\* resolveOrphanLayoutOp with a live balance: the operation stays in_progress
\* and watchReadoptedBalance will close it, unless the pool cannot be read.
Readopt(o, watched) ==
  /\ o \in orphans /\ ops[o].kind \in LayoutKinds
  /\ ops[o].pool # NoPool /\ BalanceActive(ops[o].pool)
  /\ orphans' = orphans \ {o}
  /\ watched \/ DbFaults
  /\ watch' = IF watched THEN watch \cup {o} ELSE watch
  /\ UNCHANGED <<db, kernel, phase, call, conv, heal, remount, drift, bootstep,
                 crashes>>

\* The transaction that settles an orphan fails: it waits for the next boot.
RecoverSkips(o) ==
  /\ DbFaults /\ o \in orphans
  /\ orphans' = orphans \ {o}
  /\ UNCHANGED <<db, kernel, phase, call, conv, heal, watch, remount, drift,
                 bootstep, crashes>>

\* bootHTTP, and bootStorage up to reconcileMountState listing the pools.
ServeHTTP ==
  /\ phase = "core" /\ orphans = {}
  /\ phase' = "up" /\ bootstep' = "mount" /\ remount' = rows
  /\ UNCHANGED <<db, kernel, call, conv, heal, watch, orphans, drift, crashes>>

\* watchReadoptedBalance sees no balance: it reconciles the profile and closes
\* the operation as completed.
WatchDone(o, served, s) ==
  /\ ~BalanceActive(ops[o].fs)
  /\ IF ops[o].pool = NoPool THEN served = NoProfile /\ UNCHANGED heal
                              ELSE GetPool(ops[o].pool, served)
  /\ s \in {"completed"} \cup (IF DbFaults THEN {"failed", Active} ELSE {})
  /\ ops' = SetStatus(o, s)
  /\ UNCHANGED <<rows, profile, control, members, kernel, phase, call, conv,
                 orphans, remount, drift, bootstep, crashes>>

\* The watcher gives up after 24 hours.
WatchExpires(o, s) ==
  /\ Deadline /\ BalanceActive(ops[o].fs)
  /\ MarkOperationFailed(o, s)
  /\ UNCHANGED <<rows, profile, control, members, kernel, phase, call, conv,
                 heal, orphans, remount, drift, bootstep, crashes>>

MountEffect(p) ==
  /\ mounted' = mounted \cup {p}
  /\ balance' = IF balance[p].by = "paused"
                THEN [balance EXCEPT ![p].by = "kernel"] ELSE balance

\* reconcileMountState on one pool: `mount <mount point>` needs the fstab line.
ReconcileMount(p, ok) ==
  /\ p \in remount
  /\ remount' = remount \ {p}
  /\ IF ok THEN p \notin mounted /\ p \in fstab /\ Exists(p) /\ MountEffect(p)
           ELSE UNCHANGED <<mounted, balance>>
  /\ UNCHANGED <<db, disk, data, born, fstab, due, copying, phase, call, conv,
                 heal, watch, orphans, drift, bootstep, crashes>>

\* onDeviceReappear runs reconcileMountState again.
DeviceReappears ==
  /\ phase = "up" /\ bootstep = "done" /\ remount = {}
  /\ remount' = rows \ mounted
  /\ remount' # {}
  /\ UNCHANGED <<db, kernel, phase, call, conv, heal, watch, orphans, drift,
                 bootstep, crashes>>

\* detectLayoutDrift lists the pools through ListPools, which enriches them.
DetectDrift(served) ==
  /\ phase = "up" /\ bootstep = "mount" /\ remount = {}
  /\ served \in [rows -> Profiles]
  /\ \A p \in rows : served[p] \in Served(p)
  /\ heal' = heal \cup {<<p, served[p]>> : p \in {q \in rows : served[q] # profile[q]}}
  /\ drift' = {<<p, served[p]>> : p \in {q \in rows : Managed(q)}}
  /\ bootstep' = "drift"
  /\ UNCHANGED <<db, kernel, phase, call, conv, watch, orphans, remount, crashes>>

\* detectLayoutDrift on one pool: what was listed against what is read now.
CheckDrift(e) ==
  /\ e \in drift
  /\ drift' = drift \ {e}
  /\ control' = IF /\ e[1] \in rows \cap mounted
                   /\ data[e[1]] # {} /\ FirstProfile(data[e[1]]) # e[2]
                THEN [control EXCEPT ![e[1]] = "recovery"] ELSE control
  /\ UNCHANGED <<rows, profile, members, ops, kernel, phase, call, conv, heal,
                 watch, orphans, remount, bootstep, crashes>>

DriftDone ==
  /\ bootstep = "drift" /\ drift = {}
  /\ bootstep' = "done"
  /\ UNCHANGED <<db, kernel, phase, call, conv, heal, watch, orphans, remount,
                 drift, crashes>>

-----------------------------------------------------------------------------
(* The kernel, crashes and reboots *)

BalanceRuns(p) == balance[p].by \in {"command", "kernel"}

\* Some block group has been rewritten in the new profile.
BalanceMoves(p) ==
  /\ BalanceRuns(p)
  /\ balance[p].to \notin data[p]
  /\ data' = [data EXCEPT ![p] = @ \cup {balance[p].to}]
  /\ UNCHANGED <<db, disk, born, mounted, fstab, due, balance, copying, daemon,
                 crashes>>

\* The balance ends; a conversion waiting for the command sees how it went.
BalanceEnds(p, ok) ==
  /\ BalanceRuns(p)
  /\ data' = IF ok THEN [data EXCEPT ![p] = {balance[p].to}] ELSE data
  /\ balance' = [balance EXCEPT ![p] = NoBalance]
  /\ conv' = [o \in Ops |-> IF ConvAt(o, "balancing") /\ ops[o].fs = p
                             THEN (IF ok THEN "persist" ELSE "failing")
                             ELSE conv[o]]
  /\ UNCHANGED <<db, disk, born, mounted, fstab, due, copying, phase, call, heal,
                 watch, orphans, remount, drift, bootstep, crashes>>

\* The copy to a new disk ends, or stops with an error: the old disk or the new
\* one leaves the filesystem. It waits while the filesystem is not mounted.
ReplaceEnds(c, ok) ==
  /\ c \in copying /\ disk[c[1]] \in mounted
  /\ disk' = WipedDisks({IF ok THEN c[1] ELSE c[2]})
  /\ copying' = copying \ {c}
  /\ UNCHANGED <<db, data, born, mounted, fstab, due, balance, daemon, crashes>>

\* The system mounts a pool of fstab after a reboot (nofail: it may be late).
FstabMount(p) ==
  /\ p \in due \ mounted /\ Exists(p)
  /\ MountEffect(p)
  /\ due' = due \ {p}
  /\ UNCHANGED <<db, disk, data, born, fstab, copying, daemon, crashes>>

DaemonDies ==
  /\ phase # "down" /\ crashes < MaxCrashes
  /\ crashes' = crashes + 1
  /\ phase' = "down" /\ call' = Idle /\ bootstep' = "done"
  /\ conv' = [o \in Ops |-> "none"]
  /\ heal' = {} /\ watch' = {} /\ orphans' = {} /\ remount' = {} /\ drift' = {}

\* The daemon dies; the balances and copies it had started go on.
Crash ==
  /\ DaemonDies
  /\ UNCHANGED <<db, kernel>>

\* The machine reboots: nothing is mounted and a balance waits for its mount.
Reboot ==
  /\ DaemonDies
  /\ mounted' = {} /\ due' = fstab
  /\ balance' = [p \in Pools |-> IF balance[p] = NoBalance THEN NoBalance
                                  ELSE [balance[p] EXCEPT !.by = "paused"]]
  /\ UNCHANGED <<db, disk, data, born, fstab, copying>>

-----------------------------------------------------------------------------
Init ==
  /\ rows = {} /\ members = [d \in Disks |-> {}]
  /\ profile = [p \in Pools |-> NoProfile]
  /\ control = [p \in Pools |-> "managed"]
  /\ ops = [o \in Ops |-> AbsentOp]
  /\ disk = [d \in Disks |-> NoPool]
  /\ data = [p \in Pools |-> {}]
  /\ balance = [p \in Pools |-> NoBalance]
  /\ copying = {}
  /\ born = {} /\ mounted = {} /\ fstab = {} /\ due = {}
  /\ phase = "up" /\ call = Idle /\ bootstep = "done"
  /\ conv = [o \in Ops |-> "none"]
  /\ heal = {} /\ watch = {} /\ orphans = {} /\ remount = {} /\ drift = {}
  /\ crashes = 0

Requests ==
  \E p \in Pools :
    \/ \E ins \in SUBSET Disks, to \in Profiles, wipe \in BOOLEAN :
         BeginCreate(p, ins, to, wipe)
    \/ \E served \in Profiles :
         \/ BeginDestroy(p, served)
         \/ \E d \in Disks, wipe \in BOOLEAN : BeginAdd(p, served, d, wipe)
         \/ \E d \in Disks : BeginRemove(p, served, d)
         \/ \E old, new \in Disks : BeginReplace(p, served, old, new)
         \/ \E to \in Profiles : BeginConvert(p, served, to)
         \/ Read(p, served)
    \/ AcceptRecovery(p)

Commands ==
  \/ RunFails
  \/ \E W \in SUBSET Disks : RunWipes(W) \/ RunWipe(W)
  \/ \E up, ok \in BOOLEAN : RunCreate(up, ok)
  \/ RunUnmount
  \/ \E ok \in BOOLEAN : RunAdd(ok) \/ RunRemove(ok) \/ RunReplace(ok)

CallSteps ==
  \/ \E o \in Ops : OpenOp(o)
  \/ RefuseOp
  \/ Commands
  \/ Persist \/ PersistFails
  \/ \E s \in {"failed", Active} : FailCall(s)

ConvSteps(o) ==
  \/ ConvStart(o) \/ ConvPersist(o) \/ ConvPersistFails(o)
  \/ \E s \in {"failed", Active} : ConvFail(o, s)

\* watchReadoptedBalance ends, one way or the other.
WatchSteps(o) ==
  /\ o \in watch /\ watch' = watch \ {o}
  /\ \/ \E served \in Profiles \cup {NoProfile}, s \in {"completed", "failed", Active} :
          WatchDone(o, served, s)
     \/ \E s \in {"failed", Active} : WatchExpires(o, s)

RecoverySteps(o) ==
  \/ RecoverCreate(o) \/ RecoverDestroyRow(o) \/ RecoverDestroy(o)
  \/ RecoverLayout(o) \/ (\E watched \in BOOLEAN : Readopt(o, watched)) \/ RecoverSkips(o)

BootSteps ==
  \/ StartDaemon \/ ServeHTTP
  \/ \E o \in Ops : RecoverySteps(o)
  \/ \E p \in Pools, ok \in BOOLEAN : ReconcileMount(p, ok)
  \/ \E served \in [rows -> Profiles] : DetectDrift(served)
  \/ \E e \in drift : CheckDrift(e)
  \/ DriftDone

KernelSteps ==
  \/ \E p \in Pools : \/ BalanceMoves(p)
                      \/ \E ok \in BOOLEAN : BalanceEnds(p, ok)
                      \/ FstabMount(p)
  \/ \E c \in copying, ok \in BOOLEAN : ReplaceEnds(c, ok)

Next ==
  \/ Requests \/ CallSteps \/ BootSteps \/ KernelSteps
  \/ \E o \in Ops : ConvSteps(o) \/ WatchSteps(o)
  \/ \E h \in heal, ok \in BOOLEAN : SelfHeal(h, ok)
  \/ DeviceReappears
  \/ Crash \/ Reboot

Spec == Init /\ [][Next]_vars

\* What the scheduler, systemd and the kernel give: a goroutine that can run
\* does, the daemon is restarted, its boot goes on and a balance ends.
Fairness ==
  /\ WF_vars(CallSteps) /\ WF_vars(BootSteps)
  /\ \A o \in Ops : WF_vars(ConvSteps(o)) /\ WF_vars(WatchSteps(o))
  /\ \A p \in Pools : WF_vars(\E ok \in BOOLEAN : BalanceEnds(p, ok))

FairSpec == Spec /\ Fairness
=============================================================================
