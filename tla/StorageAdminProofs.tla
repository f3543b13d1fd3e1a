------------------------- MODULE StorageAdminProofs -------------------------
(* Theorems about the storage handlers without an operation row, for any      *)
(* pools, disks and scans, as long as what an import saw holds when it        *)
(* persists (TrueSpec).  What StorageLayoutProofs says of the steps beside a  *)
(* call is said there whatever call holds storageMu, theirs included.         *)
EXTENDS StorageAdminProperties, StorageLayoutProofs

-----------------------------------------------------------------------------
(* The inductive invariant *)

AdminSteps == {"unmount", "unmounted", "wipeAll", "forget", "adopt", "addFstab"}
AdminCalls ==
  [kind : {"destroyByName", "exportByName", "import"}, pool : Pools,
   ins : SUBSET Disks, outs : SUBSET Disks, to : Profiles \cup {NoProfile},
   wipe : BOOLEAN, op : Ops \cup {NoOp}, step : AdminSteps]

\* A handler works while requests are served, on disks of its own pool.
AdminCallInv ==
  /\ call \in AdminCalls
  /\ phase = "up"
  /\ \A d \in call.outs : call.pool \in members[d]
  /\ call.step = "adopt" => call.to \in Profiles

\* A call of the service or of a handler, with what it relies on.
AnyCall == (call \in CallTypes /\ CallInv) \/ AdminCallInv

\* A disk that is assigned to a pool carries its filesystem, or none: so do
\* the disks that a call is about to assign.
OwnFs == \A d \in Disks : \A q \in members[d] : disk[d] \in {q, NoPool}
InsFit ==
  /\ call.kind \in {"remove", "destroy"} => call.ins = {}
  /\ call.step = "persist" => \A d \in call.ins : disk[d] \in {call.pool, NoPool}

Imports ==
  [pool : Pools, on : SUBSET Disks, mounted : BOOLEAN, df : Profiles \cup {NoProfile}]
ScanTypes ==
  primary \in Pools \cup {NoPool} /\ probe \in Scans /\ snap \in Scans /\ imports \subseteq Imports

AdminInv == BesideInv /\ AnyCall /\ OwnFs /\ InsFit /\ ScanTypes

\* A fresh installation has nothing but an empty snapshot.
LEMMA InitAdminInv == AdminInit => AdminInv
<1> SUFFICES ASSUME AdminInit PROVE AdminInv
  OBVIOUS
<1>1. BesideInv /\ call \in CallTypes /\ CallInv
  BY InitDiskInv, DiskInvParts DEF AdminInit
<1>2. OwnFs /\ InsFit
  BY DEF AdminInit, Init, OwnFs, InsFit, Idle
<1>3. NoScan \in Scans
  BY MaxScansAssumption DEF NoScan, Scans
<1> QED
  BY <1>1, <1>2, <1>3 DEF AdminInv, AnyCall, ScanTypes, AdminInit

-----------------------------------------------------------------------------
(* The steps of the layout *)

\* While a handler holds the lock only what runs beside it moves, or a crash.
LEMMA BesideHandler ==
  ASSUME AdminCallInv, BootInv, Next
  PROVE  BesideSteps \/ Crash \/ Reboot
<1> USE DEF AdminCallInv
<1>1. call.step \in AdminSteps /\ call # Idle
  BY DEF AdminCalls, AdminSteps, Idle
<1>2. orphans = {} /\ phase = "up"
  BY DEF BootInv
<1>3. ~CallSteps
  BY <1>1 DEF CallSteps, OpenOp, RefuseOp, Commands, RunFails, RunWipes, RunWipe, RunCreate,
     RunUnmount, RunAdd, RunRemove, RunReplace, Running, Persist, PersistFails, FailCall,
     AdminSteps
<1>4. ASSUME NEW o \in Ops PROVE ~RecoverySteps(o)
  BY <1>2 DEF RecoverySteps, RecoverCreate, RecoverDestroyRow, RecoverDestroy, RecoverLayout,
     Readopt, RecoverSkips, Settle
<1>5. CASE Requests
  BY <1>1, <1>5 DEF Requests, BeginCreate, BeginDestroy, BeginAdd, BeginRemove, BeginReplace,
     BeginConvert, Serving, BesideSteps
<1>6. CASE BootSteps
  BY <1>2, <1>4, <1>6 DEF BootSteps, StartDaemon, ServeHTTP, BesideSteps
<1> QED
  BY <1>3, <1>5, <1>6 DEF Next, BesideSteps

\* Beside a call no filesystem is written: a replacement that ends wipes.
LEMMA BesideWipes ==
  ASSUME KernelTypes, BesideSteps, NEW d \in Disks
  PROVE  disk'[d] \in {disk[d], NoPool}
<1> USE DEF kernel
<1>1. ASSUME NEW c \in copying, NEW ok \in BOOLEAN, ReplaceEnds(c, ok)
      PROVE  disk'[d] \in {disk[d], NoPool}
  BY <1>1 DEF ReplaceEnds, WipedDisks
<1>2. CASE KernelSteps
  BY <1>1, <1>2 DEF KernelSteps, BalanceMoves, BalanceEnds, FstabMount
<1>3. ASSUME NEW o \in Ops, ConvSteps(o) \/ WatchSteps(o) PROVE disk' = disk
  BY <1>3 DEF ConvSteps, ConvStart, ConvPersist, ConvPersistFails, ConvFail,
              WatchSteps, WatchDone, WatchExpires
<1>4. ASSUME NEW p \in Pools,
             (\E served \in Profiles : Read(p, served)) \/ AcceptRecovery(p)
               \/ \E ok \in BOOLEAN : ReconcileMount(p, ok)
      PROVE  disk' = disk
  BY <1>4 DEF Read, AcceptRecovery, ReconcileMount
<1>5. ASSUME DriftDone \/ DeviceReappears \/ (\E e \in drift : CheckDrift(e))
               \/ \E served \in [rows -> Profiles] : DetectDrift(served)
      PROVE  disk' = disk
  BY <1>5 DEF DriftDone, DeviceReappears, CheckDrift, DetectDrift
<1>6. ASSUME NEW h \in heal, NEW ok \in BOOLEAN, SelfHeal(h, ok) PROVE disk' = disk
  BY <1>6 DEF SelfHeal
<1> QED
  BY <1>2, <1>3, <1>4, <1>5, <1>6 DEF BesideSteps

\* A command writes the filesystem of its call, or wipes; what it hands to the
\* closing transaction it has written.
LEMMA CommandWrites ==
  ASSUME KernelTypes, call \in CallTypes, CallInv, InsFit, Commands
  PROVE  /\ \A d \in Disks : disk'[d] \in {disk[d], call.pool, NoPool}
         /\ InsFit' /\ members' = members
<1> DEFINE Writes == \A d \in Disks : disk'[d] \in {disk[d], call.pool, NoPool}
<1> USE DEF KernelTypes, db, kernel
<1>g. ASSUME NEW step, Goto(step),
             step # "persist" \/ \A d \in call.ins : disk'[d] \in {call.pool, NoPool}
      PROVE  InsFit'
  <2>1. call' = [call EXCEPT !.step = step]
    BY <1>g DEF Goto
  <2>2. /\ call'.step = step /\ call'.kind = call.kind
        /\ call'.ins = call.ins /\ call'.pool = call.pool
    BY <2>1 DEF CallTypes
  <2> QED
    BY <1>g, <2>2 DEF InsFit
<1>i. call.ins \subseteq Disks
  BY DEF CallTypes
<1>1. CASE RunFails
  BY <1>1, <1>g DEF RunFails
<1>2. ASSUME NEW W \in SUBSET Disks, RunWipes(W) PROVE Writes /\ InsFit' /\ members' = members
  BY <1>2, <1>g DEF RunWipes, WipedDisks
<1>3. ASSUME NEW W \in SUBSET Disks, RunWipe(W) PROVE Writes /\ InsFit' /\ members' = members
  <2>1. call.ins = {}
    BY <1>3 DEF RunWipe, CallInv, InsFit
  <2>2. Writes /\ members' = members
    BY <1>3 DEF RunWipe, WipedDisks
  <2>3. InsFit'
    BY <1>3, <1>g, <2>1 DEF RunWipe
  <2> QED
    BY <2>2, <2>3
<1>4. ASSUME NEW up \in BOOLEAN, NEW ok \in BOOLEAN, RunCreate(up, ok)
      PROVE  Writes /\ InsFit' /\ members' = members
  <2>1. Writes /\ members' = members
    BY <1>4 DEF RunCreate
  <2>2. \A d \in call.ins : disk'[d] \in {call.pool, NoPool}
    BY <1>i, <1>4 DEF RunCreate
  <2>3. InsFit'
    BY <1>4, <1>g, <2>2 DEF RunCreate
  <2> QED
    BY <2>1, <2>3
<1>5. CASE RunUnmount
  BY <1>5, <1>g DEF RunUnmount
<1>6. ASSUME NEW ok \in BOOLEAN, RunAdd(ok) \/ RunReplace(ok)
      PROVE  Writes /\ InsFit' /\ members' = members
  <2>1. Writes /\ members' = members
    BY <1>6 DEF RunAdd, RunReplace
  <2>2. \A d \in call.ins : disk'[d] \in {call.pool, NoPool}
    BY <1>i, <1>6 DEF RunAdd, RunReplace
  <2>3. InsFit'
    BY <1>6, <1>g, <2>2 DEF RunAdd, RunReplace
  <2> QED
    BY <2>1, <2>3
<1>7. ASSUME NEW ok \in BOOLEAN, RunRemove(ok) PROVE Writes /\ InsFit' /\ members' = members
  <2>1. call.ins = {}
    BY <1>7 DEF RunRemove, Running, InsFit
  <2>2. Writes /\ members' = members
    BY <1>7 DEF RunRemove, WipedDisks
  <2>3. InsFit'
    BY <1>7, <1>g, <2>1 DEF RunRemove
  <2> QED
    BY <2>2, <2>3
<1> QED
  BY <1>1, <1>2, <1>3, <1>4, <1>5, <1>6, <1>7 DEF Commands

\* A request of the service locks, and touches no disk.
LEMMA RequestFits ==
  ASSUME InsFit, Requests
  PROVE  BesideSteps \/ (InsFit' /\ UNCHANGED <<disk, members>>)
<1> USE DEF db, kernel
<1>1. PICK p \in Pools :
        \/ \E ins \in SUBSET Disks, to \in Profiles, wipe \in BOOLEAN :
             BeginCreate(p, ins, to, wipe)
        \/ \E served \in Profiles :
             \/ BeginDestroy(p, served)
             \/ \E d \in Disks, wipe \in BOOLEAN : BeginAdd(p, served, d, wipe)
             \/ \E d \in Disks : BeginRemove(p, served, d)
             \/ \E old, new \in Disks : BeginReplace(p, served, old, new)
             \/ \E to \in Profiles : BeginConvert(p, served, to)
             \/ Read(p, served)
        \/ AcceptRecovery(p)
  BY DEF Requests
<1>2. CASE \E ins \in SUBSET Disks, to \in Profiles, wipe \in BOOLEAN :
             BeginCreate(p, ins, to, wipe)
  BY <1>2 DEF BeginCreate, Lock, InsFit
<1>3. CASE \E served \in Profiles : BeginDestroy(p, served)
  BY <1>3 DEF BeginDestroy, Lock, InsFit
<1>4. CASE \E served \in Profiles, d \in Disks, wipe \in BOOLEAN :
             BeginAdd(p, served, d, wipe)
  BY <1>4 DEF BeginAdd, Lock, InsFit
<1>5. CASE \E served \in Profiles, d \in Disks : BeginRemove(p, served, d)
  BY <1>5 DEF BeginRemove, Lock, InsFit
<1>6. CASE \E served \in Profiles, old, new \in Disks : BeginReplace(p, served, old, new)
  BY <1>6 DEF BeginReplace, Lock, InsFit
<1>7. CASE \E served \in Profiles, to \in Profiles : BeginConvert(p, served, to)
  BY <1>7 DEF BeginConvert, Lock, InsFit
<1>8. CASE AcceptRecovery(p) \/ \E served \in Profiles : Read(p, served)
  BY <1>8 DEF BesideSteps
<1> QED
  BY <1>1, <1>2, <1>3, <1>4, <1>5, <1>6, <1>7, <1>8

\* So does an idle call.
LEMMA IdleFits == call' = Idle => InsFit'
BY DEF Idle, InsFit

\* Every step beside the calls leaves the assignments what they were.
LEMMA BesideOwn ==
  ASSUME KernelTypes, DbTypes, OwnFs, InsFit, BesideSteps, call \in CallTypes \cup AdminCalls
  PROVE  OwnFs' /\ InsFit'
<1>1. UNCHANGED <<call, members>>
  BY BesideKeeps
<1>2. \A d \in Disks : disk'[d] \in {disk[d], NoPool}
  BY BesideWipes
<1>3. call.ins \subseteq Disks
  BY DEF CallTypes, AdminCalls
<1>4. OwnFs'
  BY <1>1, <1>2 DEF OwnFs
<1>5. InsFit'
  BY <1>1, <1>2, <1>3 DEF InsFit
<1> QED
  BY <1>4, <1>5

\* The steps of the service's calls do as well: what they assign they have
\* written.
LEMMA CallOwn ==
  ASSUME DiskInv, OwnFs, InsFit, CallSteps
  PROVE  OwnFs' /\ InsFit'
<1> USE DEF db, kernel
<1>t. KernelTypes /\ DbTypes /\ call \in CallTypes /\ CallInv /\ DeviceExclusive
  BY DEF DiskInv, TypeOK, DaemonTypes
<1>1. ASSUME NEW o \in Ops, OpenOp(o) PROVE OwnFs' /\ InsFit'
  <2>1. UNCHANGED <<disk, members>>
    BY <1>1 DEF OpenOp
  <2>2. call' = Idle \/ call' = [call EXCEPT !.op = o, !.step = "run"]
    BY <1>1 DEF OpenOp
  <2>3. CASE call' = [call EXCEPT !.op = o, !.step = "run"]
    <3>1. call'.step = "run" /\ call'.kind = call.kind /\ call'.ins = call.ins
      BY <1>t, <2>3 DEF CallTypes
    <3> QED
      BY <2>1, <3>1 DEF OwnFs, InsFit
  <2> QED
    BY <2>1, <2>2, <2>3, IdleFits DEF OwnFs
<1>2. CASE RefuseOp \/ \E s \in {"failed", Active} : FailCall(s)
  BY <1>2, IdleFits DEF RefuseOp, FailCall, OwnFs
<1>3. CASE Commands
  <2>1. /\ \A d \in Disks : disk'[d] \in {disk[d], call.pool, NoPool}
        /\ InsFit' /\ members' = members
    BY <1>t, <1>3, CommandWrites
  <2>2. \A d \in Disks : disk'[d] # disk[d] => members[d] \subseteq {call.pool}
    BY <1>3, CommandSpares
  <2> QED
    BY <2>1, <2>2 DEF OwnFs
<1>4. CASE Persist
  <2>1. UNCHANGED disk /\ InsFit'
    BY <1>4, IdleFits DEF Persist
  <2>2. \A d \in Disks : members'[d] \subseteq members[d] \/ (d \in call.ins /\
                             members'[d] = members[d] \cup {call.pool})
    BY <1>t, <1>4 DEF Persist, PersistCreate, PersistDestroy, DeletePool, PersistMembers, DbTypes
  <2>3. \A d \in call.ins : disk[d] \in {call.pool, NoPool}
    BY <1>4 DEF Persist, InsFit
  <2>4. \A d \in call.ins : members[d] = {}
    BY <1>t DEF CallInv
  <2> QED
    BY <2>1, <2>2, <2>3, <2>4 DEF OwnFs
<1>5. CASE PersistFails
  <2>1. call' = [call EXCEPT !.step = "failing"]
    BY <1>5 DEF PersistFails, Goto
  <2>2. call'.step = "failing" /\ call'.kind = call.kind /\ call'.ins = call.ins
    BY <1>t, <2>1 DEF CallTypes
  <2> QED
    BY <1>5, <2>2 DEF PersistFails, OwnFs, InsFit
<1> QED
  BY <1>1, <1>2, <1>3, <1>4, <1>5 DEF CallSteps

\* So do the boot and a crash.
LEMMA BootOwn ==
  ASSUME DiskInv, OwnFs, InsFit, BootSteps \/ Crash \/ Reboot
  PROVE  OwnFs' /\ InsFit'
<1> USE DEF db, kernel
<1>t. KernelTypes /\ DbTypes /\ call \in CallTypes /\ CallInv /\ BootInv
  BY DEF DiskInv, TypeOK, DaemonTypes
<1>1. CASE StartDaemon \/ ServeHTTP
  BY <1>1 DEF StartDaemon, ServeHTTP, OwnFs, InsFit
<1>2. CASE Crash \/ Reboot
  BY <1>2, IdleFits DEF Crash, Reboot, DaemonDies, OwnFs
<1>3. ASSUME NEW o \in Ops, RecoverySteps(o) PROVE OwnFs' /\ InsFit'
  <2>1. UNCHANGED <<disk, call>>
    BY <1>3 DEF RecoverySteps, RecoverCreate, RecoverDestroyRow, RecoverDestroy,
                RecoverLayout, Readopt, RecoverSkips
  <2>2. \A d \in Disks : members'[d] \subseteq members[d]
    BY <1>t, <1>3 DEF RecoverySteps, RecoverCreate, RecoverDestroyRow, RecoverDestroy,
                RecoverLayout, Readopt, RecoverSkips, DeletePool, DbTypes
  <2> QED
    BY <2>1, <2>2 DEF OwnFs, InsFit
<1>4. CASE BesideSteps
  BY <1>t, <1>4, BesideOwn
<1> QED
  BY <1>1, <1>2, <1>3, <1>4 DEF BootSteps, BesideSteps

\* The whole of StorageLayout keeps the invariant, whoever holds the lock.
LEMMA NextOwnInv ==
  ASSUME BesideInv, AnyCall, OwnFs, InsFit, Next
  PROVE  BesideInv' /\ AnyCall' /\ OwnFs' /\ InsFit'
<1>1. CASE call \in CallTypes /\ CallInv
  <2>1. DiskInv
    BY <1>1, DiskInvParts
  <2>2. DiskInv'
    BY <2>1, NextDiskInv
  <2>3. BesideInv' /\ AnyCall'
    BY <2>2 DEF DiskInv, TypeOK, DaemonTypes, BesideTypes, BesideInv, AnyCall
  <2>4. OwnFs' /\ InsFit'
    <3>1. KernelTypes /\ DbTypes
      BY DEF BesideInv
    <3>2. CASE Requests
      <4>1. CASE InsFit' /\ UNCHANGED <<disk, members>>
        BY <4>1 DEF OwnFs
      <4> QED
        BY <1>1, <3>1, <3>2, <4>1, RequestFits, BesideOwn
    <3> QED
      BY <1>1, <2>1, <3>1, <3>2, CallOwn, BootOwn, BesideOwn DEF Next, BesideSteps
  <2> QED
    BY <2>3, <2>4
<1>2. CASE AdminCallInv
  <2>1. BesideSteps \/ Crash \/ Reboot
    BY <1>2, BesideHandler DEF BesideInv
  <2>2. CASE BesideSteps
    <3>1. BesideInv' /\ OwnFs' /\ InsFit'
      BY <1>2, <2>2, NextBesideInv, BesideOwn DEF BesideInv, AdminCallInv
    <3>2. AdminCallInv'
      BY <1>2, <2>2, BesideKeeps DEF AdminCallInv
    <3> QED
      BY <3>1, <3>2 DEF AnyCall
  <2>3. CASE Crash \/ Reboot
    <3>1. BesideInv' /\ call' = Idle
      BY <2>3, DieBeside DEF Crash, Reboot, DaemonDies
    <3>2. OwnFs'
      BY <2>3 DEF Crash, Reboot, OwnFs, db, kernel
    <3> QED
      BY <3>1, <3>2, IdleCall, IdleFits DEF AnyCall
  <2> QED
    BY <2>1, <2>2, <2>3
<1> QED
  BY <1>1, <1>2 DEF AnyCall

\* A step of StorageLayout keeps the rest too: a crash forgets the scans.
LEMMA LayoutInv == AdminInv /\ LayoutStep => AdminInv'
<1> SUFFICES ASSUME AdminInv, LayoutStep PROVE AdminInv'
  OBVIOUS
<1>1. BesideInv' /\ AnyCall' /\ OwnFs' /\ InsFit'
  BY NextOwnInv DEF AdminInv, LayoutStep
<1>2. NoScan \in Scans
  BY MaxScansAssumption DEF NoScan, Scans
<1>3. ScanTypes'
  BY <1>2 DEF AdminInv, ScanTypes, LayoutStep, observer
<1> QED
  BY <1>1, <1>3 DEF AdminInv

-----------------------------------------------------------------------------
(* The observer and the waiting imports *)

\* What StorageLayout does not see change it keeps.
LEMMA LayoutStays ==
  ASSUME AdminInv, UNCHANGED vars
  PROVE  BesideInv' /\ AnyCall' /\ OwnFs' /\ InsFit'
<1> USE DEF vars, db, kernel, daemon
<1>1. BesideInv'
  BY DEF AdminInv, BesideInv, DbTypes, KernelTypes, BesideTypes, BootInv, ConvInv, DeviceExclusive
<1>2. AnyCall' /\ OwnFs' /\ InsFit'
  BY DEF AdminInv, AnyCall, AdminCallInv, CallInv, OwnFs, InsFit
<1> QED
  BY <1>1, <1>2

\* A probe sees profiles that there are.
LEMMA ProbeType ==
  ASSUME AdminInv, snap.generation < MaxScans
  PROVE  ProbeNow \in Scans
<1>1. KernelTypes /\ snap \in Scans
  BY DEF AdminInv, BesideInv, ScanTypes
<1>2. \A p \in Pools : data[p] # {} => FirstProfile(data[p]) \in Profiles
  <2> SUFFICES ASSUME NEW p \in Pools, data[p] # {} PROVE FirstProfile(data[p]) \in Profiles
    OBVIOUS
  <2>1. data[p] \in SUBSET Profiles
    BY <1>1 DEF KernelTypes
  <2> QED
    BY <2>1, FirstProfileIn
<1>3. snap.generation + 1 \in 0 .. MaxScans
  BY <1>1, MaxScansAssumption DEF Scans
<1>4. [p \in Pools |-> IF p \in mounted /\ data[p] # {} THEN FirstProfile(data[p]) ELSE NoProfile]
        \in [Pools -> Profiles \cup {NoProfile}]
  BY <1>2
<1> QED
  BY <1>1, <1>3, <1>4 DEF ProbeNow, Scans, KernelTypes

\* The scans, and the requests that read them, stay what they can be.
LEMMA ScanInv ==
  AdminInv /\ (ScanProbe \/ ScanPublish \/ \E p \in Pools : BeginImport(p)) => AdminInv'
<1> SUFFICES ASSUME AdminInv, ScanProbe \/ ScanPublish \/ \E p \in Pools : BeginImport(p)
             PROVE  AdminInv'
  OBVIOUS
<1>1. BesideInv' /\ AnyCall' /\ OwnFs' /\ InsFit'
  BY LayoutStays DEF ScanProbe, ScanPublish, BeginImport
<1>2. ScanTypes /\ rows \subseteq Pools
  BY DEF AdminInv, BesideInv, DbTypes
<1>4. CASE ScanPublish
  <2>1. [probe EXCEPT !.managed = rows] \in Scans
    BY <1>2 DEF ScanTypes, Scans
  <2>2. NoScan \in Scans
    BY MaxScansAssumption DEF NoScan, Scans
  <2>3. ScanTypes'
    BY <1>2, <1>4, <2>1, <2>2 DEF ScanPublish, ScanTypes
  <2> QED
    BY <1>1, <2>3 DEF AdminInv
<1>5. ASSUME NEW p \in Pools, BeginImport(p) PROVE AdminInv'
  <2>1. [pool |-> p, on |-> {d \in Disks : snap.on[d] = p},
         mounted |-> p \in snap.mounted, df |-> snap.df[p]] \in Imports
    <3>1. snap.df[p] \in Profiles \cup {NoProfile}
      BY <1>2 DEF ScanTypes, Scans
    <3>2. (p \in snap.mounted) \in BOOLEAN
      OBVIOUS
    <3> QED
      BY <3>1, <3>2 DEF Imports
  <2>2. ScanTypes'
    BY <1>2, <1>5, <2>1 DEF BeginImport, ScanTypes, observer
  <2> QED
    BY <1>1, <2>2 DEF AdminInv
<1>6. CASE ScanProbe
  <2>1. ScanTypes'
    BY <1>2, <1>6, ProbeType DEF ScanProbe, ScanTypes
  <2> QED
    BY <1>1, <2>1 DEF AdminInv
<1> QED
  BY <1>4, <1>5, <1>6

-----------------------------------------------------------------------------
(* The handlers *)

\* A handler goes on with what it knows, or ends.
LEMMA HandlerGoes ==
  ASSUME AdminCallInv, NEW step \in AdminSteps \ {"adopt"}, Goto(step),
         UNCHANGED <<phase, members>>
  PROVE  AdminCallInv' /\ InsFit'
<1>1. call' = [call EXCEPT !.step = step]
  BY DEF Goto
<1>2. call' \in AdminCalls /\ call'.step = step /\ call'.kind = call.kind
      /\ call'.ins = call.ins /\ call'.outs = call.outs /\ call'.pool = call.pool
  BY <1>1 DEF AdminCallInv, AdminCalls
<1>3. AdminCallInv'
  BY <1>2 DEF AdminCallInv
<1>4. call'.kind \notin {"remove", "destroy"} /\ call'.step # "persist"
  BY <1>2 DEF AdminCalls, AdminSteps
<1> QED
  BY <1>3, <1>4 DEF InsFit

\* Only a handler is at these steps.
LEMMA HandlerStep ==
  ASSUME AnyCall, call.step \in AdminSteps
  PROVE  AdminCallInv
BY DEF AnyCall, CallTypes, AdminSteps

\* Wiping disks takes filesystems away, and assigns nothing.
LEMMA WipeKeeps ==
  ASSUME BesideInv, OwnFs, NEW W, disk' = WipedDisks(W), members' = members
  PROVE  disk' \in [Disks -> Pools \cup {NoPool}] /\ OwnFs'
BY DEF BesideInv, KernelTypes, WipedDisks, OwnFs

\* What is off or wiped keeps its types.
LEMMA KernelMoves ==
  ASSUME BesideInv,
         disk' \in [Disks -> Pools \cup {NoPool}], data' \in [Pools -> SUBSET Profiles],
         mounted' \subseteq Pools, balance' \in [Pools -> BalanceTypes],
         fstab' \subseteq Pools, copying' \subseteq Disks \X Disks,
         \A p \in Pools : balance'[p].by # "none" => balance'[p].to \in Profiles,
         UNCHANGED <<db, born, due, phase, conv, heal, watch, orphans, remount, drift,
                     bootstep, crashes>>
  PROVE  BesideInv'
<1> USE DEF BesideInv, db
<1>1. DbTypes' /\ KernelTypes' /\ BesideTypes'
  BY DEF DbTypes, KernelTypes, BesideTypes
<1>2. BootInv' /\ ConvInv' /\ DeviceExclusive'
  BY DEF BootInv, ConvInv, DeviceExclusive
<1> QED
  BY <1>1, <1>2

\* A destruction or an export by name: it reads its disks when it has the lock.
LEMMA ByNameInv == AdminInv /\ ByName => AdminInv'
<1> SUFFICES ASSUME AdminInv, ByName PROVE AdminInv'
  OBVIOUS
<1> USE DEF db, kernel, observer
<1>a. BesideInv /\ AnyCall /\ OwnFs /\ InsFit /\ ScanTypes
  BY DEF AdminInv
<1>k. KernelTypes /\ ConvInv /\ DbTypes /\ BesideTypes
  BY <1>a DEF BesideInv
<1>1. ASSUME NEW p \in Pools, NEW served \in Profiles,
             NEW kind \in {"destroyByName", "exportByName"}, BeginByName(kind, p, served)
      PROVE  AdminInv'
  <2>1. /\ call' = [Idle EXCEPT !.kind = kind, !.pool = p, !.outs = DevicesOf(p),
                                !.step = "unmount"]
        /\ phase = "up" /\ phase' = phase
    BY <1>1 DEF BeginByName, Serve
  <2>2. AdminCallInv' /\ InsFit'
    <3>1. /\ call'.kind = kind /\ call'.pool = p /\ call'.outs = DevicesOf(p)
          /\ call'.step = "unmount" /\ call' \in AdminCalls
      BY <2>1, NoneAssumption DEF Idle, AdminCalls, AdminSteps, DevicesOf
    <3> QED
      BY <1>1, <2>1, <3>1 DEF BeginByName, AdminCallInv, DevicesOf, InsFit
  <2>3. heal' \subseteq Pools \X Profiles
    BY <1>1, <1>k, HealType DEF BeginByName, GetPool, BesideTypes
  <2>4. BesideInv'
    <3>1. DbTypes' /\ KernelTypes' /\ DeviceExclusive'
      BY <1>1, <1>a, <1>k DEF BeginByName, DbTypes, KernelTypes, BesideInv, DeviceExclusive
    <3>2. BesideTypes' /\ BootInv' /\ ConvInv'
      BY <1>1, <1>a, <2>3 DEF BeginByName, BesideTypes, BesideInv, BootInv, ConvInv
    <3> QED
      BY <3>1, <3>2 DEF BesideInv
  <2>5. OwnFs' /\ ScanTypes'
    BY <1>1, <1>a DEF BeginByName, OwnFs, ScanTypes
  <2> QED
    BY <2>2, <2>4, <2>5 DEF AdminInv, AnyCall
<1>2. CASE StrictUnmountFails \/ RemovePoolFails
  <2>1. call' = Idle /\ ScanTypes' /\ OwnFs'
    BY <1>2, <1>a DEF StrictUnmountFails, RemovePoolFails, ScanTypes, OwnFs
  <2>2. BesideInv'
    BY <1>2, <1>a, <1>k, KernelMoves
       DEF StrictUnmountFails, RemovePoolFails, KernelTypes, ConvInv
  <2> QED
    BY <2>1, <2>2, IdleCall, IdleFits DEF AdminInv, AnyCall
<1>3. CASE StrictUnmount
  <2>1. AdminCallInv
    BY <1>3, <1>a, HandlerStep DEF StrictUnmount, AdminSteps
  <2>2. AdminCallInv' /\ InsFit'
    BY <1>3, <2>1, HandlerGoes DEF StrictUnmount, AdminSteps
  <2>3. /\ balance' \in [Pools -> BalanceTypes]
        /\ \A p \in Pools : balance'[p].by # "none" => balance'[p].to \in Profiles
    BY <1>3, <1>k DEF StrictUnmount, KernelTypes, BalanceTypes, ConvInv
  <2>4. BesideInv'
    BY <1>3, <1>a, <1>k, <2>3, KernelMoves DEF StrictUnmount, KernelTypes
  <2>5. OwnFs' /\ ScanTypes'
    BY <1>3, <1>a DEF StrictUnmount, OwnFs, ScanTypes
  <2> QED
    BY <2>2, <2>4, <2>5 DEF AdminInv, AnyCall
<1>4. CASE DropFstab
  <2>1. AdminCallInv
    BY <1>4, <1>a, HandlerStep DEF DropFstab, AdminSteps
  <2>2. AdminCallInv' /\ InsFit'
    BY <1>4, <2>1, HandlerGoes DEF DropFstab, AdminSteps
  <2>3. BesideInv'
    BY <1>4, <1>a, <1>k, KernelMoves DEF DropFstab, KernelTypes, ConvInv
  <2>4. OwnFs' /\ ScanTypes'
    BY <1>4, <1>a DEF DropFstab, OwnFs, ScanTypes
  <2> QED
    BY <2>2, <2>3, <2>4 DEF AdminInv, AnyCall
<1>5. ASSUME NEW W \in SUBSET Disks, WipeAll(W) PROVE AdminInv'
  <2>1. AdminCallInv
    BY <1>5, <1>a, HandlerStep DEF WipeAll, AdminSteps
  <2>2. AdminCallInv' /\ InsFit'
    BY <1>5, <2>1, HandlerGoes DEF WipeAll, AdminSteps
  <2>3. disk' \in [Disks -> Pools \cup {NoPool}] /\ OwnFs'
    BY <1>5, <1>a, WipeKeeps DEF WipeAll
  <2>4. BesideInv'
    BY <1>5, <1>a, <1>k, <2>3, AfterTypes, KernelMoves DEF WipeAll, KernelTypes
  <2>5. ScanTypes'
    BY <1>5, <1>a DEF WipeAll, ScanTypes
  <2> QED
    BY <2>2, <2>3, <2>4, <2>5 DEF AdminInv, AnyCall
<1>6. ASSUME NEW next \in Pools \cup {NoPool}, RemovePoolFromDB(next) PROVE AdminInv'
  <2>1. call' = Idle /\ primary' = next /\ UNCHANGED <<kernel, observer, imports>>
    BY <1>6 DEF RemovePoolFromDB
  <2>2. ops' \in [Ops -> OpTypes]
        /\ \A o \in Ops : ops'[o].kind = ops[o].kind /\ ops'[o].to = ops[o].to
    BY <1>6, <1>k, DetachedType DEF RemovePoolFromDB, DbTypes
  <2>3. DeletePool(call.pool)
    BY <1>6 DEF RemovePoolFromDB
  <2>4. DbTypes' /\ DeviceExclusive' /\ OwnFs' /\ heal' \subseteq heal
    <3>1. \A d \in Disks : members'[d] \subseteq members[d]
      BY <1>k, <2>3 DEF DeletePool, DbTypes
    <3>2. members' \in [Disks -> SUBSET Pools]
      BY <1>k, <2>3 DEF DeletePool, DbTypes
    <3>3. DeviceExclusive' /\ OwnFs'
      BY <1>a, <2>1, <3>1 DEF BesideInv, DeviceExclusive, OwnFs
    <3> QED
      BY <1>k, <2>2, <2>3, <3>2, <3>3 DEF DeletePool, DbTypes
  <2>5. BesideInv'
    <3>1. KernelTypes' /\ BesideTypes'
      BY <1>6, <1>k, <2>1, <2>4 DEF RemovePoolFromDB, KernelTypes, BesideTypes
    <3>2. BootInv' /\ ConvInv'
      BY <1>6, <1>a, <2>1, <2>2 DEF RemovePoolFromDB, BesideInv, BootInv, ConvInv
    <3> QED
      BY <2>4, <3>1, <3>2 DEF BesideInv
  <2>6. ScanTypes'
    BY <1>a, <2>1 DEF ScanTypes
  <2> QED
    BY <2>1, <2>4, <2>5, <2>6, IdleCall, IdleFits DEF AdminInv, AnyCall
<1> QED
  BY <1>1, <1>2, <1>3, <1>4, <1>5, <1>6 DEF ByName

\* An import: what it saw is still so when it assigns its disks, which then
\* carry its filesystem, so no other pool has them.
LEMMA ImportInv == AdminInv /\ ImportsTrue /\ Import => AdminInv'
<1> SUFFICES ASSUME AdminInv, ImportsTrue, Import PROVE AdminInv'
  OBVIOUS
<1> USE DEF db, kernel, observer
<1>a. BesideInv /\ AnyCall /\ OwnFs /\ InsFit /\ ScanTypes
  BY DEF AdminInv
<1>k. KernelTypes /\ ConvInv /\ DbTypes /\ BesideTypes
  BY <1>a DEF BesideInv
<1>1. ASSUME NEW r \in imports, ImportMount(r) PROVE AdminInv'
  <2> DEFINE to == IF r.df = NoProfile THEN CHOOSE a \in Profiles : MinDisks[a] = 1 ELSE r.df
  <2>1. r.pool \in Pools /\ r.on \subseteq Disks /\ to \in Profiles
    <3>1. r \in Imports
      BY <1>a DEF ScanTypes
    <3>2. (CHOOSE a \in Profiles : MinDisks[a] = 1) \in Profiles
      BY SingleAssumption
    <3> QED
      BY <3>1, <3>2 DEF Imports
  <2> HIDE DEF to
  <2>2. /\ call' = [Idle EXCEPT !.kind = "import", !.pool = r.pool, !.ins = r.on, !.to = to,
                                !.step = "adopt"]
        /\ phase = "up" /\ phase' = phase /\ imports' \subseteq imports
    BY <1>1 DEF ImportMount, Serve, to
  <2>3. AdminCallInv' /\ InsFit'
    <3>1. /\ call'.kind = "import" /\ call'.pool = r.pool /\ call'.outs = {}
          /\ call'.to = to /\ call'.step = "adopt" /\ call' \in AdminCalls
      BY <2>1, <2>2, NoneAssumption DEF Idle, AdminCalls, AdminSteps
    <3> QED
      BY <2>1, <2>2, <3>1 DEF AdminCallInv, InsFit
  <2>4. /\ mounted' \subseteq Pools /\ balance' \in [Pools -> BalanceTypes]
        /\ \A q \in Pools : balance'[q].by # "none" => balance'[q].to \in Profiles
    <3>1. CASE r.mounted
      BY <1>1, <1>k, <3>1 DEF ImportMount, KernelTypes, ConvInv
    <3>2. CASE ~r.mounted
      BY <1>1, <1>k, <2>1, <3>2, MountType DEF ImportMount
    <3> QED
      BY <3>1, <3>2
  <2>5. BesideInv'
    BY <1>1, <1>a, <1>k, <2>4, KernelMoves DEF ImportMount, KernelTypes
  <2>6. OwnFs' /\ ScanTypes'
    BY <1>1, <1>a, <2>2 DEF ImportMount, OwnFs, ScanTypes
  <2> QED
    BY <2>3, <2>5, <2>6 DEF AdminInv, AnyCall
<1>2. ASSUME NEW r \in imports, ImportRefused(r) PROVE AdminInv'
  <2>1. BesideInv' /\ AnyCall' /\ OwnFs' /\ InsFit'
    BY <1>2, LayoutStays DEF ImportRefused
  <2>2. ScanTypes'
    BY <1>2, <1>a DEF ImportRefused, ScanTypes
  <2> QED
    BY <2>1, <2>2 DEF AdminInv
<1>3. CASE ImportPersist
  <2>1. AdminCallInv
    BY <1>3, <1>a, HandlerStep DEF ImportPersist, AdminSteps
  <2>2. /\ call.pool \in Pools /\ call.to \in Profiles /\ call.ins \subseteq Disks
    BY <1>3, <2>1 DEF ImportPersist, AdminCallInv, AdminCalls
  <2>3. \A d \in call.ins : disk[d] = call.pool
    BY <1>3 DEF ImportPersist, ImportsTrue
  <2>4. \A d \in Disks : members'[d] = IF d \in call.ins THEN members[d] \cup {call.pool}
                                         ELSE members[d]
    BY <1>3 DEF ImportPersist
  <2>5. \A d \in call.ins : members[d] \subseteq {call.pool}
    <3>1. call.pool # NoPool
      BY <2>2, NoneAssumption
    <3> QED
      BY <1>a, <2>2, <2>3, <3>1 DEF OwnFs
  <2>6. DeviceExclusive' /\ OwnFs'
    <3>1. disk' = disk
      BY <1>3 DEF ImportPersist
    <3>2. OwnFs'
      BY <1>a, <2>3, <2>4, <3>1 DEF OwnFs
    <3>3. DeviceExclusive'
      BY <1>a, <2>4, <2>5 DEF BesideInv, DeviceExclusive
    <3> QED
      BY <3>2, <3>3
  <2>7. DbTypes'
    BY <1>3, <1>k, <2>2 DEF ImportPersist, DbTypes
  <2>8. BesideInv'
    <3>1. KernelTypes' /\ BesideTypes'
      BY <1>3, <1>k DEF ImportPersist, KernelTypes, BesideTypes
    <3>2. BootInv' /\ ConvInv'
      BY <1>3, <1>a DEF ImportPersist, BesideInv, BootInv, ConvInv
    <3> QED
      BY <2>6, <2>7, <3>1, <3>2 DEF BesideInv
  <2>9. AdminCallInv' /\ InsFit'
    <3>1. call' = [call EXCEPT !.step = "addFstab"]
      BY <1>3 DEF ImportPersist, Goto
    <3>2. /\ call' \in AdminCalls /\ call'.step = "addFstab" /\ call'.kind = call.kind
          /\ call'.outs = call.outs /\ call'.pool = call.pool
      BY <2>1, <3>1 DEF AdminCallInv, AdminCalls, AdminSteps
    <3>3. \A d \in call.outs : d \in Disks
      BY <2>1 DEF AdminCallInv, AdminCalls
    <3>4. phase' = phase
      BY <1>3 DEF ImportPersist
    <3>5. AdminCallInv'
      BY <2>1, <2>4, <3>2, <3>3, <3>4 DEF AdminCallInv
    <3>6. call'.kind \notin {"remove", "destroy"}
      BY <3>2 DEF AdminCalls
    <3> QED
      BY <3>2, <3>5, <3>6 DEF InsFit
  <2>10. ScanTypes'
    BY <1>3, <1>a, <2>2 DEF ImportPersist, ScanTypes
  <2> QED
    BY <2>6, <2>8, <2>9, <2>10 DEF AdminInv, AnyCall
<1>4. CASE ImportFstab
  <2>1. AdminCallInv
    BY <1>4, <1>a, HandlerStep DEF ImportFstab, AdminSteps
  <2>2. call.pool \in Pools
    BY <2>1 DEF AdminCallInv, AdminCalls
  <2>3. BesideInv'
    BY <1>4, <1>a, <1>k, <2>2, KernelMoves DEF ImportFstab, KernelTypes, ConvInv
  <2>4. OwnFs' /\ ScanTypes'
    BY <1>4, <1>a DEF ImportFstab, OwnFs, ScanTypes
  <2>5. call' = Idle
    BY <1>4 DEF ImportFstab
  <2> QED
    BY <2>3, <2>4, <2>5, IdleCall, IdleFits DEF AdminInv, AnyCall
<1>5. CASE ImportFails
  <2>1. call' = Idle /\ ScanTypes' /\ OwnFs'
    BY <1>5, <1>a DEF ImportFails, ScanTypes, OwnFs
  <2>2. BesideInv'
    BY <1>5, <1>a, <1>k, KernelMoves DEF ImportFails, KernelTypes, ConvInv
  <2> QED
    BY <2>1, <2>2, IdleCall, IdleFits DEF AdminInv, AnyCall
<1>6. CASE \E p \in Pools : BeginImport(p)
  BY <1>6, ScanInv
<1> QED
  BY <1>1, <1>2, <1>3, <1>4, <1>5, <1>6 DEF Import

\* The wipe of one disk holds the lock from its judgement to its end, so what
\* changes is the disk, and what the kernel had on it.
LEMMA WipeDiskInv ==
  ASSUME AdminInv, NEW d \in Disks, NEW force \in BOOLEAN, NEW written \in BOOLEAN,
         NEW off \in SUBSET Pools, WipeDisk(d, force, off, written)
  PROVE  AdminInv'
<1> DEFINE after == BalanceAfter(disk')
<1>a. BesideInv /\ AnyCall /\ OwnFs /\ InsFit /\ ScanTypes
  BY DEF AdminInv
<1>k. KernelTypes /\ ConvInv /\ call = Idle
  BY <1>a DEF BesideInv, WipeDisk, Serve
<1>1. /\ call' = Idle /\ phase' = phase /\ members' = members
      /\ UNCHANGED <<db, born, fstab, due, phase, conv, heal, watch, orphans, remount, drift,
                     bootstep, crashes>>
  BY <1>k DEF WipeDisk, daemon, db
<1>2. disk' \in [Disks -> Pools \cup {NoPool}] /\ OwnFs'
  BY <1>a, <1>1, WipeKeeps DEF WipeDisk
<1>3. /\ data' \in [Pools -> SUBSET Profiles] /\ copying' \subseteq Disks \X Disks
      /\ after \in [Pools -> BalanceTypes]
      /\ \A p \in Pools : after[p].by # "none" => after[p].to \in Profiles
  BY <1>k, <1>2, AfterTypes DEF WipeDisk
<1>4. balance' = [p \in Pools |-> IF p \in off /\ after[p].by = "kernel"
                                   THEN [balance[p] EXCEPT !.by = "paused"] ELSE after[p]]
  BY DEF WipeDisk
<1> HIDE DEF after
<1>5. ASSUME NEW p \in Pools, p \in off, after[p].by = "kernel"
      PROVE  /\ [balance[p] EXCEPT !.by = "paused"] \in BalanceTypes
             /\ [balance[p] EXCEPT !.by = "paused"].to \in Profiles
  <2>1. balance[p].to \in Profiles
    <3>1. after[p] = balance[p] \/ after[p].by = "none"
      BY DEF after, BalanceAfter, NoBalance
    <3> QED
      BY <1>5, <1>k, <3>1 DEF ConvInv, KernelTypes, BalanceTypes
  <2> QED
    BY <1>k, <2>1 DEF KernelTypes, BalanceTypes
<1>6. /\ balance' \in [Pools -> BalanceTypes]
      /\ \A p \in Pools : balance'[p].by # "none" => balance'[p].to \in Profiles
  BY <1>3, <1>4, <1>5
<1>7. mounted' \subseteq Pools /\ fstab' \subseteq Pools
  BY <1>k, <1>1 DEF WipeDisk, KernelTypes
<1>8. BesideInv'
  BY <1>a, <1>1, <1>2, <1>3, <1>6, <1>7, KernelMoves
<1>9. ScanTypes'
  BY <1>a DEF WipeDisk, ScanTypes, observer
<1> QED
  BY <1>1, <1>2, <1>8, <1>9, IdleCall, IdleFits DEF AdminInv, AnyCall

-----------------------------------------------------------------------------
\* Every step keeps the invariant.
LEMMA NextAdminInv == AdminInv /\ [AdminNext /\ ImportsTrue]_adminVars => AdminInv'
<1> SUFFICES ASSUME AdminInv, [AdminNext /\ ImportsTrue]_adminVars PROVE AdminInv'
  OBVIOUS
<1>1. CASE UNCHANGED adminVars
  <2>1. BesideInv' /\ AnyCall' /\ OwnFs' /\ InsFit'
    BY <1>1, LayoutStays DEF adminVars
  <2>2. ScanTypes'
    BY <1>1 DEF adminVars, observer, AdminInv, ScanTypes
  <2> QED
    BY <2>1, <2>2 DEF AdminInv
<1> QED
  BY <1>1, LayoutInv, ScanInv, ByNameInv, ImportInv, WipeDiskInv DEF AdminNext

\* The invariant that the safety of the disks rests on when the handlers by
\* name, the imports and the wipes work beside the service.
THEOREM AdminSafety == TrueSpec => []AdminInv
BY InitAdminInv, NextAdminInv, PTL DEF TrueSpec

\* Every variable of the handlers stays in its domain.
THEOREM AdminTypes == TrueSpec => []AdminTypeOK
<1>1. AdminInv => AdminTypeOK
  <2> SUFFICES ASSUME AdminInv PROVE AdminTypeOK
    OBVIOUS
  <2>1. call.step \in {"idle", "validated", "run", "wipe", "persist", "failing"}
          \/ call.step \in AdminSteps
    BY DEF AdminInv, AnyCall, AdminCallInv, CallTypes, AdminCalls
  <2> QED
    BY <2>1 DEF AdminInv, ScanTypes, Imports, AdminTypeOK, AdminSteps
<1> QED
  BY <1>1, AdminSafety, PTL

\* No two pools share a disk, an imported one included, as long as what the
\* import saw is still so when it assigns the disks: nothing else is asked.
THEOREM AdminDisksExclusive == TrueSpec => []DeviceExclusive
<1>1. AdminInv => DeviceExclusive
  BY DEF AdminInv, BesideInv
<1> QED
  BY <1>1, AdminSafety, PTL

-----------------------------------------------------------------------------
(* Whose disks a call changes *)

\* What a handler changes is what its pool has when it took the lock, and the
\* rest of its steps write no superblock.
LEMMA HandlersSpare ==
  ASSUME AdminInv, ByName \/ Import, NEW d \in Disks, disk'[d] # disk[d]
  PROVE  members[d] \subseteq {call.pool}
<1> USE DEF kernel
<1>1. CASE Import
  BY <1>1 DEF Import, BeginImport, ImportMount, ImportRefused, ImportPersist, ImportFstab,
              ImportFails, vars
<1>2. CASE ByName
  <2>1. PICK W \in SUBSET Disks : WipeAll(W)
    BY <1>2 DEF ByName, BeginByName, StrictUnmountFails, StrictUnmount, DropFstab,
                RemovePoolFromDB, RemovePoolFails
  <2>2. d \in call.outs
    <3>1. disk \in [Disks -> Pools \cup {NoPool}]
      BY DEF AdminInv, BesideInv, KernelTypes
    <3> QED
      BY <2>1, <3>1 DEF WipeAll, WipedDisks
  <2>3. AdminCallInv
    BY <2>1, HandlerStep DEF AdminInv, WipeAll, AdminSteps
  <2>4. call.pool \in members[d]
    BY <2>2, <2>3 DEF AdminCallInv
  <2> QED
    BY <2>4 DEF AdminInv, BesideInv, DeviceExclusive
<1> QED
  BY <1>1, <1>2

\* A step of the layout does not either, whoever holds the lock.
LEMMA LayoutSpares ==
  ASSUME AdminInv, Next, call' # call, NEW d \in Disks, disk'[d] # disk[d]
  PROVE  members[d] \subseteq {call.pool}
<1>1. CASE call \in CallTypes /\ CallInv
  <2>1. DiskInv
    BY <1>1, DiskInvParts DEF AdminInv
  <2>2. Commands
    BY OthersSpare
  <2> QED
    BY <2>1, <2>2, CommandSpares
<1>2. CASE AdminCallInv
  <2>1. Crash \/ Reboot
    BY <1>2, BesideHandler, BesideKeeps DEF AdminInv, BesideInv
  <2> QED
    BY <2>1 DEF Crash, Reboot, kernel
<1> QED
  BY <1>1, <1>2 DEF AdminInv, AnyCall

\* No call, the `wipefs -af` of a destruction by name included, changes a disk
\* that is assigned to another pool than its own.
THEOREM OthersSpared == TrueSpec => CallsSpareOthers
<1> DEFINE Spares == call' # call => \A d \in Disks : disk'[d] # disk[d] =>
                                       members[d] \subseteq {call.pool}
<1>1. AdminInv /\ [AdminNext /\ ImportsTrue]_adminVars => Spares
  <2> SUFFICES ASSUME AdminInv, [AdminNext /\ ImportsTrue]_adminVars, call' # call,
                      NEW d \in Disks, disk'[d] # disk[d]
               PROVE  members[d] \subseteq {call.pool}
    OBVIOUS
  <2>1. CASE LayoutStep
    BY <2>1, LayoutSpares DEF LayoutStep
  <2>2. CASE ByName \/ Import
    BY <2>2, HandlersSpare
  <2>3. ~(ScanProbe \/ ScanPublish \/ UNCHANGED adminVars)
    BY DEF ScanProbe, ScanPublish, adminVars, vars, daemon
  <2>4. ASSUME NEW e \in Disks, NEW force \in BOOLEAN, NEW written \in BOOLEAN,
               NEW off \in SUBSET Pools, WipeDisk(e, force, off, written)
        PROVE  FALSE
    BY <2>4 DEF WipeDisk, daemon
  <2> QED
    BY <2>1, <2>2, <2>3, <2>4 DEF AdminNext
<1>2. AdminInv /\ [AdminNext /\ ImportsTrue]_adminVars => [Spares]_adminVars
  BY <1>1
<1> QED
  BY <1>2, AdminSafety, PTL DEF TrueSpec, CallsSpareOthers

\* The wipe of one disk that judges by an up-to-date snapshot leaves what the
\* pools of the table have as it is: nothing else writes while no call runs
\* and nothing is being replaced.
THEOREM FreshWipes == TrueSpec => FreshWipeSpares
<1> DEFINE Spares == call = Idle /\ call' = Idle /\ snap.on = disk /\ snap.managed = rows
                       /\ copying = {}
                     => \A d \in Disks : disk[d] \in rows => disk'[d] = disk[d]
<1>1. AdminInv /\ [AdminNext /\ ImportsTrue]_adminVars => Spares
  <2> SUFFICES ASSUME AdminInv, [AdminNext /\ ImportsTrue]_adminVars,
                      call = Idle, call' = Idle, snap.on = disk, snap.managed = rows,
                      copying = {}, NEW d \in Disks, disk[d] \in rows
               PROVE  disk'[d] = disk[d]
    OBVIOUS
  <2> USE DEF kernel
  <2>1. CASE LayoutStep
    <3>1. Next /\ ~Commands
      BY <2>1 DEF LayoutStep, Commands, RunFails, RunWipes, RunWipe, RunCreate, RunUnmount,
                  RunAdd, RunRemove, RunReplace, Running, Idle
    <3>2. CASE Requests
      BY <3>2, RequestsKeep
    <3>3. CASE CallSteps
      BY <3>1, <3>3 DEF CallSteps, OpenOp, RefuseOp, Persist, PersistFails, FailCall
    <3>4. CASE BootSteps
      <4>1. ASSUME NEW o \in Ops, RecoverySteps(o) PROVE disk' = disk
        BY <4>1 DEF RecoverySteps, RecoverCreate, RecoverDestroyRow, RecoverDestroy,
                    RecoverLayout, Readopt, RecoverSkips
      <4> QED
        BY <3>4, <4>1 DEF BootSteps, StartDaemon, ServeHTTP, ReconcileMount, DetectDrift,
                          CheckDrift, DriftDone
    <3>5. CASE KernelSteps
      BY <3>5 DEF KernelSteps, BalanceMoves, BalanceEnds, FstabMount, ReplaceEnds
    <3>6. ASSUME NEW o \in Ops, ConvSteps(o) \/ WatchSteps(o) PROVE disk' = disk
      BY <3>6 DEF ConvSteps, ConvStart, ConvPersist, ConvPersistFails, ConvFail,
                  WatchSteps, WatchDone, WatchExpires
    <3>7. ASSUME NEW h \in heal, NEW ok \in BOOLEAN, SelfHeal(h, ok) PROVE disk' = disk
      BY <3>7 DEF SelfHeal
    <3>8. CASE DeviceReappears \/ Crash \/ Reboot
      BY <3>8 DEF DeviceReappears, Crash, Reboot
    <3> QED
      BY <3>1, <3>2, <3>3, <3>4, <3>5, <3>6, <3>7, <3>8 DEF Next
  <2>2. CASE ByName \/ Import
    BY <2>2 DEF ByName, BeginByName, StrictUnmountFails, StrictUnmount, DropFstab, WipeAll,
                RemovePoolFromDB, RemovePoolFails, Import, BeginImport, ImportMount,
                ImportRefused, ImportPersist, ImportFstab, ImportFails, vars, Idle
  <2>3. CASE ScanProbe \/ ScanPublish \/ UNCHANGED adminVars
    BY <2>3 DEF ScanProbe, ScanPublish, adminVars, vars
  <2>4. ASSUME NEW e \in Disks, NEW force \in BOOLEAN, NEW written \in BOOLEAN,
               NEW off \in SUBSET Pools, WipeDisk(e, force, off, written)
        PROVE  disk'[d] = disk[d]
    <3>1. disk[e] \notin rows
      BY <2>4, NoneAssumption DEF WipeDisk, PassesPreFlight, AdminInv, BesideInv, DbTypes
    <3> QED
      BY <2>4, <3>1 DEF WipeDisk, WipedDisks
  <2> QED
    BY <2>1, <2>2, <2>3, <2>4 DEF AdminNext
<1>2. AdminInv /\ [AdminNext /\ ImportsTrue]_adminVars => [Spares]_adminVars
  BY <1>1
<1> QED
  BY <1>2, AdminSafety, PTL DEF TrueSpec, FreshWipeSpares

-----------------------------------------------------------------------------
(* The primary pool *)

\* Where nobody asks the service to destroy a pool, no step of the layout takes
\* a row away: neither a call nor the recovery of one.
LEMMA LayoutGrows ==
  ASSUME AdminInv, "destroy" \notin Kinds, Next
  PROVE  rows \subseteq rows'
<1> USE DEF db
<1>t. /\ \A o \in Ops : ops[o].kind # "destroy"
      /\ call.kind # "destroy"
  <2>1. \A o \in Ops : ops[o].kind \in Kinds \cup {"none"}
    BY DEF AdminInv, BesideInv, DbTypes, OpTypes
  <2>2. call.kind \in Kinds \cup {"none", "destroyByName", "exportByName", "import"}
    BY DEF AdminInv, AnyCall, CallTypes, AdminCallInv, AdminCalls
  <2> QED
    BY <2>1, <2>2
<1>1. CASE Requests
  BY <1>1, RequestsKeep
<1>2. CASE CallSteps
  <2>1. CASE Commands
    BY <2>1 DEF Commands, RunFails, RunWipes, RunWipe, RunCreate, RunUnmount, RunAdd,
                RunRemove, RunReplace
  <2>2. CASE Persist
    BY <1>t, <2>2 DEF Persist, PersistCreate, PersistDestroy, PersistMembers
  <2> QED
    BY <1>2, <2>1, <2>2 DEF CallSteps, OpenOp, RefuseOp, PersistFails, FailCall
<1>3. CASE BootSteps
  <2>1. ASSUME NEW o \in Ops, RecoverySteps(o) PROVE rows' = rows
    BY <1>t, <2>1 DEF RecoverySteps, RecoverCreate, RecoverDestroyRow, RecoverDestroy,
                      RecoverLayout, Readopt, RecoverSkips
  <2>2. CASE StartDaemon \/ ServeHTTP
    BY <2>2 DEF StartDaemon, ServeHTTP
  <2> QED
    BY <1>3, <2>1, <2>2, BesideKeeps DEF BootSteps, BesideSteps
<1>4. CASE Crash \/ Reboot
  BY <1>4 DEF Crash, Reboot, DaemonDies
<1> QED
  BY <1>1, <1>2, <1>3, <1>4, BesideKeeps DEF Next, BesideSteps

\* primary_pool names a pool of the table or none, as long as pools are only
\* destroyed by name: removePoolFromDB passes it on with the row, and an import
\* sets it with its own.
THEOREM PrimaryKept == "destroy" \notin Kinds => (TrueSpec => []PrimaryExists)
<1> SUFFICES ASSUME "destroy" \notin Kinds PROVE TrueSpec => []PrimaryExists
  OBVIOUS
<1>1. AdminInit => PrimaryExists
  BY DEF AdminInit, PrimaryExists
<1>2. AdminInv /\ PrimaryExists /\ [AdminNext /\ ImportsTrue]_adminVars => PrimaryExists'
  <2> SUFFICES ASSUME AdminInv, PrimaryExists, [AdminNext /\ ImportsTrue]_adminVars
               PROVE  PrimaryExists'
    OBVIOUS
  <2> USE DEF PrimaryExists
  <2>1. CASE LayoutStep
    BY <2>1, LayoutGrows DEF LayoutStep
  <2>2. CASE UNCHANGED <<rows, primary>>
    BY <2>2
  <2>3. ASSUME NEW next \in Pools \cup {NoPool}, RemovePoolFromDB(next) PROVE PrimaryExists'
    <3>1. rows' = rows \ {call.pool}
      BY <2>3 DEF RemovePoolFromDB, DeletePool
    <3> QED
      BY <2>3, <3>1 DEF RemovePoolFromDB
  <2>4. CASE ImportPersist
    BY <2>4 DEF ImportPersist
  <2>5. CASE ScanProbe \/ ScanPublish \/ UNCHANGED adminVars
    BY <2>2, <2>5 DEF ScanProbe, ScanPublish, adminVars, vars, db
  <2>6. ASSUME NEW d \in Disks, NEW force \in BOOLEAN, NEW written \in BOOLEAN,
               NEW off \in SUBSET Pools, WipeDisk(d, force, off, written)
        PROVE  PrimaryExists'
    BY <2>2, <2>6 DEF WipeDisk, db
  <2>7. CASE ByName
    BY <2>2, <2>3, <2>7 DEF ByName, BeginByName, StrictUnmountFails, StrictUnmount, DropFstab,
                            WipeAll, RemovePoolFails, db
  <2>8. CASE Import
    BY <2>2, <2>4, <2>8 DEF Import, BeginImport, ImportMount, ImportRefused, ImportFstab,
                            ImportFails, vars, db
  <2> QED
    BY <2>1, <2>5, <2>6, <2>7, <2>8 DEF AdminNext
<1> QED
  BY <1>1, <1>2, AdminSafety, PTL DEF TrueSpec

=============================================================================
