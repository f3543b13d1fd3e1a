------------------------- MODULE StorageLayoutProofs -------------------------
(* Theorems about StorageLayout, for every set of pools, disks, operations    *)
(* and profiles.                                                              *)
EXTENDS StorageLayoutProperties, WellFoundedInduction, TLAPS

-----------------------------------------------------------------------------
(* The operators of the model *)

\* A non-empty set of profiles has one that `btrfs filesystem df` lists first.
LEMMA FirstProfileIn ==
  ASSUME NEW S \in SUBSET Profiles, S # {}
  PROVE  FirstProfile(S) \in S
<1> DEFINE R == OpToRel(<, Nat)
           T == {DfRank[a] : a \in S}
<1>1. T \subseteq Nat /\ T # {}
  BY DfRankAssumption
<1>2. PICK m \in T : \A n \in T : <<n, m>> \notin R
  <2> HIDE DEF T
  <2> QED
    BY <1>1, NatLessThanWellFounded, WFMin
<1>3. \A n \in T : <<n, m>> \in Nat \X Nat /\ ~(n < m)
  BY <1>1, <1>2 DEF OpToRel
<1>4. PICK a \in S : m = DfRank[a]
  BY <1>2
<1>5. ASSUME NEW b \in S PROVE DfRank[a] <= DfRank[b]
  <2>1. DfRank[b] \in T
    OBVIOUS
  <2>2. DfRank[a] \in Nat /\ DfRank[b] \in Nat
    BY DfRankAssumption
  <2>3. ~(DfRank[b] < DfRank[a])
    BY <1>3, <1>4, <2>1
  <2> QED
    BY <2>2, <2>3
<1> QED
  BY <1>4, <1>5 DEF FirstProfile

\* What a call or a recovery writes into the operations keeps their identity.
OpsKept ==
  \A o \in Ops : /\ ops'[o].kind = ops[o].kind /\ ops'[o].fs = ops[o].fs
                 /\ ops'[o].to = ops[o].to

\* Setting the status of one row keeps the table and every other row.
LEMMA SetStatusType ==
  ASSUME ops \in [Ops -> OpTypes], NEW o, NEW s \in {"absent", Active} \cup Terminal,
         ops' = SetStatus(o, s)
  PROVE  /\ ops' \in [Ops -> OpTypes] /\ OpsKept
         /\ \A r \in Ops : ops'[r].pool = ops[r].pool
         /\ \A r \in Ops : ops'[r].status = IF r = o THEN s ELSE ops[r].status
BY DEF OpTypes, SetStatus, OpsKept

\* Deleting a pool keeps the table and takes the pool from its operations.
LEMMA DetachedType ==
  ASSUME ops \in [Ops -> OpTypes], NEW p,
         NEW os \in [Ops -> OpTypes], ops' = Detached(p, os)
  PROVE  /\ ops' \in [Ops -> OpTypes]
         /\ \A o \in Ops : /\ ops'[o].kind = os[o].kind /\ ops'[o].fs = os[o].fs
                            /\ ops'[o].to = os[o].to /\ ops'[o].status = os[o].status
                            /\ ops'[o].pool = IF os[o].pool = p THEN NoPool ELSE os[o].pool
BY DEF OpTypes, Detached

\* markOperationFailed writes a status that the table knows.
LEMMA MarkType ==
  ASSUME ops \in [Ops -> OpTypes], NEW o, NEW s, MarkOperationFailed(o, s)
  PROVE  /\ ops' \in [Ops -> OpTypes] /\ OpsKept
         /\ \A r \in Ops : ops'[r].pool = ops[r].pool
         /\ \A r \in Ops : ops'[r].status = IF r = o THEN s ELSE ops[r].status
BY SetStatusType DEF MarkOperationFailed, Terminal

-----------------------------------------------------------------------------
(* The inductive invariant behind the safety of the disks *)

\* The call that holds storageMu: only a served daemon has one, from the
\* insertion of its row on it knows its operation, and what its checks saw of
\* the assignments is still so.
CallInv ==
  /\ phase # "up" => call = Idle
  /\ call.step = "idle" => call = Idle
  /\ call.step # "idle" => call.pool \in Pools /\ call.kind \in Kinds
  /\ call.step \in {"run", "wipe", "persist", "failing"} =>
       call.op \in Ops /\ call.kind # "convert"
  /\ call.step = "wipe" => call.kind = "destroy"
  /\ call.kind \in {"create", "convert"} => call.to \in Profiles
  /\ \A d \in call.ins : members[d] = {}
  /\ \A d \in call.outs : call.pool \in members[d]

\* Recovery is over before requests are served.
BootInv == orphans # {} => phase = "core"

\* A conversion, its goroutine and its balance know the profile they aim at.
ConvInv ==
  /\ \A o \in Ops : conv[o] # "none" => ops[o].kind = "convert"
  /\ \A o \in Ops : ops[o].kind = "convert" => ops[o].to \in Profiles
  /\ \A p \in Pools : balance[p].by # "none" => balance[p].to \in Profiles

DiskInv == TypeOK /\ CallInv /\ BootInv /\ ConvInv /\ DeviceExclusive

\* What it says besides the call, whatever call holds the lock.
BesideTypes ==
  /\ phase \in {"down", "core", "up"}
  /\ conv \in [Ops -> {"none", "start", "balancing", "persist", "failing"}]
  /\ heal \subseteq Pools \X Profiles
  /\ watch \subseteq Ops /\ orphans \subseteq Ops /\ remount \subseteq Pools
  /\ drift \subseteq Pools \X Profiles
  /\ bootstep \in {"mount", "drift", "done"}
  /\ crashes \in Nat
BesideInv ==
  DbTypes /\ KernelTypes /\ BesideTypes /\ BootInv /\ ConvInv /\ DeviceExclusive

\* The two together are DiskInv.
LEMMA DiskInvParts == DiskInv <=> BesideInv /\ call \in CallTypes /\ CallInv
BY DEF DiskInv, TypeOK, DaemonTypes, BesideTypes, BesideInv

\* The invariant holds of a fresh installation.
LEMMA InitDiskInv == Init => DiskInv
BY BoundsAssumption, NoneAssumption
   DEF Init, DiskInv, TypeOK, DbTypes, KernelTypes, DaemonTypes, CallTypes, OpTypes,
       BalanceTypes, CallInv, BootInv, ConvInv, DeviceExclusive, Idle, AbsentOp, NoBalance

-----------------------------------------------------------------------------
(* Every step preserves it *)

\* A profile served for a pool fits in the queue of self-heals.
LEMMA HealType ==
  ASSUME DbTypes, KernelTypes, heal \subseteq Pools \X Profiles,
         NEW p \in Pools, NEW served \in Served(p)
  PROVE  HealAfter(p, served) \subseteq Pools \X Profiles
<1>1. CASE served = profile[p]
  BY <1>1 DEF HealAfter
<1>2. CASE p \in mounted /\ data[p] # {} /\ served = FirstProfile(data[p])
  <2>1. served \in Profiles
    BY <1>2, FirstProfileIn DEF KernelTypes
  <2> QED
    BY <2>1 DEF HealAfter
<1> QED
  BY <1>1, <1>2 DEF Served

-----------------------------------------------------------------------------
(* Steps beside the call *)

\* They read the disks and write what they found, or belong to the kernel.
BesideSteps ==
  \/ \E p \in Pools : (\E served \in Profiles : Read(p, served)) \/ AcceptRecovery(p)
  \/ \E p \in Pools, ok \in BOOLEAN : ReconcileMount(p, ok)
  \/ \E served \in [rows -> Profiles] : DetectDrift(served)
  \/ \E e \in drift : CheckDrift(e)
  \/ DriftDone \/ DeviceReappears
  \/ KernelSteps
  \/ \E o \in Ops : ConvSteps(o) \/ WatchSteps(o)
  \/ \E h \in heal, ok \in BOOLEAN : SelfHeal(h, ok)

\* They leave alone what a call relies on.
LEMMA BesideKeeps == BesideSteps => UNCHANGED <<call, members, phase, rows, orphans>>
<1> SUFFICES ASSUME BesideSteps PROVE UNCHANGED <<call, members, phase, rows, orphans>>
  OBVIOUS
<1> USE DEF db
<1>1. CASE KernelSteps
  BY <1>1 DEF KernelSteps, BalanceMoves, BalanceEnds, FstabMount, ReplaceEnds, daemon
<1>2. ASSUME NEW o \in Ops, ConvSteps(o)
      PROVE  UNCHANGED <<call, members, phase, rows, orphans>>
  BY <1>2 DEF ConvSteps, ConvStart, ConvPersist, ConvPersistFails, ConvFail
<1>3. ASSUME NEW o \in Ops, WatchSteps(o)
      PROVE  UNCHANGED <<call, members, phase, rows, orphans>>
  BY <1>3 DEF WatchSteps, WatchDone, WatchExpires
<1>4. ASSUME NEW p \in Pools,
             (\E served \in Profiles : Read(p, served)) \/ AcceptRecovery(p)
               \/ \E ok \in BOOLEAN : ReconcileMount(p, ok)
      PROVE  UNCHANGED <<call, members, phase, rows, orphans>>
  BY <1>4 DEF Read, AcceptRecovery, ReconcileMount
<1>5. ASSUME DriftDone \/ DeviceReappears \/ (\E e \in drift : CheckDrift(e))
               \/ \E served \in [rows -> Profiles] : DetectDrift(served)
      PROVE  UNCHANGED <<call, members, phase, rows, orphans>>
  BY <1>5 DEF DriftDone, DeviceReappears, CheckDrift, DetectDrift
<1>6. ASSUME NEW h \in heal, NEW ok \in BOOLEAN, SelfHeal(h, ok)
      PROVE  UNCHANGED <<call, members, phase, rows, orphans>>
  BY <1>6 DEF SelfHeal
<1> QED
  BY <1>1, <1>2, <1>3, <1>4, <1>5, <1>6 DEF BesideSteps

\* Mounting a filesystem resumes its balance and touches nothing else.
LEMMA MountType ==
  ASSUME KernelTypes, ConvInv, NEW p \in Pools, MountEffect(p)
  PROVE  /\ mounted' \subseteq Pools
         /\ balance' \in [Pools -> BalanceTypes]
         /\ \A q \in Pools : balance'[q].by # "none" => balance'[q].to \in Profiles
BY DEF KernelTypes, BalanceTypes, ConvInv, MountEffect

\* The goroutine of a conversion keeps it, whatever call there is.
LEMMA ConvBeside == ASSUME NEW o \in Ops PROVE BesideInv /\ ConvSteps(o) => BesideInv'
<1> SUFFICES ASSUME BesideInv, ConvSteps(o) PROVE BesideInv'
  OBVIOUS
<1> USE DEF BesideInv, DbTypes, BesideTypes, BootInv, ConvInv, db, kernel
<1>1. CASE ConvStart(o)
  <2>1. ops[o].to \in Profiles
    BY <1>1 DEF ConvStart, ConvAt
  <2>2. /\ balance' \in [Pools -> BalanceTypes]
        /\ \A p \in Pools : balance'[p].by # "none" => balance'[p].to \in Profiles
    <3> DEFINE started == [by |-> "command", to |-> ops[o].to]
    <3>1. \/ balance' = [balance EXCEPT ![ops[o].fs] = started]
          \/ balance' = balance
      BY <1>1 DEF ConvStart
    <3>2. started \in BalanceTypes
      BY <2>1 DEF BalanceTypes
    <3>3. started.to \in Profiles
      BY <2>1
    <3> HIDE DEF started
    <3> QED
      BY <3>1, <3>2, <3>3 DEF KernelTypes
  <2>3. /\ conv' \in [Ops -> {"none", "start", "balancing", "persist", "failing"}]
        /\ \A r \in Ops : conv'[r] # "none" => conv[r] # "none"
    <3>1. PICK step \in {"balancing", "failing"} : conv' = [conv EXCEPT ![o] = step]
      BY <1>1 DEF ConvStart
    <3> QED
      BY <1>1, <3>1 DEF ConvStart, ConvAt
  <2>4. KernelTypes'
    BY <1>1, <2>2 DEF ConvStart, KernelTypes
  <2>5. ConvInv'
    <3>1. ConvInv /\ ops' = ops
      BY <1>1 DEF ConvStart
    <3> QED
      BY <2>2, <2>3, <3>1
  <2> QED
    BY <1>1, <2>3, <2>4, <2>5 DEF ConvStart, DeviceExclusive
<1>2. CASE ConvPersist(o)
  <2>1. ops' \in [Ops -> OpTypes] /\ OpsKept
    BY <1>2, SetStatusType DEF ConvPersist, Terminal
  <2>2. profile' \in [Pools -> Profiles \cup {NoProfile}]
    BY <1>2 DEF ConvPersist, OpTypes
  <2>3. /\ conv' \in [Ops -> {"none", "start", "balancing", "persist", "failing"}]
        /\ \A r \in Ops : conv'[r] # "none" => conv[r] # "none"
    BY <1>2 DEF ConvPersist, ConvAt
  <2>4. KernelTypes'
    BY <1>2 DEF ConvPersist, KernelTypes
  <2>5. ConvInv'
    <3>1. ConvInv /\ balance' = balance
      BY <1>2 DEF ConvPersist
    <3> QED
      BY <2>1, <2>3, <3>1 DEF OpsKept
  <2> QED
    BY <1>2, <2>1, <2>2, <2>3, <2>4, <2>5 DEF ConvPersist, DeviceExclusive
<1>3. CASE ConvPersistFails(o)
  BY <1>3 DEF ConvPersistFails, ConvAt, KernelTypes, DeviceExclusive
<1>4. ASSUME NEW s \in {"failed", Active}, ConvFail(o, s) PROVE BesideInv'
  <2>1. ops' \in [Ops -> OpTypes] /\ OpsKept
    BY <1>4, MarkType DEF ConvFail
  <2> QED
    BY <1>4, <2>1 DEF ConvFail, ConvAt, OpsKept, KernelTypes, DeviceExclusive
<1> HIDE DEF BesideInv
<1> QED
  BY <1>1, <1>2, <1>3, <1>4 DEF ConvSteps

\* So does the watcher of a balance taken over at boot.
LEMMA WatchBeside == ASSUME NEW o \in Ops PROVE BesideInv /\ WatchSteps(o) => BesideInv'
<1> SUFFICES ASSUME BesideInv, WatchSteps(o) PROVE BesideInv'
  OBVIOUS
<1> USE DEF BesideInv, DbTypes, BesideTypes, BootInv, ConvInv, kernel
<1>0. watch' = watch \ {o}
  BY DEF WatchSteps
<1>1. ASSUME NEW served \in Profiles \cup {NoProfile},
             NEW s \in {"completed", "failed", Active}, WatchDone(o, served, s)
      PROVE  BesideInv'
  <2>1. ops' \in [Ops -> OpTypes] /\ OpsKept
    BY <1>1, SetStatusType DEF WatchDone, Terminal
  <2>2. heal' \subseteq Pools \X Profiles
    <3>1. CASE ops[o].pool = NoPool
      BY <1>1, <3>1 DEF WatchDone
    <3>2. CASE ops[o].pool # NoPool
      <4>1. ops[o].pool \in Pools
        BY <3>2 DEF OpTypes
      <4>2. GetPool(ops[o].pool, served)
        BY <1>1, <3>2 DEF WatchDone
      <4> QED
        BY <4>1, <4>2, HealType DEF GetPool
    <3> QED
      BY <3>1, <3>2
  <2> QED
    BY <1>0, <1>1, <2>1, <2>2 DEF WatchDone, OpsKept, KernelTypes, DeviceExclusive
<1>2. ASSUME NEW s \in {"failed", Active}, WatchExpires(o, s) PROVE BesideInv'
  <2>1. ops' \in [Ops -> OpTypes] /\ OpsKept
    BY <1>2, MarkType DEF WatchExpires
  <2> QED
    BY <1>0, <1>2, <2>1 DEF WatchExpires, OpsKept, KernelTypes, DeviceExclusive
<1> HIDE DEF BesideInv
<1> QED
  BY <1>1, <1>2 DEF WatchSteps

\* The kernel keeps it: it knows nothing of the assignments.
LEMMA KernelBeside == BesideInv /\ KernelSteps => BesideInv'
<1> SUFFICES ASSUME BesideInv, KernelSteps PROVE BesideInv'
  OBVIOUS
<1> USE DEF BesideInv, DbTypes, BesideTypes, BootInv, ConvInv, db, daemon
<1>1. ASSUME NEW p \in Pools, BalanceMoves(p) PROVE BesideInv'
  <2>1. balance[p].to \in Profiles
    BY <1>1 DEF BalanceMoves, BalanceRuns
  <2> QED
    BY <1>1, <2>1 DEF BalanceMoves, KernelTypes, DeviceExclusive
<1>2. ASSUME NEW p \in Pools, NEW ok \in BOOLEAN, BalanceEnds(p, ok) PROVE BesideInv'
  <2>1. balance[p].to \in Profiles
    BY <1>2 DEF BalanceEnds, BalanceRuns
  <2>2. KernelTypes'
    BY <1>2, <2>1 DEF BalanceEnds, KernelTypes, BalanceTypes, NoBalance
  <2>3. conv' \in [Ops -> {"none", "start", "balancing", "persist", "failing"}]
    BY <1>2 DEF BalanceEnds
  <2>4. ConvInv'
    BY <1>2 DEF BalanceEnds, KernelTypes, BalanceTypes, NoBalance, ConvAt
  <2> QED
    BY <1>2, <2>2, <2>3, <2>4 DEF BalanceEnds, DeviceExclusive
<1>3. ASSUME NEW p \in Pools, FstabMount(p) PROVE BesideInv'
  <2>1. KernelTypes' /\ ConvInv'
    BY <1>3, MountType DEF FstabMount, KernelTypes
  <2> QED
    BY <1>3, <2>1 DEF FstabMount, DeviceExclusive
<1>4. ASSUME NEW c \in copying, NEW ok \in BOOLEAN, ReplaceEnds(c, ok) PROVE BesideInv'
  <2>1. disk' \in [Disks -> Pools \cup {NoPool}]
    BY <1>4 DEF ReplaceEnds, WipedDisks, KernelTypes
  <2>2. copying' \subseteq Disks \X Disks
    BY <1>4 DEF ReplaceEnds, KernelTypes
  <2> QED
    BY <1>4, <2>1, <2>2 DEF ReplaceEnds, KernelTypes, DeviceExclusive
<1> HIDE DEF BesideInv
<1> QED
  BY <1>1, <1>2, <1>3, <1>4 DEF KernelSteps

\* So does every step beside the call.
LEMMA NextBesideInv == BesideInv /\ BesideSteps => BesideInv'
<1> SUFFICES ASSUME BesideInv, BesideSteps PROVE BesideInv'
  OBVIOUS
<1> USE DEF BesideInv, DbTypes, BesideTypes, BootInv, ConvInv, db, kernel
<1>1. ASSUME NEW p \in Pools, NEW served \in Profiles, Read(p, served)
      PROVE  BesideInv'
  BY <1>1, HealType DEF Read, GetPool, KernelTypes, DeviceExclusive
<1>2. ASSUME NEW p \in Pools, AcceptRecovery(p)
      PROVE  BesideInv'
  <2>1. FirstProfile(data[p]) \in Profiles
    BY <1>2, FirstProfileIn DEF AcceptRecovery, KernelTypes
  <2> QED
    BY <1>2, <2>1 DEF AcceptRecovery, KernelTypes, DeviceExclusive
<1>3. ASSUME NEW p \in Pools, NEW ok \in BOOLEAN, ReconcileMount(p, ok) PROVE BesideInv'
  <2>1. KernelTypes' /\ ConvInv'
    <3>1. CASE ok
      BY <1>3, <3>1, MountType DEF ReconcileMount, KernelTypes
    <3>2. CASE ~ok
      BY <1>3, <3>2 DEF ReconcileMount, KernelTypes
    <3> QED
      BY <3>1, <3>2
  <2> QED
    BY <1>3, <2>1 DEF ReconcileMount, DeviceExclusive
<1>4. ASSUME NEW served \in [rows -> Profiles], DetectDrift(served) PROVE BesideInv'
  <2>1. heal' \subseteq Pools \X Profiles /\ drift' \subseteq Pools \X Profiles
    BY <1>4 DEF DetectDrift
  <2> QED
    BY <1>4, <2>1 DEF DetectDrift, KernelTypes, DeviceExclusive
<1>5. ASSUME NEW e \in drift, CheckDrift(e) PROVE BesideInv'
  BY <1>5 DEF CheckDrift, KernelTypes, DeviceExclusive
<1>6. CASE DriftDone
  BY <1>6 DEF DriftDone, KernelTypes, DeviceExclusive
<1>7. CASE DeviceReappears
  BY <1>7 DEF DeviceReappears, KernelTypes, DeviceExclusive
<1>8. ASSUME NEW h \in heal, NEW ok \in BOOLEAN, SelfHeal(h, ok) PROVE BesideInv'
  BY <1>8 DEF SelfHeal, KernelTypes, DeviceExclusive
<1> HIDE DEF BesideInv
<1> QED
  BY <1>1, <1>2, <1>3, <1>4, <1>5, <1>6, <1>7, <1>8, ConvBeside, WatchBeside, KernelBeside
     DEF BesideSteps

\* And the call keeps what it knows.
LEMMA BesideDiskInv == DiskInv /\ BesideSteps => DiskInv'
<1> SUFFICES ASSUME DiskInv, BesideSteps PROVE DiskInv'
  OBVIOUS
<1>1. BesideInv /\ call \in CallTypes /\ CallInv
  BY DiskInvParts
<1>2. BesideInv'
  BY <1>1, NextBesideInv
<1>3. call' \in CallTypes /\ CallInv'
  BY <1>1, BesideKeeps DEF CallInv
<1> QED
  BY <1>2, <1>3 DEF DiskInv, TypeOK, DaemonTypes, BesideTypes, BesideInv

-----------------------------------------------------------------------------
(* Requests, calls, recovery and crashes *)

\* A request keeps it: the checks it makes are what CallInv records.
LEMMA RequestsDiskInv == DiskInv /\ Requests => DiskInv'
<1> SUFFICES ASSUME DiskInv, Requests PROVE DiskInv'
  OBVIOUS
<1> USE DEF DiskInv, TypeOK, DbTypes, DaemonTypes, CallInv, BootInv, ConvInv, db, kernel
<1>1. ASSUME NEW p \in Pools, NEW ins \in SUBSET Disks, NEW to \in Profiles,
             NEW wipe \in BOOLEAN, BeginCreate(p, ins, to, wipe)
      PROVE  DiskInv'
  BY <1>1, NoneAssumption, KindsAssumption
     DEF BeginCreate, Serving, Lock, DeviceIsAssigned, CallTypes, KernelTypes,
         DeviceExclusive
<1>2. ASSUME NEW p \in Pools, NEW served \in Profiles,
             BeginDestroy(p, served)
      PROVE  DiskInv'
  BY <1>2, HealType, NoneAssumption, KindsAssumption
     DEF BeginDestroy, GetPool, Serving, Lock, DevicesOf, CallTypes, KernelTypes,
         DeviceExclusive
<1>3. ASSUME NEW p \in Pools, NEW served \in Profiles, NEW d \in Disks,
             NEW wipe \in BOOLEAN, BeginAdd(p, served, d, wipe)
      PROVE  DiskInv'
  BY <1>3, HealType, NoneAssumption, KindsAssumption
     DEF BeginAdd, GetPool, Serving, Lock, DeviceIsAssigned, CallTypes, KernelTypes,
         DeviceExclusive
<1>4. ASSUME NEW p \in Pools, NEW served \in Profiles, NEW d \in Disks,
             BeginRemove(p, served, d)
      PROVE  DiskInv'
  BY <1>4, HealType, NoneAssumption, KindsAssumption
     DEF BeginRemove, GetPool, Serving, Lock, DevicesOf, CallTypes, KernelTypes,
         DeviceExclusive
<1>5. ASSUME NEW p \in Pools, NEW served \in Profiles, NEW old \in Disks,
             NEW new \in Disks, BeginReplace(p, served, old, new)
      PROVE  DiskInv'
  BY <1>5, HealType, NoneAssumption, KindsAssumption
     DEF BeginReplace, GetPool, Serving, Lock, DevicesOf, DeviceIsAssigned, CallTypes,
         KernelTypes, DeviceExclusive
<1>6. ASSUME NEW p \in Pools, NEW served \in Profiles, NEW to \in Profiles,
             BeginConvert(p, served, to)
      PROVE  DiskInv'
  BY <1>6, HealType, NoneAssumption, KindsAssumption
     DEF BeginConvert, GetPool, Serving, Lock, CallTypes, KernelTypes, DeviceExclusive
<1> HIDE DEF DiskInv
<1> QED
  BY <1>1, <1>2, <1>3, <1>4, <1>5, <1>6, BesideDiskInv DEF Requests, BesideSteps

\* What a change of the disks leaves of data, balances and replacements.
LEMMA AfterTypes ==
  ASSUME KernelTypes, ConvInv, NEW dk
  PROVE  /\ DataAfter(dk) \in [Pools -> SUBSET Profiles]
         /\ BalanceAfter(dk) \in [Pools -> BalanceTypes]
         /\ \A p \in Pools : BalanceAfter(dk)[p].by # "none" =>
                              BalanceAfter(dk)[p].to \in Profiles
         /\ CopyingAfter(dk) \subseteq Disks \X Disks
BY DEF KernelTypes, BalanceTypes, ConvInv, DataAfter, BalanceAfter, CopyingAfter, NoBalance

\* A call that moves on keeps what it knows.
LEMMA GotoCall ==
  ASSUME call \in CallTypes, CallInv,
         call.step \in {"run", "wipe", "persist"},
         NEW step \in {"wipe", "persist", "failing"},
         step = "wipe" => call.kind = "destroy",
         Goto(step), members' = members, phase' = phase
  PROVE  call' \in CallTypes /\ CallInv'
<1>1. /\ call.step # "idle" /\ phase = "up"
      /\ call.pool \in Pools /\ call.kind \in Kinds
      /\ call.op \in Ops /\ call.kind # "convert"
      /\ call.kind = "create" => call.to \in Profiles
      /\ \A d \in call.ins : members[d] = {}
      /\ \A d \in call.outs : call.pool \in members[d]
  <2>1. call # Idle
    BY DEF Idle
  <2> QED
    BY <2>1 DEF CallInv
<1>2. /\ call' \in CallTypes
      /\ call'.step = step
      /\ call'.kind = call.kind /\ call'.pool = call.pool /\ call'.op = call.op
      /\ call'.to = call.to /\ call'.ins = call.ins /\ call'.outs = call.outs
  BY DEF Goto, CallTypes
<1> QED
  BY <1>1, <1>2 DEF CallInv

\* A Btrfs command keeps it: it assigns no disk.
LEMMA CommandsDiskInv == DiskInv /\ Commands => DiskInv'
<1> SUFFICES ASSUME DiskInv, Commands PROVE DiskInv'
  OBVIOUS
<1> USE DEF DiskInv, TypeOK, DbTypes, DaemonTypes, KernelTypes, BootInv, ConvInv, db
<1>c. call \in CallTypes
  OBVIOUS
<1>1. CASE RunFails
  <2>1. call' \in CallTypes /\ CallInv'
    BY <1>1, GotoCall DEF RunFails
  <2> QED
    BY <1>1, <2>1 DEF RunFails, DeviceExclusive, kernel
<1>2. ASSUME NEW W \in SUBSET Disks, RunWipes(W) PROVE DiskInv'
  <2>1. call' \in CallTypes /\ CallInv'
    BY <1>2, GotoCall DEF RunWipes
  <2>2. disk' \in [Disks -> Pools \cup {NoPool}]
    BY <1>2 DEF RunWipes, WipedDisks
  <2> QED
    BY <1>2, <2>1, <2>2, AfterTypes DEF RunWipes, DeviceExclusive
<1>3. ASSUME NEW W \in SUBSET Disks, RunWipe(W) PROVE DiskInv'
  <2>1. call' \in CallTypes /\ CallInv'
    BY <1>3, GotoCall DEF RunWipe
  <2>2. disk' \in [Disks -> Pools \cup {NoPool}]
    BY <1>3 DEF RunWipe, WipedDisks
  <2> QED
    BY <1>3, <2>1, <2>2, AfterTypes DEF RunWipe, DeviceExclusive
<1>4. ASSUME NEW up \in BOOLEAN, NEW ok \in BOOLEAN, RunCreate(up, ok) PROVE DiskInv'
  <2>1. call' \in CallTypes /\ CallInv'
    BY <1>4, GotoCall DEF RunCreate, Running
  <2>2. call.pool \in Pools /\ call.to \in Profiles
    BY <1>4 DEF RunCreate, Running, CallInv
  <2>3. disk' \in [Disks -> Pools \cup {NoPool}]
    BY <1>4, <2>2 DEF RunCreate
  <2>4. data' \in [Pools -> SUBSET Profiles]
    BY <1>4, <2>2, AfterTypes DEF RunCreate
  <2> QED
    BY <1>4, <2>1, <2>2, <2>3, <2>4, AfterTypes DEF RunCreate, DeviceExclusive
<1>5. CASE RunUnmount
  <2>1. call' \in CallTypes /\ CallInv'
    BY <1>5, GotoCall DEF RunUnmount, Running
  <2>2. KernelTypes' /\ ConvInv'
    BY <1>5 DEF RunUnmount, BalanceTypes
  <2> QED
    BY <1>5, <2>1, <2>2 DEF RunUnmount, DeviceExclusive
<1>6. ASSUME NEW ok \in BOOLEAN, RunAdd(ok) PROVE DiskInv'
  <2>1. call' \in CallTypes /\ CallInv'
    BY <1>6, GotoCall DEF RunAdd, Running
  <2>2. disk' \in [Disks -> Pools \cup {NoPool}]
    BY <1>6 DEF RunAdd, CallTypes
  <2> QED
    BY <1>6, <2>1, <2>2, AfterTypes DEF RunAdd, DeviceExclusive
<1>7. ASSUME NEW ok \in BOOLEAN, RunRemove(ok) PROVE DiskInv'
  <2>1. call' \in CallTypes /\ CallInv'
    BY <1>7, GotoCall DEF RunRemove, Running
  <2>2. disk' \in [Disks -> Pools \cup {NoPool}]
    BY <1>7 DEF RunRemove, WipedDisks
  <2> QED
    BY <1>7, <2>1, <2>2 DEF RunRemove, DeviceExclusive
<1>8. ASSUME NEW ok \in BOOLEAN, RunReplace(ok) PROVE DiskInv'
  <2>1. call' \in CallTypes /\ CallInv'
    BY <1>8, GotoCall DEF RunReplace, Running
  <2>2. disk' \in [Disks -> Pools \cup {NoPool}]
    BY <1>8 DEF RunReplace, CallTypes
  <2>3. copying' \subseteq Disks \X Disks
    <3>1. call.outs \X call.ins \subseteq Disks \X Disks
      BY <1>c DEF CallTypes
    <3> QED
      BY <1>8, <3>1, AfterTypes DEF RunReplace
  <2> QED
    BY <1>8, <2>1, <2>2, <2>3, AfterTypes DEF RunReplace, DeviceExclusive
<1> HIDE DEF DiskInv
<1> QED
  BY <1>1, <1>2, <1>3, <1>4, <1>5, <1>6, <1>7, <1>8 DEF Commands

\* A call that is over has nothing left to keep.
LEMMA IdleCall ==
  ASSUME call' = Idle
  PROVE  call' \in CallTypes /\ CallInv'
BY NoneAssumption, KindsAssumption DEF Idle, CallTypes, CallInv

\* The transaction that closes a call: the only place where a disk is assigned,
\* and what the call knows of the assignments makes it safe.
LEMMA PersistDiskInv == DiskInv /\ Persist => DiskInv'
<1> SUFFICES ASSUME DiskInv, Persist PROVE DiskInv'
  OBVIOUS
<1> USE DEF DiskInv, TypeOK, DbTypes, DaemonTypes, BootInv, ConvInv, kernel
<1>1. /\ call.pool \in Pools /\ call.op \in Ops
      /\ call.kind = "create" => call.to \in Profiles
      /\ \A d \in call.ins : members[d] = {}
  BY DEF Persist, CallInv
<1>2. call' \in CallTypes /\ CallInv' /\ KernelTypes'
  BY IdleCall DEF Persist, KernelTypes
<1>3. CASE PersistCreate
  <2>1. /\ ops' \in [Ops -> OpTypes]
        /\ \A o \in Ops : ops'[o].kind = ops[o].kind /\ ops'[o].to = ops[o].to
    BY <1>1, <1>3 DEF PersistCreate, OpTypes, Terminal
  <2>2. members' \in [Disks -> SUBSET Pools] /\ DeviceExclusive'
    BY <1>1, <1>3 DEF PersistCreate, DeviceExclusive
  <2> QED
    BY <1>1, <1>2, <1>3, <2>1, <2>2 DEF Persist, PersistCreate
<1>4. CASE PersistDestroy
  <2> DEFINE os == SetStatus(call.op, "completed")
  <2>1. /\ os \in [Ops -> OpTypes]
        /\ \A o \in Ops : os[o].kind = ops[o].kind /\ os[o].to = ops[o].to
    BY <1>1 DEF SetStatus, OpTypes, Terminal
  <2>2. /\ ops' \in [Ops -> OpTypes]
        /\ \A o \in Ops : ops'[o].kind = ops[o].kind /\ ops'[o].to = ops[o].to
    <3>1. ops' = Detached(call.pool, os)
      BY <1>4 DEF PersistDestroy
    <3> HIDE DEF os
    <3> QED
      BY <2>1, <3>1, DetachedType
  <2>3. members' \in [Disks -> SUBSET Pools] /\ DeviceExclusive'
    BY <1>4 DEF PersistDestroy, DeletePool, DeviceExclusive
  <2> QED
    BY <1>1, <1>2, <1>4, <2>2, <2>3 DEF Persist, PersistDestroy, DeletePool
<1>5. CASE PersistMembers
  <2>1. ops' \in [Ops -> OpTypes] /\ OpsKept
    BY <1>1, <1>5, SetStatusType DEF PersistMembers, Terminal
  <2>2. members' \in [Disks -> SUBSET Pools] /\ DeviceExclusive'
    BY <1>1, <1>5 DEF PersistMembers, DeviceExclusive
  <2> QED
    BY <1>1, <1>2, <1>5, <2>1, <2>2 DEF Persist, PersistMembers, OpsKept
<1> QED
  BY <1>3, <1>4, <1>5 DEF Persist

\* The other steps of a call keep it: they open or close its row.
LEMMA CallStepsDiskInv == DiskInv /\ CallSteps => DiskInv'
<1> SUFFICES ASSUME DiskInv, CallSteps PROVE DiskInv'
  OBVIOUS
<1> USE DEF DiskInv, TypeOK, DbTypes, DaemonTypes, BootInv, ConvInv, db, kernel
<1>1. ASSUME NEW o \in Ops, OpenOp(o) PROVE DiskInv'
  <2> DEFINE row == [kind |-> call.kind,
                     pool |-> IF call.kind = "create" THEN NoPool ELSE call.pool,
                     fs |-> call.pool, to |-> call.to, status |-> Active]
  <2>1. /\ call.pool \in Pools /\ call.kind \in Kinds /\ phase = "up"
        /\ call.kind = "convert" => call.to \in Profiles
        /\ call.kind = "create" => call.to \in Profiles
    <3>1. call # Idle
      BY <1>1 DEF OpenOp, Idle
    <3> QED
      BY <1>1, <3>1 DEF OpenOp, CallInv
  <2>2. row \in OpTypes
    BY <2>1 DEF OpTypes, CallTypes
  <2>3. ops' \in [Ops -> OpTypes] /\ ops' = [ops EXCEPT ![o] = row]
    BY <1>1, <2>2 DEF OpenOp
  <2>4. \A r \in Ops : ops'[r] = IF r = o THEN row ELSE ops[r]
    BY <2>3
  <2>5. /\ \A r \in Ops : conv'[r] # "none" => ops'[r].kind = "convert"
        /\ \A r \in Ops : ops'[r].kind = "convert" => ops'[r].to \in Profiles
        /\ conv' \in [Ops -> {"none", "start", "balancing", "persist", "failing"}]
    BY <1>1, <2>1, <2>4 DEF OpenOp, AbsentOp
  <2>6. call' \in CallTypes /\ CallInv'
    <3>1. CASE call.kind = "convert"
      BY <1>1, <3>1, IdleCall DEF OpenOp
    <3>2. CASE call.kind # "convert"
      <4>1. /\ call' \in CallTypes
            /\ call'.step = "run" /\ call'.op = o
            /\ call'.kind = call.kind /\ call'.pool = call.pool
            /\ call'.to = call.to /\ call'.ins = call.ins /\ call'.outs = call.outs
        <5>1. call' = [call EXCEPT !.op = o, !.step = "run"]
          BY <1>1, <3>2 DEF OpenOp
        <5> HIDE DEF DiskInv
        <5>2. call \in CallTypes
          BY DEF DiskInv
        <5> QED
          BY <5>1, <5>2 DEF CallTypes
      <4> QED
        BY <1>1, <2>1, <3>2, <4>1 DEF OpenOp, CallInv
    <3> QED
      BY <3>1, <3>2
  <2> QED
    BY <1>1, <2>3, <2>5, <2>6 DEF OpenOp, KernelTypes, DeviceExclusive
<1>2. CASE RefuseOp
  BY <1>2, IdleCall DEF RefuseOp, KernelTypes, DeviceExclusive
<1>3. CASE Commands
  BY <1>3, CommandsDiskInv
<1>4. CASE Persist
  BY <1>4, PersistDiskInv
<1>5. CASE PersistFails
  <2>1. call' \in CallTypes /\ CallInv'
    BY <1>5, GotoCall DEF PersistFails
  <2> QED
    BY <1>5, <2>1 DEF PersistFails, KernelTypes, DeviceExclusive
<1>6. ASSUME NEW s \in {"failed", Active}, FailCall(s) PROVE DiskInv'
  <2>1. ops' \in [Ops -> OpTypes] /\ OpsKept
    BY <1>6, MarkType DEF FailCall
  <2> QED
    BY <1>6, <2>1, IdleCall DEF FailCall, OpsKept, KernelTypes, DeviceExclusive
<1> HIDE DEF DiskInv
<1> QED
  BY <1>1, <1>2, <1>3, <1>4, <1>5, <1>6 DEF CallSteps

\* The recovery of an operation left behind keeps it: at boot no call runs.
LEMMA RecoveryDiskInv ==
  ASSUME NEW o \in Ops PROVE DiskInv /\ RecoverySteps(o) => DiskInv'
<1> SUFFICES ASSUME DiskInv, RecoverySteps(o) PROVE DiskInv'
  OBVIOUS
<1> USE DEF DiskInv, TypeOK, DbTypes, DaemonTypes, CallInv, BootInv, ConvInv, db, kernel
<1>1. ASSUME NEW s, Settle(o, s),
             UNCHANGED <<rows, profile, control, members, kernel, phase, call, conv,
                         heal, watch, remount, drift, bootstep, crashes>>
      PROVE  DiskInv'
  <2>1. ops' \in [Ops -> OpTypes] /\ OpsKept
    BY <1>1, SetStatusType DEF Settle
  <2> QED
    BY <1>1, <2>1 DEF Settle, OpsKept, KernelTypes, DeviceExclusive
<1>2. CASE RecoverCreate(o)
  BY <1>1, <1>2 DEF RecoverCreate
<1>3. CASE RecoverDestroyRow(o)
  <2>1. call = Idle /\ call' = Idle
    BY <1>3 DEF RecoverDestroyRow
  <2>2. /\ ops' \in [Ops -> OpTypes]
        /\ \A r \in Ops : ops'[r].kind = ops[r].kind /\ ops'[r].to = ops[r].to
    BY <1>3, DetachedType DEF RecoverDestroyRow
  <2>3. members' \in [Disks -> SUBSET Pools] /\ DeviceExclusive'
    BY <1>3 DEF RecoverDestroyRow, DeletePool, DeviceExclusive
  <2>4. call' \in CallTypes /\ CallInv'
    BY <2>1, IdleCall
  <2>5. rows' \subseteq Pools /\ heal' \subseteq Pools \X Profiles
    BY <1>3 DEF RecoverDestroyRow, DeletePool
  <2>6. KernelTypes' /\ ConvInv'
    BY <1>3, <2>2 DEF RecoverDestroyRow, KernelTypes
  <2>7. BootInv'
    BY <1>3 DEF RecoverDestroyRow
  <2> HIDE DEF CallInv, BootInv, ConvInv
  <2> QED
    BY <1>3, <2>2, <2>3, <2>4, <2>5, <2>6, <2>7 DEF RecoverDestroyRow, DeletePool
<1>4. CASE RecoverDestroy(o)
  BY <1>1, <1>4 DEF RecoverDestroy
<1>5. CASE RecoverLayout(o)
  BY <1>1, <1>5 DEF RecoverLayout
<1>6. ASSUME NEW watched \in BOOLEAN, Readopt(o, watched) PROVE DiskInv'
  BY <1>6 DEF Readopt, KernelTypes, DeviceExclusive
<1>7. CASE RecoverSkips(o)
  BY <1>7 DEF RecoverSkips, KernelTypes, DeviceExclusive
<1> HIDE DEF DiskInv
<1> QED
  BY <1>2, <1>3, <1>4, <1>5, <1>6, <1>7 DEF RecoverySteps

\* So does the boot.
LEMMA BootDiskInv == DiskInv /\ BootSteps => DiskInv'
<1> SUFFICES ASSUME DiskInv, BootSteps PROVE DiskInv'
  OBVIOUS
<1> USE DEF DiskInv, TypeOK, DbTypes, DaemonTypes, CallInv, BootInv, ConvInv, db, kernel
<1>1. CASE StartDaemon
  BY <1>1 DEF StartDaemon, Orphans, KernelTypes, DeviceExclusive
<1>2. CASE ServeHTTP
  BY <1>2 DEF ServeHTTP, KernelTypes, DeviceExclusive
<1> HIDE DEF DiskInv
<1> QED
  BY <1>1, <1>2, RecoveryDiskInv, BesideDiskInv DEF BootSteps, BesideSteps

\* A crash keeps it: what the call knew goes with the call.
LEMMA DieBeside == BesideInv /\ (Crash \/ Reboot) => BesideInv'
<1> SUFFICES ASSUME BesideInv, Crash \/ Reboot PROVE BesideInv'
  OBVIOUS
<1> USE DEF BesideInv, DbTypes, BesideTypes, BootInv, ConvInv, db, kernel, DaemonDies
<1>1. CASE Crash
  BY <1>1 DEF Crash, KernelTypes, DeviceExclusive
<1>2. CASE Reboot
  <2>1. KernelTypes' /\ ConvInv'
    BY <1>2 DEF Reboot, KernelTypes, BalanceTypes, NoBalance
  <2> QED
    BY <1>2, <2>1 DEF Reboot, DeviceExclusive
<1> QED
  BY <1>1, <1>2

\* In the whole.
LEMMA DieDiskInv == DiskInv /\ (Crash \/ Reboot) => DiskInv'
<1> SUFFICES ASSUME DiskInv, Crash \/ Reboot PROVE DiskInv'
  OBVIOUS
<1>1. BesideInv'
  BY DieBeside, DiskInvParts
<1>2. call' \in CallTypes /\ CallInv'
  BY IdleCall DEF Crash, Reboot, DaemonDies
<1> QED
  BY <1>1, <1>2 DEF DiskInv, TypeOK, DaemonTypes, BesideTypes, BesideInv

\* Every step keeps the invariant.
LEMMA NextDiskInv == DiskInv /\ [Next]_vars => DiskInv'
<1> SUFFICES ASSUME DiskInv, [Next]_vars PROVE DiskInv'
  OBVIOUS
<1>1. CASE UNCHANGED vars
  BY <1>1 DEF vars, db, kernel, daemon, DiskInv, TypeOK, DbTypes, KernelTypes,
              DaemonTypes, CallInv, BootInv, ConvInv, DeviceExclusive
<1> QED
  BY <1>1, RequestsDiskInv, CallStepsDiskInv, BootDiskInv, BesideDiskInv, DieDiskInv
     DEF Next, BesideSteps

\* The invariant that the safety of the disks rests on.
THEOREM DiskSafety == Spec => []DiskInv
BY InitDiskInv, NextDiskInv, PTL DEF Spec

\* Every variable stays in its domain.
THEOREM Typing == Spec => []TypeOK
<1>1. DiskInv => TypeOK
  BY DEF DiskInv
<1> QED
  BY <1>1, DiskSafety, PTL

\* No two pools ever share a disk, although no unique key forbids it: what the
\* checks of a call have seen is still so when it assigns the disk, for every
\* interleaving of goroutines, crash and reboot.
THEOREM DisksExclusive == Spec => []DeviceExclusive
<1>1. DiskInv => DeviceExclusive
  BY DEF DiskInv
<1> QED
  BY <1>1, DiskSafety, PTL

\* A disk that a command changes is one that the call found free, or one that
\* it found in its own pool.
LEMMA CommandSpares ==
  ASSUME DiskInv, Commands, NEW d \in Disks, disk'[d] # disk[d]
  PROVE  members[d] \subseteq {call.pool}
<1>1. d \in call.ins \/ d \in call.outs
  <2>1. disk \in [Disks -> Pools \cup {NoPool}]
    BY DEF DiskInv, TypeOK, KernelTypes
  <2>2. CASE RunFails
    BY <2>2 DEF RunFails, kernel
  <2>3. ASSUME NEW W \in SUBSET Disks, RunWipes(W) PROVE d \in call.ins
    BY <2>1, <2>3 DEF RunWipes, WipedDisks
  <2>4. ASSUME NEW W \in SUBSET Disks, RunWipe(W) PROVE d \in call.outs
    BY <2>1, <2>4 DEF RunWipe, WipedDisks
  <2>5. ASSUME NEW up \in BOOLEAN, NEW ok \in BOOLEAN, RunCreate(up, ok)
        PROVE  d \in call.ins
    BY <2>1, <2>5 DEF RunCreate
  <2>6. CASE RunUnmount
    BY <2>6 DEF RunUnmount
  <2>7. ASSUME NEW ok \in BOOLEAN, RunAdd(ok) PROVE d \in call.ins
    BY <2>1, <2>7 DEF RunAdd
  <2>8. ASSUME NEW ok \in BOOLEAN, RunRemove(ok) PROVE d \in call.outs
    BY <2>1, <2>8 DEF RunRemove, WipedDisks
  <2>9. ASSUME NEW ok \in BOOLEAN, RunReplace(ok) PROVE d \in call.ins \cup call.outs
    BY <2>1, <2>9 DEF RunReplace
  <2> QED
    BY <2>2, <2>3, <2>4, <2>5, <2>6, <2>7, <2>8, <2>9 DEF Commands
<1>2. CASE d \in call.ins
  BY <1>2 DEF DiskInv, CallInv
<1>3. CASE d \in call.outs
  <2>1. call.pool \in members[d]
    BY <1>3 DEF DiskInv, CallInv
  <2> QED
    BY <2>1 DEF DiskInv, DeviceExclusive
<1> QED
  BY <1>1, <1>2, <1>3

\* A request validates: it changes no operation and nothing in the kernel.
LEMMA RequestsKeep ==
  ASSUME Requests
  PROVE  UNCHANGED <<rows, members, ops, kernel, conv, watch, orphans, phase>>
<1> USE DEF db
<1>1. PICK p \in Pools :
        \/ \E ins \in SUBSET Disks, to \in Profiles, wipe \in BOOLEAN :
             BeginCreate(p, ins, to, wipe)
        \/ \E served \in Profiles :
             \/ BeginDestroy(p, served)
             \/ \E d \in Disks, wipe \in BOOLEAN : BeginAdd(p, served, d, wipe)
             \/ \E d \in Disks : BeginRemove(p, served, d)
             \/ \E old, new \in Disks : BeginReplace(p, served, old, new)
             \/ \E to \in Profiles : BeginConvert(p, served, to)
             \/ Read(p, served)
        \/ AcceptRecovery(p)
  BY DEF Requests
<1>2. CASE \E ins \in SUBSET Disks, to \in Profiles, wipe \in BOOLEAN :
             BeginCreate(p, ins, to, wipe)
  BY <1>2 DEF BeginCreate
<1>3. CASE \E served \in Profiles : BeginDestroy(p, served)
  BY <1>3 DEF BeginDestroy
<1>4. CASE \E served \in Profiles, d \in Disks, wipe \in BOOLEAN :
             BeginAdd(p, served, d, wipe)
  BY <1>4 DEF BeginAdd
<1>5. CASE \E served \in Profiles, d \in Disks : BeginRemove(p, served, d)
  BY <1>5 DEF BeginRemove
<1>6. CASE \E served \in Profiles, old, new \in Disks : BeginReplace(p, served, old, new)
  BY <1>6 DEF BeginReplace
<1>7. CASE \E served \in Profiles, to \in Profiles : BeginConvert(p, served, to)
  BY <1>7 DEF BeginConvert
<1>8. CASE \E served \in Profiles : Read(p, served)
  BY <1>8 DEF Read
<1>9. CASE AcceptRecovery(p)
  BY <1>9 DEF AcceptRecovery
<1> QED
  BY <1>1, <1>2, <1>3, <1>4, <1>5, <1>6, <1>7, <1>8, <1>9

\* A step of the call that is not a command leaves the disks alone; the kernel
\* changes them without a call when a replacement ends.
LEMMA OthersSpare ==
  ASSUME [Next]_vars, ~Commands, call' # call
  PROVE  disk' = disk
<1> USE DEF kernel
<1>1. CASE Requests
  BY <1>1, RequestsKeep
<1>2. CASE CallSteps
  BY <1>2 DEF CallSteps, OpenOp, RefuseOp, Persist, PersistFails, FailCall
<1>3. ASSUME NEW o \in Ops, RecoverySteps(o) PROVE disk' = disk
  BY <1>3 DEF RecoverySteps, RecoverCreate, RecoverDestroyRow, RecoverDestroy,
              RecoverLayout, Readopt, RecoverSkips
<1>4. CASE BootSteps
  BY <1>3, <1>4 DEF BootSteps, StartDaemon, ServeHTTP, ReconcileMount, DetectDrift,
                    CheckDrift, DriftDone
<1>5. CASE KernelSteps
  BY <1>5 DEF KernelSteps, BalanceMoves, BalanceEnds, FstabMount, ReplaceEnds, daemon
<1>6. ASSUME NEW o \in Ops, ConvSteps(o) \/ WatchSteps(o) PROVE disk' = disk
  BY <1>6 DEF ConvSteps, ConvStart, ConvPersist, ConvPersistFails, ConvFail,
              WatchSteps, WatchDone, WatchExpires
<1>7. ASSUME NEW h \in heal, NEW ok \in BOOLEAN, SelfHeal(h, ok) PROVE disk' = disk
  BY <1>7 DEF SelfHeal
<1>8. CASE DeviceReappears \/ Crash \/ Reboot \/ UNCHANGED vars
  BY <1>8 DEF DeviceReappears, Crash, Reboot, vars
<1> QED
  BY <1>1, <1>2, <1>4, <1>5, <1>6, <1>7, <1>8 DEF Next

\* No step writes the superblock of a disk that is assigned to another pool
\* than the one the call works on.
THEOREM ForeignDisksSpared == Spec => NoForeignOverwrite
<1>1. DiskInv /\ [Next]_vars =>
        [call' # call => \A d \in Disks : disk'[d] # disk[d] =>
                           members[d] \subseteq {call.pool}]_vars
  BY CommandSpares, OthersSpare
<1> QED
  BY <1>1, DiskSafety, PTL DEF Spec, NoForeignOverwrite

=============================================================================
