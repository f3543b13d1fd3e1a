---------------------- MODULE StorageLayoutProperties ----------------------
(* What the layout operations of StorageLayout are meant to guarantee.        *)
EXTENDS StorageLayout

-----------------------------------------------------------------------------
(* Types *)

CallTypes ==
  [kind : Kinds \cup {"none"}, pool : Pools \cup {NoPool},
   ins : SUBSET Disks, outs : SUBSET Disks, to : Profiles \cup {NoProfile},
   wipe : BOOLEAN, op : Ops \cup {NoOp},
   step : {"idle", "validated", "run", "wipe", "persist", "failing"}]

OpTypes ==
  [kind : Kinds \cup {"none"}, pool : Pools \cup {NoPool},
   fs : Pools \cup {NoPool}, to : Profiles \cup {NoProfile},
   status : {"absent", Active} \cup Terminal]

BalanceTypes ==
  [by : {"none", "command", "kernel", "paused"}, to : Profiles \cup {NoProfile}]

DbTypes ==
  /\ rows \subseteq Pools
  /\ profile \in [Pools -> Profiles \cup {NoProfile}]
  /\ control \in [Pools -> {"managed", "recovery"}]
  /\ members \in [Disks -> SUBSET Pools]
  /\ ops \in [Ops -> OpTypes]

KernelTypes ==
  /\ disk \in [Disks -> Pools \cup {NoPool}]
  /\ data \in [Pools -> SUBSET Profiles]
  /\ born \subseteq Pools /\ mounted \subseteq Pools
  /\ fstab \subseteq Pools /\ due \subseteq Pools
  /\ balance \in [Pools -> BalanceTypes]
  /\ copying \subseteq Disks \X Disks

DaemonTypes ==
  /\ phase \in {"down", "core", "up"}
  /\ call \in CallTypes
  /\ conv \in [Ops -> {"none", "start", "balancing", "persist", "failing"}]
  /\ heal \subseteq Pools \X Profiles
  /\ watch \subseteq Ops /\ orphans \subseteq Ops /\ remount \subseteq Pools
  /\ drift \subseteq Pools \X Profiles
  /\ bootstep \in {"mount", "drift", "done"}
  /\ crashes \in Nat

\* Every variable stays in its domain.
TypeOK == DbTypes /\ KernelTypes /\ DaemonTypes

-----------------------------------------------------------------------------
(* Safety *)

\* A disk belongs to at most one pool. storage_pool_devices has no unique key
\* on the device: only the checks of the calls, made some transactions before
\* the assignment, keep two pools from sharing a disk.
DeviceExclusive ==
  \A d \in Disks : \A p, q \in members[d] : p = q

\* A call never changes what a disk carries while the table assigns the disk
\* to a pool that is not the one of the call.
NoForeignOverwrite ==
  [][call' # call => \A d \in Disks : disk'[d] # disk[d] =>
                       members[d] \subseteq {call.pool}]_vars

\* While the balance that a conversion started runs, an operation holds the
\* pool, so that no other layout operation is let in, even after the daemon
\* that started it has died.
ConversionLocked ==
  \A p \in Pools : balance[p].by = "command" => ActiveOn(p)

\* An operation closed as completed by the actor that ran it did what it says;
\* a replacement is ReplaceFreesDisk's matter.
CompletesWhatItDid ==
  [][\A o \in Ops \ (watch \cup orphans) :
       ops[o].status = Active /\ ops'[o].status = "completed" =>
         LET p == ops[o].fs IN
           CASE ops[o].kind \in {"create", "add"} ->
                  \A d \in call.ins : disk[d] = p /\ members'[d] = {p}
             [] ops[o].kind = "destroy" -> p \notin rows'
             [] ops[o].kind = "remove" ->
                  \A d \in call.outs : disk[d] # p /\ members'[d] = {}
             [] ops[o].kind = "convert" ->
                  data[p] = {ops[o].to} /\ profile'[p] = ops[o].to
             [] OTHER -> TRUE]_vars

\* The table of operations keeps the promise of OperationLifecycle: one open
\* operation per pool, and what is settled is never reopened or settled again.
Lifecycle == INSTANCE OperationLifecycle
  WITH status <- [o \in Ops |-> ops[o].status],
       pool <- [o \in Ops |-> ops[o].pool]

ImplementsLifecycle == Lifecycle!Spec

-----------------------------------------------------------------------------
(* Liveness *)

\* An operation that opened is settled in the end, whatever crash comes in
\* between: otherwise INV-1 would refuse every later layout operation on the
\* pool. (What is no longer active is terminal: ImplementsLifecycle.) Under
\* FairSpec, with transactions that do not fail.
OpsSettle == \A o \in Ops : []<>(ops[o].status # Active)

-----------------------------------------------------------------------------
(* What the documentation promises *)

\* detectLayoutDrift (storage_layout_reconcile.go): a managed pool whose
\* mounted filesystem was left by an interrupted conversion with another
\* profile than its row says is marked recovery when it is looked at.
DriftMarksRecovery ==
  [][\A e \in drift \ drift' :
       /\ phase' = "up" /\ e[1] \in rows \cap mounted
       /\ Managed(e[1]) /\ data[e[1]] # {}
       /\ balance[e[1]] = NoBalance /\ ~ActiveOn(e[1])
       /\ profile[e[1]] # FirstProfile(data[e[1]])
       => control'[e[1]] = "recovery"]_vars

\* ReplaceDevice (storage_executor_real.go): after the command the old disk is
\* out of the filesystem and its signatures have been wiped, so that the row
\* may let go of it when the operation completes.
ReplaceFreesDisk ==
  [][\A o \in Ops \ (watch \cup orphans) :
       ops[o].status = Active /\ ops'[o].status = "completed"
       /\ ops[o].kind = "replace"
       => \A d \in call.outs : disk[d] # ops[o].fs]_vars

\* storage_state_machines.md, 4.5: when a balance taken over at boot has
\* finished its result is verified before the operation is completed.
WatcherVerifies ==
  [][\A o \in watch \ watch' :
       ops'[o].status = "completed" /\ ops[o].kind = "convert"
       /\ ops[o].fs \in mounted
       => data[ops[o].fs] = {ops[o].to}]_vars
=============================================================================
