--------------------------- MODULE LifecycleProofs ---------------------------
(* Theorems about StorageLayout that need to know who owns each operation:    *)
(* that the table of operations keeps the promise of OperationLifecycle, that *)
(* what is closed as completed was done, and that a conversion holds its pool *)
(* as long as its balance runs.                                               *)
EXTENDS StorageLayoutProofs, FiniteSetTheorems

-----------------------------------------------------------------------------
(* The owners of the open operations *)

\* The call has a row of its own.
Working == call.step \in {"run", "wipe", "persist", "failing"}

\* The row of the call is open and says what the call does.
CallRow ==
  Working => /\ ops[call.op].status = Active
             /\ ops[call.op].kind = call.kind
             /\ ops[call.op].fs = call.pool
             /\ ops[call.op].pool = IF call.kind = "create" THEN NoPool ELSE call.pool
             /\ call.op \notin watch \cup orphans

\* The row of a conversion's goroutine is open, and nobody else's.
ConvRow ==
  \A o \in Ops : conv[o] # "none" =>
    /\ ops[o].status = Active /\ o \notin watch \cup orphans
    /\ ops[o].fs \in Pools /\ ops[o].pool = ops[o].fs

\* So are the rows that the boot has taken over, and those it has still to see.
LeftRow ==
  /\ \A o \in watch \cup orphans : ops[o].status = Active
  /\ watch \cap orphans = {}

\* Goroutines die with the daemon.
RestInv ==
  /\ phase # "up" => \A o \in Ops : conv[o] = "none"
  /\ phase = "down" => watch = {} /\ orphans = {}

\* At most one open operation holds a pool (INV-1 of storage_schema.sql).
OneHolder ==
  \A o, r \in Ops :
    ops[o].status = Active /\ ops[r].status = Active
    /\ ops[o].pool = ops[r].pool /\ ops[o].pool \in Pools => o = r

OwnerInv == CallRow /\ ConvRow /\ LeftRow /\ RestInv /\ OneHolder

\* A fresh installation has no operation.
LEMMA InitOwnerInv == Init => OwnerInv
BY DEF Init, OwnerInv, CallRow, ConvRow, LeftRow, RestInv, OneHolder, Working, Idle,
       AbsentOp,
       Active

\* A request changes the call only, which has no row yet.
LEMMA RequestsCall ==
  ASSUME Requests
  PROVE  call' = call \/ (call = Idle /\ call'.step = "validated")
<1>1. PICK p \in Pools :
        \/ \E ins \in SUBSET Disks, to \in Profiles, wipe \in BOOLEAN :
             BeginCreate(p, ins, to, wipe)
        \/ \E served \in Profiles :
             \/ BeginDestroy(p, served)
             \/ \E d \in Disks, wipe \in BOOLEAN : BeginAdd(p, served, d, wipe)
             \/ \E d \in Disks : BeginRemove(p, served, d)
             \/ \E old, new \in Disks : BeginReplace(p, served, old, new)
             \/ \E to \in Profiles : BeginConvert(p, served, to)
             \/ Read(p, served)
        \/ AcceptRecovery(p)
  BY DEF Requests
<1>2. CASE AcceptRecovery(p) \/ \E served \in Profiles : Read(p, served)
  BY <1>2 DEF AcceptRecovery, Read
<1>3. CASE \E ins \in SUBSET Disks, to \in Profiles, wipe \in BOOLEAN :
             BeginCreate(p, ins, to, wipe)
  BY <1>3 DEF BeginCreate, Serving, Lock
<1>4. CASE \E served \in Profiles :
             \/ BeginDestroy(p, served)
             \/ \E d \in Disks, wipe \in BOOLEAN : BeginAdd(p, served, d, wipe)
             \/ \E d \in Disks : BeginRemove(p, served, d)
             \/ \E old, new \in Disks : BeginReplace(p, served, old, new)
             \/ \E to \in Profiles : BeginConvert(p, served, to)
  BY <1>4 DEF BeginDestroy, BeginAdd, BeginRemove, BeginReplace, BeginConvert, Serving, Lock
<1> QED
  BY <1>1, <1>2, <1>3, <1>4

\* A command moves the call on and touches neither the tables nor the
\* goroutines.
LEMMA CommandsKeep ==
  ASSUME Commands
  PROVE  /\ call.step \in {"run", "wipe"}
         /\ \E step \in {"wipe", "persist", "failing"} : call' = [call EXCEPT !.step = step]
         /\ UNCHANGED <<db, phase, conv, watch, orphans>>
<1> USE DEF Goto, Running, kernel
<1>1. CASE RunFails
  BY <1>1 DEF RunFails
<1>2. ASSUME NEW W \in SUBSET Disks, RunWipes(W) \/ RunWipe(W)
      PROVE  /\ call.step \in {"run", "wipe"}
             /\ \E step \in {"wipe", "persist", "failing"} : call' = [call EXCEPT !.step = step]
             /\ UNCHANGED <<db, phase, conv, watch, orphans>>
  BY <1>2 DEF RunWipes, RunWipe
<1>3. ASSUME NEW up \in BOOLEAN, NEW ok \in BOOLEAN,
             RunCreate(up, ok) \/ RunAdd(ok) \/ RunRemove(ok) \/ RunReplace(ok)
      PROVE  /\ call.step \in {"run", "wipe"}
             /\ \E step \in {"wipe", "persist", "failing"} : call' = [call EXCEPT !.step = step]
             /\ UNCHANGED <<db, phase, conv, watch, orphans>>
  BY <1>3 DEF RunCreate, RunAdd, RunRemove, RunReplace
<1>4. CASE RunUnmount
  BY <1>4 DEF RunUnmount
<1> QED
  BY <1>1, <1>2, <1>3, <1>4 DEF Commands

\* What keeps the owners when the rows and the goroutines stay as they are.
LEMMA OwnersStay ==
  ASSUME OwnerInv, UNCHANGED <<ops, conv, watch, orphans, phase>>,
         Working' => Working /\ UNCHANGED <<call.op, call.kind, call.pool>>
  PROVE  OwnerInv'
<1>1. CallRow'
  BY DEF OwnerInv, CallRow
<1>2. ConvRow' /\ LeftRow' /\ RestInv' /\ OneHolder'
  BY DEF OwnerInv, ConvRow, LeftRow, RestInv, OneHolder
<1> QED
  BY <1>1, <1>2 DEF OwnerInv

\* An open row that its owner settles, or gives up, leaves the others' alone.
LEMMA OwnerSettles ==
  ASSUME DiskInv, OwnerInv, NEW o \in Ops, NEW s \in {Active} \cup Terminal,
         ops[o].status = Active, ops' = SetStatus(o, s), phase' = phase,
         Working' => Working /\ UNCHANGED <<call.op, call.kind, call.pool>> /\ call.op # o,
         \A r \in Ops : conv'[r] # "none" => conv[r] # "none" /\ r # o,
         watch' \subseteq watch \ {o}, orphans' \subseteq orphans \ {o}
  PROVE  OwnerInv'
<1>1. /\ OpsKept
      /\ \A r \in Ops : ops'[r].pool = ops[r].pool
      /\ \A r \in Ops : ops'[r].status = IF r = o THEN s ELSE ops[r].status
  BY SetStatusType DEF DiskInv, TypeOK, DbTypes
<1>2. Working => call.op \in Ops
  BY DEF DiskInv, CallInv, Working
<1>3. watch \subseteq Ops /\ orphans \subseteq Ops
  BY DEF DiskInv, TypeOK, DaemonTypes
<1>4. CallRow'
  BY <1>1, <1>2 DEF OwnerInv, CallRow, OpsKept
<1>5. ConvRow'
  BY <1>1 DEF OwnerInv, ConvRow, OpsKept
<1>6. LeftRow'
  BY <1>1, <1>3 DEF OwnerInv, LeftRow
<1>7. RestInv'
  BY <1>3 DEF OwnerInv, RestInv
<1>8. OneHolder'
  BY <1>1 DEF OwnerInv, OneHolder, Terminal, Active
<1> QED
  BY <1>4, <1>5, <1>6, <1>7, <1>8 DEF OwnerInv

\* A row opens only on a pool that no open row holds.
LEMMA OpenOwnerInv ==
  ASSUME DiskInv, OwnerInv, NEW o \in Ops, OpenOp(o)
  PROVE  OwnerInv'
<1> DEFINE row == [kind |-> call.kind,
                   pool |-> IF call.kind = "create" THEN NoPool ELSE call.pool,
                   fs |-> call.pool, to |-> call.to, status |-> Active]
<1>1. /\ call.pool \in Pools /\ phase = "up" /\ ~Working
  BY DEF OpenOp, Idle, DiskInv, CallInv, Working
<1>2. \A r \in Ops : ops'[r] = IF r = o THEN row ELSE ops[r]
  BY DEF OpenOp, DiskInv, TypeOK, DbTypes
<1>3. ops[o].status = "absent"
  BY DEF OpenOp, AbsentOp
<1>4. o \notin watch \cup orphans /\ conv[o] = "none"
  BY <1>3 DEF OwnerInv, ConvRow, LeftRow, Active
<1>5. UNCHANGED <<watch, orphans, phase>>
  BY DEF OpenOp
<1>6. watch \subseteq Ops /\ orphans \subseteq Ops
  BY DEF DiskInv, TypeOK, DaemonTypes
<1>7. /\ \A r \in Ops : conv'[r] # "none" => r # o \/ call.kind = "convert"
      /\ \A r \in Ops : r # o => conv'[r] = conv[r]
  BY <1>4 DEF OpenOp, DiskInv, TypeOK, DaemonTypes
<1>8. CallRow'
  <2>1. CASE call.kind = "convert"
    BY <2>1 DEF OpenOp, CallRow, Working, Idle
  <2>2. CASE call.kind # "convert"
    <3>1. call' = [call EXCEPT !.op = o, !.step = "run"]
      BY <2>2 DEF OpenOp
    <3>2. call'.op = o /\ call'.kind = call.kind /\ call'.pool = call.pool
      BY <3>1 DEF DiskInv, TypeOK, DaemonTypes, CallTypes
    <3> QED
      BY <1>2, <1>4, <1>5, <3>2 DEF CallRow
  <2> QED
    BY <2>1, <2>2
<1>9. ConvRow'
  BY <1>1, <1>2, <1>4, <1>5, <1>7 DEF OwnerInv, ConvRow
<1>10. LeftRow' /\ RestInv'
  BY <1>1, <1>2, <1>4, <1>5, <1>6 DEF OwnerInv, LeftRow, RestInv
<1>11. OneHolder'
  <2>1. call.kind # "create" => \A r \in Ops : ~(ops[r].pool = call.pool /\ ops[r].status = Active)
    BY DEF OpenOp, ActiveOn
  <2>2. NoPool \notin Pools
    BY NoneAssumption
  <2> QED
    BY <1>2, <2>1, <2>2 DEF OwnerInv, OneHolder
<1> QED
  BY <1>8, <1>9, <1>10, <1>11 DEF OwnerInv

\* The transaction that closes a call settles its row. A pool that goes is
\* taken from the rows that name it; of these none is a conversion's, since
\* the row of the call holds the pool.
LEMMA PersistOwnerInv ==
  ASSUME DiskInv, OwnerInv, Persist
  PROVE  OwnerInv'
<1>1. /\ call.op \in Ops /\ call.pool \in Pools /\ call.kind # "convert"
      /\ call.op \notin watch \cup orphans
      /\ ops[call.op].status = Active /\ ops[call.op].kind = call.kind
      /\ ops[call.op].pool = IF call.kind = "create" THEN NoPool ELSE call.pool
  BY DEF Persist, DiskInv, CallInv, OwnerInv, CallRow, Working
<1>2. conv[call.op] = "none"
  BY <1>1 DEF DiskInv, ConvInv
<1>3. UNCHANGED <<phase, conv, watch, orphans>> /\ ~Working'
  BY DEF Persist, Working, Idle
<1>4. watch \subseteq Ops /\ orphans \subseteq Ops /\ ops \in [Ops -> OpTypes]
  BY DEF DiskInv, TypeOK, DbTypes, DaemonTypes
<1>5. CASE PersistMembers
  <2>1. ops' = SetStatus(call.op, "completed")
    BY <1>5 DEF PersistMembers
  <2> QED
    BY <1>1, <1>2, <1>3, <2>1, OwnerSettles DEF Terminal
<1>6. CASE PersistCreate
  <2>1. \A r \in Ops :
          /\ ops'[r].status = IF r = call.op THEN "completed" ELSE ops[r].status
          /\ ops'[r].fs = ops[r].fs
          /\ r # call.op => ops'[r].pool = ops[r].pool
    BY <1>1, <1>4, <1>6 DEF PersistCreate, OpTypes
  <2>2. CallRow' /\ ConvRow' /\ LeftRow' /\ RestInv'
    BY <1>1, <1>2, <1>3, <1>4, <2>1 DEF OwnerInv, CallRow, ConvRow, LeftRow, RestInv
  <2>3. OneHolder'
    BY <2>1 DEF OwnerInv, OneHolder, Active
  <2> QED
    BY <2>2, <2>3 DEF OwnerInv
<1>7. CASE PersistDestroy
  <2> DEFINE os == SetStatus(call.op, "completed")
  <2>1. /\ os \in [Ops -> OpTypes]
        /\ \A r \in Ops : /\ os[r].fs = ops[r].fs /\ os[r].pool = ops[r].pool
                          /\ os[r].status = IF r = call.op THEN "completed" ELSE ops[r].status
    BY <1>1, <1>4 DEF SetStatus, OpTypes, Terminal
  <2>2. ops' = Detached(call.pool, os) /\ call.kind = "destroy"
    BY <1>7 DEF PersistDestroy
  <2>3. \A r \in Ops :
          /\ ops'[r].status = IF r = call.op THEN "completed" ELSE ops[r].status
          /\ ops'[r].fs = ops[r].fs
          /\ ops'[r].pool = IF ops[r].pool = call.pool THEN NoPool ELSE ops[r].pool
    <3> HIDE DEF os
    <3> QED
      BY <1>4, <2>1, <2>2, DetachedType
  <2>4. \A r \in Ops : conv[r] # "none" => ops[r].pool # call.pool
    BY <1>1, <1>2, <2>2 DEF OwnerInv, ConvRow, OneHolder
  <2>5. CallRow' /\ ConvRow' /\ LeftRow' /\ RestInv'
    BY <1>1, <1>2, <1>3, <1>4, <2>3, <2>4 DEF OwnerInv, CallRow, ConvRow, LeftRow, RestInv
  <2>6. OneHolder'
    BY <2>3, NoneAssumption DEF OwnerInv, OneHolder, Active
  <2> QED
    BY <2>5, <2>6 DEF OwnerInv
<1> QED
  BY <1>5, <1>6, <1>7 DEF Persist

\* The steps of the call.
LEMMA CallOwnerInv ==
  ASSUME DiskInv, OwnerInv, CallSteps
  PROVE  OwnerInv'
<1>1. CASE RefuseOp
  BY <1>1, OwnersStay DEF RefuseOp, Working, Idle, db
<1>2. CASE Commands
  <2>1. call.op' = call.op /\ call.kind' = call.kind /\ call.pool' = call.pool /\ Working
    BY <1>2, CommandsKeep DEF DiskInv, TypeOK, DaemonTypes, CallTypes, Working
  <2> QED
    BY <1>2, <2>1, CommandsKeep, OwnersStay DEF db
<1>3. CASE PersistFails
  <2>1. call.op' = call.op /\ call.kind' = call.kind /\ call.pool' = call.pool /\ Working
    BY <1>3 DEF PersistFails, Goto, DiskInv, TypeOK, DaemonTypes, CallTypes, Working
  <2> QED
    BY <1>3, <2>1, OwnersStay DEF PersistFails, db
<1>4. ASSUME NEW s \in {"failed", Active}, FailCall(s) PROVE OwnerInv'
  <2>1. /\ call.op \in Ops /\ call.kind # "convert"
        /\ call.op \notin watch \cup orphans
        /\ ops[call.op].status = Active /\ ops[call.op].kind = call.kind
    BY <1>4 DEF FailCall, DiskInv, CallInv, OwnerInv, CallRow, Working
  <2>2. conv[call.op] = "none"
    BY <2>1 DEF DiskInv, ConvInv
  <2> QED
    BY <1>4, <2>1, <2>2, OwnerSettles DEF FailCall, MarkOperationFailed, Working, Idle,
                                          Terminal
<1> QED
  BY <1>1, <1>2, <1>3, <1>4, OpenOwnerInv, PersistOwnerInv DEF CallSteps

\* The goroutine of a conversion settles its own row.
LEMMA ConvOwnerInv ==
  ASSUME DiskInv, OwnerInv, NEW o \in Ops, ConvSteps(o)
  PROVE  OwnerInv'
<1>1. /\ conv \in [Ops -> {"none", "start", "balancing", "persist", "failing"}]
      /\ ConvRow /\ CallRow
  BY DEF DiskInv, TypeOK, DaemonTypes, OwnerInv
<1>2. conv[o] # "none" => /\ ops[o].kind = "convert" /\ ops[o].status = Active
                          /\ o \notin watch \cup orphans
                          /\ (Working => call.op # o)
  BY <1>1 DEF ConvRow, CallRow, DiskInv, ConvInv, CallInv, Working
<1>3. CASE ConvStart(o) \/ ConvPersistFails(o)
  <2>1. /\ UNCHANGED <<ops, call, watch, orphans, phase>>
        /\ \A r \in Ops : conv'[r] # "none" => conv[r] # "none"
    BY <1>1, <1>3 DEF ConvStart, ConvPersistFails, ConvAt, db
  <2>2. CallRow' /\ ConvRow' /\ LeftRow' /\ RestInv' /\ OneHolder'
    BY <2>1 DEF OwnerInv, CallRow, ConvRow, LeftRow, RestInv, OneHolder, Working
  <2> QED
    BY <2>2 DEF OwnerInv
<1>4. ASSUME NEW s \in {"completed", "failed", Active}, ops' = SetStatus(o, s),
             conv[o] # "none", conv' = [conv EXCEPT ![o] = "none"],
             UNCHANGED <<phase, call, watch, orphans>>
      PROVE  OwnerInv'
  <2>1. \A r \in Ops : conv'[r] # "none" => conv[r] # "none" /\ r # o
    BY <1>1, <1>4
  <2>2. watch' \subseteq watch \ {o} /\ orphans' \subseteq orphans \ {o}
    BY <1>2, <1>4
  <2>3. Working' => Working /\ UNCHANGED <<call.op, call.kind, call.pool>> /\ call.op # o
    BY <1>2, <1>4 DEF Working
  <2> QED
    BY <1>2, <1>4, <2>1, <2>2, <2>3, OwnerSettles DEF Terminal
<1>5. CASE ConvPersist(o)
  BY <1>4, <1>5 DEF ConvPersist, ConvAt
<1>6. ASSUME NEW s \in {"failed", Active}, ConvFail(o, s) PROVE OwnerInv'
  BY <1>4, <1>6 DEF ConvFail, ConvAt, MarkOperationFailed
<1> QED
  BY <1>3, <1>5, <1>6 DEF ConvSteps

\* So does a watcher.
LEMMA WatchOwnerInv ==
  ASSUME DiskInv, OwnerInv, NEW o \in Ops, WatchSteps(o)
  PROVE  OwnerInv'
<1>1. /\ o \in watch /\ watch' = watch \ {o} /\ o \notin orphans
      /\ ops[o].status = Active /\ conv[o] = "none" /\ (Working => call.op # o)
  BY DEF WatchSteps, OwnerInv, ConvRow, CallRow, LeftRow
<1>2. PICK s \in {"completed", "failed", Active} :
        ops' = SetStatus(o, s) /\ UNCHANGED <<phase, call, conv, orphans>>
  BY DEF WatchSteps, WatchDone, WatchExpires, MarkOperationFailed
<1>3. Working' => Working /\ UNCHANGED <<call.op, call.kind, call.pool>> /\ call.op # o
  BY <1>1, <1>2 DEF Working
<1>4. orphans' \subseteq orphans \ {o} /\ \A r \in Ops : conv'[r] # "none" => conv[r] # "none" /\ r # o
  BY <1>1, <1>2
<1> QED
  BY <1>1, <1>2, <1>3, <1>4, OwnerSettles DEF Terminal

\* And the recovery, which runs before there are calls and goroutines.
LEMMA RecoveryOwnerInv ==
  ASSUME DiskInv, OwnerInv, NEW o \in Ops, RecoverySteps(o)
  PROVE  OwnerInv'
<1>1. /\ o \in orphans /\ o \notin watch /\ phase = "core" /\ call = Idle
      /\ ops[o].status = Active /\ \A r \in Ops : conv[r] = "none"
  <2>1. o \in orphans
    BY DEF RecoverySteps, RecoverCreate, RecoverDestroyRow, RecoverDestroy, RecoverLayout,
           Readopt, RecoverSkips, Settle
  <2> QED
    BY <2>1 DEF OwnerInv, LeftRow, RestInv, DiskInv, BootInv, CallInv
<1>2. UNCHANGED <<phase, call, conv>> /\ ~Working'
  BY <1>1 DEF RecoverySteps, RecoverCreate, RecoverDestroyRow, RecoverDestroy,
              RecoverLayout,
              Readopt, RecoverSkips, Working, Idle
<1>3. ASSUME NEW s, Settle(o, s), watch' = watch PROVE OwnerInv'
  BY <1>1, <1>2, <1>3, OwnerSettles DEF Settle
<1>4. CASE RecoverCreate(o) \/ RecoverDestroy(o) \/ RecoverLayout(o)
  BY <1>3, <1>4 DEF RecoverCreate, RecoverDestroy, RecoverLayout
<1>5. CASE RecoverDestroyRow(o)
  <2>1. UNCHANGED <<watch, orphans>>
    BY <1>5 DEF RecoverDestroyRow
  <2>2. \A r \in Ops :
          /\ ops'[r].status = ops[r].status
          /\ ops'[r].pool = ops[r].pool \/ ops'[r].pool = NoPool
    BY <1>5, DetachedType DEF RecoverDestroyRow, DiskInv, TypeOK, DbTypes
  <2>3. watch \subseteq Ops /\ orphans \subseteq Ops
    BY DEF DiskInv, TypeOK, DaemonTypes
  <2>4. CallRow' /\ ConvRow' /\ LeftRow' /\ RestInv'
    BY <1>1, <1>2, <2>1, <2>2, <2>3 DEF OwnerInv, CallRow, ConvRow, LeftRow, RestInv
  <2>5. OneHolder'
    BY <2>2, NoneAssumption DEF OwnerInv, OneHolder
  <2> QED
    BY <2>4, <2>5 DEF OwnerInv
<1>6. CASE (\E watched \in BOOLEAN : Readopt(o, watched)) \/ RecoverSkips(o)
  <2>1. /\ ops' = ops /\ orphans' = orphans \ {o} /\ watch' \subseteq watch \cup {o}
    BY <1>6 DEF Readopt, RecoverSkips, db
  <2>2. CallRow' /\ ConvRow' /\ LeftRow' /\ RestInv' /\ OneHolder'
    BY <1>1, <1>2, <2>1 DEF OwnerInv, CallRow, ConvRow, LeftRow, RestInv, OneHolder
  <2> QED
    BY <2>2 DEF OwnerInv
<1> QED
  BY <1>4, <1>5, <1>6 DEF RecoverySteps

\* The rest of the boot lists what is open when nobody works.
LEMMA BootOwnerInv ==
  ASSUME DiskInv, OwnerInv, BootSteps
  PROVE  OwnerInv'
<1>1. CASE StartDaemon
  <2>1. /\ orphans' = Orphans /\ watch' = {} /\ UNCHANGED <<ops, conv, call>>
        /\ phase = "down" /\ phase' = "core" /\ ~Working'
    BY <1>1 DEF StartDaemon, OwnerInv, RestInv, DiskInv, CallInv, Working, Idle, db
  <2>2. CallRow' /\ ConvRow' /\ LeftRow' /\ RestInv' /\ OneHolder'
    BY <2>1 DEF OwnerInv, CallRow, ConvRow, LeftRow, RestInv, OneHolder, Orphans
  <2> QED
    BY <2>2 DEF OwnerInv
<1>2. CASE ServeHTTP
  <2>1. /\ UNCHANGED <<ops, conv, call, watch, orphans>> /\ phase' = "up"
    BY <1>2 DEF ServeHTTP, db
  <2>2. CallRow' /\ ConvRow' /\ LeftRow' /\ RestInv' /\ OneHolder'
    BY <2>1 DEF OwnerInv, CallRow, ConvRow, LeftRow, RestInv, OneHolder, Working
  <2> QED
    BY <2>2 DEF OwnerInv
<1>3. CASE UNCHANGED <<ops, conv, watch, orphans, phase, call>>
  BY <1>3, OwnersStay DEF Working
<1>4. ASSUME NEW p \in Pools, NEW ok \in BOOLEAN, ReconcileMount(p, ok) PROVE OwnerInv'
  BY <1>3, <1>4 DEF ReconcileMount, db
<1>5. ASSUME NEW served \in [rows -> Profiles], DetectDrift(served) PROVE OwnerInv'
  BY <1>3, <1>5 DEF DetectDrift, db
<1>6. ASSUME NEW e \in drift, CheckDrift(e) PROVE OwnerInv'
  BY <1>3, <1>6 DEF CheckDrift
<1>7. CASE DriftDone
  BY <1>3, <1>7 DEF DriftDone, db
<1> QED
  BY <1>1, <1>2, <1>4, <1>5, <1>6, <1>7, RecoveryOwnerInv DEF BootSteps

\* Every step keeps the owners.
LEMMA NextOwnerInv ==
  ASSUME DiskInv, OwnerInv, [Next]_vars
  PROVE  OwnerInv'
<1>1. CASE UNCHANGED <<ops, conv, watch, orphans, phase, call>>
  BY <1>1, OwnersStay DEF Working
<1>2. CASE Requests
  BY <1>2, RequestsKeep, RequestsCall, OwnersStay DEF Working
<1>3. CASE KernelSteps
  <2>1. ASSUME NEW p \in Pools, NEW ok \in BOOLEAN, BalanceEnds(p, ok) PROVE OwnerInv'
    <3>1. /\ UNCHANGED <<ops, call, watch, orphans, phase>>
          /\ \A r \in Ops : conv'[r] # "none" => conv[r] # "none"
      BY <2>1 DEF BalanceEnds, ConvAt, db
    <3>2. CallRow' /\ ConvRow' /\ LeftRow' /\ RestInv' /\ OneHolder'
      <4>1. RestInv'
        BY <3>1 DEF OwnerInv, RestInv
      <4> QED
        BY <3>1, <4>1 DEF OwnerInv, CallRow, ConvRow, LeftRow, OneHolder, Working
    <3> QED
      BY <3>2 DEF OwnerInv
  <2>2. ASSUME NEW p \in Pools, BalanceMoves(p) \/ FstabMount(p) PROVE OwnerInv'
    BY <1>1, <2>2 DEF BalanceMoves, FstabMount, db, daemon
  <2>3. ASSUME NEW c \in copying, NEW ok \in BOOLEAN, ReplaceEnds(c, ok) PROVE OwnerInv'
    BY <1>1, <2>3 DEF ReplaceEnds, db, daemon
  <2> QED
    BY <1>3, <2>1, <2>2, <2>3 DEF KernelSteps
<1>4. ASSUME NEW h \in heal, NEW ok \in BOOLEAN, SelfHeal(h, ok) PROVE OwnerInv'
  BY <1>1, <1>4 DEF SelfHeal
<1>5. CASE DeviceReappears
  BY <1>1, <1>5 DEF DeviceReappears, db
<1>6. CASE Crash \/ Reboot
  <2>1. /\ ops' = ops /\ watch' = {} /\ orphans' = {} /\ phase' = "down" /\ ~Working'
        /\ \A o \in Ops : conv'[o] = "none"
    BY <1>6 DEF Crash, Reboot, DaemonDies, Working, Idle, db
  <2>2. CallRow' /\ ConvRow' /\ LeftRow' /\ RestInv' /\ OneHolder'
    BY <2>1 DEF OwnerInv, CallRow, ConvRow, LeftRow, RestInv, OneHolder
  <2> QED
    BY <2>2 DEF OwnerInv
<1>7. CASE UNCHANGED vars
  BY <1>1, <1>7 DEF vars, db, daemon
<1> QED
  BY <1>2, <1>3, <1>4, <1>5, <1>6, <1>7, CallOwnerInv, BootOwnerInv, ConvOwnerInv,
     WatchOwnerInv DEF Next

\* Who owns each open operation.
THEOREM Ownership == Spec => []OwnerInv
<1>1. OwnerInv /\ DiskInv /\ [Next]_vars => OwnerInv'
  BY NextOwnerInv
<1> QED
  BY <1>1, InitOwnerInv, DiskSafety, PTL DEF Spec

-----------------------------------------------------------------------------
(* StorageLayout implements OperationLifecycle: each step opens a row,        *)
(* settles one, deletes a pool or changes neither status nor pool.            *)

\* The rows stay, or one that is open is settled.
LEMMA SettleImplements ==
  ASSUME DiskInv, NEW o \in Ops, NEW s \in {Active} \cup Terminal,
         ops[o].status = Active, ops' = SetStatus(o, s)
  PROVE  [Lifecycle!Next]_(Lifecycle!vars)
<1>1. \A r \in Ops : /\ ops'[r].pool = ops[r].pool
                     /\ ops'[r].status = IF r = o THEN s ELSE ops[r].status
  BY SetStatusType DEF DiskInv, TypeOK, DbTypes
<1>2. CASE s = Active
  BY <1>1, <1>2 DEF Lifecycle!vars
<1>3. CASE s \in Terminal
  <2>1. PICK p \in Pools \cup {NoPool} : p = ops[o].pool
    BY DEF DiskInv, TypeOK, DbTypes, OpTypes
  <2>2. Lifecycle!Settle(o, s, p)
    BY <1>1, <1>3, <2>1 DEF Lifecycle!Settle, Lifecycle!Active, Active, Terminal
  <2> QED
    BY <1>3, <2>1, <2>2 DEF Lifecycle!Next, Terminal
<1> QED
  BY <1>2, <1>3

\* A row that opens finds its pool free.
LEMMA OpenImplements ==
  ASSUME DiskInv, NEW o \in Ops, OpenOp(o)
  PROVE  [Lifecycle!Next]_(Lifecycle!vars)
<1>0. PICK p \in Pools \cup {NoPool} : p = IF call.kind = "create" THEN NoPool ELSE call.pool
  BY DEF DiskInv, TypeOK, DaemonTypes, CallTypes
<1> DEFINE row == [kind |-> call.kind, pool |-> p, fs |-> call.pool, to |-> call.to,
                   status |-> Active]
<1>1. \A r \in Ops : ops'[r] = IF r = o THEN row ELSE ops[r]
  BY <1>0 DEF OpenOp, DiskInv, TypeOK, DbTypes
<1>3. p \in Pools => \A r \in Ops : ~(ops[r].pool = p /\ ops[r].status = Active)
  BY <1>0, NoneAssumption DEF OpenOp, ActiveOn
<1>4. ops[o].status = "absent"
  BY DEF OpenOp, AbsentOp
<1>5. row.status = Active /\ row.pool = p
  OBVIOUS
<1> HIDE DEF row
<1>6. Lifecycle!Open(o, p)
  BY <1>1, <1>3, <1>4, <1>5 DEF Lifecycle!Open, Lifecycle!Holds, Lifecycle!Active, Active
<1> QED
  BY <1>6 DEF Lifecycle!Next

\* The closing transaction settles the row of the call, links it to the pool
\* it created, or deletes the pool that it holds.
LEMMA PersistImplements ==
  ASSUME DiskInv, OwnerInv, Persist
  PROVE  [Lifecycle!Next]_(Lifecycle!vars)
<1>1. /\ call.op \in Ops /\ call.pool \in Pools
      /\ ops[call.op].status = Active
      /\ ops[call.op].pool = IF call.kind = "create" THEN NoPool ELSE call.pool
  BY DEF Persist, DiskInv, CallInv, OwnerInv, CallRow, Working
<1>2. ops \in [Ops -> OpTypes]
  BY DEF DiskInv, TypeOK, DbTypes
<1>3. CASE PersistMembers
  BY <1>1, <1>3, SettleImplements DEF PersistMembers, Terminal
<1>4. CASE PersistCreate
  <2>1. \A r \in Ops :
          /\ ops'[r].status = IF r = call.op THEN "completed" ELSE ops[r].status
          /\ ops'[r].pool = IF r = call.op THEN call.pool ELSE ops[r].pool
    BY <1>1, <1>2, <1>4 DEF PersistCreate, OpTypes
  <2>2. ops[call.op].pool = NoPool
    BY <1>1, <1>4 DEF PersistCreate
  <2>3. PICK o \in Ops, p \in Pools : o = call.op /\ p = call.pool
    BY <1>1
  <2>4. Lifecycle!Settle(o, "completed", p)
    BY <1>1, <2>1, <2>2, <2>3 DEF Lifecycle!Settle, Lifecycle!Active, Active
  <2> QED
    BY <2>4 DEF Lifecycle!Next
<1>5. CASE PersistDestroy
  <2> DEFINE os == SetStatus(call.op, "completed")
  <2>1. /\ os \in [Ops -> OpTypes]
        /\ \A r \in Ops : /\ os[r].pool = ops[r].pool
                          /\ os[r].status = IF r = call.op THEN "completed" ELSE ops[r].status
    BY <1>1, <1>2 DEF SetStatus, OpTypes, Terminal
  <2>2. ops' = Detached(call.pool, os) /\ call.kind = "destroy"
    BY <1>5 DEF PersistDestroy
  <2>3. \A r \in Ops :
          /\ ops'[r].status = IF r \in {call.op} THEN "completed" ELSE ops[r].status
          /\ ops'[r].pool = IF ops[r].pool = call.pool THEN NoPool ELSE ops[r].pool
    <3> HIDE DEF os
    <3> QED
      BY <1>2, <2>1, <2>2, DetachedType
  <2>4. PICK p \in Pools, settled \in SUBSET Ops : p = call.pool /\ settled = {call.op}
    BY <1>1
  <2>5. Lifecycle!Delete(p, settled)
    BY <1>1, <2>2, <2>3, <2>4 DEF Lifecycle!Delete, Lifecycle!Holds, Lifecycle!Active,
                                  Active
  <2> QED
    BY <2>5 DEF Lifecycle!Next
<1> QED
  BY <1>3, <1>4, <1>5 DEF Persist

\* Recovery settles the orphans and deletes the pools that are gone.
LEMMA RecoveryImplements ==
  ASSUME DiskInv, OwnerInv, NEW o \in Ops, RecoverySteps(o)
  PROVE  [Lifecycle!Next]_(Lifecycle!vars)
<1>1. ASSUME NEW s, Settle(o, s) PROVE [Lifecycle!Next]_(Lifecycle!vars)
  BY <1>1, SettleImplements DEF Settle, OwnerInv, LeftRow
<1>2. CASE RecoverDestroyRow(o)
  <2>1. PICK p \in Pools : p = ops[o].pool /\ ops' = Detached(p, ops)
    BY <1>2 DEF RecoverDestroyRow, DiskInv, TypeOK, DbTypes, OpTypes
  <2>2. \A r \in Ops : /\ ops'[r].status = ops[r].status
                       /\ ops'[r].pool = IF ops[r].pool = p THEN NoPool ELSE ops[r].pool
    <3>1. ops \in [Ops -> OpTypes]
      BY DEF DiskInv, TypeOK, DbTypes
    <3> QED
      BY <2>1, <3>1, DetachedType
  <2>3. Lifecycle!Delete(p, {})
    BY <2>2 DEF Lifecycle!Delete
  <2> QED
    BY <2>1, <2>3 DEF Lifecycle!Next
<1>3. CASE UNCHANGED ops
  BY <1>3 DEF Lifecycle!vars
<1> QED
  BY <1>1, <1>2, <1>3 DEF RecoverySteps, RecoverCreate, RecoverDestroy, RecoverLayout,
                          Readopt,
                         RecoverSkips, db

\* Every step of the daemon and the kernel is one of the table, or none.
LEMMA StepImplements ==
  ASSUME DiskInv, OwnerInv, [Next]_vars
  PROVE  [Lifecycle!Next]_(Lifecycle!vars)
<1>1. CASE UNCHANGED ops
  BY <1>1 DEF Lifecycle!vars
<1>2. CASE Requests
  BY <1>1, <1>2, RequestsKeep
<1>3. CASE CallSteps
  <2>1. CASE RefuseOp \/ PersistFails
    BY <1>1, <2>1 DEF RefuseOp, PersistFails, db
  <2>2. CASE Commands
    BY <1>1, <2>2, CommandsKeep DEF db
  <2>3. ASSUME NEW s \in {"failed", Active}, FailCall(s)
        PROVE  [Lifecycle!Next]_(Lifecycle!vars)
    <3>1. call.op \in Ops /\ ops[call.op].status = Active
      BY <2>3 DEF FailCall, DiskInv, CallInv, OwnerInv, CallRow, Working
    <3> QED
      BY <2>3, <3>1, SettleImplements DEF FailCall, MarkOperationFailed, Terminal
  <2> QED
    BY <1>3, <2>1, <2>2, <2>3, OpenImplements, PersistImplements DEF CallSteps
<1>4. CASE BootSteps
  <2>1. CASE UNCHANGED ops \/ \E o \in Ops : RecoverySteps(o)
    BY <1>1, <2>1, RecoveryImplements
  <2> QED
    BY <1>4, <2>1 DEF BootSteps, StartDaemon, ServeHTTP, ReconcileMount, DetectDrift,
                      CheckDrift,
                      DriftDone, db
<1>5. CASE KernelSteps
  BY <1>1, <1>5 DEF KernelSteps, BalanceMoves, BalanceEnds, FstabMount, ReplaceEnds, db
<1>6. ASSUME NEW o \in Ops, ConvSteps(o) PROVE [Lifecycle!Next]_(Lifecycle!vars)
  <2>1. conv[o] # "none" /\ ops[o].status = Active
    BY <1>6 DEF ConvSteps, ConvStart, ConvPersist, ConvPersistFails, ConvFail, ConvAt,
                OwnerInv,
                ConvRow
  <2>2. ops' = ops \/ \E s \in {Active} \cup Terminal : ops' = SetStatus(o, s)
    BY <1>6 DEF ConvSteps, ConvStart, ConvPersist, ConvPersistFails, ConvFail,
                MarkOperationFailed, Terminal, db
  <2> QED
    BY <1>1, <2>1, <2>2, SettleImplements
<1>7. ASSUME NEW o \in Ops, WatchSteps(o) PROVE [Lifecycle!Next]_(Lifecycle!vars)
  <2>1. o \in watch /\ ops[o].status = Active
    BY <1>7 DEF WatchSteps, OwnerInv, LeftRow
  <2>2. \E s \in {Active} \cup Terminal : ops' = SetStatus(o, s)
    BY <1>7 DEF WatchSteps, WatchDone, WatchExpires, MarkOperationFailed, Terminal
  <2> QED
    BY <2>1, <2>2, SettleImplements
<1>8. CASE \/ \E h \in heal, ok \in BOOLEAN : SelfHeal(h, ok)
           \/ DeviceReappears \/ Crash \/ Reboot \/ UNCHANGED vars
  BY <1>1, <1>8 DEF SelfHeal, DeviceReappears, Crash, Reboot, vars, db
<1> QED
  BY <1>2, <1>3, <1>4, <1>5, <1>6, <1>7, <1>8 DEF Next

\* The table of operations keeps its promise, for every interleaving of calls,
\* goroutines, recoveries and crashes: a row is settled once, what is settled
\* stays so, and at most one open row holds a pool.
THEOREM TableKeepsPromise == Spec => ImplementsLifecycle
<1>1. Init => Lifecycle!Init
  BY DEF Init, Lifecycle!Init, AbsentOp
<1>2. DiskInv /\ OwnerInv /\ [Next]_vars => [Lifecycle!Next]_(Lifecycle!vars)
  BY StepImplements
<1> QED
  BY <1>1, <1>2, DiskSafety, Ownership, PTL DEF Spec, ImplementsLifecycle, Lifecycle!Spec

-----------------------------------------------------------------------------
(* The filesystems *)

\* What the checks of each kind of call leave to its commands.
CallShape ==
  /\ call.kind = "create" => /\ call.ins # {} /\ call.outs = {}
                             /\ call.step \in {"validated", "run"} => call.pool \notin born
                             /\ call.step = "persist" => call.pool \in born
  /\ call.kind \in {"remove", "destroy"} => call.ins = {}
  /\ call.kind = "add" => call.outs = {}
  /\ call.kind = "replace" => \E old, new \in Disks : call.outs = {old} /\ call.ins = {new}

\* A mounted filesystem has a disk, and one that has a disk has data.
MountInv == \A p \in mounted : Exists(p)
DataInv == \A p \in Pools : Exists(p) => data[p] # {}

\* What is mounted, has a row or is on a disk has been made.
BornInv ==
  /\ mounted \subseteq born /\ rows \subseteq born
  /\ \A d \in Disks : disk[d] \in born \cup {NoPool}

\* A replacement copies within one filesystem, which has no other.
CopyInv ==
  /\ \A c \in copying : c[1] # c[2] /\ disk[c[1]] = disk[c[2]] /\ disk[c[1]] # NoPool
  /\ \A c, e \in copying : disk[c[1]] = disk[e[1]] => c = e

\* A balance that runs does so on a mounted filesystem.
RunsInv == \A p \in Pools : BalanceRuns(p) => p \in mounted

FsInv == CallShape /\ MountInv /\ DataInv /\ BornInv /\ CopyInv /\ RunsInv

\* A fresh installation has no filesystem.
LEMMA InitFsInv == Init => FsInv
BY NoneAssumption
   DEF Init, FsInv, CallShape, MountInv, DataInv, BornInv, CopyInv, RunsInv, BalanceRuns,
       Exists,
       Idle, NoBalance

\* A request makes its checks, and a pool needs at least one disk.
LEMMA RequestsShape ==
  ASSUME DiskInv, FsInv, Requests
  PROVE  CallShape'
<1>1. born' = born
  BY RequestsKeep DEF kernel
<1>2. ASSUME NEW p \in Pools, NEW ins \in SUBSET Disks, NEW to \in Profiles,
             NEW wipe \in BOOLEAN, BeginCreate(p, ins, to, wipe)
      PROVE  CallShape'
  <2>1. ins # {}
    <3>1. Cardinality(ins) >= MinDisks[to] /\ MinDisks[to] \in Nat \ {0}
      BY <1>2, MinDisksAssumption DEF BeginCreate
    <3>2. Cardinality({}) = 0
      BY FS_EmptySet
    <3> QED
      BY <3>1, <3>2
  <2> QED
    BY <1>1, <1>2, <2>1 DEF BeginCreate, Lock, CallShape
<1>3. ASSUME NEW p \in Pools, NEW served \in Profiles,
             \/ BeginDestroy(p, served)
             \/ \E d \in Disks, wipe \in BOOLEAN : BeginAdd(p, served, d, wipe)
             \/ \E d \in Disks : BeginRemove(p, served, d)
             \/ \E to \in Profiles : BeginConvert(p, served, to)
      PROVE  CallShape'
  BY <1>1, <1>3 DEF BeginDestroy, BeginAdd, BeginRemove, BeginConvert, Lock, CallShape
<1>4. ASSUME NEW p \in Pools, NEW served \in Profiles, NEW old \in Disks, NEW new \in Disks,
             BeginReplace(p, served, old, new)
      PROVE  CallShape'
  BY <1>1, <1>4 DEF BeginReplace, Lock, CallShape
<1>5. CASE call' = call
  BY <1>1, <1>5 DEF FsInv, CallShape
<1>6. ASSUME NEW p \in Pools, AcceptRecovery(p) \/ \E served \in Profiles : Read(p, served)
      PROVE  CallShape'
  BY <1>5, <1>6 DEF AcceptRecovery, Read
<1> QED
  BY <1>2, <1>3, <1>4, <1>6 DEF Requests

\* Commands that rewrite disks of filesystems that are not mounted keep them.
LEMMA Rewritten ==
  ASSUME KernelTypes, FsInv, UNCHANGED <<mounted, born, rows>>,
         disk' \in [Disks -> Pools \cup {NoPool}],
         \A d \in Disks : disk'[d] # disk[d] =>
            disk[d] \notin mounted /\ disk'[d] \in mounted \cup {NoPool},
         data' = DataAfter(disk'), balance' = BalanceAfter(disk')
  PROVE  MountInv' /\ DataInv' /\ BornInv' /\ RunsInv'
<1> USE DEF FsInv, KernelTypes
<1>1. MountInv'
  BY DEF MountInv, Exists
<1>2. DataInv'
  <2> SUFFICES ASSUME NEW p \in Pools, Exists(p)' PROVE data'[p] # {}
    BY DEF DataInv
  <2>1. Exists(p)
    BY NoneAssumption DEF Exists, MountInv
  <2>2. data'[p] = data[p]
    BY DEF DataAfter, Exists
  <2> QED
    BY <2>1, <2>2 DEF DataInv
<1>3. BornInv'
  BY DEF BornInv
<1>4. RunsInv'
  BY DEF RunsInv, BalanceAfter, BalanceRuns, NoBalance
<1> QED
  BY <1>1, <1>2, <1>3, <1>4

\* The copies that survive a rewriting are the ones it does not touch.
LEMMA CopiesLeft ==
  ASSUME KernelTypes, CopyInv, copying' = CopyingAfter(disk')
  PROVE  CopyInv'
BY DEF KernelTypes, CopyInv, CopyingAfter

\* A command leaves the filesystems well formed.
LEMMA CommandsFsInv ==
  ASSUME DiskInv, FsInv, Commands
  PROVE  FsInv'
<1>1. KernelTypes /\ call \in CallTypes /\ rows' = rows
  BY CommandsKeep DEF DiskInv, TypeOK, DaemonTypes, db
<1>2. /\ call.pool \in Pools /\ call.pool # NoPool /\ phase = "up"
      /\ call.step = "wipe" => call.kind = "destroy"
  BY CommandsKeep, NoneAssumption DEF DiskInv, CallInv, Idle
<1>3. NoPool \notin mounted /\ NoPool \notin Pools
  BY <1>1, NoneAssumption DEF KernelTypes
<1>c. PICK step \in {"wipe", "persist", "failing"} : call' = [call EXCEPT !.step = step]
  BY CommandsKeep
<1>s. /\ call'.kind = call.kind /\ call'.pool = call.pool /\ call'.ins = call.ins
      /\ call'.outs = call.outs /\ call'.step = step
  BY <1>1, <1>c DEF CallTypes
<1>r. ASSUME born' = born, step = "persist" => call.kind # "create" PROVE CallShape'
  BY <1>s, <1>r DEF FsInv, CallShape
<1>4. CASE RunFails
  <2>1. UNCHANGED kernel /\ step = "failing"
    BY <1>4, <1>s DEF RunFails, Goto
  <2> QED
    BY <1>1, <1>r, <2>1 DEF kernel, FsInv, MountInv, DataInv, BornInv, CopyInv, RunsInv,
                          BalanceRuns, Exists
<1>5. ASSUME NEW W \in SUBSET Disks, RunWipes(W) \/ RunWipe(W) PROVE FsInv'
  <2>1. /\ UNCHANGED <<mounted, born>> /\ disk' = WipedDisks(W) /\ \A d \in W : Writable(d)
        /\ data' = DataAfter(disk') /\ balance' = BalanceAfter(disk')
        /\ copying' = CopyingAfter(disk')
    BY <1>5 DEF RunWipes, RunWipe
  <2>2. step = "persist" => call.kind # "create"
    BY <1>2, <1>5, <1>s, <1>1 DEF RunWipes, RunWipe, Goto, CallTypes
  <2>3. /\ disk' \in [Disks -> Pools \cup {NoPool}]
        /\ \A d \in Disks : disk'[d] # disk[d] =>
              disk[d] \notin mounted /\ disk'[d] \in mounted \cup {NoPool}
    BY <1>1, <2>1 DEF WipedDisks, Writable, KernelTypes
  <2>4. MountInv' /\ DataInv' /\ BornInv' /\ RunsInv'
    BY <1>1, <2>1, <2>3, Rewritten
  <2>5. CopyInv'
    BY <1>1, <2>1, CopiesLeft DEF FsInv
  <2> QED
    BY <1>r, <2>1, <2>2, <2>4, <2>5 DEF FsInv
<1>6. ASSUME NEW ok \in BOOLEAN, RunAdd(ok) PROVE FsInv'
  <2>1. /\ UNCHANGED <<mounted, born>> /\ call.pool \in mounted /\ call.kind = "add"
        /\ disk' = [d \in Disks |-> IF d \in call.ins THEN call.pool ELSE disk[d]]
        /\ \A d \in call.ins : disk[d] \notin mounted
        /\ data' = DataAfter(disk') /\ balance' = BalanceAfter(disk')
        /\ copying' = CopyingAfter(disk')
    BY <1>3, <1>6 DEF RunAdd, CanReshape, Writable, Running
  <2>2. /\ disk' \in [Disks -> Pools \cup {NoPool}]
        /\ \A d \in Disks : disk'[d] # disk[d] =>
              disk[d] \notin mounted /\ disk'[d] \in mounted \cup {NoPool}
    BY <1>1, <1>2, <2>1 DEF KernelTypes
  <2>3. MountInv' /\ DataInv' /\ BornInv' /\ RunsInv'
    BY <1>1, <2>1, <2>2, Rewritten
  <2>4. CopyInv'
    BY <1>1, <2>1, CopiesLeft DEF FsInv
  <2> QED
    BY <1>r, <2>1, <2>3, <2>4 DEF FsInv
<1>7. ASSUME NEW ok \in BOOLEAN, RunReplace(ok) PROVE FsInv'
  <2>1. /\ UNCHANGED <<mounted, born>> /\ call.pool \in mounted /\ call.kind = "replace"
        /\ disk' = [d \in Disks |-> IF d \in call.ins THEN call.pool ELSE disk[d]]
        /\ \A d \in call.ins : disk[d] \notin mounted
        /\ \A d \in call.outs : disk[d] = call.pool
        /\ \A c \in copying : disk[c[1]] # call.pool
        /\ data' = DataAfter(disk') /\ balance' = BalanceAfter(disk')
        /\ copying' = CopyingAfter(disk') \cup (call.outs \X call.ins)
    BY <1>3, <1>7 DEF RunReplace, CanReshape, Writable, Running
  <2>2. /\ disk' \in [Disks -> Pools \cup {NoPool}]
        /\ \A d \in Disks : disk'[d] # disk[d] =>
              disk[d] \notin mounted /\ disk'[d] \in mounted \cup {NoPool}
    BY <1>1, <1>2, <2>1 DEF KernelTypes
  <2>3. MountInv' /\ DataInv' /\ BornInv' /\ RunsInv'
    BY <1>1, <2>1, <2>2, Rewritten
  <2>4. CopyInv'
    <3>1. PICK old \in Disks, new \in Disks : call.outs = {old} /\ call.ins = {new}
      BY <2>1 DEF FsInv, CallShape
    <3>2. old # new /\ disk'[old] = call.pool /\ disk'[new] = call.pool
      BY <2>1, <3>1
    <3>3. copying' = CopyingAfter(disk') \cup {<<old, new>>}
      BY <2>1, <3>1
    <3>4. \A c \in CopyingAfter(disk') : /\ c \in copying /\ disk'[c[1]] = disk[c[1]]
                                         /\ disk'[c[2]] = disk[c[2]]
      BY DEF CopyingAfter
    <3>5. \A c \in CopyingAfter(disk') : disk'[c[1]] # call.pool
      BY <2>1, <3>4
    <3> QED
      BY <1>2, <3>2, <3>3, <3>4, <3>5 DEF FsInv, CopyInv
  <2> QED
    BY <1>r, <2>1, <2>3, <2>4 DEF FsInv
<1>8. ASSUME NEW ok \in BOOLEAN, RunRemove(ok) PROVE FsInv'
  <2>1. /\ UNCHANGED <<mounted, born, data, balance, copying>> /\ call.pool \in mounted
        /\ call.kind = "remove" /\ disk' = WipedDisks(call.outs)
        /\ \A d \in call.outs : disk[d] = call.pool
        /\ \A c \in copying : disk[c[1]] # call.pool
        /\ KernelAllows(call.pool, data[call.pool], call.outs)
    BY <1>8 DEF RunRemove, CanReshape, Running
  <2>2. \E d \in Disks \ call.outs : disk[d] = call.pool
    <3>1. PICK a \in Profiles : a \in data[call.pool]
      BY <1>1, <1>2, <2>1 DEF FsInv, MountInv, DataInv, KernelTypes
    <3>2. Cardinality({d \in Disks \ call.outs : disk[d] = call.pool}) >= KernelMin[a]
      BY <2>1, <3>1 DEF KernelAllows
    <3>3. KernelMin[a] \in Nat \ {0} /\ Cardinality({}) = 0
      BY MinDisksAssumption, FS_EmptySet
    <3>4. {d \in Disks \ call.outs : disk[d] = call.pool} # {}
      BY <3>2, <3>3
    <3> QED
      BY <3>4
  <2>3. MountInv' /\ BornInv'
    BY <1>1, <2>1, <2>2 DEF FsInv, MountInv, BornInv, Exists, WipedDisks, KernelTypes
  <2>4. DataInv'
    BY <1>1, <1>3, <2>1 DEF FsInv, DataInv, Exists, WipedDisks, KernelTypes
  <2>5. CopyInv'
    BY <1>1, <2>1 DEF FsInv, CopyInv, WipedDisks, KernelTypes
  <2>6. RunsInv'
    BY <2>1 DEF FsInv, RunsInv, BalanceRuns
  <2> QED
    BY <1>r, <2>1, <2>3, <2>4, <2>5, <2>6 DEF FsInv
<1>9. CASE RunUnmount
  <2>1. /\ UNCHANGED <<disk, born, data, copying>> /\ step = "wipe"
        /\ mounted' = mounted \ {call.pool} /\ balance[call.pool].by # "command"
        /\ balance' = IF balance[call.pool].by = "kernel"
                      THEN [balance EXCEPT ![call.pool].by = "paused"] ELSE balance
    BY <1>9, <1>s, <1>1 DEF RunUnmount, Goto, CallTypes
  <2>2. RunsInv'
    BY <1>1, <1>2, <2>1 DEF FsInv, RunsInv, BalanceRuns, KernelTypes, BalanceTypes
  <2>3. MountInv' /\ DataInv' /\ BornInv' /\ CopyInv'
    BY <1>1, <2>1 DEF FsInv, MountInv, DataInv, BornInv, CopyInv, Exists
  <2> QED
    BY <1>r, <2>1, <2>2, <2>3 DEF FsInv
<1>10. ASSUME NEW up \in BOOLEAN, NEW ok \in BOOLEAN, RunCreate(up, ok) PROVE FsInv'
  <2>1. /\ born' = born \cup {call.pool} /\ call.kind = "create" /\ call.to \in Profiles
        /\ mounted' \subseteq mounted \cup {call.pool}
        /\ mounted \subseteq mounted'
        /\ disk' = [d \in Disks |-> IF d \in call.ins THEN call.pool ELSE disk[d]]
        /\ \A d \in call.ins : disk[d] \notin mounted
        /\ data' = [DataAfter(disk') EXCEPT ![call.pool] = {call.to}]
        /\ balance' = BalanceAfter(disk') /\ copying' = CopyingAfter(disk')
        /\ call.pool \notin born /\ call.ins # {} /\ call.ins \subseteq Disks
    BY <1>1, <1>3, <1>10 DEF RunCreate, Running, Writable, DiskInv, CallInv, FsInv,
                             CallShape,
                            CallTypes
  <2>2. MountInv'
    BY <1>1, <2>1 DEF FsInv, MountInv, Exists, KernelTypes
  <2>3. DataInv'
    <3> SUFFICES ASSUME NEW p \in Pools, Exists(p)' PROVE data'[p] # {}
      BY DEF DataInv
    <3>1. CASE p = call.pool
      BY <1>2, <2>1, <3>1 DEF DataAfter
    <3>2. CASE p # call.pool
      <4>1. Exists(p)
        BY <2>1, <3>2 DEF Exists
      <4>2. data'[p] = data[p]
        BY <2>1, <3>2 DEF DataAfter, Exists
      <4> QED
        BY <4>1, <4>2 DEF FsInv, DataInv
    <3> QED
      BY <3>1, <3>2
  <2>4. BornInv'
    BY <1>1, <2>1 DEF FsInv, BornInv
  <2>5. RunsInv'
    BY <2>1 DEF FsInv, RunsInv, BalanceAfter, BalanceRuns, NoBalance
  <2>6. CopyInv'
    BY <1>1, <2>1, CopiesLeft DEF FsInv
  <2>7. CallShape'
    BY <1>s, <2>1 DEF FsInv, CallShape
  <2> QED
    BY <2>2, <2>3, <2>4, <2>5, <2>6, <2>7 DEF FsInv
<1> QED
  BY <1>4, <1>5, <1>6, <1>7, <1>8, <1>9, <1>10 DEF Commands

\* What the filesystems depend on: steps that leave it alone keep them.
LEMMA FsStays ==
  ASSUME FsInv, CallShape', UNCHANGED <<disk, data, born, mounted, balance, copying>>,
         rows' \subseteq rows
  PROVE  FsInv'
BY DEF FsInv, MountInv, DataInv, BornInv, CopyInv, RunsInv, Exists, BalanceRuns

\* The call keeps its shape when it goes on and nothing is made.
LEMMA ShapeStays ==
  ASSUME DiskInv, CallShape, born' = born,
         \/ call' = call
         \/ call' = Idle
         \/ \E o \in Ops, step \in {"run", "failing"} :
              call' = [call EXCEPT !.op = o, !.step = step]
              /\ (step = "run" => call.step = "validated")
         \/ call' = [call EXCEPT !.step = "failing"]
  PROVE  CallShape'
<1>1. \/ call' = Idle
      \/ /\ UNCHANGED <<call.kind, call.pool, call.ins, call.outs>>
         /\ call'.step \in {call.step, "failing"} \/ (call.step = "validated" /\ call'.step = "run")
  BY DEF DiskInv, TypeOK, DaemonTypes, CallTypes
<1>2. CASE call' = Idle
  BY <1>2 DEF CallShape, Idle
<1>3. CASE call' # Idle
  <2>1. UNCHANGED <<call.kind, call.pool, call.ins, call.outs, born>>
    BY <1>1, <1>3
  <2>2. /\ call'.step = "persist" => call.step = "persist"
        /\ call'.step \in {"validated", "run"} => call.step \in {"validated", "run"}
    BY <1>1, <1>3
  <2> QED
    BY <2>1, <2>2 DEF CallShape
<1> QED
  BY <1>2, <1>3

\* The steps of a call that are not commands: the transaction that closes a
\* creation makes a row of a filesystem that was made.
LEMMA CallFsInv ==
  ASSUME DiskInv, FsInv, CallSteps
  PROVE  FsInv'
<1>1. CASE Commands
  BY <1>1, CommandsFsInv
<1>2. ASSUME NEW o \in Ops, OpenOp(o) PROVE FsInv'
  <2>1. UNCHANGED kernel /\ rows' = rows /\ call.step = "validated"
    BY <1>2 DEF OpenOp
  <2>2. call' = Idle \/ call' = [call EXCEPT !.op = o, !.step = "run"]
    BY <1>2 DEF OpenOp
  <2>3. CallShape'
    BY <2>1, <2>2, ShapeStays DEF FsInv, kernel
  <2> QED
    BY <2>1, <2>3, FsStays DEF kernel
<1>3. CASE RefuseOp \/ PersistFails \/ \E s \in {"failed", Active} : FailCall(s)
  <2>1. UNCHANGED kernel /\ rows' = rows
    BY <1>3 DEF RefuseOp, PersistFails, FailCall, db
  <2>2. call' = Idle \/ call' = [call EXCEPT !.step = "failing"]
    BY <1>3 DEF RefuseOp, PersistFails, FailCall, Goto
  <2>3. CallShape'
    BY <2>1, <2>2, ShapeStays DEF FsInv, kernel
  <2> QED
    BY <2>1, <2>3, FsStays DEF kernel
<1>4. CASE Persist
  <2>1. UNCHANGED kernel /\ call' = Idle /\ call.step = "persist"
    BY <1>4 DEF Persist
  <2>2. CallShape'
    BY <2>1, ShapeStays DEF FsInv, kernel
  <2>3. rows' \subseteq rows \cup born
    BY <1>4, <2>1 DEF Persist, PersistCreate, PersistDestroy, PersistMembers, DeletePool,
                      FsInv,
                      CallShape
  <2> QED
    BY <2>1, <2>2, <2>3 DEF kernel, FsInv, MountInv, DataInv, BornInv, CopyInv, RunsInv,
                            Exists,
                            BalanceRuns
<1> QED
  BY <1>1, <1>2, <1>3, <1>4 DEF CallSteps

\* A mount is refused when no disk carries the filesystem.
LEMMA MountFsInv ==
  ASSUME KernelTypes, FsInv, NEW p \in Pools, Exists(p), MountEffect(p), CallShape',
         UNCHANGED <<disk, data, born, copying, rows>>
  PROVE  FsInv'
<1>1. p \in born
  BY NoneAssumption DEF FsInv, BornInv, Exists
<1>2. RunsInv'
  BY DEF MountEffect, FsInv, RunsInv, BalanceRuns, KernelTypes, BalanceTypes
<1>3. MountInv' /\ DataInv' /\ BornInv' /\ CopyInv'
  BY <1>1 DEF MountEffect, FsInv, MountInv, DataInv, BornInv, CopyInv, Exists
<1> QED
  BY <1>2, <1>3 DEF FsInv

\* What the kernel does by itself: balances go on and end, replacements end,
\* fstab is mounted.
LEMMA KernelFsInv ==
  ASSUME DiskInv, FsInv, KernelSteps
  PROVE  FsInv'
<1>1. KernelTypes
  BY DEF DiskInv, TypeOK
<1>2. call' = call /\ rows' = rows /\ born' = born
  BY DEF KernelSteps, BalanceMoves, BalanceEnds, FstabMount, ReplaceEnds, daemon, db
<1>3. CallShape'
  BY <1>2, ShapeStays DEF FsInv
<1>4. ASSUME NEW p \in Pools, BalanceMoves(p) PROVE FsInv'
  BY <1>1, <1>2, <1>3, <1>4
     DEF BalanceMoves, FsInv, MountInv, DataInv, BornInv, CopyInv, RunsInv, Exists,
         BalanceRuns,
         KernelTypes
<1>5. ASSUME NEW p \in Pools, NEW ok \in BOOLEAN, BalanceEnds(p, ok) PROVE FsInv'
  <2>1. /\ UNCHANGED <<disk, mounted, copying>>
        /\ \A q \in Pools : data[q] # {} => data'[q] # {}
        /\ \A q \in Pools : balance'[q] = IF q = p THEN NoBalance ELSE balance[q]
    BY <1>1, <1>5 DEF BalanceEnds, KernelTypes
  <2> QED
    BY <1>2, <1>3, <2>1 DEF FsInv, MountInv, DataInv, BornInv, CopyInv, RunsInv, Exists,
                            BalanceRuns,
                            NoBalance
<1>6. ASSUME NEW p \in Pools, FstabMount(p) PROVE FsInv'
  BY <1>1, <1>2, <1>3, <1>6, MountFsInv DEF FstabMount
<1>7. ASSUME NEW c \in copying, NEW ok \in BOOLEAN, ReplaceEnds(c, ok) PROVE FsInv'
  <2> DEFINE gone == IF ok THEN c[1] ELSE c[2]
             left == IF ok THEN c[2] ELSE c[1]
  <2>1. /\ UNCHANGED <<data, mounted, balance>> /\ copying' = copying \ {c}
        /\ c[1] \in Disks /\ c[2] \in Disks
        /\ disk' = [d \in Disks |-> IF d = gone THEN NoPool ELSE disk[d]]
    BY <1>1, <1>7 DEF ReplaceEnds, WipedDisks, KernelTypes
  <2>2. gone # left /\ disk[gone] = disk[left] /\ gone \in Disks /\ left \in Disks
    BY <1>7, <2>1 DEF FsInv, CopyInv
  <2>3. \A p \in Pools : Exists(p)' <=> Exists(p)
    BY <2>1, <2>2, NoneAssumption DEF Exists
  <2>4. MountInv' /\ DataInv' /\ BornInv' /\ RunsInv'
    BY <1>1, <1>2, <2>1, <2>3 DEF FsInv, MountInv, DataInv, BornInv, RunsInv, BalanceRuns,
                                  KernelTypes
  <2>5. CopyInv'
    <3>1. \A e \in copying' : e \in copying /\ e # c /\ e[1] \in Disks /\ e[2] \in Disks
      BY <1>1, <2>1 DEF KernelTypes
    <3>2. \A e \in copying' : e[1] # gone /\ e[2] # gone
      BY <1>7, <2>2, <3>1 DEF FsInv, CopyInv
    <3> QED
      BY <2>1, <3>1, <3>2 DEF FsInv, CopyInv
  <2> QED
    BY <1>3, <2>4, <2>5 DEF FsInv
<1> QED
  BY <1>4, <1>5, <1>6, <1>7 DEF KernelSteps

\* A boot mounts what is there, a recovery deletes rows only, and nobody else
\* makes anything.
LEMMA OthersFsInv ==
  ASSUME DiskInv, FsInv, BootSteps \/ \E o \in Ops : WatchSteps(o)
  PROVE  FsInv'
<1>1. UNCHANGED <<disk, data, born, copying, call>> /\ rows' \subseteq rows
  <2>1. ASSUME NEW o \in Ops, RecoverySteps(o)
        PROVE  UNCHANGED <<kernel, call>> /\ rows' \subseteq rows
    BY <2>1 DEF RecoverySteps, RecoverCreate, RecoverDestroyRow, RecoverDestroy,
                RecoverLayout,
                Readopt, RecoverSkips, DeletePool, db
  <2> QED
    BY <2>1 DEF BootSteps, StartDaemon, ServeHTTP, ReconcileMount, DetectDrift, CheckDrift,
                DriftDone, WatchSteps, WatchDone, WatchExpires, db, kernel
<1>2. CallShape'
  BY <1>1, ShapeStays DEF FsInv
<1>3. CASE UNCHANGED <<mounted, balance>>
  BY <1>1, <1>2, <1>3, FsStays
<1>4. ASSUME NEW p \in Pools, NEW ok \in BOOLEAN, ReconcileMount(p, ok) PROVE FsInv'
  <2>1. KernelTypes /\ rows' = rows
    BY <1>4 DEF DiskInv, TypeOK, ReconcileMount, db
  <2> QED
    BY <1>1, <1>2, <1>3, <1>4, <2>1, MountFsInv DEF ReconcileMount
<1>5. ASSUME NEW o \in Ops, RecoverySteps(o) PROVE UNCHANGED <<mounted, balance>>
  BY <1>5 DEF RecoverySteps, RecoverCreate, RecoverDestroyRow, RecoverDestroy,
              RecoverLayout,
              Readopt, RecoverSkips, kernel
<1> QED
  BY <1>3, <1>4, <1>5 DEF BootSteps, StartDaemon, ServeHTTP, DetectDrift, CheckDrift,
              DriftDone, WatchSteps, WatchDone, WatchExpires, kernel

\* Every step of the specification keeps the filesystems well formed.
LEMMA NextFsInv == DiskInv /\ FsInv /\ [Next]_vars => FsInv'
<1> SUFFICES ASSUME DiskInv, FsInv, [Next]_vars PROVE FsInv'
  OBVIOUS
<1>1. CASE Requests
  <2>1. UNCHANGED <<rows, kernel>> /\ CallShape'
    BY <1>1, RequestsKeep, RequestsShape
  <2> QED
    BY <2>1, FsStays DEF kernel
<1>2. ASSUME NEW o \in Ops, ConvSteps(o) PROVE FsInv'
  <2>1. UNCHANGED <<rows, disk, data, born, mounted, copying, call>>
    BY <1>2 DEF ConvSteps, ConvStart, ConvPersist, ConvPersistFails, ConvFail, db, kernel
  <2>2. CallShape'
    BY <2>1, ShapeStays DEF FsInv
  <2>3. CASE balance' = balance
    BY <2>1, <2>2, <2>3, FsStays
  <2>4. CASE balance' # balance
    <3>1. /\ ops[o].fs \in mounted
          /\ balance' = [balance EXCEPT ![ops[o].fs] = [by |-> "command", to |-> ops[o].to]]
      BY <1>2, <2>4 DEF ConvSteps, ConvStart, ConvPersist, ConvPersistFails, ConvFail,
                        kernel, CanReshape
    <3>2. RunsInv'
      BY <2>1, <3>1 DEF FsInv, RunsInv, BalanceRuns, DiskInv, TypeOK, KernelTypes
    <3> QED
      BY <2>1, <2>2, <3>2 DEF FsInv, MountInv, DataInv, BornInv, CopyInv, Exists
  <2> QED
    BY <2>3, <2>4
<1>3. CASE Reboot
  <2>1. UNCHANGED <<rows, disk, data, born, copying>> /\ call' = Idle /\ mounted' = {}
    BY <1>3 DEF Reboot, DaemonDies, db
  <2>2. CallShape'
    BY <2>1, ShapeStays DEF FsInv
  <2>3. RunsInv'
    BY <1>3 DEF Reboot, RunsInv, BalanceRuns, NoBalance, DiskInv, TypeOK, KernelTypes,
                BalanceTypes
  <2> QED
    BY <2>1, <2>2, <2>3 DEF FsInv, MountInv, DataInv, BornInv, CopyInv, Exists
<1>4. CASE \/ \E h \in heal, ok \in BOOLEAN : SelfHeal(h, ok)
           \/ DeviceReappears \/ Crash \/ UNCHANGED vars
  <2>1. UNCHANGED <<rows, kernel>> /\ (call' = call \/ call' = Idle)
    BY <1>4 DEF SelfHeal, DeviceReappears, Crash, DaemonDies, vars, db, daemon
  <2>2. CallShape'
    BY <2>1, ShapeStays DEF FsInv, kernel
  <2> QED
    BY <2>1, <2>2, FsStays DEF kernel
<1> QED
  BY <1>1, <1>2, <1>3, <1>4, CallFsInv, OthersFsInv, KernelFsInv DEF Next

\* Whatever the calls, the kernel and the crashes do, what is mounted has a
\* disk, what has a row was made, and a replacement stays within a filesystem.
THEOREM FilesystemsSound == Spec => []FsInv
<1>1. Init => FsInv
  BY InitFsInv
<1> QED
  BY <1>1, NextFsInv, DiskSafety, PTL DEF Spec

-----------------------------------------------------------------------------
(* What a closing transaction records has been done *)

\* The disks of a call that is about to close it are where it says.
CallDone ==
  call.step = "persist" =>
    /\ call.kind \in {"create", "add"} => \A d \in call.ins :
         disk[d] = call.pool /\ \A c \in copying : d # c[1] /\ d # c[2]
    /\ call.kind = "remove" => \A d \in call.outs : disk[d] # call.pool

\* A conversion waits for its own balance, and once it has ended well the
\* filesystem has the profile that was asked for.
ConvDone ==
  \A o \in Ops :
    /\ conv[o] = "balancing" => /\ balance[ops[o].fs].by = "command"
                                /\ balance[ops[o].fs].to = ops[o].to
    /\ conv[o] = "persist" => /\ ops[o].fs \in mounted /\ data[ops[o].fs] = {ops[o].to}
                              /\ balance[ops[o].fs] = NoBalance

\* The command of a call leaves the disks where the call wants them.
LEMMA CommandsCallDone ==
  ASSUME DiskInv, FsInv, Commands
  PROVE  CallDone'
<1>1. KernelTypes /\ call \in CallTypes /\ call.pool \in Pools /\ call.pool # NoPool
  BY CommandsKeep, NoneAssumption DEF DiskInv, TypeOK, DaemonTypes, CallInv, Idle
<1>2. call.ins \subseteq Disks /\ call.outs \subseteq Disks
  BY <1>1 DEF CallTypes
<1>3. PICK step \in {"wipe", "persist", "failing"} : call' = [call EXCEPT !.step = step]
  BY CommandsKeep
<1>4. UNCHANGED <<call.kind, call.pool, call.ins, call.outs>> /\ call'.step = step
  BY <1>1, <1>3 DEF CallTypes
<1>5. ASSUME call.kind \in {"create", "add"}, step = "persist", NEW d \in call.ins
      PROVE  disk'[d] = call.pool /\ \A c \in copying' : d # c[1] /\ d # c[2]
  <2>1. \/ \E up, ok \in BOOLEAN : RunCreate(up, ok)
        \/ \E ok \in BOOLEAN : RunAdd(ok)
    BY <1>1, <1>4, <1>5 DEF Commands, RunFails, RunWipes, RunWipe, RunUnmount, RunRemove,
                            RunReplace, Running, Goto,
                       DiskInv, CallInv, CallTypes
  <2>2. /\ disk' = [e \in Disks |-> IF e \in call.ins THEN call.pool ELSE disk[e]]
        /\ copying' = CopyingAfter(disk')
    BY <2>1 DEF RunCreate, RunAdd
  <2>3. \A c \in copying : disk[c[1]] # call.pool
    <3>1. CASE \E up, ok \in BOOLEAN : RunCreate(up, ok)
      BY <1>1, <3>1 DEF RunCreate, Running, FsInv, CallShape, BornInv, KernelTypes
    <3>2. CASE \E ok \in BOOLEAN : RunAdd(ok)
      BY <3>2 DEF RunAdd, CanReshape
    <3> QED
      BY <2>1, <3>1, <3>2
  <2>4. \A c \in copying' : /\ c \in copying /\ disk'[c[1]] = disk[c[1]]
                            /\ disk'[c[2]] = disk[c[2]] /\ disk[c[1]] = disk[c[2]]
    BY <2>2 DEF CopyingAfter, FsInv, CopyInv
  <2> QED
    BY <1>2, <1>5, <2>2, <2>3, <2>4
<1>6. ASSUME call.kind = "remove", step = "persist", NEW d \in call.outs
      PROVE  disk'[d] # call.pool
  <2>1. \E ok \in BOOLEAN : RunRemove(ok)
    BY <1>1, <1>4, <1>6 DEF Commands, RunFails, RunWipes, RunWipe, RunUnmount, RunCreate,
                            RunAdd, RunReplace, Running,
                       Goto, DiskInv, CallInv, CallTypes
  <2> QED
    BY <1>1, <1>2, <1>6, <2>1 DEF RunRemove, WipedDisks
<1> QED
  BY <1>4, <1>5, <1>6 DEF CallDone

\* A filesystem that is mounted keeps its data and its balance through the
\* commands of a call that works on another one.
LEMMA CommandsSpareMounted ==
  ASSUME DiskInv, FsInv, Commands, NEW p \in Pools, p \in mounted, p # call.pool
  PROVE  p \in mounted' /\ data'[p] = data[p] /\ balance'[p] = balance[p]
<1>1. KernelTypes /\ p # NoPool
  BY NoneAssumption DEF DiskInv, TypeOK
<1>2. PICK e \in Disks : disk[e] = p
  BY DEF FsInv, MountInv, Exists
<1>3. p \in mounted'
  BY DEF Commands, RunFails, RunWipes, RunWipe, RunUnmount, RunCreate, RunAdd, RunRemove,
         RunReplace, kernel
<1>4. CASE RunFails \/ RunUnmount \/ \E ok \in BOOLEAN : RunRemove(ok)
  BY <1>1, <1>4 DEF RunFails, RunUnmount, RunRemove, kernel, KernelTypes
<1>5. ASSUME NEW W \in SUBSET Disks, RunWipes(W) \/ RunWipe(W)
      PROVE  data'[p] = data[p] /\ balance'[p] = balance[p]
  <2>1. /\ disk' = WipedDisks(W) /\ \A d \in W : Writable(d)
        /\ data' = DataAfter(disk') /\ balance' = BalanceAfter(disk')
    BY <1>5 DEF RunWipes, RunWipe
  <2>2. disk'[e] = p
    BY <1>2, <2>1 DEF WipedDisks, Writable
  <2> QED
    BY <2>1, <2>2 DEF DataAfter, BalanceAfter
<1>6. ASSUME NEW up \in BOOLEAN, NEW ok \in BOOLEAN,
             RunCreate(up, ok) \/ RunAdd(ok) \/ RunReplace(ok)
      PROVE  data'[p] = data[p] /\ balance'[p] = balance[p]
  <2>1. /\ disk' = [d \in Disks |-> IF d \in call.ins THEN call.pool ELSE disk[d]]
        /\ \A d \in call.ins : Writable(d) \/ disk[d] = NoPool
        /\ balance' = BalanceAfter(disk')
    BY <1>6 DEF RunCreate, RunAdd, RunReplace
  <2>2. disk'[e] = p
    BY <1>1, <1>2, <2>1 DEF Writable
  <2>3. data'[p] = DataAfter(disk')[p]
    BY <1>6 DEF RunCreate, RunAdd, RunReplace, DataAfter
  <2> QED
    BY <2>1, <2>2, <2>3 DEF DataAfter, BalanceAfter
<1> QED
  BY <1>3, <1>4, <1>5, <1>6 DEF Commands

\* What a conversion found or made stays when nobody touches its filesystem.
LEMMA ConvDoneStays ==
  ASSUME ConvDone,
         \A o \in Ops : conv'[o] \in {"balancing", "persist"} =>
           /\ conv'[o] = conv[o] /\ ops'[o].fs = ops[o].fs /\ ops'[o].to = ops[o].to
           /\ balance'[ops[o].fs] = balance[ops[o].fs]
           /\ conv[o] = "persist" => /\ data'[ops[o].fs] = data[ops[o].fs]
                                     /\ ops[o].fs \in mounted'
  PROVE  ConvDone'
BY DEF ConvDone

\* A conversion that waits or is done has its filesystem mounted.
LEMMA ConvMounted ==
  ASSUME DiskInv, OwnerInv, FsInv, ConvDone, NEW o \in Ops, conv[o] \in {"balancing", "persist"}
  PROVE  ops[o].fs \in mounted /\ ops[o].fs \in Pools /\ ops[o].pool = ops[o].fs
         /\ ops[o].status = Active /\ ops[o].kind = "convert"
<1>1. ops[o].fs \in Pools /\ ops[o].pool = ops[o].fs /\ ops[o].status = Active
  BY DEF OwnerInv, ConvRow
<1>2. CASE conv[o] = "balancing"
  <2>1. balance[ops[o].fs].by = "command"
    BY <1>2 DEF ConvDone
  <2>2. BalanceRuns(ops[o].fs)
    BY <2>1 DEF BalanceRuns
  <2> QED
    BY <1>1, <2>2 DEF FsInv, RunsInv, DiskInv, ConvInv
<1>3. CASE conv[o] = "persist"
  BY <1>1, <1>3 DEF ConvDone, DiskInv, ConvInv
<1> QED
  BY <1>2, <1>3

\* The steps of a call leave the filesystem of a conversion alone: the row of
\* the conversion holds the pool.
LEMMA CallConvDone ==
  ASSUME DiskInv, OwnerInv, FsInv, ConvDone, CallSteps
  PROVE  ConvDone'
<1>1. CASE Commands
  <2>1. UNCHANGED <<ops, conv>> /\ Working
    BY <1>1, CommandsKeep DEF db, Working
  <2>2. ASSUME NEW o \in Ops, conv[o] \in {"balancing", "persist"}
        PROVE  ops[o].fs # call.pool
    <3>1. /\ ops[o].fs \in mounted /\ ops[o].fs \in Pools /\ ops[o].pool = ops[o].fs
          /\ ops[o].status = Active /\ ops[o].kind = "convert"
      BY <2>2, ConvMounted
    <3>2. call.op \in Ops /\ ops[call.op].status = Active /\ call.op # o
      BY <2>1, <3>1 DEF DiskInv, CallInv, OwnerInv, CallRow, Working
    <3>3. CASE call.kind = "create"
      <4>1. call.pool \notin born
        BY <1>1, <3>3, CommandsKeep DEF FsInv, CallShape, DiskInv, CallInv
      <4> QED
        BY <3>1, <4>1 DEF FsInv, BornInv
    <3>4. CASE call.kind # "create"
      BY <2>1, <3>1, <3>2, <3>4 DEF OwnerInv, CallRow, OneHolder
    <3> QED
      BY <3>3, <3>4
  <2>3. \A o \in Ops : conv[o] \in {"balancing", "persist"} =>
          /\ balance'[ops[o].fs] = balance[ops[o].fs] /\ data'[ops[o].fs] = data[ops[o].fs]
          /\ ops[o].fs \in mounted'
    BY <1>1, <2>2, ConvMounted, CommandsSpareMounted
  <2> QED
    BY <2>1, <2>3, ConvDoneStays
<1>2. ASSUME NEW o \in Ops, OpenOp(o) PROVE ConvDone'
  <2>1. /\ UNCHANGED kernel
        /\ \A r \in Ops : r # o => ops'[r] = ops[r] /\ conv'[r] = conv[r]
        /\ conv'[o] \in {"start", conv[o]}
    BY <1>2 DEF OpenOp, DiskInv, TypeOK, DbTypes, DaemonTypes
  <2>2. conv[o] = "none"
    BY <1>2 DEF OpenOp, AbsentOp, OwnerInv, ConvRow, Active
  <2>3. \A r \in Ops : conv'[r] \in {"balancing", "persist"} =>
          conv[r] = conv'[r] /\ ops'[r] = ops[r] /\ ops[r].fs \in mounted
    BY <2>1, <2>2, ConvMounted
  <2>4. \A r \in Ops : conv'[r] = "persist" => ops[r].fs \in mounted'
    BY <2>1, <2>3 DEF kernel
  <2> QED
    BY <2>1, <2>3, <2>4, ConvDoneStays DEF kernel
<1>3. CASE RefuseOp \/ Persist \/ PersistFails \/ \E s \in {"failed", Active} : FailCall(s)
  <2>1. UNCHANGED <<kernel, conv>>
    BY <1>3 DEF RefuseOp, Persist, PersistFails, FailCall
  <2>2. \A r \in Ops : ops'[r].fs = ops[r].fs /\ ops'[r].to = ops[r].to
    <3>1. ops \in [Ops -> OpTypes] /\ (Working => call.op \in Ops)
      BY DEF DiskInv, TypeOK, DbTypes, CallInv, Working
    <3>2. SetStatus(call.op, "completed") \in [Ops -> OpTypes]
      BY <3>1 DEF SetStatus, OpTypes, Terminal
    <3> QED
      BY <1>3, <3>1, <3>2
         DEF RefuseOp, Persist, PersistFails, FailCall, PersistCreate, PersistDestroy,
             PersistMembers,
             MarkOperationFailed, SetStatus, Detached, OpTypes, db
  <2> QED
    BY <2>1, <2>2, ConvDoneStays, ConvMounted DEF kernel
<1> QED
  BY <1>1, <1>2, <1>3 DEF CallSteps

\* Nor do two conversions work on one filesystem.
LEMMA ConvConvDone ==
  ASSUME DiskInv, OwnerInv, FsInv, ConvDone, NEW o \in Ops, ConvSteps(o)
  PROVE  ConvDone'
<1>1. /\ UNCHANGED <<data, mounted>>
      /\ \A r \in Ops : r # o => conv'[r] = conv[r]
      /\ \A r \in Ops : ops'[r].fs = ops[r].fs /\ ops'[r].to = ops[r].to
  <2>1. ops \in [Ops -> OpTypes] /\ conv \in [Ops -> {"none", "start", "balancing", "persist", "failing"}]
    BY DEF DiskInv, TypeOK, DbTypes, DaemonTypes
  <2> QED
    BY <2>1 DEF ConvSteps, ConvStart, ConvPersist, ConvPersistFails, ConvFail,
                MarkOperationFailed,
                SetStatus, OpTypes, db, kernel
<1>2. CASE balance' = balance
  <2>1. conv'[o] \notin {"balancing", "persist"}
    <3>1. conv \in [Ops -> {"none", "start", "balancing", "persist", "failing"}]
      BY DEF DiskInv, TypeOK, DaemonTypes
    <3>2. CASE ConvStart(o)
      <4>1. ops[o].fs \in Pools /\ balance \in [Pools -> BalanceTypes]
        BY <3>2 DEF ConvStart, ConvAt, OwnerInv, ConvRow, DiskInv, TypeOK, KernelTypes
      <4>2. CASE CanReshape(ops[o].fs) /\ KernelAllows(ops[o].fs, {ops[o].to}, {})
        <5>1. balance'[ops[o].fs].by = "command" /\ balance[ops[o].fs].by = "none"
          BY <3>2, <4>1, <4>2 DEF ConvStart, CanReshape, NoBalance
        <5> QED
          BY <1>2, <5>1
      <4>3. CASE ~(CanReshape(ops[o].fs) /\ KernelAllows(ops[o].fs, {ops[o].to}, {}))
        BY <3>1, <3>2, <4>3 DEF ConvStart
      <4> QED
        BY <4>2, <4>3
    <3> QED
      BY <3>1, <3>2 DEF ConvSteps, ConvPersist, ConvPersistFails, ConvFail
  <2> QED
    BY <1>1, <1>2, <2>1, ConvDoneStays, ConvMounted
<1>3. CASE balance' # balance
  <2>1. /\ ConvStart(o) /\ ConvAt(o, "start") /\ CanReshape(ops[o].fs)
        /\ balance' = [balance EXCEPT ![ops[o].fs] = [by |-> "command", to |-> ops[o].to]]
        /\ conv' = [conv EXCEPT ![o] = "balancing"]
    BY <1>3 DEF ConvSteps, ConvStart, ConvPersist, ConvPersistFails, ConvFail, kernel
  <2>2. /\ ops[o].fs \in Pools /\ ops[o].pool = ops[o].fs /\ ops[o].status = Active
        /\ balance \in [Pools -> BalanceTypes]
        /\ conv \in [Ops -> {"none", "start", "balancing", "persist", "failing"}]
    BY <2>1 DEF ConvAt, OwnerInv, ConvRow, DiskInv, TypeOK, DaemonTypes, KernelTypes
  <2>3. ASSUME NEW r \in Ops, r # o, conv[r] \in {"balancing", "persist"}
        PROVE  balance'[ops[r].fs] = balance[ops[r].fs] /\ ops[r].fs \in mounted
    <3>1. ops[r].fs # ops[o].fs
      BY <2>2, <2>3, ConvMounted DEF OwnerInv, OneHolder
    <3> QED
      BY <2>1, <2>2, <2>3, <3>1, ConvMounted
  <2>4. /\ conv'[o] = "balancing"
        /\ balance'[ops[o].fs].by = "command" /\ balance'[ops[o].fs].to = ops[o].to
    BY <2>1, <2>2
  <2>5. ASSUME NEW r \in Ops, r # o
        PROVE  /\ conv'[r] = "balancing" => /\ balance'[ops'[r].fs].by = "command"
                                            /\ balance'[ops'[r].fs].to = ops'[r].to
               /\ conv'[r] = "persist" => /\ ops'[r].fs \in mounted' /\ data'[ops'[r].fs] = {ops'[r].to}
                                          /\ balance'[ops'[r].fs] = NoBalance
    BY <1>1, <2>3, <2>5 DEF ConvDone
  <2> QED
    BY <1>1, <2>4, <2>5 DEF ConvDone
<1> QED
  BY <1>2, <1>3

\* The kernel tells the conversion that waits how its balance ended.
LEMMA KernelConvDone ==
  ASSUME DiskInv, OwnerInv, FsInv, ConvDone, KernelSteps
  PROVE  ConvDone'
<1>1. KernelTypes /\ ops' = ops
  BY DEF DiskInv, TypeOK, KernelSteps, BalanceMoves, BalanceEnds, FstabMount, ReplaceEnds,
         db
<1>2. ASSUME NEW p \in Pools, BalanceMoves(p) PROVE ConvDone'
  <2>1. /\ UNCHANGED <<mounted, balance, conv>> /\ balance[p] # NoBalance
        /\ \A q \in Pools : q # p => data'[q] = data[q]
    BY <1>1, <1>2 DEF BalanceMoves, BalanceRuns, NoBalance, daemon, KernelTypes
  <2> QED
    BY <1>1, <2>1, ConvMounted, ConvDoneStays DEF ConvDone
<1>3. ASSUME NEW p \in Pools, NEW ok \in BOOLEAN, BalanceEnds(p, ok) PROVE ConvDone'
  <2>1. /\ mounted' = mounted /\ BalanceRuns(p)
        /\ \A q \in Pools : balance'[q] = IF q = p THEN NoBalance ELSE balance[q]
        /\ \A q \in Pools : data'[q] = IF q = p /\ ok THEN {balance[p].to} ELSE data[q]
        /\ \A r \in Ops : conv'[r] = IF conv[r] = "balancing" /\ ops[r].fs = p
                                     THEN (IF ok THEN "persist" ELSE "failing") ELSE conv[r]
    BY <1>1, <1>3 DEF BalanceEnds, ConvAt, KernelTypes
  <2>2. p \in mounted /\ balance[p] # NoBalance
    BY <2>1 DEF FsInv, RunsInv, BalanceRuns, NoBalance
  <2>3. ASSUME NEW r \in Ops, ops[r].fs = p
        PROVE  conv'[r] # "balancing" /\ (conv'[r] = "persist" => data'[p] = {ops[r].to})
    <3>1. conv[r] # "persist"
      BY <2>2, <2>3 DEF ConvDone
    <3>2. conv[r] = "balancing" => balance[p].to = ops[r].to
      BY <2>3 DEF ConvDone
    <3> QED
      BY <2>1, <2>3, <3>1, <3>2
  <2>4. ASSUME NEW r \in Ops, ops[r].fs # p, conv'[r] \in {"balancing", "persist"}
        PROVE  /\ conv'[r] = conv[r] /\ ops[r].fs \in mounted
               /\ balance'[ops[r].fs] = balance[ops[r].fs] /\ data'[ops[r].fs] = data[ops[r].fs]
    BY <2>1, <2>4, ConvMounted
  <2> QED
    BY <1>1, <2>1, <2>2, <2>3, <2>4 DEF ConvDone
<1>4. ASSUME NEW p \in Pools, FstabMount(p) PROVE ConvDone'
  BY <1>1, <1>4, ConvDoneStays, ConvMounted
     DEF FstabMount, MountEffect, daemon, ConvDone, NoBalance, KernelTypes, BalanceTypes
<1>5. ASSUME NEW c \in copying, NEW ok \in BOOLEAN, ReplaceEnds(c, ok) PROVE ConvDone'
  BY <1>1, <1>5, ConvDoneStays, ConvMounted DEF ReplaceEnds, daemon
<1> QED
  BY <1>2, <1>3, <1>4, <1>5 DEF KernelSteps

\* The rest of the daemon leaves a conversion's filesystem mounted and its
\* balance alone; it has none while the daemon is down.
LEMMA OthersConvDone ==
  ASSUME DiskInv, OwnerInv, FsInv, ConvDone,
         \/ Requests \/ BootSteps \/ Crash \/ Reboot \/ DeviceReappears \/ UNCHANGED vars
         \/ \E o \in Ops : WatchSteps(o)
         \/ \E h \in heal, ok \in BOOLEAN : SelfHeal(h, ok)
  PROVE  ConvDone'
<1>0. ops \in [Ops -> OpTypes] /\ KernelTypes
  BY DEF DiskInv, TypeOK, DbTypes
<1>1. ASSUME NEW o \in Ops, RecoverySteps(o)
      PROVE  /\ UNCHANGED <<kernel, conv>>
             /\ \A r \in Ops : ops'[r].fs = ops[r].fs /\ ops'[r].to = ops[r].to
  BY <1>0, <1>1 DEF RecoverySteps, RecoverCreate, RecoverDestroyRow, RecoverDestroy,
                    RecoverLayout, Readopt,
              RecoverSkips, Settle, SetStatus, Detached, OpTypes, db
<1>2. ASSUME NEW o \in Ops, WatchSteps(o)
      PROVE  /\ UNCHANGED <<kernel, conv>>
             /\ \A r \in Ops : ops'[r].fs = ops[r].fs /\ ops'[r].to = ops[r].to
  BY <1>0, <1>2 DEF WatchSteps, WatchDone, WatchExpires, MarkOperationFailed, SetStatus,
                    OpTypes
<1>3. CASE /\ UNCHANGED <<kernel, conv>>
           /\ \A r \in Ops : ops'[r].fs = ops[r].fs /\ ops'[r].to = ops[r].to
  BY <1>3, ConvDoneStays, ConvMounted DEF kernel
<1>4. CASE Crash \/ Reboot
  BY <1>4 DEF Crash, Reboot, DaemonDies, ConvDone
<1>5. ASSUME NEW p \in Pools, NEW ok \in BOOLEAN, ReconcileMount(p, ok) PROVE ConvDone'
  <2>1. UNCHANGED <<ops, data, conv>> /\ mounted \subseteq mounted'
    BY <1>5 DEF ReconcileMount, MountEffect, db
  <2>2. \A q \in Pools : q \in mounted => balance'[q] = balance[q]
    BY <1>0, <1>5 DEF ReconcileMount, MountEffect, KernelTypes
  <2> QED
    BY <2>1, <2>2, ConvDoneStays, ConvMounted
<1>6. CASE \/ Requests \/ StartDaemon \/ ServeHTTP \/ DriftDone \/ DeviceReappears \/ UNCHANGED vars
           \/ \E served \in [rows -> Profiles] : DetectDrift(served)
           \/ \E e \in drift : CheckDrift(e)
           \/ \E h \in heal, ok \in BOOLEAN : SelfHeal(h, ok)
  BY <1>3, <1>6, RequestsKeep
     DEF StartDaemon, ServeHTTP, DriftDone, DeviceReappears, DetectDrift, CheckDrift,
         SelfHeal, vars, db, daemon
<1> QED
  BY <1>1, <1>2, <1>3, <1>4, <1>5, <1>6 DEF BootSteps

\* What a call is about to record stays true until it does.
LEMMA NextCallDone == DiskInv /\ FsInv /\ CallDone /\ [Next]_vars => CallDone'
<1> SUFFICES ASSUME DiskInv, FsInv, CallDone, [Next]_vars PROVE CallDone'
  OBVIOUS
<1>1. CASE UNCHANGED <<call, disk, copying>>
  BY <1>1 DEF CallDone
<1>2. CASE call'.step # "persist"
  BY <1>2 DEF CallDone
<1>3. CASE Commands
  BY <1>3, CommandsCallDone
<1>4. CASE CallSteps /\ ~Commands
  <2>1. call \in CallTypes
    BY DEF DiskInv, TypeOK, DaemonTypes
  <2>2. ASSUME NEW o \in Ops, OpenOp(o)
        PROVE  call' = Idle \/ call' = [call EXCEPT !.op = o, !.step = "run"]
    BY <2>2 DEF OpenOp
  <2>3. ASSUME RefuseOp \/ Persist \/ PersistFails \/ \E s \in {"failed", Active} : FailCall(s)
        PROVE  call' = Idle \/ call' = [call EXCEPT !.step = "failing"]
    BY <2>3 DEF RefuseOp, Persist, PersistFails, FailCall, Goto
  <2>4. \/ call' = Idle \/ call' = [call EXCEPT !.step = "failing"]
        \/ \E o \in Ops : call' = [call EXCEPT !.op = o, !.step = "run"]
    BY <1>4, <2>2, <2>3 DEF CallSteps
  <2>5. Idle.step = "idle"
    BY DEF Idle
  <2> QED
    BY <1>2, <2>1, <2>4, <2>5 DEF CallTypes
<1>5. CASE Requests
  BY <1>1, <1>2, <1>5, RequestsCall, RequestsKeep DEF kernel
<1>6. ASSUME NEW o \in Ops, ConvSteps(o) \/ WatchSteps(o) \/ RecoverySteps(o) PROVE CallDone'
  BY <1>1, <1>6
     DEF ConvSteps, ConvStart, ConvPersist, ConvPersistFails, ConvFail, WatchSteps,
         WatchDone, WatchExpires,
         RecoverySteps, RecoverCreate, RecoverDestroyRow, RecoverDestroy, RecoverLayout,
         Readopt, RecoverSkips,
         db, kernel
<1>7. CASE BootSteps
  BY <1>1, <1>6, <1>7
     DEF BootSteps, StartDaemon, ServeHTTP, ReconcileMount, DetectDrift, CheckDrift,
         DriftDone, db, kernel
<1>8. CASE KernelSteps
  <2>1. ASSUME NEW c \in copying, NEW ok \in BOOLEAN, ReplaceEnds(c, ok) PROVE CallDone'
    <3>1. /\ call' = call /\ copying' \subseteq copying
          /\ \A d \in Disks : /\ disk'[d] \in {disk[d], NoPool}
                              /\ d # c[1] /\ d # c[2] => disk'[d] = disk[d]
      BY <2>1 DEF ReplaceEnds, WipedDisks, daemon
    <3>2. call \in CallTypes /\ (call.step = "persist" => call.pool # NoPool)
      BY NoneAssumption DEF DiskInv, TypeOK, DaemonTypes, CallInv
    <3>3. call.ins \subseteq Disks /\ call.outs \subseteq Disks
      BY <3>2 DEF CallTypes
    <3> QED
      BY <3>1, <3>2, <3>3 DEF CallDone
  <2> QED
    BY <1>1, <1>8, <2>1 DEF KernelSteps, BalanceMoves, BalanceEnds, FstabMount, daemon
<1>9. CASE \/ \E h \in heal, ok \in BOOLEAN : SelfHeal(h, ok)
           \/ DeviceReappears \/ Crash \/ Reboot \/ UNCHANGED vars
  BY <1>1, <1>2, <1>9 DEF SelfHeal, DeviceReappears, Crash, Reboot, DaemonDies, Idle, vars,
                          kernel, daemon
<1> QED
  BY <1>3, <1>4, <1>5, <1>6, <1>7, <1>8, <1>9 DEF Next

\* Nothing is waited for or about to be recorded to begin with.
LEMMA InitDone == Init => CallDone /\ ConvDone
BY DEF Init, CallDone, ConvDone, Idle

\* An operation completes when its call or its conversion records it, or at
\* the hands of the boot.
LEMMA Completed ==
  ASSUME DiskInv, OwnerInv, [Next]_vars, NEW o \in Ops \ (watch \cup orphans),
         ops[o].status = Active, ops'[o].status = "completed"
  PROVE  (Persist /\ call.op = o) \/ ConvPersist(o)
<1>1. ops \in [Ops -> OpTypes] /\ ops'[o] # ops[o]
  BY DEF DiskInv, TypeOK, DbTypes, Active
<1>2. ASSUME NEW r \in Ops, NEW s, ops' = SetStatus(r, s)
      PROVE  r = o /\ s = "completed"
  BY <1>1, <1>2 DEF SetStatus, OpTypes
<1>3. CASE Requests
  BY <1>1, <1>3, RequestsKeep
<1>4. CASE CallSteps
  <2>0. Working => call.op \in Ops
    BY DEF DiskInv, CallInv, Working
  <2>1. CASE RefuseOp \/ PersistFails \/ Commands
    BY <1>1, <2>1, CommandsKeep DEF RefuseOp, PersistFails, db
  <2>2. ASSUME NEW r \in Ops, OpenOp(r) PROVE FALSE
    BY <1>1, <2>2 DEF OpenOp, Active
  <2>3. ASSUME NEW s \in {"failed", Active}, FailCall(s) PROVE FALSE
    BY <1>2, <2>0, <2>3 DEF FailCall, MarkOperationFailed, Working, Active
  <2>4. CASE Persist
    <3>1. call.op \in Ops /\ call.pool \in Pools
      BY <2>0, <2>4 DEF Persist, Working, DiskInv, CallInv
    <3>2. CASE PersistCreate
      BY <1>1, <2>4, <3>1, <3>2 DEF PersistCreate, OpTypes
    <3>3. CASE PersistMembers
      <4>1. ops' = SetStatus(call.op, "completed")
        BY <3>3 DEF PersistMembers
      <4>2. call.op = o
        BY <1>2, <3>1, <4>1
      <4> QED
        BY <2>4, <4>2
    <3>4. CASE PersistDestroy
      <4>1. SetStatus(call.op, "completed") \in [Ops -> OpTypes]
        BY <1>1 DEF SetStatus, OpTypes, Terminal
      <4>2. ops'[o].status = SetStatus(call.op, "completed")[o].status
        BY <3>4, <4>1, DetachedType, <1>1 DEF PersistDestroy
      <4> QED
        BY <1>1, <2>4, <3>1, <4>2 DEF SetStatus, OpTypes, Active
    <3> QED
      BY <2>4, <3>2, <3>3, <3>4 DEF Persist
  <2> QED
    BY <1>4, <2>1, <2>2, <2>3, <2>4 DEF CallSteps
<1>5. ASSUME NEW r \in Ops, RecoverySteps(r) PROVE FALSE
  <2>1. r # o
    BY <1>5 DEF RecoverySteps, RecoverCreate, RecoverDestroyRow, RecoverDestroy,
                RecoverLayout, Readopt,
                RecoverSkips, Settle
  <2> QED
    BY <1>1, <1>2, <1>5, <2>1
       DEF RecoverySteps, RecoverCreate, RecoverDestroyRow, RecoverDestroy, RecoverLayout,
           Readopt,
           RecoverSkips, Settle, Detached, OpTypes, db, Active
<1>6. CASE BootSteps
  BY <1>1, <1>5, <1>6
     DEF BootSteps, StartDaemon, ServeHTTP, ReconcileMount, DetectDrift, CheckDrift,
         DriftDone, db
<1>7. CASE KernelSteps
  BY <1>1, <1>7 DEF KernelSteps, BalanceMoves, BalanceEnds, FstabMount, ReplaceEnds, db
<1>8. ASSUME NEW r \in Ops, ConvSteps(r) PROVE ConvPersist(o)
  BY <1>1, <1>2, <1>8
     DEF ConvSteps, ConvStart, ConvPersist, ConvPersistFails, ConvFail,
         MarkOperationFailed, db, Active
<1>9. ASSUME NEW r \in Ops, WatchSteps(r) PROVE FALSE
  BY <1>2, <1>9 DEF WatchSteps, WatchDone, WatchExpires, MarkOperationFailed
<1>10. CASE \/ \E h \in heal, ok \in BOOLEAN : SelfHeal(h, ok)
            \/ DeviceReappears \/ Crash \/ Reboot \/ UNCHANGED vars
  BY <1>1, <1>10 DEF SelfHeal, DeviceReappears, Crash, Reboot, vars, db
<1> QED
  BY <1>3, <1>4, <1>6, <1>7, <1>8, <1>9, <1>10 DEF Next

\* What an operation is closed with is so.
LEMMA CompletedDone ==
  ASSUME DiskInv, OwnerInv, FsInv, CallDone, ConvDone, [Next]_vars,
         NEW o \in Ops \ (watch \cup orphans),
         ops[o].status = Active, ops'[o].status = "completed"
  PROVE  LET p == ops[o].fs IN
           CASE ops[o].kind \in {"create", "add"} ->
                  \A d \in call.ins : disk[d] = p /\ members'[d] = {p}
             [] ops[o].kind = "destroy" -> p \notin rows'
             [] ops[o].kind = "remove" ->
                  \A d \in call.outs : disk[d] # p /\ members'[d] = {}
             [] ops[o].kind = "convert" ->
                  data[p] = {ops[o].to} /\ profile'[p] = ops[o].to
             [] OTHER -> TRUE
<1>1. CASE ConvPersist(o)
  <2>1. conv[o] = "persist" /\ profile' = [profile EXCEPT ![ops[o].pool] = ops[o].to]
    BY <1>1 DEF ConvPersist, ConvAt
  <2>2. /\ ops[o].fs \in Pools /\ ops[o].pool = ops[o].fs /\ ops[o].kind = "convert"
        /\ data[ops[o].fs] = {ops[o].to}
    BY <2>1, ConvMounted DEF ConvDone
  <2>3. profile'[ops[o].fs] = ops[o].to
    BY <2>1, <2>2 DEF DiskInv, TypeOK, DbTypes
  <2> QED
    BY <2>2, <2>3
<1>2. CASE Persist /\ call.op = o
  <2>1. Working /\ call.step = "persist" /\ call \in CallTypes /\ members \in [Disks -> SUBSET Pools]
    BY <1>2 DEF Persist, Working, DiskInv, TypeOK, DbTypes, DaemonTypes
  <2>2. ops[o].kind = call.kind /\ ops[o].fs = call.pool
    BY <1>2, <2>1 DEF OwnerInv, CallRow
  <2>3. call.ins \subseteq Disks /\ call.outs \subseteq Disks
    BY <2>1 DEF CallTypes
  <2>4. ASSUME call.kind \in {"create", "add"}, NEW d \in call.ins
        PROVE  disk[d] = call.pool /\ members'[d] = {call.pool}
    <3>1. members[d] = {} /\ disk[d] = call.pool
      BY <2>1, <2>4 DEF DiskInv, CallInv, CallDone
    <3>2. members'[d] = members[d] \cup {call.pool}
      BY <1>2, <2>3, <2>4 DEF Persist, PersistCreate, PersistDestroy, PersistMembers
    <3> QED
      BY <3>1, <3>2
  <2>5. ASSUME call.kind = "remove", NEW d \in call.outs
        PROVE  disk[d] # call.pool /\ members'[d] = {}
    <3>1. disk[d] # call.pool /\ call.pool \in members[d] /\ call.ins = {}
      BY <2>1, <2>5 DEF DiskInv, CallInv, CallDone, FsInv, CallShape
    <3>2. \A p \in members[d] : p = call.pool
      BY <2>3, <3>1 DEF DiskInv, DeviceExclusive
    <3>3. members'[d] = members[d] \ {call.pool}
      BY <1>2, <2>3, <2>5, <3>1 DEF Persist, PersistCreate, PersistDestroy, PersistMembers
    <3> QED
      BY <3>1, <3>2, <3>3
  <2>6. ASSUME call.kind = "destroy" PROVE call.pool \notin rows'
    BY <1>2, <2>6 DEF Persist, PersistCreate, PersistDestroy, PersistMembers, DeletePool
  <2>7. call.kind # "convert"
    BY <2>1 DEF DiskInv, CallInv
  <2> QED
    BY <2>2, <2>4, <2>5, <2>6, <2>7
<1> QED
  BY <1>1, <1>2, Completed

\* What waits and what is about to be recorded stays true.
THEOREM Recorded == Spec => [](CallDone /\ ConvDone)
<1>1. DiskInv /\ OwnerInv /\ FsInv /\ ConvDone /\ [Next]_vars => ConvDone'
  BY CallConvDone, ConvConvDone, KernelConvDone, OthersConvDone DEF Next
<1> QED
  BY <1>1, InitDone, NextCallDone, DiskSafety, Ownership, FilesystemsSound, PTL DEF Spec

\* An operation closed as completed by the call or the goroutine that ran it
\* did what it says.
THEOREM CompletionsTrue == Spec => CompletesWhatItDid
<1>1. DiskInv /\ OwnerInv /\ FsInv /\ CallDone /\ ConvDone /\ [Next]_vars =>
        [\A o \in Ops \ (watch \cup orphans) :
           ops[o].status = Active /\ ops'[o].status = "completed" =>
             LET p == ops[o].fs IN
               CASE ops[o].kind \in {"create", "add"} ->
                      \A d \in call.ins : disk[d] = p /\ members'[d] = {p}
                 [] ops[o].kind = "destroy" -> p \notin rows'
                 [] ops[o].kind = "remove" ->
                      \A d \in call.outs : disk[d] # p /\ members'[d] = {}
                 [] ops[o].kind = "convert" ->
                      data[p] = {ops[o].to} /\ profile'[p] = ops[o].to
                 [] OTHER -> TRUE]_vars
  BY CompletedDone
<1> QED
  BY <1>1, DiskSafety, Ownership, FilesystemsSound, Recorded, PTL DEF Spec,
                                                                      CompletesWhatItDid

-----------------------------------------------------------------------------
(* The lock of a conversion *)

\* The balance of a conversion's command has the row of the conversion, whose
\* goroutine waits for it or died with the daemon.
CommandHeld ==
  \A p \in Pools : balance[p].by = "command" =>
    \E o \in Ops : /\ ops[o].status = Active /\ ops[o].kind = "convert"
                   /\ ops[o].pool = p /\ ops[o].fs = p /\ conv[o] \in {"none", "balancing"}

\* A balance that was there keeps its row when the row is left alone.
LEMMA HeldStays ==
  ASSUME CommandHeld,
         \A p \in Pools : balance'[p].by = "command" => balance[p].by = "command",
         \A p \in Pools, o \in Ops :
           /\ balance[p].by = "command" /\ ops[o].status = Active /\ ops[o].kind = "convert"
           /\ ops[o].pool = p /\ ops[o].fs = p /\ conv[o] \in {"none", "balancing"}
           /\ balance'[p].by = "command"
           => /\ ops'[o] = ops[o] /\ conv'[o] \in {"none", "balancing"}
  PROVE  CommandHeld'
<1> SUFFICES ASSUME NEW p \in Pools, balance'[p].by = "command"
             PROVE  \E o \in Ops : /\ ops'[o].status = Active /\ ops'[o].kind = "convert"
                                   /\ ops'[o].pool = p /\ ops'[o].fs = p
                                   /\ conv'[o] \in {"none", "balancing"}
  BY DEF CommandHeld
<1>1. PICK o \in Ops : /\ ops[o].status = Active /\ ops[o].kind = "convert"
                       /\ ops[o].pool = p /\ ops[o].fs = p /\ conv[o] \in {"none", "balancing"}
  BY DEF CommandHeld
<1> QED
  BY <1>1

\* A call works on other rows, and on other pools than those that are held.
LEMMA CallHeld ==
  ASSUME DiskInv, OwnerInv, CommandHeld, CallSteps
  PROVE  CommandHeld'
<1>0. ops \in [Ops -> OpTypes] /\ KernelTypes
  BY DEF DiskInv, TypeOK, DbTypes
<1>1. CASE Commands
  <2>1. UNCHANGED <<ops, conv>>
    BY <1>1, CommandsKeep DEF db
  <2>2. \A p \in Pools : balance'[p].by = "command" => balance[p].by = "command"
    <3>1. CASE balance' = balance \/ balance' = BalanceAfter(disk')
      BY <1>0, <3>1 DEF BalanceAfter, NoBalance, KernelTypes
    <3>2. CASE RunUnmount
      BY <1>0, <3>2 DEF RunUnmount, KernelTypes, BalanceTypes
    <3> QED
      BY <1>1, <3>1, <3>2 DEF Commands, RunFails, RunWipes, RunWipe, RunCreate, RunAdd,
                              RunRemove,
                              RunReplace, kernel
  <2> QED
    BY <2>1, <2>2, HeldStays
<1>2. ASSUME NEW o \in Ops, OpenOp(o) PROVE CommandHeld'
  <2>1. /\ balance' = balance /\ ops[o].status # Active
        /\ \A r \in Ops : r # o => ops'[r] = ops[r] /\ conv'[r] = conv[r]
    BY <1>0, <1>2 DEF OpenOp, AbsentOp, Active, kernel, DiskInv, TypeOK, DaemonTypes
  <2> QED
    BY <2>1, HeldStays
<1>3. CASE RefuseOp \/ PersistFails
  BY <1>3, HeldStays DEF RefuseOp, PersistFails, db, kernel
<1>4. CASE Persist \/ \E s \in {"failed", Active} : FailCall(s)
  <2>1. UNCHANGED <<balance, conv>> /\ Working /\ call.op \in Ops /\ call.kind # "convert"
    BY <1>4 DEF Persist, FailCall, kernel, Working, DiskInv, CallInv
  <2>2. ops[call.op].kind # "convert" /\ ops[call.op].status = Active
    BY <2>1 DEF OwnerInv, CallRow
  <2>3. ASSUME NEW o \in Ops, ops[o].status = Active, ops[o].kind = "convert", ops[o].pool \in Pools
        PROVE  ops'[o] = ops[o]
    <3>1. o # call.op
      BY <2>2, <2>3
    <3>2. CASE PersistDestroy
      <4>1. ops[call.op].pool = call.pool
        BY <2>1, <3>2 DEF PersistDestroy, OwnerInv, CallRow
      <4>2. ops[o].pool # call.pool
        BY <2>1, <2>2, <2>3, <3>1, <4>1 DEF OwnerInv, OneHolder
      <4> QED
        BY <1>0, <2>3, <3>1, <3>2, <4>2 DEF PersistDestroy, Detached, SetStatus
    <3>3. CASE ~PersistDestroy
      BY <1>0, <1>4, <3>1, <3>3 DEF Persist, PersistCreate, PersistMembers, FailCall,
                                    MarkOperationFailed,
                                    SetStatus
    <3> QED
      BY <3>2, <3>3
  <2> QED
    BY <2>1, <2>3, HeldStays
<1> QED
  BY <1>1, <1>2, <1>3, <1>4 DEF CallSteps

\* A conversion starts its balance with its row open, and no longer has one
\* when it settles it.
LEMMA ConvHeld ==
  ASSUME DiskInv, OwnerInv, CommandHeld, NEW o \in Ops, ConvSteps(o)
  PROVE  CommandHeld'
<1>0. /\ ops \in [Ops -> OpTypes] /\ KernelTypes
      /\ conv \in [Ops -> {"none", "start", "balancing", "persist", "failing"}]
  BY DEF DiskInv, TypeOK, DbTypes, DaemonTypes
<1>1. /\ conv[o] \in {"start", "persist", "failing"}
      /\ \A r \in Ops : r # o => ops'[r] = ops[r] /\ conv'[r] = conv[r]
  BY <1>0 DEF ConvSteps, ConvStart, ConvPersist, ConvPersistFails, ConvFail, ConvAt,
              MarkOperationFailed,
              SetStatus, db
<1>2. CASE balance' = balance
  BY <1>1, <1>2, HeldStays
<1>3. CASE balance' # balance
  <2>1. /\ ConvAt(o, "start") /\ ops' = ops /\ conv' = [conv EXCEPT ![o] = "balancing"]
        /\ balance' = [balance EXCEPT ![ops[o].fs] = [by |-> "command", to |-> ops[o].to]]
    BY <1>3 DEF ConvSteps, ConvStart, ConvPersist, ConvPersistFails, ConvFail, db, kernel
  <2>2. /\ ops[o].status = Active /\ ops[o].pool = ops[o].fs /\ ops[o].kind = "convert"
    BY <2>1 DEF ConvAt, OwnerInv, ConvRow, DiskInv, ConvInv
  <2> SUFFICES ASSUME NEW p \in Pools, balance'[p].by = "command"
               PROVE  \E r \in Ops : /\ ops'[r].status = Active /\ ops'[r].kind = "convert"
                                     /\ ops'[r].pool = p /\ ops'[r].fs = p
                                     /\ conv'[r] \in {"none", "balancing"}
    BY DEF CommandHeld
  <2>3. CASE p = ops[o].fs
    BY <1>0, <2>1, <2>2, <2>3
  <2>4. CASE p # ops[o].fs
    <3>1. balance[p].by = "command"
      BY <1>0, <2>1, <2>4 DEF KernelTypes
    <3>2. PICK r \in Ops : /\ ops[r].status = Active /\ ops[r].kind = "convert"
                           /\ ops[r].pool = p /\ ops[r].fs = p /\ conv[r] \in {"none", "balancing"}
      BY <3>1 DEF CommandHeld
    <3> QED
      BY <1>1, <2>1, <3>2
  <2> QED
    BY <2>3, <2>4
<1> QED
  BY <1>2, <1>3

\* The boot and the watchers let go of no row whose balance runs.
LEMMA BootHeld ==
  ASSUME DiskInv, OwnerInv, FsInv, CommandHeld, ~Deadline, NEW o \in Ops,
         RecoverySteps(o) \/ WatchSteps(o)
  PROVE  CommandHeld'
<1>0. ops \in [Ops -> OpTypes] /\ watch \subseteq Ops /\ orphans \subseteq Ops
  BY DEF DiskInv, TypeOK, DbTypes, DaemonTypes
<1>1. UNCHANGED <<balance, conv>>
  BY DEF RecoverySteps, RecoverCreate, RecoverDestroyRow, RecoverDestroy, RecoverLayout,
         Readopt, RecoverSkips,
         WatchSteps, WatchDone, WatchExpires, kernel
<1>2. ASSUME NEW p \in Pools, balance[p].by = "command"
      PROVE  BalanceActive(p)
  BY <1>2 DEF FsInv, RunsInv, BalanceRuns, BalanceActive, NoBalance
<1>3. ASSUME NEW r \in Ops, ops[r].status = Active, ops[r].kind = "convert", ops[r].pool \in Pools,
             ops[r].fs = ops[r].pool, BalanceActive(ops[r].pool)
      PROVE  ops'[r] = ops[r]
  <2>1. CASE RecoverDestroyRow(o)
    <3>1. ops[o].kind = "destroy" /\ ops[o].status = Active /\ ops' = Detached(ops[o].pool, ops)
      BY <2>1 DEF RecoverDestroyRow, OwnerInv, LeftRow
    <3>2. ops[o].pool # ops[r].pool
      BY <1>3, <3>1 DEF OwnerInv, OneHolder
    <3> QED
      BY <3>1, <3>2 DEF Detached
  <2>2. CASE RecoverCreate(o) \/ RecoverDestroy(o)
    <3>1. r # o /\ \E s : ops' = SetStatus(o, s)
      BY <1>3, <2>2 DEF RecoverCreate, RecoverDestroy, Settle
    <3> QED
      BY <1>0, <3>1 DEF SetStatus
  <2>3. CASE RecoverLayout(o)
    <3>1. r # o /\ \E s : ops' = SetStatus(o, s)
      BY <1>3, <2>3, NoneAssumption DEF RecoverLayout, Settle
    <3> QED
      BY <1>0, <3>1 DEF SetStatus
  <2>4. CASE WatchSteps(o)
    <3>1. r # o /\ \E s : ops' = SetStatus(o, s)
      BY <1>3, <2>4 DEF WatchSteps, WatchDone, WatchExpires
    <3> QED
      BY <1>0, <3>1 DEF SetStatus
  <2>5. CASE RecoverSkips(o) \/ \E watched \in BOOLEAN : Readopt(o, watched)
    BY <2>5 DEF RecoverSkips, Readopt, db
  <2> QED
    BY <2>1, <2>2, <2>3, <2>4, <2>5 DEF RecoverySteps
<1> QED
  BY <1>1, <1>2, <1>3, HeldStays

\* The kernel ends a balance for the goroutine that waits for it, and what it
\* resumes by itself is no command's.
LEMMA KernelHeld ==
  ASSUME DiskInv, CommandHeld,
         \/ KernelSteps \/ Crash \/ Reboot
         \/ \E p \in Pools, ok \in BOOLEAN : ReconcileMount(p, ok)
  PROVE  CommandHeld'
<1>0. KernelTypes /\ ops' = ops
  BY DEF DiskInv, TypeOK, KernelSteps, BalanceMoves, BalanceEnds, FstabMount, ReplaceEnds,
         Crash, Reboot,
         ReconcileMount, db
<1>1. ASSUME NEW p \in Pools, NEW ok \in BOOLEAN, BalanceEnds(p, ok) PROVE CommandHeld'
  <2>1. /\ \A q \in Pools : balance'[q] = IF q = p THEN NoBalance ELSE balance[q]
        /\ \A r \in Ops : ops[r].fs # p => conv'[r] = conv[r]
    BY <1>0, <1>1 DEF BalanceEnds, KernelTypes
  <2> QED
    BY <1>0, <2>1, HeldStays DEF NoBalance
<1>2. ASSUME NEW p \in Pools, MountEffect(p), conv' = conv PROVE CommandHeld'
  <2>1. \A q \in Pools : balance'[q].by = "command" => balance[q].by = "command"
    BY <1>0, <1>2 DEF MountEffect, KernelTypes, BalanceTypes
  <2> QED
    BY <1>0, <1>2, <2>1, HeldStays
<1>3. CASE Crash \/ Reboot
  <2>1. \A q \in Pools : balance'[q].by = "command" => balance[q].by = "command"
    BY <1>0, <1>3 DEF Crash, Reboot, kernel, KernelTypes, BalanceTypes, NoBalance
  <2>2. \A r \in Ops : conv'[r] = "none"
    BY <1>3 DEF Crash, Reboot, DaemonDies
  <2> QED
    BY <1>0, <2>1, <2>2, HeldStays
<1>4. CASE UNCHANGED <<balance, conv>>
  BY <1>0, <1>4, HeldStays
<1> QED
  BY <1>1, <1>2, <1>3, <1>4
     DEF KernelSteps, BalanceMoves, FstabMount, ReplaceEnds, ReconcileMount, daemon

\* While the balance of a conversion runs an operation holds its pool, and no
\* other layout operation is let in, whenever the daemon dies and comes back: a
\* watcher alone, after its 24 hours, gives the pool up (Deadline).
THEOREM ConversionHolds == ~Deadline => (Spec => []ConversionLocked)
<1> SUFFICES ASSUME ~Deadline PROVE Spec => []ConversionLocked
  OBVIOUS
<1>1. Init => CommandHeld
  BY DEF Init, CommandHeld, NoBalance
<1>2. ASSUME DiskInv, OwnerInv, FsInv, CommandHeld, [Next]_vars PROVE CommandHeld'
  <2>1. CASE \/ Requests \/ StartDaemon \/ ServeHTTP \/ DriftDone \/ DeviceReappears \/ UNCHANGED vars
             \/ \E served \in [rows -> Profiles] : DetectDrift(served)
             \/ \E e \in drift : CheckDrift(e)
             \/ \E h \in heal, ok \in BOOLEAN : SelfHeal(h, ok)
    <3>1. UNCHANGED <<ops, conv, balance>>
      BY <2>1, RequestsKeep
         DEF StartDaemon, ServeHTTP, DriftDone, DeviceReappears, DetectDrift, CheckDrift,
             SelfHeal,
             vars, db, kernel, daemon
    <3> QED
      BY <1>2, <3>1, HeldStays
  <2>2. CASE BootSteps
    BY <1>2, <2>1, <2>2, BootHeld, KernelHeld DEF BootSteps
  <2> QED
    BY <1>2, <2>1, <2>2, BootHeld, KernelHeld, CallHeld, ConvHeld DEF Next
<1>3. CommandHeld => ConversionLocked
  BY DEF CommandHeld, ConversionLocked, ActiveOn
<1> QED
  BY <1>1, <1>2, <1>3, DiskSafety, Ownership, FilesystemsSound, PTL DEF Spec

=============================================================================
