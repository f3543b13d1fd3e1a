----------------------------- MODULE PoolHealth -----------------------------
(***************************************************************************)
(* What the user is told of the health of one pool and of its disks: the   *)
(* SMART monitor (hardware.go), the diagnostics and their reduction to one *)
(* status (storage_health.go), and the monitor that notifies on a change   *)
(* of status (storage_health_monitor.go).  The histories that dedupe the   *)
(* notifications live in memory; the notifications are rows.               *)
(***************************************************************************)
EXTENDS Integers, FiniteSets

CONSTANTS
  HealthDisks,       \* the disks of the pool
  Nvme,              \* those whose name ends in a digit that is not a partition
  HealthProfiles,    \* profiles the pool may have
  MaxHealthChanges,  \* bound: things that happen to the disks and the pool
  MaxHealthRestarts  \* bound: restarts of the daemon

ASSUME HealthAssumption ==
  /\ IsFiniteSet(HealthDisks) /\ Nvme \subseteq HealthDisks
  /\ HealthProfiles \subseteq {"single", "raid1", "raid1c3", "raid10"}

VARIABLES
  healthProfile,  \* pools.profile
  present, smart, ioErrors, heat, free,  \* disk -> its real condition
  readonly, poolMounted,                 \* the mount of the pool
  smartHistory, tempHistory, heatCache,  \* the memory of the SMART monitor
  poolHistory, roomHistory,              \* poolHealthHistory, unallocatedHistory
  toldSmart, toldHeat, toldPool, toldRoom,  \* the last notification of each
  healthChanges, healthRestarts          \* what is left of the bounds

world == <<healthProfile, present, smart, ioErrors, heat, free, readonly, poolMounted>>
smartMemory == <<smartHistory, tempHistory, heatCache>>
poolMemory == <<poolHistory, roomHistory>>
told == <<toldSmart, toldHeat, toldPool, toldRoom>>
healthVars == <<world, smartMemory, poolMemory, told, healthChanges, healthRestarts>>

Unseen == "unseen"
Everywhere(v) == [d \in HealthDisks |-> v]

HealthInit ==
  /\ healthProfile \in HealthProfiles
  /\ present = Everywhere(TRUE) /\ smart = Everywhere("ok")
  /\ ioErrors = Everywhere(FALSE) /\ heat = Everywhere("cool") /\ free = Everywhere(TRUE)
  /\ readonly = FALSE /\ poolMounted = TRUE
  /\ smartHistory = Everywhere(Unseen) /\ tempHistory = Everywhere(Unseen)
  /\ heatCache = Everywhere("cool")
  /\ poolHistory = Unseen /\ roomHistory = Unseen
  /\ toldSmart = Everywhere("ok") /\ toldHeat = Everywhere("normal")
  /\ toldPool = "healthy" /\ toldRoom = "ok"
  /\ healthChanges = MaxHealthChanges /\ healthRestarts = MaxHealthRestarts

-----------------------------------------------------------------------------
(* CollectDiagnostics: a set of <<code, disk>>; "pool" for the pool's own. *)

\* parseBtrfsDeviceStats strips the digits of a device's name, so that the
\* statistics of nvme0n1 are filed under nvme0n.
HasStats(d) == d \notin Nvme

\* The status and the temperature come from the SMART monitor's cache.
Coded(code, d, holds) == IF holds THEN {<<code, d>>} ELSE {}
DiskDiagnostics(d) ==
  IF ~present[d] \/ ~HasStats(d)
  THEN {<<"disk_missing", d>>}
  ELSE Coded("io_errors", d, ioErrors[d])
       \cup Coded("smart_critical", d, smartHistory[d] = "critical")
       \cup Coded("smart_warning", d, smartHistory[d] = "warning")
       \cup Coded("temp_high", d, heatCache[d] = "hot")
Diagnostics ==
  (UNION {DiskDiagnostics(d) : d \in HealthDisks}) \cup Coded("pool_readonly", "pool", readonly)

\* btrfsVdevTypeForProfile, which takes raid1c3 for a pair, and how many disks
\* vdevTypeCanLose lets each type lose.
VdevType(profile) == IF profile \in {"raid1", "raid1c3"} THEN "mirror" ELSE profile
CanLose(vdev) == IF vdev \in {"mirror", "raid10"} THEN 1 ELSE 0

(* ComputePoolHealth: the first rule that applies gives the verdict. *)

Missing(found) == Cardinality({x \in found : x[1] = "disk_missing"})
Has(found, code) == \E x \in found : x[1] = code

\* mutant: the errors of a disk that still answers are judged first
ErrorsFirst(found) ==
  IF Has(found, "io_errors") THEN <<"unstable", "io_errors_detected">>
  ELSE IF Missing(found) > CanLose(VdevType(healthProfile)) THEN <<"critical", "data_loss_likely">>
  ELSE IF Missing(found) > 0 THEN <<"degraded", "pool_degraded">>
  ELSE <<"healthy", "">>

Verdict(found) ==
  LET lose == CanLose(VdevType(healthProfile))
      effective == lose - Missing(found)
  IN
  IF Has(found, "pool_readonly") THEN <<"critical", "pool_readonly">>
  ELSE IF effective < 0 THEN <<"critical", "data_loss_likely">>
  ELSE IF effective = 0 /\ Has(found, "smart_critical") THEN <<"critical", "data_loss_risk">>
  ELSE IF Missing(found) > 0 THEN
    <<"degraded", IF VdevType(healthProfile) = "mirror" THEN "mirror_no_redundancy"
                  ELSE "pool_degraded">>
  ELSE IF Has(found, "smart_critical") THEN <<"degraded", "disk_smart_critical">>
  ELSE IF lose > 0 /\ Cardinality(HealthDisks) <= lose THEN <<"degraded", "mirror_no_redundancy">>
  ELSE IF Has(found, "io_errors") THEN <<"unstable", "io_errors_detected">>
  ELSE IF Has(found, "smart_warning") THEN <<"at_risk", "smart_warning">>
  ELSE IF Has(found, "temp_high") THEN <<"at_risk", "temp_high">>
  ELSE <<"healthy", "">>
Status(found) == Verdict(found)[1]

\* effectiveUnallocated: room for one more chunk with all its copies (the k-th
\* largest free space; the smallest one for single).
Roomy ==
  LET withRoom == Cardinality({d \in HealthDisks : present[d] /\ free[d]})
      copies == CASE healthProfile = "raid1" -> 2 [] healthProfile = "raid1c3" -> 3
                  [] healthProfile = "raid10" -> 4
                  [] OTHER -> Cardinality({d \in HealthDisks : present[d]})
  IN withRoom >= copies /\ withRoom > 0
RoomState == IF Roomy THEN "ok" ELSE "critical"

-----------------------------------------------------------------------------
(* checkAllDisksSmart, one disk of its loop. *)

\* nextTempState: 55 and above is high, below 50 is normal, between them stays.
NextTemp(prev, h) ==
  CASE h \in {"edge", "hot"} -> "high"
    [] h = "cool" -> "normal"
    [] OTHER -> IF prev = Unseen THEN "normal" ELSE prev

\* The notification of a change: from critical to warning there is none.
SmartNews(prev, current, before) ==
  IF prev = Unseen THEN IF current = "ok" THEN before ELSE current
  ELSE IF current = prev \/ (prev = "critical" /\ current = "warning") THEN before
  ELSE current

\* The first scan of a disk leaves the loop before its temperature; a disk that
\* cannot be read keeps what was known of it.
SmartScan(d) ==
  LET prev == smartHistory[d]
      temp == NextTemp(tempHistory[d], heat[d])
  IN
  /\ present[d] /\ smart[d] # "unreadable"
  /\ smartHistory' = [smartHistory EXCEPT ![d] = smart[d]]
  /\ heatCache' = [heatCache EXCEPT ![d] = heat[d]]
  /\ toldSmart' = [toldSmart EXCEPT ![d] = SmartNews(prev, smart[d], @)]
  /\ \/ prev = Unseen /\ UNCHANGED <<tempHistory, toldHeat>>
     \/ /\ prev # Unseen
        /\ tempHistory' = [tempHistory EXCEPT ![d] = temp]
        /\ toldHeat' = [toldHeat EXCEPT ![d] =
             IF temp = "high" \/ tempHistory[d] = "high" THEN temp ELSE @]
  /\ UNCHANGED <<world, poolMemory, toldPool, toldRoom, healthChanges, healthRestarts>>

(* runStorageHealthCheck: a pool that is not mounted is left alone. *)

\* shouldNotifyHealth.
NotifyChanges(prev, current) == prev # Unseen /\ current # prev   \* mutant: not at first
ShouldNotify(prev, current) ==
  IF prev = Unseen THEN current # "healthy" ELSE current # prev

HealthCheck ==
  LET current == Status(Diagnostics) IN
  /\ poolMounted
  /\ poolHistory' = current
  /\ toldPool' = IF ShouldNotify(poolHistory, current) THEN current ELSE toldPool
  /\ roomHistory' = RoomState
  /\ toldRoom' = IF RoomState = "critical" \/ roomHistory = "critical" THEN RoomState ELSE toldRoom
  /\ UNCHANGED <<world, smartMemory, toldSmart, toldHeat, healthChanges, healthRestarts>>

-----------------------------------------------------------------------------
(* What happens to the hardware, and to the daemon. *)

Happens ==
  /\ healthChanges > 0 /\ healthChanges' = healthChanges - 1
  /\ UNCHANGED <<healthProfile, smartMemory, poolMemory, told, healthRestarts>>

DiskChanges(d) ==
  /\ Happens
  /\ \/ present' = [present EXCEPT ![d] = ~@] /\ UNCHANGED <<smart, ioErrors, heat, free>>
     \/ /\ \E s \in {"ok", "warning", "critical", "unreadable"} \ {smart[d]} :
             smart' = [smart EXCEPT ![d] = s]
        /\ UNCHANGED <<present, ioErrors, heat, free>>
     \/ ioErrors' = [ioErrors EXCEPT ![d] = ~@] /\ UNCHANGED <<present, smart, heat, free>>
     \/ /\ \E h \in {"cool", "warm", "edge", "hot"} \ {heat[d]} : heat' = [heat EXCEPT ![d] = h]
        /\ UNCHANGED <<present, smart, ioErrors, free>>
     \/ free' = [free EXCEPT ![d] = ~@] /\ UNCHANGED <<present, smart, ioErrors, heat>>
  /\ UNCHANGED <<readonly, poolMounted>>

MountChanges ==
  /\ Happens
  /\ \/ readonly' = ~readonly /\ UNCHANGED poolMounted
     \/ poolMounted' = ~poolMounted /\ UNCHANGED readonly
  /\ UNCHANGED <<present, smart, ioErrors, heat, free>>

HealthRestart ==
  /\ healthRestarts > 0 /\ healthRestarts' = healthRestarts - 1
  /\ smartHistory' = Everywhere(Unseen) /\ tempHistory' = Everywhere(Unseen)
  /\ heatCache' = Everywhere("cool")
  /\ poolHistory' = Unseen /\ roomHistory' = Unseen
  /\ UNCHANGED <<world, told, healthChanges>>

HealthNext ==
  \/ HealthCheck \/ MountChanges \/ HealthRestart
  \/ \E d \in HealthDisks : SmartScan(d) \/ DiskChanges(d)

\* The two monitors are endless loops of the daemon.
HealthFairness ==
  /\ WF_healthVars(HealthCheck)
  /\ \A d \in HealthDisks : WF_healthVars(SmartScan(d))

HealthSpec == HealthInit /\ [][HealthNext]_healthVars /\ HealthFairness

-----------------------------------------------------------------------------
Severity(status) ==
  CASE status = "healthy" -> 0 [] status = "at_risk" -> 1 [] status = "unstable" -> 2
    [] status = "degraded" -> 3 [] status = "critical" -> 4

\* One more problem never makes the verdict on the pool better: no rule of
\* ComputePoolHealth hides a graver one below it.
DamageNeverHelps ==
  \A part \in SUBSET Diagnostics : Severity(Status(part)) <= Severity(Status(Diagnostics))

\* A bad status that lasts is told to the user, and stays the last thing told,
\* across restarts that empty the histories; so are a disk about to fail and the
\* lack of room for metadata (notification on transitions, FIX1, P6 and P1).
DamageIsTold ==
  /\ \A s \in {"at_risk", "unstable", "degraded", "critical"} :
       <>[](poolMounted /\ Status(Diagnostics) = s) => <>[](toldPool = s)
  /\ \A d \in HealthDisks :
       <>[](present[d] /\ smart[d] = "critical") => <>[](toldSmart[d] = "critical")
  /\ <>[](poolMounted /\ ~Roomy) => <>[](toldRoom = "critical")
=============================================================================
