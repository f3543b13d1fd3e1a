--------------------------- MODULE DeviceReconciler ---------------------------
(* The DeviceReconciler (storage_reconciler.go, storage_scheduler.go): every  *)
(* 30 s it scans the disks, works out from last_seen_at which are missing     *)
(* and, when one that was missing is back, mounts the pools again.            *)
EXTENDS Integers, FiniteSets

CONSTANTS
  Disks,
  Pools,
  DisksOf,      \* the disks that each pool needs in order to be mounted
  Threshold,    \* MissingThreshold, in cycles
  MaxOutages,   \* how many times a disk goes away or the power does
  ScanFaults,   \* whether the scanner may fail
  Slow,         \* whether a disk stays away until a cycle has found it missing
  NoDisk

ASSUME DisksOfAssumption == DisksOf \in [Pools -> SUBSET Disks]
ASSUME ThresholdAssumption == Threshold \in Nat \ {0} /\ MaxOutages \in Nat
ASSUME ModeAssumption == ScanFaults \in BOOLEAN /\ Slow \in BOOLEAN
ASSUME NoDiskAssumption == NoDisk \notin Disks

VARIABLES
  present,      \* the disks the kernel shows
  age,          \* the time since last_seen_at, in cycles, up to Threshold + 1
  mounted,      \* the mounted pools
  prevMissing,  \* DeviceReconciler.prevMissing
  due,          \* the ticker has fired
  pc,           \* "boot", "idle", "scanned" or "mounting"
  todo,         \* the pools reconcileMountState has still to visit
  outages

vars == <<present, age, mounted, prevMissing, due, pc, todo, outages>>

\* prevMissing before the first cycle (nil).
NoBase == {NoDisk}

Oldest == Threshold + 1
Older(a, k) == IF a + k > Oldest THEN Oldest ELSE a + k

-----------------------------------------------------------------------------
(* The world *)

Mountable(p) == DisksOf[p] \subseteq present

Noticed(d) == prevMissing # NoBase /\ d \in prevMissing

Appears(d) ==
  /\ d \notin present
  /\ Slow => Noticed(d)
  /\ present' = present \cup {d}
  /\ UNCHANGED <<age, mounted, prevMissing, due, pc, todo, outages>>

\* A disk is unplugged, or spins down, while no mounted pool uses it.
Vanishes(d) ==
  /\ outages < MaxOutages /\ outages' = outages + 1
  /\ d \in present /\ \A p \in mounted : d \notin DisksOf[p]
  /\ present' = present \ {d}
  /\ UNCHANGED <<age, mounted, prevMissing, due, pc, todo>>

\* The power is off for k cycles; some disks are slow to spin up.
PowerCut(up, k) ==
  /\ outages < MaxOutages /\ outages' = outages + 1
  /\ present' = up
  /\ age' = [d \in Disks |-> Older(age[d], k)]
  /\ mounted' = {} /\ prevMissing' = NoBase /\ due' = FALSE
  /\ pc' = "boot" /\ todo' = {}

\* 30 s go by and the ticker fires.
Tick ==
  /\ pc = "idle" /\ ~due
  /\ due' = TRUE
  /\ age' = [d \in Disks |-> Older(age[d], 1)]
  /\ UNCHANGED <<present, mounted, prevMissing, pc, todo, outages>>

-----------------------------------------------------------------------------
(* runCycle *)

\* ScanDevices writes last_seen_at of every disk it finds.
Seen == [d \in Disks |-> IF d \in present THEN 0 ELSE age[d]]

\* runStorageStartupTasks scans, then bootStorage calls reconcileMountState.
Boot ==
  /\ pc = "boot"
  /\ age' = Seen
  /\ pc' = "mounting" /\ todo' = Pools
  /\ UNCHANGED <<present, mounted, prevMissing, due, outages>>

Scan ==
  /\ pc = "idle" /\ due
  /\ due' = FALSE
  /\ age' = Seen
  /\ pc' = "scanned"
  /\ UNCHANGED <<present, mounted, prevMissing, todo, outages>>

\* The cycle ends with an error and prevMissing stays.
ScanFails ==
  /\ ScanFaults /\ pc = "idle" /\ due
  /\ due' = FALSE
  /\ UNCHANGED <<present, age, mounted, prevMissing, pc, todo, outages>>

\* MissingDevices
Missing == {d \in Disks : age[d] > Threshold}

\* Mutant: the difference the wrong way round.
NewlyMissing(prev, curr) == curr \ prev

\* diffReappeared
Reappeared(prev, curr) == prev \ curr

\* The rest of runCycle: the first cycle only sets the base.
Compare ==
  /\ pc = "scanned"
  /\ IF prevMissing # NoBase /\ Reappeared(prevMissing, Missing) # {}
     THEN pc' = "mounting" /\ todo' = Pools
     ELSE pc' = "idle" /\ UNCHANGED todo
  /\ prevMissing' = Missing
  /\ UNCHANGED <<present, age, mounted, due, outages>>

\* reconcileMountState on one pool.
MountPool(p) ==
  /\ pc = "mounting" /\ p \in todo
  /\ todo' = todo \ {p}
  /\ mounted' = IF Mountable(p) THEN mounted \cup {p} ELSE mounted
  /\ pc' = IF todo' = {} THEN "idle" ELSE pc
  /\ UNCHANGED <<present, age, prevMissing, due, outages>>

-----------------------------------------------------------------------------
Init ==
  /\ present \in SUBSET Disks
  /\ age \in [Disks -> {0, Oldest}]
  /\ mounted = {} /\ prevMissing = NoBase /\ due = FALSE
  /\ pc = "boot" /\ todo = {} /\ outages = 0

Cycle == Boot \/ Scan \/ ScanFails \/ Compare \/ \E p \in Pools : MountPool(p)

Next ==
  \/ \E d \in Disks : Appears(d) \/ Vanishes(d)
  \/ \E up \in SUBSET Disks, k \in 0 .. Oldest : PowerCut(up, k)
  \/ Tick \/ Cycle

\* The ticker keeps firing, the loop runs and the scanner does not fail for ever.
Fairness == WF_vars(Tick) /\ WF_vars(Cycle) /\ SF_vars(Scan)

Spec == Init /\ [][Next]_vars /\ Fairness

-----------------------------------------------------------------------------
(* Properties *)

\* Every variable stays in its domain.
TypeOK ==
  /\ present \subseteq Disks /\ mounted \subseteq Pools /\ todo \subseteq Pools
  /\ age \in [Disks -> 0 .. Oldest]
  /\ prevMissing \in {NoBase} \cup SUBSET Disks
  /\ due \in BOOLEAN /\ outages \in 0 .. MaxOutages
  /\ pc \in {"boot", "idle", "scanned", "mounting"}

\* A pool whose disks are there to stay does not remain unmounted (runCycle:
\* "remontamos el pool, en vez de dejarlo desmontado para siempre").
PoolsReturn ==
  \A p \in Pools : <>[](DisksOf[p] \subseteq present) => []<>(p \in mounted)
=============================================================================
