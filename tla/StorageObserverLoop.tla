-------------------------- MODULE StorageObserverLoop --------------------------
(* The loop of StorageObserver (storage_observer.go): when it rescans the     *)
(* disks. Handlers change them and, some of them, call InvalidateNow; a       *)
(* ticker wakes the loop every 60 s; a rescan is skipped when a cheap         *)
(* fingerprint has not moved, unless it was asked for.                        *)
(* A state of the disks is the number of changes made so far.                 *)
EXTENDS Integers, FiniteSets

CONSTANTS
  Handlers,     \* concurrent requests that change the disks
  Starter,      \* Start, which asks for the first rescan
  MaxChanges,   \* how many changes are made
  ProbeFaults   \* whether `btrfs filesystem show` may fail

ASSUME ChangesAssumption == MaxChanges \in Nat /\ ProbeFaults \in BOOLEAN
ASSUME StarterAssumption == Starter \notin Handlers

VARIABLES
  world,      \* how many changes the disks have seen
  visible,    \* the last change that the fingerprint sees
  caller,     \* each handler: "idle", "changed" or "marked" in InvalidateNow
  told,       \* the change each handler announces
  trigger,    \* triggerCh holds a value (it has room for one)
  tick,       \* the channel of the ticker holds a tick
  forceNext,  \* the next rescan is not to be skipped
  loop,       \* where the loop goroutine is in tryReconcile
  forced,     \* its local copy of forceNext
  fp,         \* the fingerprint it took
  probed,     \* what its probe saw
  lastFp,     \* lastFingerprint, or -1
  snapshot,   \* the state the published snapshot shows
  generation, \* whether a snapshot has been published since the start
  failed      \* the state of the disks when a probe failed last, or -1

world_vars == <<world, visible, caller, told>>
signals    == <<trigger, tick, forceNext>>
scan       == <<loop, forced, fp, probed>>
published  == <<lastFp, snapshot, generation, failed>>
observerVars == <<world_vars, signals, scan, published>>

Callers == Handlers \cup {Starter}

-----------------------------------------------------------------------------
(* Handlers *)

\* A change that its handler announces (destroy, export, import, wipe) or not
\* (the calls of the service); /sys/block, the mounts and the blkid cache may
\* show it or not.
Change(h, announce, shows) ==
  /\ caller[h] = "idle" /\ world < MaxChanges
  /\ world' = world + 1
  /\ visible' = IF shows THEN world + 1 ELSE visible
  /\ IF announce THEN /\ caller' = [caller EXCEPT ![h] = "changed"]
                      /\ told' = [told EXCEPT ![h] = world + 1]
                 ELSE UNCHANGED <<caller, told>>
  /\ UNCHANGED <<signals, scan, published>>

\* Mutant: InvalidateNow as it was before forceNext was added.
TriggerOnly(h) ==
  /\ caller[h] = "changed"
  /\ caller' = [caller EXCEPT ![h] = "marked"]
  /\ UNCHANGED <<world, visible, told, signals, scan, published>>

\* InvalidateNow: forceNext under its mutex, then the trigger, which is
\* dropped when one is waiting.
MarkForced(h) ==
  /\ caller[h] = "changed"
  /\ forceNext' = TRUE
  /\ caller' = [caller EXCEPT ![h] = "marked"]
  /\ UNCHANGED <<world, visible, told, trigger, tick, scan, published>>

Trigger(h) ==
  /\ caller[h] = "marked"
  /\ trigger' = TRUE
  /\ caller' = [caller EXCEPT ![h] = "idle"] /\ told' = [told EXCEPT ![h] = 0]
  /\ UNCHANGED <<world, visible, tick, forceNext, scan, published>>

-----------------------------------------------------------------------------
(* The loop and tryReconcile, whose TryLock always succeeds: nobody else       *)
(* calls it.                                                                  *)

\* tryReconcile returns; its locals are gone.
Return == loop' = "select" /\ forced' = FALSE /\ fp' = -1 /\ probed' = 0

\* The ticker fires; a tick is dropped while one is waiting.
TickerFires ==
  /\ tick' = TRUE
  /\ UNCHANGED <<world_vars, trigger, forceNext, scan, published>>

\* select takes a tick or a trigger.
Wake ==
  /\ loop = "select"
  /\ \/ tick /\ tick' = FALSE /\ UNCHANGED trigger
     \/ trigger /\ trigger' = FALSE /\ UNCHANGED tick
  /\ loop' = "consume"
  /\ UNCHANGED <<world_vars, forceNext, forced, fp, probed, published>>

ConsumeForced ==
  /\ loop = "consume"
  /\ forced' = forceNext /\ forceNext' = FALSE
  /\ loop' = "fingerprint"
  /\ UNCHANGED <<world_vars, trigger, tick, fp, probed, published>>

\* computeFingerprint, and the skip.
Fingerprint ==
  /\ loop = "fingerprint"
  /\ IF ~forced /\ visible = lastFp /\ generation
     THEN Return
     ELSE fp' = visible /\ loop' = "probe" /\ UNCHANGED <<forced, probed>>
  /\ UNCHANGED <<world_vars, signals, published>>

\* probeBtrfsFilesystems.
Probe ==
  /\ loop = "probe"
  /\ probed' = world
  /\ loop' = "publish"
  /\ UNCHANGED <<world_vars, signals, forced, fp, published>>

\* The old snapshot stays, and so does lastFingerprint.
ProbeFails ==
  /\ ProbeFaults /\ loop = "probe"
  /\ failed' = world
  /\ Return
  /\ UNCHANGED <<world_vars, signals, lastFp, snapshot, generation>>

\* Mutant: the fingerprint that is kept is taken after the probe.
PublishLateFingerprint ==
  /\ loop = "publish"
  /\ snapshot' = probed /\ lastFp' = visible /\ generation' = TRUE
  /\ Return
  /\ UNCHANGED <<world_vars, signals, failed>>

\* enrichWithManagedState, analyzeDivergences and the swap of the pointer.
Publish ==
  /\ loop = "publish"
  /\ snapshot' = probed /\ lastFp' = fp /\ generation' = TRUE
  /\ Return
  /\ UNCHANGED <<world_vars, signals, failed>>

-----------------------------------------------------------------------------
\* Start spawns the loop and calls InvalidateNow.
ObserverInit ==
  /\ world = 0 /\ visible = 0
  /\ caller = [h \in Callers |-> IF h = Starter THEN "changed" ELSE "idle"]
  /\ told = [h \in Callers |-> 0]
  /\ trigger = FALSE /\ tick = FALSE /\ forceNext = FALSE
  /\ loop = "select" /\ forced = FALSE /\ fp = -1 /\ probed = 0
  /\ lastFp = -1 /\ snapshot = 0 /\ generation = FALSE /\ failed = -1

Invalidate(h) == MarkForced(h) \/ Trigger(h)

TryReconcile ==
  Wake \/ ConsumeForced \/ Fingerprint \/ Probe \/ ProbeFails \/ Publish

ObserverNext ==
  \/ \E h \in Handlers, announce, shows \in BOOLEAN : Change(h, announce, shows)
  \/ \E h \in Callers : Invalidate(h)
  \/ TickerFires \/ TryReconcile

\* The ticker keeps firing, the goroutines run, and a probe that is tried
\* again and again does not fail for ever.
ObserverFairness ==
  /\ WF_observerVars(TickerFires) /\ WF_observerVars(TryReconcile) /\ SF_observerVars(Probe)
  /\ \A h \in Callers : WF_observerVars(Invalidate(h))

ObserverSpec == ObserverInit /\ [][ObserverNext]_observerVars /\ ObserverFairness

-----------------------------------------------------------------------------
(* Properties *)

States == 0 .. MaxChanges

\* Every variable stays in its domain.
ObserverTypeOK ==
  /\ world \in States /\ visible \in States /\ probed \in States
  /\ snapshot \in States
  /\ caller \in [Callers -> {"idle", "changed", "marked"}]
  /\ told \in [Callers -> States]
  /\ trigger \in BOOLEAN /\ tick \in BOOLEAN /\ forceNext \in BOOLEAN
  /\ loop \in {"select", "consume", "fingerprint", "probe", "publish"}
  /\ forced \in BOOLEAN /\ generation \in BOOLEAN
  /\ fp \in States \cup {-1} /\ lastFp \in States \cup {-1}
  /\ failed \in States \cup {-1}

\* A change that its handler announced gets into a snapshot, even if it comes
\* while a rescan is under way and the fingerprint does not show it: InvalidateNow
\* is not lost. It may be lost to a probe that failed after the change.
AnnouncedIsSeen ==
  \A v \in 1 .. MaxChanges :
    (\E h \in Handlers : caller[h] = "changed" /\ told[h] = v)
      ~> snapshot >= v \/ failed >= v

\* A change that the fingerprint shows gets into a snapshot, announced or not
\* and whatever probes fail: the fingerprint kept with a snapshot is never
\* newer than what its probe saw.
VisibleIsSeen ==
  \A v \in 1 .. MaxChanges : visible = v ~> snapshot >= v
=============================================================================
