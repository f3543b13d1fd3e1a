---------------------------- MODULE MonitorProofs ---------------------------
(* Theorems about the loops that watch: the observer of the disks, and the    *)
(* scheduler of the reconcilers.                                              *)
EXTENDS StorageObserverLoop, ReconcilerScheduler, FiniteSetTheorems, TLAPS

-----------------------------------------------------------------------------
(* The loop of the observer, for any handlers and any number of changes:   *)
(* its types, and why a rescan may be skipped at all.  The fingerprint is  *)
(* taken before the probe, so that the one kept with a snapshot is never   *)
(* newer than what the snapshot shows (Behind).                            *)

\* Each observation is of a state before the one that is derived from it.
Behind ==
  /\ visible <= world
  /\ snapshot <= world /\ lastFp <= snapshot
  /\ loop = "probe" => fp <= world
  /\ loop = "publish" => fp <= probed /\ probed <= world

ObserverInv == ObserverTypeOK /\ Behind

LEMMA ObserverInitInv == ObserverInit => ObserverInv
<1> SUFFICES ASSUME ObserverInit PROVE ObserverTypeOK /\ Behind
  BY DEF ObserverInv
<1>1. 0 \in States
  BY ChangesAssumption DEF States
<1>2. caller \in [Callers -> {"idle", "changed", "marked"}] /\ told \in [Callers -> States]
  BY <1>1 DEF ObserverInit
<1>3. ObserverTypeOK
  BY <1>1, <1>2 DEF ObserverInit, ObserverTypeOK
<1>4. Behind
  BY DEF ObserverInit, Behind
<1> QED BY <1>3, <1>4

LEMMA HandlersInv ==
  ASSUME ObserverInv,
         \/ \E h \in Handlers, announce, shows \in BOOLEAN : Change(h, announce, shows)
         \/ \E h \in Callers : Invalidate(h)
         \/ TickerFires
  PROVE  ObserverInv'
<1> USE ChangesAssumption DEF ObserverInv, States
<1>1. ASSUME NEW h \in Handlers, NEW announce \in BOOLEAN, NEW shows \in BOOLEAN,
             Change(h, announce, shows)
      PROVE  ObserverInv'
  <2>1. world' = world + 1 /\ world' \in States /\ visible' \in {visible, world + 1}
    BY <1>1 DEF Change, ObserverTypeOK
  <2>2. /\ caller' \in [Callers -> {"idle", "changed", "marked"}]
        /\ told' \in [Callers -> States]
    <3>1. CASE announce
      BY <1>1, <2>1, <3>1 DEF Change, ObserverTypeOK, Behind, Callers
    <3>2. CASE ~announce
      BY <1>1, <2>1, <3>2 DEF Change, ObserverTypeOK, Behind
    <3> QED BY <3>1, <3>2
  <2>3. UNCHANGED <<signals, scan, published>>
    BY <1>1 DEF Change
  <2> QED BY <2>1, <2>2, <2>3 DEF ObserverTypeOK, Behind, signals, scan, published
<1>2. ASSUME NEW h \in Callers, Invalidate(h) PROVE ObserverInv'
  <2>1. CASE MarkForced(h)
    BY <2>1 DEF MarkForced, ObserverTypeOK, Behind, scan, published
  <2>2. CASE Trigger(h)
    BY <2>2 DEF Trigger, ObserverTypeOK, Behind, scan, published
  <2> QED BY <1>2, <2>1, <2>2 DEF Invalidate
<1>3. CASE TickerFires
  BY <1>3 DEF TickerFires, ObserverTypeOK, Behind, world_vars, scan, published
<1> QED BY <1>1, <1>2, <1>3

LEMMA ReturnTypes ==
  ASSUME Return
  PROVE  /\ loop' \in {"select", "consume", "fingerprint", "probe", "publish"}
         /\ forced' \in BOOLEAN /\ probed' \in States /\ fp' \in States \cup {-1}
<1>1. 0 \in States
  BY ChangesAssumption DEF States
<1>2. loop' = "select" /\ forced' = FALSE /\ fp' = -1 /\ probed' = 0
  BY DEF Return
<1>3. fp' \in States \cup {-1}
  <2>1. fp' \in {-1}
    BY <1>2
  <2> QED BY <2>1
<1>4. forced' \in BOOLEAN
  BY <1>2, Zenon
<1>5. probed' \in States
  BY <1>1, <1>2
<1> QED BY <1>2, <1>3, <1>4, <1>5

LEMMA ObserverLoopInv ==
  ASSUME ObserverInv, TryReconcile
  PROVE  ObserverInv'
<1> USE ChangesAssumption DEF ObserverInv, States, ObserverTypeOK, Behind, world_vars
<1>1. CASE Wake
  BY <1>1 DEF Wake, published
<1>2. CASE ConsumeForced
  BY <1>2 DEF ConsumeForced, published
<1>3. CASE Fingerprint
  <2>1. ObserverTypeOK'
    <3>1. CASE Return
      BY <1>3, <3>1, ReturnTypes DEF Fingerprint, signals, published
    <3>2. CASE fp' = visible /\ loop' = "probe" /\ UNCHANGED <<forced, probed>>
      BY <1>3, <3>2 DEF Fingerprint, signals, published
    <3> QED BY <1>3, <3>1, <3>2 DEF Fingerprint
  <2>2. Behind'
    BY <1>3 DEF Fingerprint, Return, signals, published
  <2> QED BY <2>1, <2>2
<1>4. CASE Probe
  BY <1>4 DEF Probe, signals, published
<1>5. CASE ProbeFails
  <2>1. ObserverTypeOK'
    BY <1>5, ReturnTypes DEF ProbeFails, signals
  <2>2. Behind'
    BY <1>5 DEF ProbeFails, Return, signals
  <2> QED BY <2>1, <2>2
<1>6. CASE Publish
  <2>1. ObserverTypeOK'
    BY <1>6, ReturnTypes DEF Publish, signals
  <2>2. Behind'
    BY <1>6 DEF Publish, Return, signals
  <2> QED BY <2>1, <2>2
<1> QED BY <1>1, <1>2, <1>3, <1>4, <1>5, <1>6 DEF TryReconcile

LEMMA ObserverNextInv == ASSUME ObserverInv, [ObserverNext]_observerVars PROVE ObserverInv'
<1>1. CASE UNCHANGED observerVars
  BY <1>1 DEF observerVars, world_vars, signals, scan, published, ObserverInv, ObserverTypeOK, Behind
<1> QED BY <1>1, HandlersInv, ObserverLoopInv DEF ObserverNext

LEMMA Invariant == ObserverSpec => []ObserverInv
BY ObserverInitInv, ObserverNextInv, PTL DEF ObserverSpec

\* The variables of the loop and of its callers stay in their domains.
THEOREM Typing == ObserverSpec => []ObserverTypeOK
<1>1. ObserverInv => ObserverTypeOK
  BY DEF ObserverInv
<1> QED BY Invariant, <1>1, PTL

\* A rescan that tryReconcile skips (visible = lastFp) leaves no change that the
\* fingerprint shows out of the snapshot: lastFingerprint is of a state the probe
\* had still to see.
SkipIsSafe == generation /\ visible = lastFp => snapshot >= visible

\* tryReconcile never skips a rescan that would have shown something new.
THEOREM SkippedIsSeen == ObserverSpec => []SkipIsSafe
<1>1. ObserverInv => SkipIsSafe
  BY DEF ObserverInv, SkipIsSafe, Behind, ObserverTypeOK, States
<1> QED BY Invariant, <1>1, PTL
-----------------------------------------------------------------------------
(* When Stop returns, no pass that it stopped runs, for any reconcilers    *)
(* and any number of goroutines that start and stop the scheduler.  What   *)
(* the wait group counts are the loops (Counted), so that the Stop that    *)
(* returns leaves none.  A Start that had copied the reconcilers before    *)
(* the Stop may still make its loops afterwards: those have a context that *)
(* is done, and stay in the settle delay (LateOnes).                       *)

Loops == [name : Reconcilers, ctx : Nat, pc : {"settle", "first", "select", "pass"},
          tick : BOOLEAN]
OwnerStates == [pc : {"idle", "spawn", "cancel", "wait"}, ctx : Nat, todo : SUBSET Reconcilers]

Types ==
  /\ registered \subseteq Reconcilers
  /\ context \in Nat
  /\ loops \subseteq Loops
  /\ owner \in [Owners -> OwnerStates]

\* The wait group counts the goroutines.
Counted == IsFiniteSet(loops) /\ waitGroup = Cardinality(loops)

Spawning(o) == owner[o].pc = "spawn"

\* Each Start has a context of its own.
OwnContexts ==
  /\ \A o \in Owners : owner[o].ctx <= context
  /\ \A l \in loops : l.ctx <= context
  /\ \A o, q \in Owners : Spawning(o) /\ Spawning(q) /\ owner[o].ctx = owner[q].ctx => o = q

\* Each Start makes one loop of each reconciler.
NotYetMade ==
  \A o \in Owners, l \in loops :
    Spawning(o) /\ owner[o].ctx = l.ctx => l.name \notin owner[o].todo

\* A Stop cancels before it waits.
CancelFirst ==
  /\ closed \subseteq cancelled
  /\ \A o \in Owners : owner[o].pc = "wait" => owner[o].ctx \in cancelled

LateOnes == \A l \in loops : l.ctx \in closed => l.pc = "settle"

SchedInv ==
  Types /\ Counted /\ OwnContexts /\ NotYetMade /\ CancelFirst /\ LateOnes

---------------------------------------------------------------------------
LEMMA SchedulerInitInv == SchedInit => SchedInv
<1> SUFFICES ASSUME SchedInit PROVE SchedInv
  OBVIOUS
<1>1. Types
  BY DEF SchedInit, Types, AtEase, OwnerStates
<1>2. Counted
  BY FS_EmptySet DEF SchedInit, Counted
<1>3. OwnContexts /\ NotYetMade /\ CancelFirst /\ LateOnes
  BY DEF SchedInit, OwnContexts, NotYetMade, CancelFirst, LateOnes, AtEase, Spawning
<1> QED BY <1>1, <1>2, <1>3 DEF SchedInv

\* A loop that moves on keeps its name and its context.
MovesOn(l, m) ==
  /\ m \in Loops /\ m.name = l.name /\ m.ctx = l.ctx
  /\ l.ctx \in closed => m.pc = "settle"
  /\ loops' = (loops \ {l}) \cup {m}
  /\ UNCHANGED <<loopVars, waitGroup>>

\* Each context has one loop of a name at most.
OneEach == \A l, m \in loops : l.name = m.name /\ l.ctx = m.ctx => l = m

LEMMA MovesInv ==
  ASSUME SchedInv, OneEach, NEW l \in loops, NEW m, MovesOn(l, m)
  PROVE  SchedInv' /\ OneEach'
<1> USE DEF SchedInv
<1>1. /\ m \in Loops /\ m.name = l.name /\ m.ctx = l.ctx
      /\ l.ctx \in closed => m.pc = "settle"
      /\ loops' = (loops \ {l}) \cup {m}
      /\ registered' = registered /\ context' = context /\ cancelled' = cancelled
      /\ closed' = closed /\ owner' = owner /\ waitGroup' = waitGroup
  BY DEF MovesOn, loopVars
<1>2. Types'
  BY <1>1 DEF Types
<1>3. \A k \in loops' : k = m \/ (k \in loops /\ k # l)
  BY <1>1
<1>4. OneEach'
  BY <1>1, <1>3 DEF OneEach
<1>5. Counted'
  <2>1. m \notin loops \ {l}
    BY <1>1 DEF OneEach
  <2>2. IsFiniteSet(loops \ {l}) /\ Cardinality(loops \ {l}) = Cardinality(loops) - 1
    BY FS_RemoveElement DEF Counted
  <2>3. /\ IsFiniteSet((loops \ {l}) \cup {m})
        /\ Cardinality((loops \ {l}) \cup {m}) = Cardinality(loops \ {l}) + 1
    BY <2>1, <2>2, FS_AddElement
  <2>4. Cardinality(loops) \in Nat
    BY FS_CardinalityType DEF Counted
  <2> QED BY <1>1, <2>2, <2>3, <2>4 DEF Counted
<1>6. OwnContexts'
  BY <1>1, <1>3 DEF OwnContexts, Spawning
<1>7. NotYetMade'
  BY <1>1, <1>3 DEF NotYetMade, Spawning
<1>8. CancelFirst' /\ LateOnes'
  BY <1>1, <1>3 DEF CancelFirst, LateOnes
<1> QED BY <1>2, <1>4, <1>5, <1>6, <1>7, <1>8

\* The steps of a loop; once its context is done it can only stop.
LEMMA SchedulerInv ==
  ASSUME SchedInv, OneEach, NEW l \in loops, LoopStep(l)
  PROVE  SchedInv' /\ OneEach'
<1> USE DEF SchedInv
<1>1. l \in Loops
  BY DEF Types
<1>2. l.ctx \in closed => l.ctx \in cancelled /\ l.pc = "settle"
  BY DEF CancelFirst, LateOnes
<1>3. CASE Settles(l)
  <2> DEFINE m == [l EXCEPT !.pc = "first"]
  <2>1. MovesOn(l, m)
    BY <1>1, <1>2, <1>3 DEF Settles, Moved, MovesOn, Loops
  <2> QED BY <2>1, MovesInv
<1>4. CASE Ticks(l)
  <2> DEFINE m == [l EXCEPT !.tick = TRUE]
  <2>1. MovesOn(l, m)
    BY <1>1, <1>2, <1>4 DEF Ticks, Moved, MovesOn, Loops
  <2> QED BY <2>1, MovesInv
<1>5. CASE PassBegins(l)
  <2> DEFINE m == [l EXCEPT !.pc = "pass", !.tick = FALSE]
  <2>1. m \in Loops /\ m.name = l.name /\ m.ctx = l.ctx
    BY <1>1 DEF Loops
  <2>2. MovesOn(l, m)
    BY <2>1, <1>2, <1>5 DEF PassBegins, Moved, MovesOn
  <2> QED BY <2>2, MovesInv
<1>6. CASE PassEnds(l) \/ PassPanics(l)
  <2> DEFINE m == [l EXCEPT !.pc = "select"]
  <2>1. m \in Loops /\ m.name = l.name /\ m.ctx = l.ctx
    BY <1>1 DEF Loops
  <2>2. MovesOn(l, m)
    BY <2>1, <1>2, <1>6 DEF PassEnds, PassPanics, Recovered, InPass, Moved, MovesOn
  <2> QED BY <2>2, MovesInv
<1>7. CASE LoopStops(l)
  <2>1. /\ loops' = loops \ {l} /\ waitGroup' = waitGroup - 1
        /\ registered' = registered /\ context' = context /\ cancelled' = cancelled
        /\ closed' = closed /\ owner' = owner
    BY <1>7 DEF LoopStops, loopVars
  <2>2. Counted'
    BY <2>1, FS_RemoveElement DEF Counted
  <2>3. Types' /\ OneEach'
    BY <2>1 DEF Types, OneEach
  <2>4. OwnContexts' /\ NotYetMade'
    BY <2>1 DEF OwnContexts, NotYetMade, Spawning
  <2>5. CancelFirst' /\ LateOnes'
    BY <2>1 DEF CancelFirst, LateOnes
  <2> QED BY <2>2, <2>3, <2>4, <2>5
<1> QED BY <1>3, <1>4, <1>5, <1>6, <1>7 DEF LoopStep

\* Start: a context of its own, and a loop of each reconciler it copied.
LEMMA StartInv ==
  ASSUME SchedInv, OneEach, NEW o \in Owners, StartLocked(o)
  PROVE  SchedInv' /\ OneEach'
<1> USE DEF SchedInv
<1>1. /\ owner' = [owner EXCEPT ![o] = [pc |-> "spawn", ctx |-> context + 1, todo |-> registered]]
      /\ context' = context + 1
      /\ registered' = registered /\ cancelled' = cancelled /\ closed' = closed
      /\ waitGroup' = waitGroup /\ loops' = loops
  BY DEF StartLocked
<1>2. context + 1 \in Nat /\ context < context + 1
  BY DEF Types
<1>3. Types'
  BY <1>1, <1>2 DEF Types, OwnerStates
<1>4. Counted' /\ OneEach'
  BY <1>1 DEF Counted, OneEach
<1>5. /\ owner'[o] = [pc |-> "spawn", ctx |-> context + 1, todo |-> registered]
      /\ \A q \in Owners : q # o => owner'[q] = owner[q]
  BY <1>1 DEF Types
<1>6. /\ \A q \in Owners : owner[q].ctx \in Nat /\ owner[q].ctx <= context
      /\ \A l \in loops : l.ctx \in Nat /\ l.ctx <= context
  BY DEF Types, OwnContexts, OwnerStates, Loops
<1>7. OwnContexts'
  <2>1. \A q \in Owners : owner'[q].ctx <= context'
    BY <1>1, <1>2, <1>5, <1>6 DEF Types
  <2>2. \A l \in loops' : l.ctx <= context'
    BY <1>1, <1>2, <1>6 DEF Types
  <2>3. \A q \in Owners : q # o => owner'[q].ctx # owner'[o].ctx
    BY <1>2, <1>5, <1>6 DEF Types
  <2>4. \A p, q \in Owners : Spawning(p)' /\ Spawning(q)' /\ owner'[p].ctx = owner'[q].ctx => p = q
    BY <1>5, <2>3 DEF OwnContexts, Spawning
  <2> QED BY <2>1, <2>2, <2>4 DEF OwnContexts
<1>8. NotYetMade'
  <2> SUFFICES ASSUME NEW q \in Owners, NEW l \in loops, Spawning(q)', owner'[q].ctx = l.ctx
               PROVE  l.name \notin owner'[q].todo
    BY <1>1 DEF NotYetMade
  <2>1. q # o
    BY <1>2, <1>5, <1>6 DEF Types
  <2> QED BY <1>5, <2>1 DEF NotYetMade, Spawning
<1>9. CancelFirst' /\ LateOnes'
  BY <1>1, <1>5 DEF CancelFirst, LateOnes
<1> QED BY <1>3, <1>4, <1>7, <1>8, <1>9

LEMMA SpawnInv ==
  ASSUME SchedInv, OneEach, NEW o \in Owners, NEW r \in Reconcilers, Spawn(o, r)
  PROVE  SchedInv' /\ OneEach'
<1> USE DEF SchedInv
<1> DEFINE made == [name |-> r, ctx |-> owner[o].ctx, pc |-> "settle", tick |-> FALSE]
<1>1. /\ owner[o].pc = "spawn" /\ r \in owner[o].todo
      /\ loops' = loops \cup {made} /\ waitGroup' = waitGroup + 1
      /\ owner' = [owner EXCEPT ![o].todo = @ \ {r}]
      /\ registered' = registered /\ context' = context
      /\ cancelled' = cancelled /\ closed' = closed
  BY DEF Spawn
<1>2. made \in Loops
  BY DEF Types, OwnerStates, Loops
<1>3. /\ owner'[o] = [owner[o] EXCEPT !.todo = @ \ {r}]
      /\ \A q \in Owners : q # o => owner'[q] = owner[q]
  BY <1>1 DEF Types
<1>4. owner[o] \in OwnerStates
  BY DEF Types
<1>5. /\ owner'[o].pc = owner[o].pc /\ owner'[o].ctx = owner[o].ctx
      /\ owner'[o].todo = owner[o].todo \ {r} /\ owner'[o] \in OwnerStates
  BY <1>3, <1>4 DEF OwnerStates
<1>6. \A q \in Owners : owner'[q].pc = owner[q].pc /\ owner'[q].ctx = owner[q].ctx
  BY <1>3, <1>5
<1>7. \A l \in loops : l.name = r => l.ctx # owner[o].ctx
  BY <1>1 DEF NotYetMade, Spawning
<1>8. made.name = r /\ made.ctx = owner[o].ctx /\ made.pc = "settle"
  OBVIOUS
<1> HIDE DEF made
<1>9. Types'
  BY <1>1, <1>2, <1>3, <1>5 DEF Types
<1>10. Counted'
  <2>1. made \notin loops
    BY <1>7, <1>8
  <2> QED BY <1>1, <2>1, FS_AddElement DEF Counted
<1>11. OneEach'
  BY <1>1, <1>7, <1>8 DEF OneEach
<1>12. OwnContexts'
  BY <1>1, <1>6, <1>8 DEF OwnContexts, Spawning
<1>13. NotYetMade'
  <2> SUFFICES ASSUME NEW q \in Owners, NEW l \in loops', Spawning(q)', owner'[q].ctx = l.ctx
               PROVE  l.name \notin owner'[q].todo
    BY DEF NotYetMade
  <2>1. Spawning(q) /\ owner[q].ctx = l.ctx
    BY <1>6 DEF Spawning
  <2>2. CASE l = made
    <3>1. q = o
      BY <1>1, <1>8, <2>1, <2>2 DEF OwnContexts, Spawning
    <3> QED BY <1>5, <1>8, <2>2, <3>1
  <2>3. CASE l \in loops
    <3>1. l.name \notin owner[q].todo
      BY <2>1, <2>3 DEF NotYetMade
    <3> QED BY <1>3, <1>5, <3>1
  <2> QED BY <1>1, <2>2, <2>3
<1>14. CancelFirst' /\ LateOnes'
  BY <1>1, <1>6, <1>8 DEF CancelFirst, LateOnes
<1> QED BY <1>9, <1>10, <1>11, <1>12, <1>13, <1>14

\* The other calls move one owner, who no longer makes loops.
LEMMA OwnerInv ==
  ASSUME SchedInv, OneEach, NEW o \in Owners,
         (\E r \in Reconcilers : Register(o, r)) \/ StartReturns(o) \/ StopLocked(o) \/ Cancel(o)
           \/ StopReturns(o)
  PROVE  SchedInv' /\ OneEach'
<1> USE DEF SchedInv
<1>1. context' = context /\ loops' = loops /\ waitGroup' = waitGroup
  BY DEF Register, StartReturns, StopLocked, Cancel, StopReturns
<1>2. Counted' /\ OneEach'
  BY <1>1 DEF Counted, OneEach
<1>3. owner[o] \in OwnerStates /\ AtEase \in OwnerStates
  BY DEF Types, AtEase, OwnerStates
<1>4. PICK now \in OwnerStates : /\ owner' = [owner EXCEPT ![o] = now]
                                 /\ now = owner[o] \/ now.pc # "spawn"
                                 /\ now.ctx <= context
  <2>1. context \in Nat /\ owner[o].ctx <= context /\ owner[o] \in OwnerStates
    BY DEF Types, OwnContexts
  <2>2. CASE \E r \in Reconcilers : Register(o, r)
    BY <2>1, <2>2 DEF Register, Types
  <2>3. CASE StartReturns(o) \/ StopReturns(o)
    <3>1. AtEase \in OwnerStates /\ AtEase.pc # "spawn" /\ AtEase.ctx <= context
      BY <1>3, <2>1 DEF AtEase
    <3> QED BY <2>3, <3>1 DEF StartReturns, StopReturns
  <2>4. CASE StopLocked(o)
    <3> DEFINE now == [pc |-> "cancel", ctx |-> context, todo |-> {}]
    <3>1. now \in OwnerStates /\ now.pc # "spawn" /\ now.ctx <= context
      BY <2>1 DEF OwnerStates
    <3>2. owner' = [owner EXCEPT ![o] = now]
      BY <2>4 DEF StopLocked
    <3> QED BY <3>1, <3>2
  <2>5. CASE Cancel(o)
    <3> DEFINE now == [owner[o] EXCEPT !.pc = "wait"]
    <3>1. now \in OwnerStates /\ now.pc # "spawn" /\ now.ctx <= context
      BY <2>1 DEF OwnerStates
    <3>2. owner' = [owner EXCEPT ![o] = now]
      BY <2>5 DEF Cancel
    <3> QED BY <3>1, <3>2
  <2> QED BY <2>2, <2>3, <2>4, <2>5
<1>5. /\ owner'[o] = now
      /\ \A q \in Owners : q # o => owner'[q] = owner[q]
  BY <1>4 DEF Types
<1>6. Types'
  <2>1. registered' \subseteq Reconcilers
    BY DEF Register, StartReturns, StopLocked, Cancel, StopReturns, Types
  <2> QED BY <1>1, <1>4, <2>1 DEF Types
<1>7. \A q \in Owners : Spawning(q)' => owner'[q] = owner[q] /\ Spawning(q)
  BY <1>4, <1>5 DEF Spawning
<1>8. OwnContexts'
  <2>1. \A q \in Owners : owner'[q].ctx <= context'
    BY <1>1, <1>4, <1>5 DEF OwnContexts
  <2> QED BY <1>1, <1>7, <2>1 DEF OwnContexts
<1>9. NotYetMade'
  BY <1>1, <1>7 DEF NotYetMade
<1>10. CancelFirst'
  <2>1. CASE Cancel(o)
    <3>1. /\ cancelled' = cancelled \cup {owner[o].ctx} /\ closed' = closed
          /\ owner' = [owner EXCEPT ![o].pc = "wait"]
      BY <2>1 DEF Cancel
    <3>2. owner'[o].ctx = owner[o].ctx
      BY <1>3, <3>1 DEF Types, OwnerStates
    <3> QED BY <1>5, <3>1, <3>2 DEF CancelFirst
  <2>2. CASE StopReturns(o)
    <3>1. /\ owner[o].pc = "wait" /\ closed' = closed \cup {owner[o].ctx}
          /\ cancelled' = cancelled /\ owner' = [owner EXCEPT ![o] = AtEase]
      BY <2>2 DEF StopReturns, Waited
    <3>2. owner'[o].pc = "idle"
      BY <1>5, <3>1 DEF AtEase, Types
    <3> QED BY <1>5, <3>1, <3>2 DEF CancelFirst
  <2>3. CASE (\E r \in Reconcilers : Register(o, r)) \/ StartReturns(o) \/ StopLocked(o)
    <3>1. closed' = closed /\ cancelled' = cancelled
      BY <2>3 DEF Register, StartReturns, StopLocked
    <3>2. owner'[o] = owner[o] \/ owner'[o].pc # "wait"
      BY <2>3, <1>5 DEF Register, StartReturns, StopLocked, AtEase, Types
    <3> QED BY <1>5, <3>1, <3>2 DEF CancelFirst
  <2> QED BY <2>1, <2>2, <2>3
<1>11. LateOnes'
  <2>1. CASE StopReturns(o)
    <3>1. waitGroup = 0
      BY <2>1 DEF StopReturns, Waited
    <3>2. loops = {}
      BY <3>1, FS_EmptySet DEF Counted
    <3> QED BY <1>1, <3>2 DEF LateOnes
  <2>2. CASE ~StopReturns(o)
    <3>1. closed' = closed
      BY <2>2 DEF Register, StartReturns, StopLocked, Cancel
    <3> QED BY <1>1, <3>1 DEF LateOnes
  <2> QED BY <2>1, <2>2
<1> QED BY <1>2, <1>6, <1>8, <1>9, <1>10, <1>11

LEMMA OnceInv ==
  ASSUME SchedInv, OneEach, NEW r \in Reconcilers,
         RunOnce(r) \/ RunOnceEnds(r) \/ RunOnceKills(r)
  PROVE  SchedInv' /\ OneEach'
<1> USE DEF SchedInv
<1>1. CASE RunOnce(r) \/ RunOnceEnds(r)
  <2>1. UNCHANGED <<registered, context, cancelled, closed, waitGroup, loops, owner>>
    BY <1>1 DEF RunOnce, RunOnceEnds, loopVars
  <2> QED BY <2>1 DEF Types, Counted, OwnContexts, NotYetMade, CancelFirst, LateOnes, OneEach,
                      Spawning
<1>2. CASE RunOnceKills(r)
  <2>1. /\ registered' = {} /\ loops' = {} /\ waitGroup' = 0
        /\ owner' = [o \in Owners |-> AtEase]
        /\ context' = context /\ cancelled' = cancelled /\ closed' = closed
    BY <1>2 DEF RunOnceKills
  <2>2. \A o \in Owners : owner'[o].pc = "idle" /\ owner'[o].ctx = 0
    BY <2>1 DEF AtEase
  <2>3. Types' /\ Counted' /\ OneEach'
    BY <2>1, FS_EmptySet DEF Types, Counted, OneEach, AtEase, OwnerStates
  <2>4. OwnContexts' /\ NotYetMade' /\ CancelFirst' /\ LateOnes'
    BY <2>1, <2>2 DEF Types, OwnContexts, NotYetMade, CancelFirst, LateOnes, Spawning
  <2> QED BY <2>3, <2>4
<1> QED BY <1>1, <1>2

---------------------------------------------------------------------------
LEMMA SchedulerNextInv ==
  ASSUME SchedInv, OneEach, [SchedNext]_schedVars
  PROVE  SchedInv' /\ OneEach'
<1>1. ASSUME NEW l \in loops, LoopStep(l) PROVE SchedInv' /\ OneEach'
  BY <1>1, SchedulerInv
<1>2. ASSUME NEW o \in Owners, OwnerStep(o) PROVE SchedInv' /\ OneEach'
  BY <1>2, StartInv, SpawnInv, OwnerInv DEF OwnerStep
<1>3. ASSUME NEW r \in Reconcilers, RunOnce(r) \/ RunOnceEnds(r) \/ RunOnceKills(r)
      PROVE  SchedInv' /\ OneEach'
  BY <1>3, OnceInv
<1>4. CASE UNCHANGED schedVars
  BY <1>4 DEF schedVars, SchedInv, Types, Counted, OwnContexts, NotYetMade, CancelFirst,
              LateOnes, OneEach, Spawning
<1> QED BY <1>1, <1>2, <1>3, <1>4 DEF SchedNext

\* Stop "espera a que todas terminen" (network_reconciler.go): once it has
\* returned no pass of the loops it stopped runs, whatever Start it met half way.
THEOREM StopsForGood == SchedSpec => []StopMeansStopped
<1>1. SchedInit => SchedInv /\ OneEach
  BY SchedulerInitInv DEF SchedInit, OneEach
<1>2. SchedInv => StopMeansStopped
  BY DEF SchedInv, LateOnes, StopMeansStopped, InPass
<1> QED BY <1>1, SchedulerNextInv, <1>2, PTL DEF SchedSpec
=============================================================================
