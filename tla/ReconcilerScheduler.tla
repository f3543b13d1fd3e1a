------------------------- MODULE ReconcilerScheduler -------------------------
(* The scheduler that runs the network, NimHealth and docker reconcilers     *)
(* (network_reconciler.go): Start gives every registered reconciler a        *)
(* goroutine, Stop cancels them and waits for the last one, RunOnce runs a   *)
(* pass on its caller's goroutine and nobody waits for it.                   *)
EXTENDS Integers, FiniteSets

CONSTANTS
  Reconcilers,
  Owners,          \* goroutines that call Register, Start and Stop
  MaxSchedCalls,   \* how many calls of Start, Stop and RunOnce are made
  MaxSchedPanics   \* how many passes panic

ASSUME SchedulerAssumption == MaxSchedCalls \in Nat /\ MaxSchedPanics \in Nat

VARIABLES
  registered,   \* ReconcilerScheduler.reconcilers
  started,      \* ReconcilerScheduler.running
  context,      \* the number of the context behind ReconcilerScheduler.cancel
  cancelled,    \* the contexts that are done
  closed,       \* the contexts whose Stop has returned
  waitGroup,    \* the counter of ReconcilerScheduler.wg
  loops,        \* the goroutines of runReconciler: [name, ctx, pc, tick]
  owner,        \* where each owner is: [pc, ctx, todo]
  asides,       \* the passes of RunOnce under way
  calls, panics

schedVars == <<registered, started, context, cancelled, closed, waitGroup,
               loops, owner, asides, calls, panics>>
loopVars == <<registered, started, context, cancelled, closed, owner, calls>>
ownerVars == <<asides, panics>>

AtEase == [pc |-> "idle", ctx |-> 0, todo |-> {}]

Calling == calls < MaxSchedCalls /\ calls' = calls + 1

SchedInit ==
  /\ registered = {} /\ started = FALSE /\ context = 0
  /\ cancelled = {} /\ closed = {} /\ waitGroup = 0 /\ loops = {}
  /\ owner = [o \in Owners |-> AtEase]
  /\ asides = {} /\ calls = 0 /\ panics = 0

-----------------------------------------------------------------------------
(* Register, Start, Stop *)

\* Register refuses a second reconciler of the name, and any after Start.
Register(o, r) ==
  /\ owner[o] = AtEase
  /\ ~started /\ r \notin registered
  /\ registered' = registered \cup {r}
  /\ UNCHANGED <<started, context, cancelled, closed, waitGroup, loops, owner,
                 asides, calls, panics>>

\* Start up to its Unlock: the map of reconcilers is copied.
StartLocked(o) ==
  /\ Calling
  /\ owner[o] = AtEase /\ ~started
  /\ started' = TRUE /\ context' = context + 1
  /\ owner' = [owner EXCEPT ![o] =
       [pc |-> "spawn", ctx |-> context + 1, todo |-> registered]]
  /\ UNCHANGED <<registered, cancelled, closed, waitGroup, loops, asides, panics>>

\* wg.Add(1) and the goroutine, one reconciler of the copy after another.
Spawn(o, r) ==
  /\ owner[o].pc = "spawn" /\ r \in owner[o].todo
  /\ waitGroup' = waitGroup + 1
  /\ loops' = loops \cup {[name |-> r, ctx |-> owner[o].ctx, pc |-> "settle", tick |-> FALSE]}
  /\ owner' = [owner EXCEPT ![o].todo = @ \ {r}]
  /\ UNCHANGED <<registered, started, context, cancelled, closed, asides, calls, panics>>

StartReturns(o) ==
  /\ owner[o].pc = "spawn" /\ owner[o].todo = {}
  /\ owner' = [owner EXCEPT ![o] = AtEase]
  /\ UNCHANGED <<registered, started, context, cancelled, closed, waitGroup, loops,
                 asides, calls, panics>>

\* Stop up to its Unlock takes the cancel function of the last Start.
StopLocked(o) ==
  /\ Calling
  /\ owner[o] = AtEase /\ started
  /\ started' = FALSE
  /\ owner' = [owner EXCEPT ![o] = [pc |-> "cancel", ctx |-> context, todo |-> {}]]
  /\ UNCHANGED <<registered, context, cancelled, closed, waitGroup, loops, asides, panics>>

Cancel(o) ==
  /\ owner[o].pc = "cancel"
  /\ cancelled' = cancelled \cup {owner[o].ctx}
  /\ owner' = [owner EXCEPT ![o].pc = "wait"]
  /\ UNCHANGED <<registered, started, context, closed, waitGroup, loops, asides,
                 calls, panics>>

\* Mutant: Stop cancels and does not wait.
NoWait(o) == owner[o].pc = "wait"

\* wg.Wait
Waited(o) == owner[o].pc = "wait" /\ waitGroup = 0

StopReturns(o) ==
  /\ Waited(o)
  /\ closed' = closed \cup {owner[o].ctx}
  /\ owner' = [owner EXCEPT ![o] = AtEase]
  /\ UNCHANGED <<registered, started, context, cancelled, waitGroup, loops, asides,
                 calls, panics>>

-----------------------------------------------------------------------------
(* runReconciler and RunOnce *)

Moved(l, m) == loops' = (loops \ {l}) \cup {m}

\* The three seconds of settleDelay start at the first select, so a context
\* that is done by then always wins.
Settles(l) ==
  /\ l.pc = "settle" /\ l.ctx \notin cancelled
  /\ Moved(l, [l EXCEPT !.pc = "first"])
  /\ UNCHANGED <<loopVars, waitGroup, ownerVars>>

\* The ticker keeps one tick for a pass that takes longer than the interval.
Ticks(l) ==
  /\ l.pc \in {"select", "pass"} /\ ~l.tick
  /\ Moved(l, [l EXCEPT !.tick = TRUE])
  /\ UNCHANGED <<loopVars, waitGroup, ownerVars>>

\* The select of the loop may choose the tick of a context that is done.
PassBegins(l) ==
  /\ l.pc = "select" /\ l.tick
  /\ Moved(l, [l EXCEPT !.pc = "pass", !.tick = FALSE])
  /\ UNCHANGED <<loopVars, waitGroup, ownerVars>>

InPass(l) == l.pc \in {"first", "pass"}

PassEnds(l) ==
  /\ InPass(l)
  /\ Moved(l, [l EXCEPT !.pc = "select"])
  /\ UNCHANGED <<loopVars, waitGroup, ownerVars>>

\* runReconcileWithRecover goes on with the loop.
Recovered(l) == (loops \ {l}) \cup {[l EXCEPT !.pc = "select"]}

PassPanics(l) ==
  /\ InPass(l)
  /\ panics < MaxSchedPanics /\ panics' = panics + 1
  /\ loops' = Recovered(l)
  /\ UNCHANGED <<loopVars, waitGroup, asides>>

LoopStops(l) ==
  /\ l.pc \in {"settle", "select"} /\ l.ctx \in cancelled
  /\ waitGroup' = waitGroup - 1
  /\ loops' = loops \ {l}
  /\ UNCHANGED <<loopVars, ownerVars>>

RunOnce(r) ==
  /\ Calling
  /\ r \in registered \ asides
  /\ asides' = asides \cup {r}
  /\ UNCHANGED <<registered, started, context, cancelled, closed, waitGroup, loops,
                 owner, panics>>

RunOnceEnds(r) ==
  /\ r \in asides
  /\ asides' = asides \ {r}
  /\ UNCHANGED <<loopVars, waitGroup, loops, panics>>

\* RunOnce does not recover: a panic in the pass that bootServices runs on a
\* goroutine of its own ends the daemon, which systemd starts again.
RunOnceKills(r) ==
  /\ r \in asides
  /\ panics < MaxSchedPanics /\ panics' = panics + 1
  /\ registered' = {} /\ started' = FALSE /\ loops' = {} /\ waitGroup' = 0
  /\ owner' = [o \in Owners |-> AtEase] /\ asides' = {}
  /\ UNCHANGED <<context, cancelled, closed, calls>>

-----------------------------------------------------------------------------
LoopStep(l) ==
  Settles(l) \/ Ticks(l) \/ PassBegins(l) \/ PassEnds(l) \/ PassPanics(l) \/ LoopStops(l)

OwnerStep(o) ==
  \/ \E r \in Reconcilers : Register(o, r) \/ Spawn(o, r)
  \/ StartLocked(o) \/ StartReturns(o)
  \/ StopLocked(o) \/ Cancel(o) \/ StopReturns(o)

SchedNext ==
  \/ \E l \in loops : LoopStep(l)
  \/ \E o \in Owners : OwnerStep(o)
  \/ \E r \in Reconcilers : RunOnce(r) \/ RunOnceEnds(r) \/ RunOnceKills(r)

SchedSpec == SchedInit /\ [][SchedNext]_schedVars

-----------------------------------------------------------------------------
(* Stop "espera a que todas terminen": once the Stop of a context has        *)
(* returned no scheduled pass under that context runs, even when a Start had *)
(* released the mutex and not yet made its goroutines, or when a tick was    *)
(* chosen after the cancellation.                                            *)
StopMeansStopped == \A l \in loops : InPass(l) => l.ctx \notin closed

=============================================================================
