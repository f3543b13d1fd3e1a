--------------------------- MODULE NetworkEvents ---------------------------
(***************************************************************************)
(* The event log of the network module (network_events.go), the operations *)
(* its events belong to and the observer's snapshots                       *)
(* (network_repo_audit.go, network_observer.go), and the nightly purge of  *)
(* the three (network_retention_runner.go).                                *)
(*                                                                         *)
(* The database has several connections in WAL mode, and a transaction     *)
(* that reads before it writes is a deferred one: it works on the snapshot *)
(* of its first read, and its first write fails (SQLITE_BUSY_SNAPSHOT)     *)
(* when anything was committed since.  Emit is such a transaction.         *)
(*                                                                         *)
(* The clock counts hours; a day has HoursPerDay of them.                  *)
(***************************************************************************)
EXTENDS Integers, FiniteSets

CONSTANTS
  ErrorKeys, DebugKeys, \* (category, event, target) triples, by their level
  AuditKey,             \* retention_pass_completed, of level debug
  Emitters,             \* the goroutines that emit
  RateLimit,            \* emits per window and category (10 in the code)
  HoursPerDay,
  ErrorDays, DebugDays, \* retention by level (90 and 1 in the code)
  OperationDays,        \* CompletedOperationsTTL (30 in the code)
  MonthDays, NewestKept,\* snapshots: one per day for 30 days, the newest 100
  MaxHours, MaxWork, MaxEventFaults  \* bounds: MaxWork of events,
                        \* operations and snapshots together

ASSUME EventsAssumption == MaxWork \in Nat

Runner == "retention"   \* the goroutine of the purge emits too
Keys == ErrorKeys \cup DebugKeys \cup {AuditKey}
NoOperation == 0
NoHit == 0
Categories == {"ddns", "observer"}
Category(key) == IF key = AuditKey THEN "observer" ELSE "ddns"
EmitIdle == [pc |-> "idle"]

VARIABLES
  now,        \* the clock
  events,     \* network_events: a set of rows
  operations, \* network_operations: a set of [id, done], done = 0 if running
  snapshots,  \* network_observed: a set of [gen, at]
  emits,      \* Emit in flight, per goroutine
  stale,      \* the goroutines whose snapshot of the database is outdated
  bucket,     \* emits in the current minute, per category
  purge,      \* the local state of RunOnce
  purgedAt,   \* the day RunOnce last began
  workLeft, eventFaults  \* what is left of the bounds

eventVars == <<now, events, operations, snapshots, emits, stale, bucket, purge,
               purgedAt, workLeft, eventFaults>>

EventsInit ==
  /\ now = 1
  /\ events = {} /\ operations = {} /\ snapshots = {}
  /\ emits = [e \in Emitters \cup {Runner} |-> EmitIdle]
  /\ stale = {}
  /\ bucket = [c \in Categories |-> 0]
  /\ purge = [pc |-> "idle"]
  /\ purgedAt = 0
  /\ workLeft = MaxWork
  /\ eventFaults = MaxEventFaults

Day(hour) == hour \div HoursPerDay
Retention(key) == HoursPerDay * (IF key \in ErrorKeys THEN ErrorDays ELSE DebugDays)
\* Every commit outdates the snapshots of the transactions in flight.
Committed == stale' = {e \in Emitters \cup {Runner} : emits[e].pc = "write"}

---------------------------------------------------------------------------
\* An operation begins, or ends (network_operations in_progress, completed).
CreateOperation ==
  /\ workLeft > 0
  /\ workLeft' = workLeft - 1
  /\ operations' = operations \cup {[id |-> workLeft, done |-> 0]}
  /\ Committed
  /\ UNCHANGED <<now, events, snapshots, emits, bucket, purge, purgedAt, eventFaults>>

UpdateOperationStatus ==
  /\ \E o \in operations :
       /\ o.done = 0
       /\ operations' = (operations \ {o}) \cup {[o EXCEPT !.done = now]}
  /\ Committed
  /\ UNCHANGED <<now, events, snapshots, emits, bucket, purge, purgedAt,
                 workLeft, eventFaults>>

\* The dedupe lookup: a row of the key seen in the last five minutes.
Hits(key) == {r \in events : r.key = key /\ r.fresh}
Hit(key) == IF Hits(key) = {} THEN NoHit ELSE CHOOSE i \in 1..MaxWork :
              \E r \in Hits(key) : r.id = i

\* Emit up to the dedupe lookup: the bucket of the category, then the first
\* read of the transaction.  An event of an operation names that operation.
BeginEmit(e, key, op) ==
  /\ emits[e].pc = "idle"
  /\ workLeft > 0
  /\ workLeft' = workLeft - 1
  /\ IF bucket[Category(key)] >= RateLimit
       THEN UNCHANGED <<emits, bucket, stale>>
       ELSE /\ bucket' = [bucket EXCEPT ![Category(key)] = @ + 1]
            /\ emits' = [emits EXCEPT ![e] =
                 [pc |-> "write", id |-> workLeft, key |-> key, op |-> op, hit |-> Hit(key)]]
            /\ stale' = stale \ {e}

EmitFor(e, key, op) ==
  /\ BeginEmit(e, key, op)
  /\ UNCHANGED <<now, events, operations, snapshots, purge, purgedAt, eventFaults>>

NewRow(m) == [id |-> m.id, key |-> m.key, op |-> m.op, at |-> now, fresh |-> TRUE]
Upsert(m) ==
  IF m.hit = NoHit THEN events \cup {NewRow(m)}
  ELSE {IF r.id = m.hit THEN [r EXCEPT !.fresh = TRUE] ELSE r : r \in events}

\* Mutant: the lookup and the write are two statements without a transaction.
WriteWithoutTx(e) ==
  /\ emits[e].pc = "write"
  /\ emits' = [emits EXCEPT ![e] = EmitIdle]
  /\ events' = Upsert(emits[e])
  /\ stale' = {}
  /\ UNCHANGED <<now, operations, snapshots, bucket, purge, purgedAt, workLeft,
                 eventFaults>>

\* The rest of Emit: occurrences + 1 on the row that was found, or a new
\* row.  An outdated snapshot, or an operation that is gone (foreign key),
\* is an error, which callers log: the event is lost.
WriteEvent(e) ==
  /\ emits[e].pc = "write"
  /\ emits' = [emits EXCEPT ![e] = EmitIdle]
  /\ LET m == emits[e]
         parent == m.op = NoOperation \/ \E o \in operations : o.id = m.op IN
       IF e \notin stale /\ parent
         THEN /\ events' = Upsert(m)
              /\ stale' = {x \in Emitters \cup {Runner} : emits'[x].pc = "write"}
         ELSE UNCHANGED events /\ stale' = stale \ {e}
  /\ UNCHANGED <<now, operations, snapshots, bucket, purge, purgedAt, workLeft,
                 eventFaults>>

\* persistSnapshot of the observer: generation = MAX(generation) + 1.
NextGeneration == 1 + (IF snapshots = {} THEN 0
                       ELSE CHOOSE g \in {s.gen : s \in snapshots} :
                              \A s \in snapshots : s.gen <= g)
PersistSnapshot ==
  /\ workLeft > 0
  /\ workLeft' = workLeft - 1
  /\ snapshots' = snapshots \cup {[gen |-> NextGeneration, at |-> now]}
  /\ Committed
  /\ UNCHANGED <<now, events, operations, emits, bucket, purge, purgedAt, eventFaults>>

---------------------------------------------------------------------------
(* The purge: three transactions, the failure of one skips only that one.  *)

Later(s, t) == s.at > t.at \/ (s.at = t.at /\ s.gen > t.gen)
Newest(set, n) == {s \in set : Cardinality({t \in set : Later(t, s)}) < n}

\* PruneObservedSnapshots keeps the newest, one per hour of today and
\* yesterday and one per day of the month.  (snapshot_at, with its T, is
\* compared with a date with a space: the whole first day is included.)
Survivors(set, today) ==
  Newest(set, NewestKept)
  \cup {s \in set : Day(s.at) >= Day(today) - 1
                     /\ \A t \in set : t.at = s.at => ~Later(t, s)}
  \cup {s \in set : Day(s.at) >= Day(today) - MonthDays
                     /\ \A t \in set : Day(t.at) = Day(s.at) => ~Later(t, s)}

Purged(from, to, deleted) ==
  purge' = IF to = "audit" /\ ~(from.deleted \/ deleted) THEN [pc |-> "idle"]
           ELSE [pc |-> to, at |-> from.at, deleted |-> from.deleted \/ deleted]

\* The timer of 03:00 fires, once a day.
BeginRunOnce ==
  /\ purge.pc = "idle"
  /\ now % HoursPerDay = 0 /\ Day(now) > purgedAt
  /\ purgedAt' = Day(now)
  /\ purge' = [pc |-> "observed", at |-> now, deleted |-> FALSE]
  /\ UNCHANGED <<now, events, operations, snapshots, emits, stale, bucket,
                 workLeft, eventFaults>>

PruneFails(to) ==
  /\ eventFaults > 0
  /\ eventFaults' = eventFaults - 1
  /\ Purged(purge, to, FALSE)
  /\ UNCHANGED <<events, operations, snapshots, stale>>

PruneObservedSnapshots ==
  /\ purge.pc = "observed"
  /\ \/ /\ snapshots' = Survivors(snapshots, purge.at)
        /\ Purged(purge, "operations", snapshots' # snapshots)
        /\ Committed
        /\ UNCHANGED <<events, operations, eventFaults>>
     \/ PruneFails("operations")
  /\ UNCHANGED <<now, emits, bucket, purgedAt, workLeft>>

Outlived(o) == o.done > 0 /\ o.done < purge.at - HoursPerDay * OperationDays

\* PruneCompletedOperations: the events of a deleted operation go with it
\* (ON DELETE CASCADE).
PruneCompletedOperations ==
  /\ purge.pc = "operations"
  /\ \/ /\ operations' = {o \in operations : ~Outlived(o)}
        /\ events' = {r \in events : \A o \in operations : Outlived(o) => r.op # o.id}
        /\ Purged(purge, "events", operations' # operations)
        /\ Committed
        /\ UNCHANGED <<snapshots, eventFaults>>
     \/ PruneFails("events")
  /\ UNCHANGED <<now, emits, bucket, purgedAt, workLeft>>

PruneEventsByRetention ==
  /\ purge.pc = "events"
  /\ \/ /\ events' = {r \in events : r.at >= purge.at - Retention(r.key)}
        /\ Purged(purge, "audit", events' # events)
        /\ Committed
        /\ UNCHANGED <<operations, snapshots, eventFaults>>
     \/ PruneFails("audit")
  /\ UNCHANGED <<now, emits, bucket, purgedAt, workLeft>>

\* What was deleted is reported by an event of its own.
ReportPurge ==
  /\ purge.pc = "audit"
  /\ purge' = [pc |-> "idle"]
  /\ IF workLeft > 0 THEN BeginEmit(Runner, AuditKey, NoOperation)
     ELSE UNCHANGED <<emits, bucket, stale, workLeft>>
  /\ UNCHANGED <<now, events, operations, snapshots, purgedAt, eventFaults>>

---------------------------------------------------------------------------
\* An hour passes: what was seen before is outside the five minutes, the
\* bucket starts again, and whatever was in flight has ended long ago.
HourPasses ==
  /\ now < MaxHours
  /\ purge.pc = "idle"
  /\ \A e \in Emitters \cup {Runner} : emits[e].pc = "idle"
  /\ now' = now + 1
  /\ events' = {[r EXCEPT !.fresh = FALSE] : r \in events}
  /\ bucket' = [c \in Categories |-> 0]
  /\ UNCHANGED <<operations, snapshots, emits, stale, purge, purgedAt, workLeft,
                 eventFaults>>

EventsNext ==
  \/ CreateOperation \/ UpdateOperationStatus
  \/ \E e \in Emitters, k \in Keys \ {AuditKey},
        op \in {o.id : o \in {x \in operations : x.done = 0}} \cup {NoOperation} :
       EmitFor(e, k, op)
  \/ \E e \in Emitters \cup {Runner} : WriteEvent(e)
  \/ PersistSnapshot
  \/ BeginRunOnce \/ PruneObservedSnapshots \/ PruneCompletedOperations
  \/ PruneEventsByRetention \/ ReportPurge
  \/ HourPasses

EventsSpec == EventsInit /\ [][EventsNext]_eventVars

---------------------------------------------------------------------------
(* An event that repeats within five minutes is one row: of one key at     *)
(* most one row was seen in the window, however the goroutines that emit   *)
(* it interleave (the transaction of Emit).                                *)
NoDoubleRows ==
  \A r, s \in events : (r.key = s.key /\ r.fresh /\ s.fresh) => r = s

=============================================================================
