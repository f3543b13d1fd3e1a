------------------------------- MODULE Shield --------------------------------
(***************************************************************************)
(* NimShield: the event queue and rule engine of shield.go and             *)
(* shield_rules.go, the reputation of shield_reputation.go, the policy of  *)
(* shield_config.go and the handlers of shield_http.go.                    *)
(*                                                                         *)
(* Three kinds of goroutines act on the block list: the middleware of each *)
(* request, the one event loop, and the handlers of the administrators.    *)
(* The block list lives in memory under its mutex and again in             *)
(* shield_blocks, which is written afterwards without it, by a DELETE and  *)
(* an INSERT.                                                              *)
(*                                                                         *)
(* What a request asks for is abstracted to what the middleware makes of   *)
(* it: harmless, blocked at once (a honeypot, a scanner, a command         *)
(* injection) or counted (a probe: traversal, injection, 404, bad token).  *)
(* One tick of the clock is the window of the counters.                    *)
(***************************************************************************)
EXTENDS Naturals, Sequences, FiniteSets, FiniteSetsExt

CONSTANTS Addresses,         \* client addresses
          LoginNames,        \* user names tried from them
          LoginHandlers,          \* requests served at the same time
          Policies,          \* policies an administrator sends: unknown, known, habitual, distrust
          DefaultPolicy,
          BlockTicks,        \* block_min_1 .. block_min_4, in ticks begun
          KnownAt, HabitualAt,  \* repKnownThreshold, repHabitualThreshold
          ProbeLimit, StuffLimit,
          QueueSize,         \* capacity of shieldEvents
          MaxTicks, MaxShieldRequests, MaxShieldRestarts  \* bounds

\* The daemon's own policy keeps to the limits of sanitizeShieldConfig.
PolicyTypes == [unknown : Nat, known : Nat, habitual : Nat, distrust : Nat]
ASSUME ShieldAssumption ==
  /\ "engine" \notin LoginHandlers /\ "none" \notin Addresses
  /\ IsFiniteSet(LoginNames) /\ StuffLimit \in Nat /\ HabitualAt \in Nat
  /\ DefaultPolicy \in PolicyTypes /\ Policies \subseteq PolicyTypes
  /\ DefaultPolicy.distrust >= 2
  /\ BlockTicks \in [1 .. 4 -> Nat]

VARIABLES clock, shieldOn, running,     \* running: the event loop was started
          blocklist, trusted, policy,   \* in memory
          windows,                      \* of failures, probes, names per address:
                                        \* the last tick with events, and how many
          queue,
          shieldTables,                 \* shield_blocks, _whitelist, _settings, _config
          reputation,                   \* table shield_reputation
          work,                         \* what each goroutine is doing
          failures,                     \* login failures so far (history)
          shieldRequests, shieldRestarts

shieldVars == <<clock, shieldOn, running, blocklist, trusted, policy, windows, queue,
                shieldTables, reputation, work, failures, shieldRequests, shieldRestarts>>

Workers == LoginHandlers \cup {"engine"}
NoBlock == [until |-> 0, rule |-> "none"]
AtEase == [pc |-> "none", a |-> "none", rule |-> "none", ticks |-> 0,
           name |-> "none", streak |-> 0, ok |-> 0, policy |-> DefaultPolicy]
Unknown == [ok |-> 0, streak |-> 0, blocks |-> 0, last |-> 0]
NoEvents == [at |-> 0, n |-> 0]
NoWindows == [a \in Addresses |-> [fails |-> NoEvents, probes |-> NoEvents,
                                   names |-> [n \in LoginNames |-> NoEvents]]]

ShieldInit ==
  /\ clock = 1 /\ shieldOn = TRUE /\ running = TRUE
  /\ blocklist = [a \in Addresses |-> NoBlock]
  /\ trusted = {} /\ policy = DefaultPolicy
  /\ windows = NoWindows /\ queue = <<>>
  /\ shieldTables = [blocks |-> [a \in Addresses |-> NoBlock], trusted |-> {},
                     on |-> TRUE, policy |-> DefaultPolicy]
  /\ reputation = [a \in Addresses |-> Unknown]
  /\ work = [w \in Workers |-> AtEase]
  /\ failures = [a \in Addresses |-> 0]
  /\ shieldRequests = 0 /\ shieldRestarts = 0

-------------------------------------------------------------------------------
(* Counters and decisions.                                                 *)

Min2(m, n) == IF m < n THEN m ELSE n

\* SlidingWindow.count and countAndAdd: the window is one tick.
Fresh(window) == IF window.at = clock THEN window.n ELSE 0
Added(window) == [at |-> clock, n |-> Fresh(window) + 1]

\* sanitizeShieldConfig: zero means the default, the rest is clamped.
Sanitized(p) ==
  [f \in DOMAIN p |-> IF p[f] = 0 THEN DefaultPolicy[f]
                      ELSE IF f = "distrust" /\ p[f] < 2 THEN 2 ELSE p[f]]

\* escalatedBlockDuration
Escalated(offenses) == BlockTicks[Min2(offenses, 3) + 1]

\* shieldAuthDecision
Distrusts(p, ok, streak) == ok > 0 /\ streak >= p.distrust
Tolerated(p, ok) == IF ok >= HabitualAt THEN p.habitual
                    ELSE IF ok >= KnownAt THEN p.known ELSE p.unknown
ShouldBlock(p, ok, streak, count) == Distrusts(p, ok, streak) \/ count >= Tolerated(p, ok)

\* Mutant: one counter for all addresses.
SharedCount(a) == MapThenSumSet(LAMBDA b : Fresh(windows[b].fails), Addresses) + 1

\* Failures of the address in the window, the one at hand included.
FailCount(a) == Fresh(windows[a].fails) + 1

\* countDistinctUsers, the name at hand included.
NamesTried(a, n) == Cardinality({m \in LoginNames :
                                   m = n \/ Fresh(windows[a].names[m]) > 0})

\* shieldRepRecordFail: the streak goes on when the failure before it is recent.
StreakAfter(r) == IF r.last # 0 /\ clock - r.last <= 1 THEN r.streak + 1 ELSE 1

Until(ticks) == clock + ticks
Expired(b) == b.until # 0 /\ clock > b.until

-------------------------------------------------------------------------------
(* The work of a goroutine, step by step.                                  *)

At(w, pc) == work[w].pc = pc
Rest(w) == work' = [work EXCEPT ![w] = AtEase]
Goto(w, pc) == work' = [work EXCEPT ![w].pc = pc]
Blocking(w, a, rule, ticks) ==
  work' = [work EXCEPT ![w] = [AtEase EXCEPT !.pc = "block", !.a = a, !.rule = rule, !.ticks = ticks]]

Arrive(h, job) == /\ work[h] = AtEase /\ shieldRequests < MaxShieldRequests
                  /\ shieldRequests' = shieldRequests + 1
                  /\ work' = [work EXCEPT ![h] = job]

\* shieldEmit: an event that does not fit is dropped.
Emitted(e) == IF Len(queue) < QueueSize THEN Append(queue, e) ELSE queue

\* shieldBlockIP: memory under the mutex, then the two statements of
\* dbShieldBlockInsert, which takes the time again.
BlockInMemory(w) ==
  LET j == work[w] IN
  /\ At(w, "block") /\ Goto(w, "drop")
  /\ blocklist' = [blocklist EXCEPT ![j.a] = [until |-> Until(j.ticks), rule |-> j.rule]]
  /\ UNCHANGED <<clock, shieldOn, running, trusted, policy, windows, queue, shieldTables,
                 reputation, failures, shieldRequests, shieldRestarts>>

DropRow(w) ==
  LET j == work[w] IN
  /\ \/ At(w, "drop") /\ Goto(w, "save")
     \/ At(w, "erase") /\ Rest(w)
  /\ shieldTables' = [shieldTables EXCEPT !.blocks[j.a] = NoBlock]
  /\ UNCHANGED <<clock, shieldOn, running, blocklist, trusted, policy, windows, queue,
                 reputation, failures, shieldRequests, shieldRestarts>>

SaveRow(w) ==
  LET j == work[w] IN
  /\ At(w, "save") /\ Rest(w)
  /\ shieldTables' = [shieldTables EXCEPT !.blocks[j.a] =
                        [until |-> Until(j.ticks), rule |-> j.rule]]
  /\ UNCHANGED <<clock, shieldOn, running, blocklist, trusted, policy, windows, queue,
                 reputation, failures, shieldRequests, shieldRestarts>>

\* shieldUnblockIP: memory, then the row.
UnblockInMemory(w) ==
  /\ At(w, "unblock") /\ Goto(w, "erase")
  /\ blocklist' = [blocklist EXCEPT ![work[w].a] = NoBlock]
  /\ UNCHANGED <<clock, shieldOn, running, trusted, policy, windows, queue, shieldTables,
                 reputation, failures, shieldRequests, shieldRestarts>>

-------------------------------------------------------------------------------
(* The middleware, and the login behind it.                                *)

\* A blocked address gets no further.
Passes(a) == shieldOn => blocklist[a] = NoBlock

\* shieldIsBlocked finds a block that is over, and lifts it in two steps.
SeeExpired(h, a) ==
  /\ shieldOn /\ Expired(blocklist[a])
  /\ Arrive(h, [AtEase EXCEPT !.pc = "unblock", !.a = a])
  /\ UNCHANGED <<clock, shieldOn, running, blocklist, trusted, policy, windows, queue,
                 shieldTables, reputation, failures, shieldRestarts>>

\* A honeypot, a scanner or a command injection: for the longest time, at once.
BlockAtOnce(h, a) ==
  /\ shieldOn /\ Passes(a) /\ a \notin trusted
  /\ Arrive(h, [AtEase EXCEPT !.pc = "block", !.a = a, !.rule = "instant", !.ticks = BlockTicks[4]])
  /\ queue' = Emitted([from |-> a, kind |-> "instant", name |-> "none"])
  /\ UNCHANGED <<clock, shieldOn, running, blocklist, trusted, policy, windows,
                 shieldTables, reputation, failures, shieldRestarts>>

ProbeServed(a) ==
  /\ shieldOn /\ Passes(a) /\ a \notin trusted
  /\ shieldRequests < MaxShieldRequests /\ shieldRequests' = shieldRequests + 1
  /\ queue' = Emitted([from |-> a, kind |-> "probe", name |-> "none"])
  /\ UNCHANGED <<clock, shieldOn, running, blocklist, trusted, policy, windows,
                 shieldTables, reputation, work, failures, shieldRestarts>>

\* A login that fails is an event, whether the shield is on or off.
LoginFails(a, n) ==
  /\ Passes(a)
  /\ shieldRequests < MaxShieldRequests /\ shieldRequests' = shieldRequests + 1
  /\ queue' = Emitted([from |-> a, kind |-> "fail", name |-> n])
  /\ failures' = [failures EXCEPT ![a] = @ + 1]
  /\ UNCHANGED <<clock, shieldOn, running, blocklist, trusted, policy, windows,
                 shieldTables, reputation, work, shieldRestarts>>

\* ShieldAuthSuccess writes the row at once, before events that still wait.
LoginSucceeds(a) ==
  /\ Passes(a)
  /\ shieldRequests < MaxShieldRequests /\ shieldRequests' = shieldRequests + 1
  /\ reputation' = [reputation EXCEPT ![a].ok = Min2(@ + 1, HabitualAt), ![a].streak = 0]
  /\ UNCHANGED <<clock, shieldOn, running, blocklist, trusted, policy, windows, queue,
                 shieldTables, work, failures, shieldRestarts>>

-------------------------------------------------------------------------------
(* The event loop.                                                         *)

\* The next event, and for a failure the SELECT of shieldRepRecordFail.
TakeEvent ==
  LET e == Head(queue)  r == reputation[e.from] IN
  /\ running /\ work["engine"] = AtEase /\ queue # <<>>
  /\ queue' = Tail(queue)
  /\ IF e.from \in trusted \/ e.kind = "instant" THEN UNCHANGED work
     ELSE work' = [work EXCEPT !["engine"] =
            [AtEase EXCEPT !.pc = e.kind, !.a = e.from, !.name = e.name, !.ok = r.ok,
                           !.streak = StreakAfter(r)]]
  /\ UNCHANGED <<clock, shieldOn, running, blocklist, trusted, policy, windows, shieldTables,
                 reputation, failures, shieldRequests, shieldRestarts>>

\* The upsert of the streak, the counter and the decision; below the threshold
\* the names tried from the address are counted.
JudgeFailure ==
  LET j == work["engine"]  a == j.a
      n == FailCount(a)
      names == NamesTried(a, j.name)
      blocks == ShouldBlock(policy, j.ok, j.streak, n)
  IN
  /\ At("engine", "fail")
  /\ reputation' = [reputation EXCEPT ![a].streak = j.streak, ![a].last = clock]
  /\ windows' = [windows EXCEPT ![a].fails = Added(@),
                   ![a].names[j.name] = IF blocks THEN @ ELSE Added(@)]
  /\ IF blocks THEN Goto("engine", "record")
     ELSE IF names >= StuffLimit THEN Blocking("engine", a, "AUTH-002", BlockTicks[3])
     ELSE Rest("engine")
  /\ UNCHANGED <<clock, shieldOn, running, blocklist, trusted, policy, queue, shieldTables,
                 failures, shieldRequests, shieldRestarts>>

\* shieldRepRecordBlock and the length that the earlier blocks make it.
RecordBlock ==
  LET j == work["engine"] IN
  /\ At("engine", "record")
  /\ reputation' = [reputation EXCEPT ![j.a].blocks = Min2(@ + 1, 3)]
  /\ Blocking("engine", j.a, "AUTH-001", Escalated(reputation[j.a].blocks))
  /\ UNCHANGED <<clock, shieldOn, running, blocklist, trusted, policy, windows, queue,
                 shieldTables, failures, shieldRequests, shieldRestarts>>

CountProbe ==
  LET j == work["engine"]  count == Fresh(windows[j.a].probes) + 1 IN
  /\ At("engine", "probe")
  /\ windows' = [windows EXCEPT ![j.a].probes = Added(@)]
  /\ IF count >= ProbeLimit THEN Blocking("engine", j.a, "probes", BlockTicks[2])
     ELSE Rest("engine")
  /\ UNCHANGED <<clock, shieldOn, running, blocklist, trusted, policy, queue, shieldTables,
                 reputation, failures, shieldRequests, shieldRestarts>>

-------------------------------------------------------------------------------
(* The administrators.                                                     *)

Unblock(h, a) ==
  /\ Arrive(h, [AtEase EXCEPT !.pc = "unblock", !.a = a])
  /\ UNCHANGED <<clock, shieldOn, running, blocklist, trusted, policy, windows, queue,
                 shieldTables, reputation, failures, shieldRestarts>>

\* The row first, then memory, then the block the address may have.
Trust(h, a) ==
  /\ Arrive(h, [AtEase EXCEPT !.pc = "trust", !.a = a])
  /\ shieldTables' = [shieldTables EXCEPT !.trusted = @ \cup {a}]
  /\ UNCHANGED <<clock, shieldOn, running, blocklist, trusted, policy, windows, queue,
                 reputation, failures, shieldRestarts>>

Distrust(h, a) ==
  /\ Arrive(h, [AtEase EXCEPT !.pc = "distrust", !.a = a])
  /\ shieldTables' = [shieldTables EXCEPT !.trusted = @ \ {a}]
  /\ UNCHANGED <<clock, shieldOn, running, blocklist, trusted, policy, windows, queue,
                 reputation, failures, shieldRestarts>>

ChangeTrust(h) ==
  LET a == work[h].a IN
  /\ \/ At(h, "trust") /\ trusted' = trusted \cup {a} /\ Goto(h, "unblock")
     \/ At(h, "distrust") /\ trusted' = trusted \ {a} /\ Rest(h)
  /\ UNCHANGED <<clock, shieldOn, running, blocklist, policy, windows, queue, shieldTables,
                 reputation, failures, shieldRequests, shieldRestarts>>

\* The flag is read, then stored and written to the table.
BeginToggle(h) ==
  /\ Arrive(h, [AtEase EXCEPT !.pc = IF shieldOn THEN "off" ELSE "on"])
  /\ UNCHANGED <<clock, shieldOn, running, blocklist, trusted, policy, windows, queue,
                 shieldTables, reputation, failures, shieldRestarts>>

StoreToggle(h) ==
  /\ At(h, "off") \/ At(h, "on")
  /\ shieldOn' = At(h, "on")
  /\ Goto(h, IF At(h, "on") THEN "keepOn" ELSE "keepOff")
  /\ UNCHANGED <<clock, running, blocklist, trusted, policy, windows, queue, shieldTables,
                 reputation, failures, shieldRequests, shieldRestarts>>

KeepToggle(h) ==
  /\ At(h, "keepOn") \/ At(h, "keepOff")
  /\ shieldTables' = [shieldTables EXCEPT !.on = At(h, "keepOn")]
  /\ Rest(h)
  /\ UNCHANGED <<clock, shieldOn, running, blocklist, trusted, policy, windows, queue,
                 reputation, failures, shieldRequests, shieldRestarts>>

\* setShieldConfig: the row, then the cache.
SavePolicy(h, p) ==
  /\ Arrive(h, [AtEase EXCEPT !.pc = "policy", !.policy = Sanitized(p)])
  /\ shieldTables' = [shieldTables EXCEPT !.policy = Sanitized(p)]
  /\ UNCHANGED <<clock, shieldOn, running, blocklist, trusted, policy, windows, queue,
                 reputation, failures, shieldRestarts>>

CachePolicy(h) ==
  /\ At(h, "policy") /\ Rest(h)
  /\ policy' = work[h].policy
  /\ UNCHANGED <<clock, shieldOn, running, blocklist, trusted, windows, queue, shieldTables,
                 reputation, failures, shieldRequests, shieldRestarts>>

\* shieldRepForget
Forget(a) ==
  /\ reputation[a] # Unknown
  /\ shieldRequests < MaxShieldRequests /\ shieldRequests' = shieldRequests + 1
  /\ reputation' = [reputation EXCEPT ![a] = Unknown]
  /\ UNCHANGED <<clock, shieldOn, running, blocklist, trusted, policy, windows, queue,
                 shieldTables, work, failures, shieldRestarts>>

-------------------------------------------------------------------------------
(* Time, the clean-up and the restart.                                     *)

ShieldTick ==
  /\ clock < MaxTicks /\ clock' = clock + 1
  /\ UNCHANGED <<shieldOn, running, blocklist, trusted, policy, windows, queue, shieldTables,
                 reputation, work, failures, shieldRequests, shieldRestarts>>

\* startShieldCleanup: expired blocks leave memory; their rows stay.
CleanBlocks ==
  /\ \E a \in Addresses : Expired(blocklist[a])
  /\ blocklist' = [a \in Addresses |-> IF Expired(blocklist[a]) THEN NoBlock ELSE blocklist[a]]
  /\ UNCHANGED <<clock, shieldOn, running, trusted, policy, windows, queue, shieldTables,
                 reputation, work, failures, shieldRequests, shieldRestarts>>

\* loadPersistedBlocks: the query compares a T with a blank and so yields every
\* row of the day on which a block expires; those that are over stay out.
LoadedBlocks ==
  [a \in Addresses |-> IF shieldTables.on /\ ~Expired(shieldTables.blocks[a])
                       THEN shieldTables.blocks[a] ELSE NoBlock]

\* loadPersistedWhitelist
LoadedTrust == IF shieldTables.on THEN shieldTables.trusted ELSE {}

\* startShieldEngine of the next process: nothing but the flag and the policy is
\* loaded, and no event loop started, when the table says that the shield is off.
RestartShield ==
  /\ shieldRestarts < MaxShieldRestarts /\ shieldRestarts' = shieldRestarts + 1
  /\ shieldOn' = shieldTables.on /\ running' = shieldTables.on
  /\ policy' = shieldTables.policy
  /\ blocklist' = LoadedBlocks /\ trusted' = LoadedTrust
  /\ windows' = NoWindows /\ queue' = <<>>
  /\ work' = [w \in Workers |-> AtEase]
  /\ UNCHANGED <<clock, shieldTables, reputation, failures, shieldRequests>>

ShieldRequest(h) ==
  \/ BeginToggle(h)
  \/ \E p \in Policies : SavePolicy(h, p)
  \/ \E a \in Addresses : \/ SeeExpired(h, a) \/ BlockAtOnce(h, a)
                          \/ Unblock(h, a) \/ Trust(h, a) \/ Distrust(h, a)

ShieldWork(h) ==
  \/ ChangeTrust(h) \/ StoreToggle(h) \/ KeepToggle(h) \/ CachePolicy(h)

ShieldNext ==
  \/ \E h \in LoginHandlers : ShieldRequest(h) \/ ShieldWork(h)
  \/ \E w \in Workers : BlockInMemory(w) \/ DropRow(w) \/ SaveRow(w) \/ UnblockInMemory(w)
  \/ TakeEvent \/ JudgeFailure \/ RecordBlock \/ CountProbe
  \/ \E a \in Addresses : \/ ProbeServed(a) \/ LoginSucceeds(a) \/ Forget(a)
                          \/ \E n \in LoginNames : LoginFails(a, n)
  \/ ShieldTick \/ CleanBlocks \/ RestartShield

ShieldSpec == ShieldInit /\ [][ShieldNext]_shieldVars

-------------------------------------------------------------------------------
(* No address is blocked for login failures that were not its own: a block *)
(* of AUTH-001 or AUTH-002, in memory or in the table and so after a       *)
(* restart too, has behind it at least as many failed logins of that very  *)
(* address as the laxest path to a block asks for - the smallest threshold *)
(* a sanitised policy may set, or the number of names.  Events may wait,   *)
(* be dropped, or be judged after the policy or the reputation changed.    *)
Thresholds == UNION {{Sanitized(p)[f] : f \in DOMAIN p} : p \in Policies \cup {DefaultPolicy}}
Fewest == CHOOSE n \in Thresholds \cup {StuffLimit} : \A m \in Thresholds \cup {StuffLimit} : n <= m
ForLogins(b) == b.rule \in {"AUTH-001", "AUTH-002"}
BlocksAreEarned ==
  \A a \in Addresses :
    ForLogins(blocklist[a]) \/ ForLogins(shieldTables.blocks[a]) => failures[a] >= Fewest
===============================================================================
