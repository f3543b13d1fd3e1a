---------------------------- MODULE Maintenance ----------------------------
(***************************************************************************)
(* The maintenance subsystem (maintenance*.go): a loop that every minute   *)
(* runs, one after another, the tasks that are due; runs and edits that an *)
(* administrator asks for; and the scheduler of scrubs                     *)
(* (storage_btrfs_features.go), a loop of its own.                         *)
(*                                                                         *)
(* Ticks come a minute apart, so that if they fall near the turn of the    *)
(* minute the n-th one reads minute n or n - 1.  A channel of one slot     *)
(* keeps the first tick that finds the loop busy, with its time.           *)
(***************************************************************************)
EXTENDS Integers

CONSTANTS
  Tasks,           \* ids of registered tasks
  MinutesPerDay,   \* the minutes of a day (1440)
  MaxMinutes,      \* bound: the clock
  MaxTaskRequests, \* bound: manual runs and edits
  MaxDaemonRestarts \* bound: restarts

ASSUME MaintenanceAssumption ==
  /\ MinutesPerDay \in Nat \ {0}
  /\ MaxMinutes \in Nat /\ MaxTaskRequests \in Nat /\ MaxDaemonRestarts \in Nat

Never == -1
NoTick == -1
DayOf(minute) == minute \div MinutesPerDay
MinuteOfDay(minute) == minute % MinutesPerDay

TaskKinds == {"interval", "daily", "at_boot"}

VARIABLES
  minute,     \* ticks of the clock
  mailbox,    \* ticker.C: the time of the tick it holds, or NoTick
  taskConf,   \* maintenance_config: task -> [enabled, kind, at]; "at" is the
              \*   interval or the minute of the day
  lastRuns,   \* maintenance_history: task -> the newest ran_at, or Never
  loop,       \* [pc, now, boot, todo, task]: maintenanceTickLoop
  manual,     \* tasks run by a request now
  sameDayRuns, \* history: task -> [day, runs]: the runs by the daily schedule
               \*   that began and ended on that day
  scrubConf,  \* scrub_schedule of the pool: [at, last]
  scrub,      \* btrfs scrub: "none", "running", "unable" (pool not available)
  taskRequests, daemonRestarts  \* what is left of the bounds

maintenanceVars == <<minute, mailbox, taskConf, lastRuns, loop, manual, sameDayRuns,
                     scrubConf, scrub, taskRequests, daemonRestarts>>

Schedules == [enabled : BOOLEAN, kind : TaskKinds, at : 0..MinutesPerDay - 1]

Resting == [pc |-> "idle"]

\* Register seeds the defaults of each task; the rows an administrator edited
\* before the restart are any.
MaintenanceInit ==
  /\ minute = 0
  /\ mailbox = NoTick
  /\ taskConf \in [Tasks -> Schedules]
  /\ lastRuns = [t \in Tasks |-> Never]
  /\ loop = [pc |-> "sweep", now |-> 0, boot |-> TRUE, todo |-> Tasks]
  /\ manual = {}
  /\ sameDayRuns = [t \in Tasks |-> [day |-> Never, runs |-> 0]]
  /\ scrubConf = [at |-> 1, last |-> Never]
  /\ scrub = "none"
  /\ taskRequests = MaxTaskRequests
  /\ daemonRestarts = MaxDaemonRestarts

---------------------------------------------------------------------------
(* Time. *)

\* What a tick of now reads on the clock.
Readings == {minute', minute' - 1} \cap Nat

MinutePasses ==
  /\ minute < MaxMinutes
  /\ minute' = minute + 1
  /\ \E now \in Readings : mailbox' = IF mailbox = NoTick THEN now ELSE mailbox
  /\ UNCHANGED <<taskConf, lastRuns, loop, manual, sameDayRuns, scrubConf, scrub,
                 taskRequests, daemonRestarts>>

---------------------------------------------------------------------------
(* taskIsDue. *)

\* Mutant: the clock alone decides.
RanNoDay(last, now) == FALSE

\* sameDay(last, now).
RanThatDay(last, now) == last # Never /\ DayOf(last) = DayOf(now)

\* A weekly task is a daily one whose day is a week.
TaskIsDue(conf, last, now, boot) ==
  CASE conf.kind = "at_boot" -> boot
    [] conf.kind = "interval" ->
         last = Never \/ now - last >= (IF conf.at = 0 THEN MinutesPerDay ELSE conf.at)
    [] conf.kind = "daily" -> MinuteOfDay(now) = conf.at /\ ~RanThatDay(last, now)

---------------------------------------------------------------------------
(* maintenanceTickLoop and runDueTasks. *)

Untimed == UNCHANGED <<minute, scrubConf, scrub, daemonRestarts>>

ReceiveTick ==
  /\ loop.pc = "idle" /\ mailbox # NoTick
  /\ mailbox' = NoTick
  /\ loop' = [pc |-> "sweep", now |-> mailbox, boot |-> FALSE, todo |-> Tasks]
  /\ Untimed /\ UNCHANGED <<taskConf, lastRuns, manual, sameDayRuns, taskRequests>>

\* The rows of a task are read when its turn comes.
NextTask(t) ==
  /\ loop.pc = "sweep" /\ t \in loop.todo
  /\ loop' = IF taskConf[t].enabled /\ TaskIsDue(taskConf[t], lastRuns[t], loop.now, loop.boot)
               THEN [pc |-> "run", now |-> loop.now, boot |-> loop.boot,
                     todo |-> loop.todo \ {t}, task |-> t,
                     daily |-> taskConf[t].kind = "daily"]
               ELSE [loop EXCEPT !.todo = @ \ {t}]
  /\ Untimed /\ UNCHANGED <<mailbox, taskConf, lastRuns, manual, sameDayRuns, taskRequests>>

EndOfSweep ==
  /\ loop.pc = "sweep" /\ loop.todo = {}
  /\ loop' = Resting
  /\ Untimed /\ UNCHANGED <<mailbox, taskConf, lastRuns, manual, sameDayRuns, taskRequests>>

\* RunTask: the work, a panic or its timeout, then the row of the history.
RunTask ==
  /\ loop.pc = "run"
  /\ lastRuns' = [lastRuns EXCEPT ![loop.task] = minute]
  /\ sameDayRuns' = IF loop.daily /\ DayOf(minute) = DayOf(loop.now)
       THEN [sameDayRuns EXCEPT ![loop.task] =
               [day |-> DayOf(loop.now), runs |-> IF @.day = DayOf(loop.now) THEN @.runs + 1 ELSE 1]]
       ELSE sameDayRuns
  /\ loop' = [pc |-> "sweep", now |-> loop.now, boot |-> loop.boot, todo |-> loop.todo]
  /\ Untimed /\ UNCHANGED <<mailbox, taskConf, manual, taskRequests>>

---------------------------------------------------------------------------
(* Requests: POST .../run, next to the loop, and PUT. *)

RunManually(t) ==
  /\ taskRequests > 0 /\ taskRequests' = taskRequests - 1
  /\ manual' = manual \cup {t}
  /\ Untimed /\ UNCHANGED <<mailbox, taskConf, lastRuns, loop, sameDayRuns>>

EndOfManual(t) ==
  /\ t \in manual
  /\ manual' = manual \ {t}
  /\ lastRuns' = [lastRuns EXCEPT ![t] = minute]
  /\ Untimed /\ UNCHANGED <<mailbox, taskConf, loop, sameDayRuns, taskRequests>>

\* dbMaintenanceUpdateConfig; fields the body lacks stay.
PutTask(t) ==
  /\ taskRequests > 0 /\ taskRequests' = taskRequests - 1
  /\ \E conf \in Schedules : taskConf' = [taskConf EXCEPT ![t] = conf]
  /\ Untimed /\ UNCHANGED <<mailbox, lastRuns, loop, manual, sameDayRuns>>

---------------------------------------------------------------------------
\* The daemon starts again and its loop sleeps for ninety seconds: at least a
\* minute has gone by.  What ran leaves no row.
DaemonRestarts ==
  /\ daemonRestarts > 0 /\ minute + 2 <= MaxMinutes
  /\ daemonRestarts' = daemonRestarts - 1
  /\ minute' = minute + 2
  /\ mailbox' = NoTick
  /\ loop' = [pc |-> "sweep", now |-> minute', boot |-> TRUE, todo |-> Tasks]
  /\ manual' = {}
  /\ UNCHANGED <<taskConf, lastRuns, sameDayRuns, scrubConf, scrub, taskRequests>>

---------------------------------------------------------------------------
(* startScrubScheduler: its minute, and nothing less than fifty seconds    *)
(* old; last_run is written only when the scrub began.                     *)

ShouldRunNow == MinuteOfDay(minute) = scrubConf.at /\ scrubConf.last # minute

CheckScheduledScrubs ==
  /\ ShouldRunNow
  /\ IF scrub = "none"
       THEN scrub' = "running" /\ scrubConf' = [scrubConf EXCEPT !.last = minute]
       ELSE UNCHANGED <<scrub, scrubConf>>
  /\ UNCHANGED <<minute, mailbox, taskConf, lastRuns, loop, manual, sameDayRuns,
                 taskRequests, daemonRestarts>>

ScrubChanges ==
  /\ taskRequests > 0 /\ taskRequests' = taskRequests - 1
  /\ \E s \in {"none", "unable"} : s # scrub /\ scrub' = s
  /\ UNCHANGED <<minute, mailbox, taskConf, lastRuns, loop, manual, sameDayRuns,
                 scrubConf, daemonRestarts>>

---------------------------------------------------------------------------
MaintenanceNext ==
  \/ MinutePasses \/ ReceiveTick \/ EndOfSweep \/ RunTask
  \/ \E t \in Tasks : NextTask(t) \/ RunManually(t) \/ EndOfManual(t) \/ PutTask(t)
  \/ DaemonRestarts \/ CheckScheduledScrubs \/ ScrubChanges

MaintenanceSpec == MaintenanceInit /\ [][MaintenanceNext]_maintenanceVars

---------------------------------------------------------------------------
\* A daily task whose run ends on the day it began has no other such run that
\* day: whatever the ticks read and the mailbox kept, and if the daemon
\* restarts or the schedule is edited.  (A run that ends past midnight is
\* taken for the run of the next day.)
OnceADay == \A t \in Tasks : sameDayRuns[t].runs <= 1
=============================================================================
