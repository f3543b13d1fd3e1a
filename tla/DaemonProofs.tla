---------------------------- MODULE DaemonProofs ----------------------------
(* Theorems about the maintenance loop, the uploads in chunks, the files, the  *)
(* backups and the Docker apps.                                                *)
EXTENDS Maintenance, Uploads, FileMoves, Backup, DockerApps, FiniteSetTheorems, TLAPS

-----------------------------------------------------------------------------
(* Theorems about Maintenance, for every length of the day.                   *)

\* Days follow one another.
LEMMA DaysGrow ==
  ASSUME NEW a \in Nat, NEW b \in Nat, a <= b
  PROVE  DayOf(a) \in Nat /\ DayOf(a) <= DayOf(b)
<1> DEFINE k == MinutesPerDay
           p == a \div k
           q == b \div k
<1>1. k \in Nat /\ k > 0
  BY MaintenanceAssumption
<1>2. /\ p \in Int /\ q \in Int /\ a = k * p + (a % k) /\ b = k * q + (b % k)
      /\ a % k \in 0 .. k - 1 /\ b % k \in 0 .. k - 1
  BY <1>1
<1>3. p >= 0
  BY <1>1
<1>4. p <= q
  <2> SUFFICES ASSUME q + 1 <= p PROVE FALSE
    BY <1>2
  <2>1. k * (q + 1) <= k * p
    BY <1>1, <1>2
  <2>2. k * (q + 1) = k * q + k
    BY <1>1, <1>2
  <2>3. k * p \in Int /\ k * q \in Int
    BY <1>1, <1>2
  <2> HIDE DEF p, q
  <2> QED
    BY <1>1, <1>2, <2>1, <2>2, <2>3
<1> QED
  BY <1>2, <1>3, <1>4 DEF DayOf

\* The loop and the history look back: at ticks and runs that have been.
TimesPast ==
  /\ minute \in Nat
  /\ mailbox \in 0 .. minute \cup {NoTick}
  /\ lastRuns = [t \in Tasks |-> lastRuns[t]]
  /\ \A t \in Tasks : lastRuns[t] \in 0 .. minute \cup {Never}
  /\ loop.pc \in {"idle", "sweep", "run"}
  /\ loop.pc # "idle" => loop.now \in 0 .. minute
  /\ loop.pc = "run" => loop.task \in Tasks

\* The history knows of a run at least as late as the one by the schedule.
RunsKnown ==
  /\ sameDayRuns = [t \in Tasks |-> [day |-> sameDayRuns[t].day, runs |-> sameDayRuns[t].runs]]
  /\ \A t \in Tasks :
       /\ sameDayRuns[t].day \in Nat \cup {Never} /\ sameDayRuns[t].runs \in {0, 1}
       /\ sameDayRuns[t].day # Never =>
            lastRuns[t] # Never /\ DayOf(lastRuns[t]) >= sameDayRuns[t].day

\* A daily task that runs has not run on the day of the tick, or that day is
\* over.
RunIsFirst ==
  loop.pc = "run" /\ loop.daily =>
    \/ sameDayRuns[loop.task].day # DayOf(loop.now)
    \/ DayOf(minute) > DayOf(loop.now)

MaintenanceInv == TimesPast /\ RunsKnown /\ RunIsFirst

\* Nothing has run to begin with.
LEMMA InitMaintenanceInv == MaintenanceInit => MaintenanceInv
BY DEF MaintenanceInit, MaintenanceInv, TimesPast, RunsKnown, RunIsFirst, Never, NoTick

\* A task runs later than what the history knows.
LEMMA RunLater ==
  ASSUME MaintenanceInv, NEW t \in Tasks, minute' = minute,
         lastRuns' = [lastRuns EXCEPT ![t] = minute]
  PROVE  /\ lastRuns' = [u \in Tasks |-> lastRuns'[u]]
         /\ \A u \in Tasks : lastRuns'[u] \in 0 .. minute \cup {Never}
         /\ \A u \in Tasks : sameDayRuns[u].day # Never =>
              lastRuns'[u] # Never /\ DayOf(lastRuns'[u]) >= sameDayRuns[u].day
<1>1. minute \in Nat /\ Never \notin Nat /\ Never = -1
  BY DEF MaintenanceInv, TimesPast, Never
<1>2. \A u \in Tasks : lastRuns'[u] = IF u = t THEN minute ELSE lastRuns[u]
  BY DEF MaintenanceInv, TimesPast
<1>3. ASSUME sameDayRuns[t].day # Never
      PROVE  DayOf(minute) >= sameDayRuns[t].day
  <2>1. /\ lastRuns[t] \in Nat /\ lastRuns[t] <= minute
        /\ DayOf(lastRuns[t]) >= sameDayRuns[t].day /\ sameDayRuns[t].day \in Nat
    BY <1>1, <1>3 DEF MaintenanceInv, TimesPast, RunsKnown
  <2>2. DayOf(lastRuns[t]) \in Nat /\ DayOf(minute) \in Nat /\ DayOf(lastRuns[t]) <= DayOf(minute)
    BY <1>1, <2>1, DaysGrow
  <2> QED
    BY <2>1, <2>2
<1>4. lastRuns' = [u \in Tasks |-> lastRuns'[u]]
  BY DEF MaintenanceInv, TimesPast
<1> QED
  BY <1>1, <1>2, <1>3, <1>4 DEF MaintenanceInv, TimesPast, RunsKnown

\* Time alone changes nothing that matters.
LEMMA TimePasses ==
  ASSUME MaintenanceInv, UNCHANGED <<lastRuns, sameDayRuns>>,
         minute' \in Nat, minute' >= minute,
         mailbox' \in 0 .. minute' \cup {NoTick},
         \/ loop' = loop
         \/ loop'.pc \in {"idle", "sweep"} /\ (loop'.pc = "sweep" => loop'.now \in 0 .. minute')
  PROVE  MaintenanceInv'
<1>1. minute \in Nat
  BY DEF MaintenanceInv, TimesPast
<1>2. TimesPast'
  BY <1>1 DEF MaintenanceInv, TimesPast
<1>3. RunIsFirst'
  <2>1. CASE loop' = loop
    <3> SUFFICES ASSUME loop.pc = "run", loop.daily, DayOf(minute) > DayOf(loop.now)
                 PROVE  DayOf(minute') > DayOf(loop.now)
      BY <2>1 DEF MaintenanceInv, RunIsFirst, DayOf
    <3>1. loop.now \in Nat
      BY <1>1 DEF MaintenanceInv, TimesPast
    <3>2. /\ DayOf(minute) \in Nat /\ DayOf(minute') \in Nat /\ DayOf(loop.now) \in Nat
          /\ DayOf(minute) <= DayOf(minute')
      BY <1>1, <3>1, DaysGrow
    <3> QED
      BY <3>2
  <2> QED
    BY <2>1 DEF RunIsFirst
<1> QED
  BY <1>2, <1>3 DEF MaintenanceInv, RunsKnown, DayOf

\* Every step keeps it.
LEMMA NextMaintenanceInv == MaintenanceInv /\ [MaintenanceNext]_maintenanceVars => MaintenanceInv'
<1> SUFFICES ASSUME MaintenanceInv, [MaintenanceNext]_maintenanceVars PROVE MaintenanceInv'
  OBVIOUS
<1>0. TimesPast /\ minute \in Nat /\ NoTick \notin Nat
  BY DEF MaintenanceInv, TimesPast, NoTick
<1>1. CASE MinutePasses
  <2>1. minute' = minute + 1 /\ UNCHANGED <<lastRuns, sameDayRuns, loop>>
    BY <1>1 DEF MinutePasses
  <2>2. mailbox' \in 0 .. minute' \cup {NoTick}
    BY <1>0, <1>1, <2>1 DEF MinutePasses, Readings, TimesPast
  <2> QED
    BY <1>0, <2>1, <2>2, TimePasses
<1>2. CASE ReceiveTick \/ EndOfSweep \/ CheckScheduledScrubs \/ ScrubChanges \/ UNCHANGED maintenanceVars
  <2>1. UNCHANGED <<minute, lastRuns, sameDayRuns>> /\ mailbox' \in {mailbox, NoTick}
    BY <1>2 DEF ReceiveTick, EndOfSweep, CheckScheduledScrubs, ScrubChanges, Untimed,
                maintenanceVars
  <2>2. \/ loop' = loop
        \/ loop'.pc \in {"idle", "sweep"} /\ (loop'.pc = "sweep" => loop'.now \in 0 .. minute')
    BY <1>0, <1>2, <2>1
       DEF ReceiveTick, EndOfSweep, CheckScheduledScrubs, ScrubChanges, Resting,
           maintenanceVars,
           TimesPast
  <2> QED
    BY <1>0, <2>1, <2>2, TimePasses DEF TimesPast
<1>3. CASE DaemonRestarts
  BY <1>0, <1>3, TimePasses DEF DaemonRestarts
<1>4. ASSUME NEW t \in Tasks, RunManually(t) \/ PutTask(t) PROVE MaintenanceInv'
  BY <1>0, <1>4, TimePasses DEF RunManually, PutTask, Untimed, TimesPast
<1>5. ASSUME NEW t \in Tasks, EndOfManual(t) PROVE MaintenanceInv'
  BY <1>0, <1>5, RunLater
     DEF EndOfManual, Untimed, MaintenanceInv, TimesPast, RunsKnown, RunIsFirst, DayOf
<1>6. ASSUME NEW t \in Tasks, NextTask(t) PROVE MaintenanceInv'
  <2>1. UNCHANGED <<minute, mailbox, lastRuns, sameDayRuns>> /\ loop.pc = "sweep"
    BY <1>6 DEF NextTask, Untimed
  <2>2. CASE ~(taskConf[t].enabled /\ TaskIsDue(taskConf[t], lastRuns[t], loop.now, loop.boot))
    <3>1. loop' = [loop EXCEPT !.todo = @ \ {t}]
      BY <1>6, <2>2 DEF NextTask
    <3> QED
      BY <1>0, <2>1, <3>1, TimePasses DEF TimesPast
  <2>3. CASE taskConf[t].enabled /\ TaskIsDue(taskConf[t], lastRuns[t], loop.now, loop.boot)
    <3>1. /\ loop'.pc = "run" /\ loop'.now = loop.now /\ loop'.task = t
          /\ loop'.daily <=> taskConf[t].kind = "daily"
      BY <1>6, <2>3 DEF NextTask
    <3>2. TimesPast'
      BY <1>0, <2>1, <3>1 DEF TimesPast
    <3>3. ASSUME taskConf[t].kind = "daily", sameDayRuns[t].day = DayOf(loop.now)
          PROVE  DayOf(minute) > DayOf(loop.now)
      <4>1. ~RanThatDay(lastRuns[t], loop.now)
        BY <2>3, <3>3 DEF TaskIsDue
      <4>2. loop.now \in Nat /\ loop.now <= minute
        BY <1>0, <2>1 DEF TimesPast
      <4>3. DayOf(loop.now) \in Nat
        BY <1>0, <4>2, DaysGrow
      <4>4. lastRuns[t] # Never /\ DayOf(lastRuns[t]) >= DayOf(loop.now)
        BY <3>3, <4>3 DEF MaintenanceInv, RunsKnown, Never
      <4>5. lastRuns[t] \in Nat /\ lastRuns[t] <= minute
        BY <1>0, <4>4 DEF TimesPast
      <4>6. /\ DayOf(lastRuns[t]) \in Nat /\ DayOf(minute) \in Nat
            /\ DayOf(lastRuns[t]) <= DayOf(minute) /\ DayOf(lastRuns[t]) # DayOf(loop.now)
        BY <1>0, <4>1, <4>4, <4>5, DaysGrow DEF RanThatDay
      <4> QED
        BY <4>3, <4>4, <4>6
    <3>4. RunIsFirst'
      BY <2>1, <3>1, <3>3 DEF RunIsFirst, DayOf
    <3> QED
      BY <2>1, <3>2, <3>4 DEF MaintenanceInv, RunsKnown, DayOf
  <2> QED
    BY <2>2, <2>3
<1>7. CASE RunTask
  <2>1. /\ loop.pc = "run" /\ UNCHANGED <<minute, mailbox>> /\ loop.task \in Tasks
        /\ lastRuns' = [lastRuns EXCEPT ![loop.task] = minute]
        /\ loop'.pc = "sweep" /\ loop'.now = loop.now
    BY <1>0, <1>7 DEF RunTask, Untimed, TimesPast
  <2>2. TimesPast'
    BY <1>0, <2>1, RunLater DEF TimesPast
  <2>3. RunIsFirst'
    BY <2>1 DEF RunIsFirst
  <2>4. RunsKnown'
    <3>1. CASE sameDayRuns' = sameDayRuns
      BY <2>1, <3>1, RunLater DEF MaintenanceInv, RunsKnown, DayOf
    <3>2. CASE sameDayRuns' # sameDayRuns
      <4>1. loop.daily /\ DayOf(minute) = DayOf(loop.now)
        BY <1>7, <3>2 DEF RunTask
      <4>2. DayOf(minute) \in Nat
        BY <1>0, DaysGrow
      <4>3. sameDayRuns[loop.task].day # DayOf(loop.now)
        BY <2>1, <4>1, <4>2 DEF MaintenanceInv, RunIsFirst
      <4>4. sameDayRuns' = [sameDayRuns EXCEPT ![loop.task] = [day |-> DayOf(loop.now), runs |-> 1]]
        BY <1>7, <4>1, <4>3 DEF RunTask
      <4>5. \A u \in Tasks : sameDayRuns'[u] =
              IF u = loop.task THEN [day |-> DayOf(minute), runs |-> 1] ELSE sameDayRuns[u]
        BY <2>1, <4>1, <4>4 DEF MaintenanceInv, RunsKnown
      <4>6. \A u \in Tasks : lastRuns'[u] = IF u = loop.task THEN minute ELSE lastRuns[u]
        BY <2>1 DEF MaintenanceInv, TimesPast
      <4>7. sameDayRuns' = [u \in Tasks |-> [day |-> sameDayRuns'[u].day, runs |-> sameDayRuns'[u].runs]]
        BY <2>1, <4>4 DEF MaintenanceInv, RunsKnown
      <4>8. Never \notin Nat
        BY DEF Never
      <4> QED
        BY <1>0, <2>1, <4>2, <4>5, <4>6, <4>7, <4>8 DEF MaintenanceInv, RunsKnown, DayOf
    <3> QED
      BY <3>1, <3>2
  <2> QED
    BY <2>2, <2>3, <2>4 DEF MaintenanceInv
<1> QED
  BY <1>1, <1>2, <1>3, <1>4, <1>5, <1>6, <1>7 DEF MaintenanceNext

\* Whatever ticks are late or lost, requests run and edit the task and restarts
\* come in between, a daily task runs once on a day.
THEOREM DailyOnce == MaintenanceSpec => []OnceADay
<1>1. MaintenanceSpec => []MaintenanceInv
  BY InitMaintenanceInv, NextMaintenanceInv, PTL DEF MaintenanceSpec
<1>2. ASSUME MaintenanceInv PROVE OnceADay
  <2>1. \A t \in Tasks : sameDayRuns[t].runs \in {0, 1}
    BY <1>2 DEF MaintenanceInv, RunsKnown
  <2>2. \A n \in {0, 1} : n <= 1
    OBVIOUS
  <2> QED
    BY <2>1, <2>2 DEF OnceADay
<1> QED
  BY <1>1, <1>2, PTL

-----------------------------------------------------------------------------
(* Theorems about Uploads, for every number of chunks and versions.           *)

Going == {"uploading", "paused"}

Requests ==
  [task : UploadTasks, index : Indices,
   pc : {"open", "body", "create", "join", "sweep", "drop", "undo", "answered"},
   join : Indices, ok : BOOLEAN, live : BOOLEAN, late : BOOLEAN,
   chunkGone : BOOLEAN, fileGone : BOOLEAN]

\* The requests behind which no upload was started.
Fresh == {h \in handlers : ~h.late}

TaskRecords ==
  [UploadTasks -> [status : {"new", "done", "error", "cancelled"} \cup Going,
                   next : 0 .. TotalChunks]]

UploadTypes ==
  /\ tasks \in TaskRecords
  /\ chunks \in [Indices -> UploadTasks \cup {Missing, Partial}]
  /\ final \in [there : BOOLEAN, pieces : [Indices -> UploadTasks \cup {Missing, Partial}]]
  /\ shown \in UploadTasks \cup {NoTask}

\* One upload of the name goes on, unless two have met.
OneGoes ==
  \A t, u \in UploadTasks : tasks[t].status \in Going /\ tasks[u].status \in Going => t = u

\* A new upload starts with the first chunk.
FromStart == \A t \in UploadTasks : tasks[t].status = "new" => tasks[t].next = 0

\* Up to the n-th chunk there is nothing but what the task sent.
Own(t, n) == \A i \in Indices : i < n => chunks[i] \in {t, Missing}

GoingOwn == \A t \in UploadTasks : tasks[t].status \in Going => Own(t, tasks[t].next)

\* What is shown as done is not worked on.
ShownDone == shown # NoTask => tasks[shown].status = "done"

\* The task of a request goes on, or was given up since.
TasksRequest(h) ==
  /\ h.live <=> tasks[h.task].status = "uploading"
  /\ tasks[h.task].status # "done" /\ ~h.fileGone
  /\ \A t \in UploadTasks : tasks[t].status \in Going => t = h.task /\ h.index = tasks[t].next

\* The chunks before the one that a request writes are its task's.
RequestOwn(h) ==
  /\ h.pc \in {"open", "body"} => Own(h.task, h.index)
  /\ h.pc = "open" => ~h.chunkGone
  /\ h.pc = "body" => IF h.chunkGone THEN chunks = Empty ELSE chunks[h.index] = Partial
  /\ h.pc = "answered" /\ h.ok => Own(h.task, h.index + 1)
  /\ h.pc \in {"create", "join"} => Own(h.task, TotalChunks)
  /\ h.pc \in {"create", "join", "sweep", "drop", "undo"} => h.index = TotalChunks - 1

\* What has been joined is the task's, and all of it when the answer is good;
\* what was shown as done is gone since the file was made anew.
JoinedOwn(h) ==
  /\ h.pc \in {"open", "body", "create", "join"} => h.ok
  /\ h.pc \in {"open", "body", "create"} => h.join = 0
  /\ h.pc = "join" => final.there /\ \A i \in Indices : i < h.join => final.pieces[i] = h.task
  /\ h.pc \in {"drop", "undo"} => ~h.ok
  /\ h.pc \in {"sweep", "answered"} /\ h.ok /\ h.index = TotalChunks - 1 => final = FileOf(h.task)
  /\ h.pc \in {"join", "sweep", "undo"} => shown = NoTask

Busy(h) == h \in Requests /\ TasksRequest(h) /\ RequestOwn(h) /\ JoinedOwn(h)

\* With no request under way, a task whose chunks were all answered has its file.
AllAnswered ==
  \A t \in UploadTasks :
    tasks[t].status \in Going /\ tasks[t].next = TotalChunks => final = FileOf(t)

Quiet == UploadTypes /\ OneGoes /\ FromStart /\ GoingOwn /\ ShownDone /\ DoneIsWhole

\* Nobody waits for a late request.
LateDead == handlers \subseteq Requests /\ \A h \in handlers : h.late => ~h.live

\* One request of the name runs that is not late, and it may outlive the call
\* of the client.
Watched ==
  /\ Quiet /\ LateDead
  /\ \/ Fresh = {} /\ AllAnswered
     \/ \E h \in handlers : Fresh = {h} /\ Busy(h)

UploadsInv == met \/ Watched

\* Nothing has been uploaded to begin with.
LEMMA InitUploadsInv == UploadsInit => UploadsInv
<1> SUFFICES ASSUME UploadsInit PROVE Watched
  BY DEF UploadsInv
<1> USE UploadsAssumption
<1>1. Quiet /\ AllAnswered
  BY DEF UploadsInit, Quiet, UploadTypes, OneGoes, FromStart, GoingOwn, AllAnswered,
         ShownDone, DoneIsWhole, Own, Going, TaskRecords, Empty, Absent, Indices, Missing,
         NoTask
<1>2. LateDead /\ Fresh = {}
  BY DEF UploadsInit, LateDead, Fresh
<1> QED BY <1>1, <1>2 DEF Watched

\* What a task's new status changes, and what it leaves.
LEMMA NewStatus ==
  ASSUME UploadTypes, NEW t \in UploadTasks,
         NEW s \in {"new", "done", "error", "cancelled"} \cup Going,
         tasks' = [tasks EXCEPT ![t].status = s]
  PROVE  /\ tasks' \in TaskRecords
         /\ tasks'[t].status = s
         /\ \A u \in UploadTasks : tasks'[u].next = tasks[u].next
         /\ \A u \in UploadTasks \ {t} : tasks'[u] = tasks[u]
BY DEF UploadTypes, TaskRecords

\* The step of the request that is not late leaves the others late.
LEMMA FreshStep ==
  ASSUME LateDead, NEW g \in Requests, ~g.late, g \in handlers',
         \A k \in handlers' : k = g \/ (k \in Requests /\ k.late /\ ~k.live)
  PROVE  LateDead' /\ Fresh' = {g}
BY DEF LateDead, Fresh

\* The others are late, and stay so when a file of theirs loses its name.
LEMMA OthersLate ==
  ASSUME LateDead, NEW h \in handlers, Fresh = {h}
  PROVE  /\ \A k \in handlers \ {h} : k \in Requests /\ k.late /\ ~k.live
         /\ \A k \in handlers \ {h}, b \in BOOLEAN :
              /\ [k EXCEPT !.chunkGone = b] \in Requests
              /\ [k EXCEPT !.chunkGone = b].late /\ ~[k EXCEPT !.chunkGone = b].live
              /\ [k EXCEPT !.fileGone = b] \in Requests
              /\ [k EXCEPT !.fileGone = b].late /\ ~[k EXCEPT !.fileGone = b].live
BY DEF LateDead, Fresh, Requests

\* The desktop's own steps, of which only one upload of the name is under way.
LEMMA DesktopUploadsInv ==
  ASSUME Watched, ~met', NEW t \in UploadTasks,
         StartUpload(t) \/ SendChunk(t) \/ CompleteTask(t)
  PROVE  Watched'
<1> USE UploadsAssumption DEF Indices, Going, TaskRecords
<1>1. CASE StartUpload(t)
  <2>0. \A u \in UploadTasks \ {t} : tasks[u].status \notin Going
    BY <1>1 DEF StartUpload
  <2>1. AllAnswered \/ \E h \in handlers : Fresh = {h} /\ Busy(h)
    BY DEF Watched
  <2>2. tasks' = [tasks EXCEPT ![t].status = "uploading"] /\ tasks[t].status \in {"new", "paused"}
    BY <1>1 DEF StartUpload
  <2>3. /\ tasks' \in TaskRecords
        /\ tasks'[t].status = "uploading"
        /\ \A u \in UploadTasks : tasks'[u].next = tasks[u].next
        /\ \A u \in UploadTasks \ {t} : tasks'[u] = tasks[u]
    BY <2>2, NewStatus DEF Watched, Quiet
  <2>4. \A u \in UploadTasks : tasks'[u].status \in Going => u = t
    BY <2>0, <2>3
  <2>5. tasks[t].status # "done"
    BY <2>2
  <2>6. UploadTypes' /\ OneGoes' /\ FromStart' /\ ShownDone' /\ DoneIsWhole'
    BY <1>1, <2>3, <2>4, <2>5
       DEF StartUpload, Watched, Quiet, UploadTypes, OneGoes, FromStart, ShownDone,
           DoneIsWhole, FileOf
  <2>7. GoingOwn'
    BY <1>1, <2>2, <2>3, <2>4
       DEF StartUpload, Watched, Quiet, FromStart, GoingOwn, Own
  <2>8. LateDead' /\ Fresh' = {}
    <3>1. handlers' = {[h EXCEPT !.late = TRUE] : h \in handlers}
      BY <1>1 DEF StartUpload
    <3>2. \A h \in handlers : ~h.live
      <4> SUFFICES ASSUME NEW h \in handlers, h.live PROVE FALSE
        OBVIOUS
      <4>1. h \in Fresh /\ h \in Requests
        BY DEF Fresh, Watched, LateDead
      <4>2. Busy(h)
        BY <4>1 DEF Watched
      <4>3. tasks[h.task].status = "uploading" /\ h.task \in UploadTasks
        BY <4>1, <4>2 DEF Busy, TasksRequest, Requests
      <4> QED BY <2>0, <2>2, <4>3
    <3>3. \A h \in handlers : /\ [h EXCEPT !.late = TRUE] \in Requests
                              /\ [h EXCEPT !.late = TRUE].late
                              /\ ~[h EXCEPT !.late = TRUE].live
      BY <3>2 DEF Watched, LateDead, Requests
    <3> QED BY <3>1, <3>3 DEF LateDead, Fresh
  <2>9. AllAnswered'
    <3> SUFFICES ASSUME tasks[t].next = TotalChunks PROVE final = FileOf(t)
      BY <1>1, <2>3, <2>4 DEF StartUpload, AllAnswered, FileOf
    <3>1. tasks[t].status = "paused"
      BY <2>2 DEF Watched, Quiet, FromStart
    <3>2. \A h \in handlers : ~(Fresh = {h} /\ Busy(h))
      BY <3>1 DEF Busy, TasksRequest, Requests
    <3> QED BY <2>1, <3>1, <3>2 DEF AllAnswered
  <2> QED BY <2>6, <2>7, <2>8, <2>9 DEF Watched, Quiet
<1>2. CASE SendChunk(t)
  <2> PICK g : g = [task |-> t, index |-> tasks[t].next, pc |-> "open", join |-> 0, ok |-> TRUE,
                    live |-> TRUE, late |-> FALSE, chunkGone |-> FALSE, fileGone |-> FALSE]
    OBVIOUS
  <2>0. tasks[t].status = "uploading" /\ \A h \in Of(t) : ~h.live
    BY <1>2 DEF SendChunk
  <2>1. Fresh = {}
    BY <2>0 DEF Of, Watched, Busy, TasksRequest
  <2>2. handlers' = handlers \cup {g} /\ tasks[t].status = "uploading" /\ tasks[t].next \in Indices
    BY <1>2, <2>1 DEF SendChunk
  <2>3. UNCHANGED <<tasks, chunks, final, shown>> /\ OneGoes /\ GoingOwn
    BY <1>2 DEF SendChunk, Watched, Quiet
  <2>4. Quiet'
    BY <2>3 DEF Watched, Quiet, UploadTypes, OneGoes, FromStart, GoingOwn, Own,
                ShownDone,
           DoneIsWhole
  <2>5. g \in Requests
    BY <2>2 DEF Requests
  <2>6. TasksRequest(g)' /\ RequestOwn(g)' /\ JoinedOwn(g)'
    BY <2>2, <2>3 DEF TasksRequest, RequestOwn, JoinedOwn, OneGoes, GoingOwn, Own
  <2>7. ~g.late /\ g \in handlers'
    BY <2>2
  <2>8. \A k \in handlers' : k = g \/ (k \in Requests /\ k.late /\ ~k.live)
    BY <2>1, <2>2 DEF Watched, LateDead, Fresh
  <2>9. LateDead' /\ Fresh' = {g}
    BY <2>5, <2>7, <2>8, FreshStep DEF Watched
  <2> QED BY <2>4, <2>5, <2>6, <2>7, <2>9 DEF Watched, Busy
<1>3. CASE CompleteTask(t)
  <2>1. tasks[t].status = "uploading" /\ tasks[t].next = TotalChunks
    BY <1>3 DEF CompleteTask
  <2>2. Fresh = {} /\ AllAnswered /\ handlers' = handlers
    BY <1>3, <2>1 DEF CompleteTask, Watched, Busy, TasksRequest, Requests
  <2>3. tasks' = [tasks EXCEPT ![t].status = "done"] /\ shown' = t /\ UNCHANGED <<chunks, final>>
    BY <1>3 DEF CompleteTask
  <2>4. /\ tasks' \in TaskRecords
        /\ tasks'[t].status = "done"
        /\ \A u \in UploadTasks : tasks'[u].next = tasks[u].next
        /\ \A u \in UploadTasks \ {t} : tasks'[u] = tasks[u]
    BY <2>3, NewStatus DEF Watched, Quiet
  <2>5. \A u \in UploadTasks : tasks'[u].status \in Going => u # t /\ tasks'[u] = tasks[u]
    BY <2>4
  <2>6. UploadTypes' /\ OneGoes' /\ FromStart' /\ ShownDone' /\ DoneIsWhole'
    BY <2>1, <2>2, <2>3, <2>4, <2>5
       DEF Watched, Quiet, UploadTypes, OneGoes, FromStart, ShownDone,
           DoneIsWhole, FileOf, AllAnswered
  <2>7. GoingOwn' /\ AllAnswered'
    BY <2>2, <2>3, <2>4, <2>5 DEF Watched, Quiet, GoingOwn, Own, AllAnswered, FileOf
  <2>8. LateDead' /\ Fresh' = {}
    BY <2>2 DEF Watched, LateDead, Fresh
  <2> QED BY <2>6, <2>7, <2>8 DEF Watched, Quiet
<1> QED BY <1>1, <1>2, <1>3

\* Nothing that a step leaves alone changes what is said of the tasks.
LEMMA QuietStays ==
  ASSUME Quiet, UNCHANGED <<tasks, final, shown>>,
         chunks' \in [Indices -> UploadTasks \cup {Missing, Partial}],
         GoingOwn'
  PROVE  Quiet'
BY DEF Quiet, UploadTypes, OneGoes, FromStart, ShownDone, DoneIsWhole

\* A call that is given up leaves its request behind.
LEMMA AbortsUploadsInv ==
  ASSUME Watched, NEW t \in UploadTasks,
         PauseTask(t) \/ ConnectionBreaks(t) \/ CancelTask(t)
  PROVE  Watched'
<1> USE UploadsAssumption DEF Indices, Going, TaskRecords
<1>1. PICK s \in {"paused", "error", "cancelled"} :
        /\ tasks' = [tasks EXCEPT ![t].status = s]
        /\ tasks[t].status \in Going
        /\ IF s = "cancelled" THEN chunks' = Empty ELSE chunks' = chunks
        /\ UNCHANGED <<final, shown>>
        /\ handlers' = IF s = "cancelled"
                       THEN {[h EXCEPT !.chunkGone = @ \/ h.pc = "body",
                                       !.live = @ /\ h.task # t] : h \in handlers}
                       ELSE {[h EXCEPT !.live = @ /\ h.task # t] : h \in handlers}
  <2>1. CASE PauseTask(t)
    <3> WITNESS "paused" \in {"paused", "error", "cancelled"}
    <3> QED BY <2>1 DEF PauseTask, Abort
  <2>2. CASE ConnectionBreaks(t)
    <3> WITNESS "error" \in {"paused", "error", "cancelled"}
    <3> QED BY <2>2 DEF ConnectionBreaks, Abort
  <2>3. CASE CancelTask(t)
    <3> WITNESS "cancelled" \in {"paused", "error", "cancelled"}
    <3> QED BY <2>3 DEF CancelTask
  <2> QED BY <2>1, <2>2, <2>3
<1>2. /\ tasks' \in TaskRecords
      /\ tasks'[t].status = s
      /\ \A u \in UploadTasks : tasks'[u].next = tasks[u].next
      /\ \A u \in UploadTasks \ {t} : tasks'[u] = tasks[u]
  BY <1>1, NewStatus DEF Watched, Quiet
<1>3. \A u \in UploadTasks : tasks'[u].status \in Going =>
        tasks[u].status \in Going /\ tasks'[u].next = tasks[u].next
  BY <1>1, <1>2
<1>4. Quiet'
  <2>1. chunks' \in [Indices -> UploadTasks \cup {Missing, Partial}]
        /\ \A i \in Indices : chunks'[i] \in {chunks[i], Missing}
    BY <1>1 DEF Watched, Quiet, UploadTypes, Empty
  <2>2. UploadTypes' /\ OneGoes' /\ FromStart' /\ ShownDone' /\ DoneIsWhole'
    <3>1. UploadTypes' /\ OneGoes'
      BY <1>1, <1>2, <1>3, <2>1 DEF Watched, Quiet, UploadTypes, OneGoes
    <3>2. FromStart' /\ ShownDone'
      BY <1>1, <1>2 DEF Watched, Quiet, UploadTypes, FromStart, ShownDone
    <3>3. DoneIsWhole'
      BY <1>1 DEF Watched, Quiet, DoneIsWhole, FileOf
    <3> QED BY <3>1, <3>2, <3>3
  <2>3. GoingOwn'
    BY <1>2, <1>3, <2>1 DEF Watched, Quiet, UploadTypes, GoingOwn, Own
  <2> QED BY <2>2, <2>3 DEF Quiet
<1> DEFINE Given(h) ==
      IF s = "cancelled"
      THEN [h EXCEPT !.chunkGone = @ \/ h.pc = "body", !.live = @ /\ h.task # t]
      ELSE [h EXCEPT !.live = @ /\ h.task # t]
<1>G. \A h \in handlers :
        /\ Given(h) \in Requests /\ Given(h).late = h.late
        /\ h.late => ~Given(h).live
  BY DEF Watched, LateDead, Requests
<1>H. handlers' = {Given(h) : h \in handlers}
  BY <1>1
<1>L. LateDead' /\ Fresh' = {Given(h) : h \in Fresh}
  <2> HIDE DEF Given
  <2> QED BY <1>G, <1>H DEF LateDead, Fresh
<1>5. CASE Fresh = {} /\ AllAnswered
  <2>1. Fresh' = {}
    BY <1>L, <1>5
  <2>2. AllAnswered'
    BY <1>1, <1>2, <1>3, <1>5 DEF AllAnswered, FileOf
  <2> QED BY <1>4, <1>L, <2>1, <2>2 DEF Watched
<1>6. ASSUME NEW h \in handlers, Fresh = {h}, Busy(h) PROVE Watched'
  <2> PICK g : g = Given(h)
    OBVIOUS
  <2>1. Fresh' = {g} /\ g \in handlers'
    <3> HIDE DEF Given
    <3>1. h \in handlers /\ {Given(k) : k \in Fresh} = {Given(h)}
      BY <1>6
    <3> QED BY <1>H, <1>L, <3>1
  <2>2. /\ g \in Requests
        /\ g.task = h.task /\ g.index = h.index /\ g.pc = h.pc /\ g.join = h.join /\ g.ok = h.ok
        /\ g.fileGone = h.fileGone /\ g.live = (h.live /\ h.task # t)
        /\ g.chunkGone = (h.chunkGone \/ (s = "cancelled" /\ h.pc = "body"))
    BY <1>6 DEF Busy, Requests
  <2>9. /\ tasks[t].status \in Going /\ UNCHANGED <<final, shown>>
        /\ IF s = "cancelled" THEN chunks' = Empty ELSE chunks' = chunks
    BY <1>1
  <2> HIDE DEF Given
  <2>3. TasksRequest(g)'
    BY <1>2, <1>3, <1>6, <2>2, <2>9 DEF Busy, Requests, TasksRequest
  <2>4. RequestOwn(g)'
    BY <1>6, <2>2, <2>9 DEF Busy, Requests, RequestOwn, Own, Empty
  <2>5. JoinedOwn(g)'
    BY <1>6, <2>2, <2>9 DEF Busy, Requests, JoinedOwn, FileOf
  <2> QED BY <1>4, <1>L, <2>1, <2>2, <2>3, <2>4, <2>5 DEF Watched, Busy
<1> QED BY <1>5, <1>6 DEF Watched

\* The request writes its chunk, and the last one joins them.
LEMMA HandlerUploadsInv ==
  ASSUME Watched, ~met', NEW h \in handlers, ChunkedUpload(h)
  PROVE  Watched'
<1> USE UploadsAssumption DEF Indices, Going, TaskRecords
<1>0. /\ Fresh = {h} /\ Busy(h) /\ h \in Requests /\ Quiet /\ ~h.late
      /\ \A k \in handlers \ {h} : k \in Requests /\ k.late /\ ~k.live
  <2>1. h \in Fresh /\ ~h.late
    BY DEF ChunkedUpload, Fresh
  <2> QED BY <2>1, OthersLate DEF Watched, Busy
<1>S. ASSUME NEW g \in Requests, ~g.late, handlers' = (handlers \ {h}) \cup {g}
      PROVE  LateDead' /\ Fresh' = {g} /\ g \in handlers'
  BY <1>0, <1>S, FreshStep DEF Watched
<1>T. ASSUME NEW g \in Requests, ~g.late, g \in handlers',
             \A k \in handlers' : k = g \/ \E m \in handlers \ {h}, b \in BOOLEAN :
               k \in {[m EXCEPT !.chunkGone = b], [m EXCEPT !.fileGone = b]}
      PROVE  LateDead' /\ Fresh' = {g}
  <2>1. ASSUME NEW k \in handlers', NEW m \in handlers \ {h}, NEW b \in BOOLEAN,
               k \in {[m EXCEPT !.chunkGone = b], [m EXCEPT !.fileGone = b]}
        PROVE  k \in Requests /\ k.late /\ ~k.live
    BY <1>0, <2>1 DEF Requests
  <2>2. \A k \in handlers' : k = g \/ (k \in Requests /\ k.late /\ ~k.live)
    BY <1>T, <2>1
  <2> QED BY <1>T, <2>2, FreshStep DEF Watched
<1>1. CASE OpenChunk(h)
  <2> PICK g : g = [h EXCEPT !.pc = "body"]
    OBVIOUS
  <2>1. handlers' = (handlers \ {h}) \cup {g} /\ h.pc = "open" /\ UNCHANGED <<tasks, final, shown>>
        /\ chunks' = [chunks EXCEPT ![h.index] = Partial]
    BY <1>0, <1>1 DEF OpenChunk, Moves
  <2>2. /\ g \in Requests
        /\ g.task = h.task /\ g.index = h.index /\ g.pc = "body" /\ g.join = h.join /\ g.ok = h.ok
        /\ g.fileGone = h.fileGone /\ g.live = h.live /\ g.late = h.late /\ g.chunkGone = h.chunkGone
    BY <1>0 DEF Requests
  <2>3. chunks' \in [Indices -> UploadTasks \cup {Missing, Partial}]
        /\ \A i \in Indices : i # h.index => chunks'[i] = chunks[i]
    BY <1>0, <2>1 DEF Quiet, UploadTypes, Requests
  <2>4. GoingOwn'
    BY <1>0, <2>1, <2>3 DEF Quiet, UploadTypes, Busy, TasksRequest, Requests, GoingOwn, Own
  <2>5. Quiet'
    BY <1>0, <2>1, <2>3, <2>4, QuietStays
  <2>6. TasksRequest(g)' /\ RequestOwn(g)' /\ JoinedOwn(g)'
    BY <1>0, <2>1, <2>2, <2>3 DEF Busy, TasksRequest, RequestOwn, JoinedOwn, Own, Requests
  <2> QED BY <1>0, <1>S, <2>1, <2>2, <2>5, <2>6 DEF Watched, Busy
<1>2. CASE OpenFails(h)
  <2> PICK g : g = [h EXCEPT !.pc = "answered", !.ok = FALSE]
    OBVIOUS
  <2>1. handlers' = (handlers \ {h}) \cup {g} /\ h.pc = "open" /\ UNCHANGED <<tasks, chunks, final, shown>>
    BY <1>0, <1>2 DEF OpenFails, Moves
  <2>2. /\ g \in Requests
        /\ g.task = h.task /\ g.index = h.index /\ g.pc = "answered" /\ ~g.ok
        /\ g.fileGone = h.fileGone /\ g.live = h.live /\ g.late = h.late
    BY <1>0 DEF Requests
  <2>3. Quiet'
    BY <1>0, <2>1 DEF Quiet, UploadTypes, OneGoes, FromStart, GoingOwn, Own, ShownDone,
           DoneIsWhole
  <2>4. TasksRequest(g)' /\ RequestOwn(g)' /\ JoinedOwn(g)'
    BY <1>0, <2>1, <2>2 DEF Busy, TasksRequest, RequestOwn, JoinedOwn
  <2> QED BY <1>0, <1>S, <2>1, <2>2, <2>3, <2>4 DEF Watched, Busy
<1>3. CASE WriteChunk(h)
  <2>0. PICK g : g = [h EXCEPT !.pc = IF h.index = TotalChunks - 1 THEN "create" ELSE "answered"]
    OBVIOUS
  <2>1. handlers' = (handlers \ {h}) \cup {g} /\ h.pc = "body" /\ UNCHANGED <<tasks, final, shown>>
        /\ \E p \in {h.task} \cup {q \in {Partial} : chunks[h.index] \in UploadTasks \ {h.task}} :
             chunks' = IF h.chunkGone THEN chunks ELSE [chunks EXCEPT ![h.index] = p]
    <3>1. CASE h.chunkGone
      BY <1>0, <1>3, <2>0, <3>1 DEF WriteChunk, Moves
    <3>2. CASE ~h.chunkGone
      BY <1>0, <1>3, <2>0, <3>2 DEF WriteChunk, Moves
    <3> QED BY <3>1, <3>2
  <2>2. /\ g \in Requests
        /\ g.task = h.task /\ g.index = h.index /\ g.join = h.join /\ g.ok = h.ok
        /\ g.fileGone = h.fileGone /\ g.live = h.live /\ g.late = h.late /\ g.chunkGone = h.chunkGone
        /\ g.pc = IF h.index = TotalChunks - 1 THEN "create" ELSE "answered"
    BY <1>0, <2>0 DEF Requests
  <2>3. /\ chunks' \in [Indices -> UploadTasks \cup {Missing, Partial}]
        /\ \A i \in Indices : i # h.index => chunks'[i] = chunks[i]
        /\ chunks'[h.index] \in {h.task, Missing}
    <3>1. h.chunkGone => chunks = Empty
      BY <1>0, <2>1 DEF Busy, RequestOwn
    <3>2. ~h.chunkGone => chunks[h.index] = Partial
      BY <1>0, <2>1 DEF Busy, RequestOwn
    <3>3. Partial \notin UploadTasks
      BY DEF Partial
    <3> QED BY <1>0, <2>1, <3>1, <3>2, <3>3 DEF Quiet, UploadTypes, Requests, Empty
  <2>4. GoingOwn'
    BY <1>0, <2>1, <2>3 DEF Quiet, UploadTypes, Busy, TasksRequest, Requests, GoingOwn, Own
  <2>5. Quiet'
    BY <1>0, <2>1, <2>3, <2>4, QuietStays
  <2>6. Own(h.task, h.index + 1)'
    <3>1. Own(h.task, h.index) /\ h.index \in Nat
      BY <1>0, <2>1 DEF Busy, RequestOwn, Requests
    <3>2. \A i \in Indices : i < h.index + 1 => i < h.index \/ i = h.index
      BY <3>1
    <3>3. ASSUME NEW i \in Indices, i < h.index + 1 PROVE chunks'[i] \in {h.task, Missing}
      <4>1. CASE i = h.index
        BY <2>3, <4>1
      <4>2. CASE i < h.index
        BY <2>3, <3>1, <4>2 DEF Own
      <4> QED BY <3>2, <3>3, <4>1, <4>2
    <3> QED BY <3>3 DEF Own
  <2>7. TasksRequest(g)' /\ RequestOwn(g)' /\ JoinedOwn(g)'
    BY <1>0, <2>1, <2>2, <2>6 DEF Busy, TasksRequest, RequestOwn, JoinedOwn, Own, Requests
  <2> QED BY <1>0, <1>S, <2>1, <2>2, <2>5, <2>7 DEF Watched, Busy
<1>4. CASE ChunkBreaks(h)
  <2> PICK g : g = [h EXCEPT !.pc = "answered", !.ok = FALSE]
    OBVIOUS
  <2>1. /\ h.pc = "body" /\ UNCHANGED <<tasks, final, shown>>
        /\ chunks' = [chunks EXCEPT ![h.index] = Missing]
        /\ handlers' = {[k EXCEPT !.chunkGone = @ \/ (k.pc = "body" /\ k.index = h.index)] :
                         k \in handlers \ {h}} \cup {g}
    BY <1>0, <1>4 DEF ChunkBreaks
  <2>2. /\ g \in Requests
        /\ g.task = h.task /\ g.index = h.index /\ g.pc = "answered" /\ ~g.ok
        /\ g.fileGone = h.fileGone /\ g.live = h.live /\ g.late = h.late
    BY <1>0 DEF Requests
  <2>3. chunks' \in [Indices -> UploadTasks \cup {Missing, Partial}]
        /\ \A i \in Indices : chunks'[i] \in {chunks[i], Missing}
    BY <1>0, <2>1 DEF Quiet, UploadTypes
  <2>4. GoingOwn'
    BY <1>0, <2>1, <2>3 DEF Quiet, GoingOwn, Own
  <2>5. Quiet'
    BY <1>0, <2>1, <2>3, <2>4, QuietStays
  <2>6. TasksRequest(g)' /\ RequestOwn(g)' /\ JoinedOwn(g)'
    BY <1>0, <2>1, <2>2 DEF Busy, TasksRequest, RequestOwn, JoinedOwn
  <2>7. LateDead' /\ Fresh' = {g} /\ g \in handlers'
    <3>1. \A k \in handlers \ {h} : (k.chunkGone \/ (k.pc = "body" /\ k.index = h.index)) \in BOOLEAN
      BY <1>0 DEF Requests
    <3>2. g \in handlers' /\ ~g.late
      BY <1>0, <2>1, <2>2
    <3>3. ASSUME NEW k \in handlers', k # g
          PROVE  \E m \in handlers \ {h}, b \in BOOLEAN :
                   k \in {[m EXCEPT !.chunkGone = b], [m EXCEPT !.fileGone = b]}
      BY <2>1, <3>1, <3>3
    <3> QED BY <1>T, <2>2, <3>2, <3>3
  <2> QED BY <2>2, <2>5, <2>6, <2>7 DEF Watched, Busy
<1>C. CASE CreateFails(h)
  <2> PICK g : g = [h EXCEPT !.pc = "drop", !.ok = FALSE]
    OBVIOUS
  <2>1. handlers' = (handlers \ {h}) \cup {g} /\ h.pc = "create" /\ UNCHANGED <<tasks, chunks, final, shown>>
    BY <1>0, <1>C DEF CreateFails, Moves
  <2>2. /\ g \in Requests
        /\ g.task = h.task /\ g.index = h.index /\ g.pc = "drop" /\ ~g.ok
        /\ g.fileGone = h.fileGone /\ g.live = h.live /\ g.late = h.late
    BY <1>0 DEF Requests
  <2>3. Quiet'
    BY <1>0, <2>1 DEF Quiet, UploadTypes, OneGoes, FromStart, GoingOwn, Own, ShownDone,
           DoneIsWhole
  <2>4. TasksRequest(g)' /\ RequestOwn(g)' /\ JoinedOwn(g)'
    BY <1>0, <2>1, <2>2 DEF Busy, TasksRequest, RequestOwn, JoinedOwn
  <2> QED BY <1>0, <1>S, <2>1, <2>2, <2>3, <2>4 DEF Watched, Busy
<1>5. CASE CreateFile(h)
  <2> PICK g : g = [h EXCEPT !.pc = "join"]
    OBVIOUS
  <2>1. handlers' = (handlers \ {h}) \cup {g} /\ h.pc = "create" /\ UNCHANGED <<tasks, chunks>>
        /\ final' = [there |-> TRUE, pieces |-> Empty]
        /\ shown' = IF shown = h.task THEN shown ELSE NoTask
    BY <1>0, <1>5 DEF CreateFile, Moves
  <2>2. /\ g \in Requests
        /\ g.task = h.task /\ g.index = h.index /\ g.pc = "join" /\ g.join = h.join /\ g.ok = h.ok
        /\ g.fileGone = h.fileGone /\ g.live = h.live /\ g.late = h.late /\ g.chunkGone = h.chunkGone
    BY <1>0 DEF Requests
  <2>3. shown' = NoTask
    BY <1>0, <2>1 DEF Busy, TasksRequest, Quiet, ShownDone
  <2>4. final' \in [there : BOOLEAN, pieces : [Indices -> UploadTasks \cup {Missing, Partial}]]
        /\ final'.there
    BY <2>1 DEF Empty
  <2>5. Quiet'
    BY <1>0, <2>1, <2>3, <2>4
       DEF Quiet, UploadTypes, OneGoes, FromStart, GoingOwn, Own, ShownDone, DoneIsWhole
  <2>6. TasksRequest(g)' /\ RequestOwn(g)' /\ JoinedOwn(g)'
    BY <1>0, <2>1, <2>2, <2>3, <2>4
       DEF Busy, TasksRequest, RequestOwn, JoinedOwn, Own, Requests
  <2> QED BY <1>0, <1>S, <2>1, <2>2, <2>5, <2>6 DEF Watched, Busy
<1>6. CASE JoinChunk(h)
  <2>0. h.pc = "join" /\ shown = NoTask /\ UNCHANGED <<tasks, chunks, shown>> /\ ~h.fileGone
        /\ h.ok /\ h.index = TotalChunks - 1 /\ Own(h.task, TotalChunks) /\ h.join \in Indices
        /\ final.there /\ \A i \in Indices : i < h.join => final.pieces[i] = h.task
    BY <1>0, <1>6 DEF JoinChunk, Busy, TasksRequest, RequestOwn, JoinedOwn, Requests
  <2>1. CASE chunks[h.join] = Missing
    <3> PICK g : g = [h EXCEPT !.pc = "sweep", !.ok = FALSE]
      OBVIOUS
    <3>1. handlers' = (handlers \ {h}) \cup {g} /\ UNCHANGED final
      BY <1>0, <1>6, <2>1 DEF JoinChunk, Moves
    <3>2. /\ g \in Requests
          /\ g.task = h.task /\ g.index = h.index /\ g.pc = "sweep" /\ ~g.ok
          /\ g.fileGone = h.fileGone /\ g.live = h.live /\ g.late = h.late
      BY <1>0 DEF Requests
    <3>3. Quiet'
      BY <1>0, <2>0, <3>1 DEF Quiet, UploadTypes, OneGoes, FromStart, GoingOwn, Own,
                              ShownDone,
             DoneIsWhole
    <3>4. TasksRequest(g)' /\ RequestOwn(g)' /\ JoinedOwn(g)'
      BY <1>0, <2>0, <3>1, <3>2 DEF Busy, TasksRequest, RequestOwn, JoinedOwn
    <3> QED BY <1>0, <1>S, <3>1, <3>2, <3>3, <3>4 DEF Watched, Busy
  <2>2. CASE chunks[h.join] # Missing
    <3> PICK g : g = IF h.join = TotalChunks - 1 THEN [h EXCEPT !.pc = "sweep"]
                     ELSE [h EXCEPT !.join = @ + 1]
      OBVIOUS
    <3>1. handlers' = (handlers \ {h}) \cup {g} /\ final' = [final EXCEPT !.pieces[h.join] = chunks[h.join]]
      BY <1>0, <1>6, <2>0, <2>2 DEF JoinChunk, Moves
    <3>2. chunks[h.join] = h.task
      BY <2>0, <2>2 DEF Own
    <3>3. /\ final' \in [there : BOOLEAN,
                         pieces : [Indices -> UploadTasks \cup {Missing, Partial}]]
          /\ final'.there /\ final'.pieces[h.join] = h.task
          /\ \A i \in Indices : i < h.join => final'.pieces[i] = h.task
      BY <1>0, <2>0, <3>1, <3>2 DEF Quiet, UploadTypes, Requests
    <3>4. /\ g \in Requests
          /\ g.task = h.task /\ g.index = h.index /\ g.ok = h.ok
          /\ g.fileGone = h.fileGone /\ g.live = h.live /\ g.late = h.late
          /\ IF h.join = TotalChunks - 1 THEN g.pc = "sweep"
             ELSE g.pc = "join" /\ g.join = h.join + 1
      <4>1. CASE h.join = TotalChunks - 1
        BY <1>0, <2>0, <4>1 DEF Requests
      <4>2. CASE h.join # TotalChunks - 1
        <5>1. h.join + 1 \in Indices
          BY <2>0, <4>2
        <5> QED BY <1>0, <2>0, <4>2, <5>1 DEF Requests
      <4> QED BY <4>1, <4>2
    <3>5. Quiet'
      BY <1>0, <2>0, <3>3 DEF Quiet, UploadTypes, OneGoes, FromStart, GoingOwn, Own,
                              ShownDone,
             DoneIsWhole
    <3>6. TasksRequest(g)' /\ RequestOwn(g)'
      BY <1>0, <2>0, <3>4 DEF Busy, TasksRequest, RequestOwn, Own
    <3>7. h.join = TotalChunks - 1 => final' = FileOf(h.task)
      BY <3>3 DEF FileOf
    <3>8. \A i \in Indices : i < h.join + 1 => final'.pieces[i] = h.task
      BY <2>0, <3>3
    <3>9. JoinedOwn(g)'
      BY <2>0, <3>3, <3>4, <3>7, <3>8 DEF JoinedOwn, FileOf
    <3> QED BY <1>0, <1>S, <3>1, <3>4, <3>5, <3>6, <3>9 DEF Watched, Busy
  <2> QED BY <2>1, <2>2
<1>7. CASE JoinBreaks(h)
  <2> PICK g : g = [h EXCEPT !.pc = "sweep", !.ok = FALSE]
    OBVIOUS
  <2>1. handlers' = (handlers \ {h}) \cup {g} /\ h.pc = "join" /\ UNCHANGED <<tasks, chunks, final, shown>>
    BY <1>0, <1>7 DEF JoinBreaks, Moves
  <2>2. /\ g \in Requests
        /\ g.task = h.task /\ g.index = h.index /\ g.pc = "sweep" /\ ~g.ok
        /\ g.fileGone = h.fileGone /\ g.live = h.live /\ g.late = h.late
    BY <1>0 DEF Requests
  <2>3. Quiet'
    BY <1>0, <2>1 DEF Quiet, UploadTypes, OneGoes, FromStart, GoingOwn, Own, ShownDone,
           DoneIsWhole
  <2>4. TasksRequest(g)' /\ RequestOwn(g)' /\ JoinedOwn(g)'
    BY <1>0, <2>1, <2>2 DEF Busy, TasksRequest, RequestOwn, JoinedOwn
  <2> QED BY <1>0, <1>S, <2>1, <2>2, <2>3, <2>4 DEF Watched, Busy
<1>8. CASE SweepChunks(h)
  <2> PICK g : g = [h EXCEPT !.pc = IF h.pc = "sweep" /\ ~h.ok THEN "undo" ELSE "answered"]
    OBVIOUS
  <2>1. /\ handlers' = {[k EXCEPT !.chunkGone = @ \/ k.pc = "body"] : k \in handlers \ {h}} \cup {g}
        /\ h.pc \in {"sweep", "drop"} /\ UNCHANGED <<tasks, final, shown>> /\ chunks' = Empty
    BY <1>0, <1>8 DEF SweepChunks
  <2>7. LateDead' /\ Fresh' = {g} /\ g \in handlers'
    <3>1. \A k \in handlers \ {h} : (k.chunkGone \/ k.pc = "body") \in BOOLEAN
      BY <1>0 DEF Requests
    <3>2. g \in handlers' /\ ~g.late /\ g \in Requests
      BY <1>0, <2>1 DEF Requests
    <3>3. ASSUME NEW k \in handlers', k # g
          PROVE  \E m \in handlers \ {h}, b \in BOOLEAN :
                   k \in {[m EXCEPT !.chunkGone = b], [m EXCEPT !.fileGone = b]}
      BY <2>1, <3>1, <3>3
    <3> QED BY <1>T, <3>2, <3>3
  <2>2. /\ g \in Requests
        /\ g.task = h.task /\ g.index = h.index /\ g.join = h.join /\ g.ok = h.ok
        /\ g.fileGone = h.fileGone /\ g.live = h.live /\ g.late = h.late
        /\ g.pc = IF h.pc = "sweep" /\ ~h.ok THEN "undo" ELSE "answered"
    BY <1>0 DEF Requests
  <2>3. chunks' \in [Indices -> UploadTasks \cup {Missing, Partial}]
        /\ \A i \in Indices : chunks'[i] = Missing
    BY <2>1 DEF Empty
  <2>4. GoingOwn'
    BY <2>3 DEF GoingOwn, Own
  <2>5. Quiet'
    BY <1>0, <2>1, <2>3, <2>4, QuietStays
  <2>6. TasksRequest(g)' /\ RequestOwn(g)' /\ JoinedOwn(g)'
    BY <1>0, <2>1, <2>2, <2>3 DEF Busy, TasksRequest, RequestOwn, JoinedOwn, Own, Requests
  <2> QED BY <2>2, <2>5, <2>6, <2>7 DEF Watched, Busy
<1>9. CASE RemoveFinal(h)
  <2> PICK g : g = [h EXCEPT !.pc = "answered"]
    OBVIOUS
  <2>1. /\ handlers' = {[k EXCEPT !.fileGone = @ \/ k.pc = "join"] : k \in handlers \ {h}} \cup {g}
        /\ h.pc = "undo" /\ UNCHANGED <<tasks, chunks, shown>> /\ final' = Absent
    BY <1>0, <1>9 DEF RemoveFinal
  <2>7. LateDead' /\ Fresh' = {g} /\ g \in handlers'
    <3>1. \A k \in handlers \ {h} : (k.fileGone \/ k.pc = "join") \in BOOLEAN
      BY <1>0 DEF Requests
    <3>2. g \in handlers' /\ ~g.late /\ g \in Requests
      BY <1>0, <2>1 DEF Requests
    <3>3. ASSUME NEW k \in handlers', k # g
          PROVE  \E m \in handlers \ {h}, b \in BOOLEAN :
                   k \in {[m EXCEPT !.chunkGone = b], [m EXCEPT !.fileGone = b]}
      BY <2>1, <3>1, <3>3
    <3> QED BY <1>T, <3>2, <3>3
  <2>2. /\ g \in Requests
        /\ g.task = h.task /\ g.index = h.index /\ g.pc = "answered" /\ g.ok = h.ok
        /\ g.fileGone = h.fileGone /\ g.live = h.live /\ g.late = h.late
    BY <1>0 DEF Requests
  <2>3. ~h.ok /\ shown = NoTask
    BY <1>0, <2>1 DEF Busy, JoinedOwn
  <2>4. final' \in [there : BOOLEAN, pieces : [Indices -> UploadTasks \cup {Missing, Partial}]]
    BY <2>1 DEF Absent, Empty
  <2>5. Quiet'
    BY <1>0, <2>1, <2>3, <2>4
       DEF Quiet, UploadTypes, OneGoes, FromStart, GoingOwn, Own, ShownDone, DoneIsWhole
  <2>6. TasksRequest(g)' /\ RequestOwn(g)' /\ JoinedOwn(g)'
    BY <1>0, <2>1, <2>2, <2>3 DEF Busy, TasksRequest, RequestOwn, JoinedOwn
  <2> QED BY <2>2, <2>5, <2>6, <2>7 DEF Watched, Busy
<1> QED BY <1>1, <1>2, <1>3, <1>4, <1>C, <1>5, <1>6, <1>7, <1>8, <1>9 DEF ChunkedUpload

\* An answer that is waited for is the next chunk's, or fails the task.
LEMMA AnswerUploadsInv ==
  ASSUME Watched, NEW h \in handlers, TakeAnswer(h)
  PROVE  Watched'
<1> USE UploadsAssumption DEF Indices, Going, TaskRecords
<1>0. Quiet /\ h \in Requests /\ LateDead
  BY DEF Watched, LateDead
<1>1. handlers' = handlers \ {h} /\ h.pc = "answered" /\ UNCHANGED <<chunks, final, shown>>
  BY DEF TakeAnswer
<1>L. LateDead' /\ Fresh' = Fresh \ {h}
  BY <1>0, <1>1 DEF LateDead, Fresh
<1>B. h.live => Fresh = {h} /\ Busy(h)
  BY DEF Watched, LateDead, Fresh
<1>2. CASE ~h.live
  <2>1. UNCHANGED tasks
    BY <1>2 DEF TakeAnswer
  <2>3. Quiet'
    BY <1>0, <1>1, <2>1 DEF Quiet, UploadTypes, OneGoes, FromStart, GoingOwn, Own,
                            ShownDone,
           DoneIsWhole
  <2>4. CASE AllAnswered /\ Fresh = {}
    <3>1. AllAnswered'
      BY <1>1, <2>1, <2>4 DEF AllAnswered, FileOf
    <3> QED BY <1>L, <2>3, <2>4, <3>1 DEF Watched
  <2>5. ASSUME NEW k \in handlers, Fresh = {k}, Busy(k), k # h PROVE Watched'
    <3>1. Busy(k)'
      BY <1>1, <2>1, <2>5 DEF Busy, TasksRequest, RequestOwn, JoinedOwn, Own
    <3> QED BY <1>1, <1>L, <2>3, <2>5, <3>1 DEF Watched
  <2>6. CASE Fresh = {h} /\ Busy(h)
    <3>1. AllAnswered'
      BY <1>0, <1>1, <1>2, <2>1, <2>6 DEF Busy, TasksRequest, Requests, AllAnswered
    <3> QED BY <1>L, <2>3, <2>6, <3>1 DEF Watched
  <2> QED BY <2>4, <2>5, <2>6 DEF Watched
<1>3. CASE h.live /\ h.ok
  <2>0. Fresh' = {} /\ Busy(h) /\ Quiet
    BY <1>0, <1>3, <1>B, <1>L
  <2>1. tasks' = [tasks EXCEPT ![h.task].next = h.index + 1]
    BY <1>3 DEF TakeAnswer
  <2>2. /\ tasks' \in TaskRecords
        /\ \A u \in UploadTasks : tasks'[u].status = tasks[u].status
        /\ \A u \in UploadTasks \ {h.task} : tasks'[u].next = tasks[u].next
        /\ tasks'[h.task].next = h.index + 1 /\ h.task \in UploadTasks
    <3>1. h.index + 1 \in 0 .. TotalChunks /\ h.task \in UploadTasks
      BY <1>0 DEF Requests
    <3>2. tasks \in TaskRecords
      BY <1>0 DEF Quiet, UploadTypes
    <3>3. ASSUME NEW t \in UploadTasks, NEW n \in 0 .. TotalChunks,
                 tasks' = [tasks EXCEPT ![t].next = n]
          PROVE  /\ tasks' \in TaskRecords
                 /\ \A u \in UploadTasks : tasks'[u].status = tasks[u].status
                 /\ \A u \in UploadTasks \ {t} : tasks'[u].next = tasks[u].next
                 /\ tasks'[t].next = n
      BY <3>2, <3>3
    <3> QED BY <2>1, <3>1, <3>3
  <2>3. /\ tasks[h.task].status = "uploading" /\ Own(h.task, h.index + 1)
        /\ h.index = TotalChunks - 1 => final = FileOf(h.task)
        /\ \A u \in UploadTasks : tasks[u].status \in Going => u = h.task
    BY <1>0, <2>0, <1>1, <1>3 DEF Busy, TasksRequest, RequestOwn, JoinedOwn
  <2>4. AllAnswered'
    BY <1>0, <2>0, <1>1, <2>2, <2>3 DEF AllAnswered, FileOf, Requests
  <2>5. UploadTypes' /\ OneGoes' /\ FromStart'
    BY <1>0, <2>0, <1>1, <2>2, <2>3 DEF Quiet, UploadTypes, OneGoes, FromStart
  <2>6. GoingOwn' /\ ShownDone' /\ DoneIsWhole'
    BY <1>0, <2>0, <1>1, <2>2, <2>3
       DEF Quiet, UploadTypes, GoingOwn, Own, ShownDone, DoneIsWhole, FileOf
  <2> QED BY <1>L, <2>0, <2>4, <2>5, <2>6 DEF Watched, Quiet
<1>4. CASE h.live /\ ~h.ok
  <2>0. Fresh' = {} /\ Busy(h) /\ Quiet
    BY <1>0, <1>4, <1>B, <1>L
  <2>1. tasks' = [tasks EXCEPT ![h.task].status = "error"]
    BY <1>4 DEF TakeAnswer
  <2>2. h.task \in UploadTasks /\ tasks[h.task].status = "uploading"
    BY <1>0, <2>0, <1>4 DEF Busy, TasksRequest, Requests
  <2>3. /\ tasks' \in TaskRecords
        /\ tasks'[h.task].status = "error"
        /\ \A u \in UploadTasks : tasks'[u].next = tasks[u].next
        /\ \A u \in UploadTasks \ {h.task} : tasks'[u] = tasks[u]
    BY <1>0, <2>0, <2>1, <2>2, NewStatus DEF Quiet
  <2>4. \A u \in UploadTasks : tasks'[u].status \notin Going
    BY <1>0, <2>0, <2>3 DEF Busy, TasksRequest
  <2>5. AllAnswered' /\ GoingOwn' /\ OneGoes'
    BY <2>4 DEF AllAnswered, GoingOwn, OneGoes
  <2>6. UploadTypes' /\ FromStart' /\ ShownDone' /\ DoneIsWhole'
    <3>1. UploadTypes' /\ FromStart'
      BY <1>0, <1>1, <2>2, <2>3 DEF Quiet, UploadTypes, FromStart
    <3>2. ShownDone' /\ DoneIsWhole'
      BY <1>0, <2>0, <1>1, <2>2, <2>3 DEF Quiet, UploadTypes, ShownDone, DoneIsWhole, FileOf
    <3> QED BY <3>1, <3>2
  <2> QED BY <1>L, <2>0, <2>5, <2>6 DEF Watched, Quiet
<1> QED BY <1>0, <1>2, <1>3, <1>4 DEF Requests

\* After a crash of the daemon a client that waited has failed its task.
LEMMA CrashUploadsInv ==
  ASSUME Watched, UploadCrash
  PROVE  Watched'
<1> USE UploadsAssumption DEF Indices, Going, TaskRecords
<1>2. handlers' = {} /\ UNCHANGED <<chunks, final, shown>> /\ Quiet
  BY DEF UploadCrash, Watched
<1>1. \A h \in handlers : h.live => Fresh = {h} /\ Busy(h)
  BY DEF Watched, LateDead, Fresh
<1>3. \A t \in UploadTasks :
        \/ tasks'[t] = tasks[t]
        \/ /\ \E h \in handlers : h.task = t /\ h.live
           /\ tasks'[t] = [tasks[t] EXCEPT !.status = "error"]
  BY DEF UploadCrash, Of
<1>4. tasks' \in TaskRecords
  BY <1>2 DEF UploadCrash, Quiet, UploadTypes
<1>5. \A t \in UploadTasks :
        /\ tasks'[t].next = tasks[t].next
        /\ \/ tasks'[t].status = tasks[t].status
           \/ tasks[t].status = "uploading" /\ tasks'[t].status = "error"
  <2> TAKE t \in UploadTasks
  <2>1. CASE tasks'[t] = tasks[t]
    BY <2>1
  <2>2. ASSUME NEW h \in handlers, h.task = t, h.live,
               tasks'[t] = [tasks[t] EXCEPT !.status = "error"]
        PROVE  /\ tasks'[t].next = tasks[t].next
               /\ tasks[t].status = "uploading" /\ tasks'[t].status = "error"
    <3>1. tasks[t].status = "uploading"
      BY <1>1, <2>2 DEF Busy, TasksRequest
    <3> QED BY <1>2, <2>2, <3>1 DEF Quiet, UploadTypes
  <2> QED BY <1>3, <2>1, <2>2
<1>6. AllAnswered'
  <2>1. CASE Fresh = {} /\ AllAnswered
    BY <1>2, <1>5, <2>1 DEF AllAnswered, FileOf
  <2>2. ASSUME NEW h \in handlers, Fresh = {h}, Busy(h) PROVE AllAnswered'
    BY <1>2, <1>5, <2>2 DEF AllAnswered, Busy, TasksRequest, Requests
  <2> QED BY <2>1, <2>2 DEF Watched
<1>9. LateDead' /\ Fresh' = {}
  BY <1>2 DEF LateDead, Fresh
<1>7. UploadTypes' /\ OneGoes' /\ FromStart'
  BY <1>2, <1>4, <1>5 DEF Quiet, UploadTypes, OneGoes, FromStart
<1>8. GoingOwn' /\ ShownDone' /\ DoneIsWhole'
  BY <1>2, <1>5 DEF Quiet, UploadTypes, GoingOwn, Own, ShownDone, DoneIsWhole, FileOf
<1> QED BY <1>6, <1>7, <1>8, <1>9 DEF Watched, Quiet

\* Every step of an upload keeps the invariant.
LEMMA NextUploadsInv ==
  ASSUME UploadsInv, [UploadsNext]_uploadVars
  PROVE  UploadsInv'
<1>0. met => met'
  BY DEF UploadsNext, uploadVars, StartUpload, SendChunk, CompleteTask, PauseTask,
         ConnectionBreaks, CancelTask, ChunkedUpload, TakeAnswer, UploadCrash
<1> SUFFICES ASSUME Watched, ~met' PROVE Watched'
  BY <1>0 DEF UploadsInv
<1>1. CASE UNCHANGED uploadVars
  <2>1. Quiet' /\ LateDead' /\ Fresh' = Fresh /\ (AllAnswered => AllAnswered')
    BY <1>1 DEF uploadVars, Watched, Quiet, UploadTypes, OneGoes, FromStart, GoingOwn, Own,
                ShownDone, DoneIsWhole, AllAnswered, LateDead, Fresh
  <2>2. ASSUME NEW h, Busy(h) PROVE Busy(h)'
    BY <1>1, <2>2 DEF uploadVars, Busy, TasksRequest, RequestOwn, JoinedOwn, Own
  <2> QED BY <1>1, <2>1, <2>2 DEF Watched, uploadVars
<1>2. CASE UploadsNext
  BY <1>2, DesktopUploadsInv, AbortsUploadsInv, HandlerUploadsInv, AnswerUploadsInv,
     CrashUploadsInv DEF UploadsNext
<1> QED BY <1>1, <1>2

\* As long as the requests of a name do not meet, the file that the desktop
\* showed as done is whole: whatever is paused, resumed, cancelled, left
\* behind or broken off.
THEOREM UploadsWhole == UploadsSpec => []WholeUnlessMet
<1>1. UploadsInv /\ [UploadsNext]_uploadVars => UploadsInv'
  BY NextUploadsInv
<1>2. UploadsInv => WholeUnlessMet
  BY DEF UploadsInv, Watched, Quiet, WholeUnlessMet
<1> QED BY InitUploadsInv, <1>1, <1>2, PTL DEF UploadsSpec
-----------------------------------------------------------------------------
(* Theorems about FileMoves, for every set of shares, names and clients.      *)

Pastes == {"copy", "cut"}

TransferRecords ==
  [client : FileClients, op : Pastes \cup {"delete", "upload"}, src : Folders, dest : Folders,
   pc : {"enter", "list", "copy", "removeList", "remove", "create", "write"},
   todo : SUBSET FileNames, file : FileNames \cup {NoName}, in : Nat, out : Nat,
   intact : BOOLEAN]

FilesTypes ==
  /\ folders \subseteq Folders
  /\ names \in [Folders -> [FileNames -> Nat]]
  /\ whole \subseteq Nat \ {NoInode}
  /\ transfers \subseteq TransferRecords
  /\ stored \subseteq FileNames \ Links

\* Whether a request makes its destination: no other one may write there.
Owns(r) == r.op = "upload" \/ (r.op \in Pastes /\ r.src # r.dest)

Copies(r) == r.pc = "copy" /\ r.file # NoName

\* Where a request of each kind can be, and when it has files open.
Phase(r) ==
  /\ r.op \in Pastes => /\ r.pc \in {"enter", "list", "copy", "removeList", "remove"}
                        /\ r.pc \in {"enter", "list", "copy"} => r.src # r.dest
  /\ r.pc \in {"enter", "list"} => r.file = NoName
  /\ r.op = "delete" => r.pc \in {"removeList", "remove"}
  /\ r.op = "upload" => r.pc \in {"create", "write"} /\ r.src = r.dest /\ r.file \in FileNames \ Links
  /\ r.out # NoInode <=> Copies(r) \/ r.pc = "write"
  /\ Copies(r) => r.in # NoInode

\* A client has one request, and no request goes where another one writes.
Orderly ==
  /\ \A r \in transfers : Phase(r)
  /\ \A r, s \in transfers : r.client = s.client => r = s
  /\ \A r, s \in transfers :
       r # s /\ Owns(r) /\ s.op # "delete" => r.dest \notin {s.src, s.dest}

\* No inode has two names, and a folder that does not exist has no files.
Inodes ==
  /\ \A p, q \in Folders, f, g \in FileNames :
       names[p][f] = names[q][g] /\ names[p][f] # NoInode => p = q /\ f = g
  /\ \A p \in Folders \ folders, f \in FileNames : names[p][f] = NoInode

\* The file that a request writes has no other name and no other writer.
Out(r) ==
  r.out # NoInode =>
    /\ r.out \notin whole
    /\ \A p \in Folders, f \in FileNames : names[p][f] = r.out => p = r.dest /\ f = r.file
    /\ names[r.dest][r.file] \in {r.out, NoInode}
    /\ \A s \in transfers : s.out = r.out => s = r

\* The file that a request reads is the one its source names, if any.
In(r) ==
  Copies(r) =>
    /\ names[r.src][r.file] \in {r.in, NoInode}
    /\ names[r.src][r.file] = r.in /\ r.in \in whole => r.intact

\* What a cut has copied by the time it removes its source.
Spares(r, f, p) ==
  r.op \in Pastes =>
    /\ r.dest # p
    /\ r.op = "cut" /\ r.pc = "copy" /\ r.src = p =>
         \/ f \in r.todo
         \/ f = r.file /\ names[r.dest][f] = r.out
         \/ names[r.dest][f] \in whole

\* A whole file in a folder that no request is about to clear.
Kept(f, p) == names[p][f] \in whole /\ \A r \in transfers : Spares(r, f, p)

KeptSomewhere == \A f \in stored : \E p \in Folders : Kept(f, p)

FilesInv ==
  /\ FilesTypes /\ Orderly /\ Inodes
  /\ \A r \in transfers : Out(r) /\ In(r)
  /\ KeptSomewhere

-----------------------------------------------------------------------------
(* Requests *)

\* A request that goes on keeps what it owns, or gives it up for its source.
LEMMA OrderlyBecomes ==
  ASSUME Orderly, NEW r \in transfers, NEW s, Becomes(r, s), Phase(s),
         s.client = r.client, s.op = r.op, s.src = r.src, s.dest \in {r.src, r.dest},
         Owns(s) => Owns(r) /\ s.dest = r.dest
  PROVE  Orderly'
BY DEF Orderly, Becomes, Owns, Phase, Copies

\* A request that ends leaves the others as they are.
LEMMA OrderlyResponds ==
  ASSUME Orderly, transfers' \subseteq transfers
  PROVE  Orderly'
BY DEF Orderly, Owns, Phase, Copies

\* A new request goes nowhere that another one owns.
LEMMA OrderlyBegins ==
  ASSUME Orderly, NEW s, transfers' = transfers \cup {s}, Phase(s), Idle(s.client),
         \A r \in transfers : Owns(r) /\ s.op # "delete" => r.dest \notin {s.src, s.dest},
         \A r \in transfers : Owns(s) /\ r.op # "delete" => s.dest \notin {r.src, r.dest}
  PROVE  Orderly'
BY DEF Orderly, Owns, Phase, Copies, Idle

\* As long as no file changes, only new states of requests have to be looked at.
LEMMA FilesUntouched ==
  ASSUME FilesInv, UNCHANGED <<names, whole, stored>>, FilesTypes', Orderly',
         \A p \in Folders \ folders', f \in FileNames : names[p][f] = NoInode,
         \A s \in transfers' : s \in transfers \/ (s.out = NoInode /\ ~Copies(s)),
         \A s \in transfers', f \in stored, p \in Folders : Kept(f, p) => Spares(s, f, p)
  PROVE  FilesInv'
<1>1. Inodes'
  BY DEF FilesInv, Inodes
<1>2. ASSUME NEW s \in transfers' PROVE Out(s)' /\ In(s)'
  BY <1>2 DEF FilesInv, Out, In, Copies
<1>3. ASSUME NEW f \in stored PROVE \E p \in Folders : Kept(f, p)'
  <2>1. PICK p \in Folders : Kept(f, p)
    BY DEF FilesInv, KeptSomewhere
  <2>2. \A s \in transfers' : Spares(s, f, p)
    BY <2>1
  <2> QED BY <2>1, <2>2 DEF Kept, Spares
<1> QED BY <1>1, <1>2, <1>3 DEF FilesInv, KeptSomewhere

\* Pasting: the destination does not exist, and nobody names it.
LEMMA PasteFilesInv ==
  ASSUME Careful, FilesInv, NEW c \in FileClients, NEW op \in Pastes,
         NEW src \in Folders, NEW dest \in Folders, FilesPaste(c, op, src, dest)
  PROVE  FilesInv'
<1>1. PICK s : s = Request(c, op, src, dest, "enter")
  OBVIOUS
<1>2. /\ transfers' = transfers \cup {s} /\ UNCHANGED <<folders, names, whole, stored>>
      /\ Idle(c) /\ dest \notin folders /\ src \in folders
      /\ \A r \in transfers : dest \notin {r.src, r.dest} /\ src # r.dest
  BY <1>1 DEF FilesPaste, Apart
<1>3. /\ s.client = c /\ s.op = op /\ s.src = src /\ s.dest = dest /\ s.pc = "enter"
      /\ s.file = NoName /\ s.in = NoInode /\ s.out = NoInode
      /\ s \in TransferRecords
  BY <1>1 DEF Request, TransferRecords, NoInode
<1>4. FilesTypes'
  BY <1>2, <1>3 DEF FilesInv, FilesTypes
<1>5. Orderly'
  <2>1. Phase(s)
    BY <1>2, <1>3 DEF Phase, Copies, Pastes
  <2> QED BY <1>2, <1>3, <2>1, OrderlyBegins DEF FilesInv
<1>6. ASSUME NEW f \in stored, NEW p \in Folders, Kept(f, p) PROVE Spares(s, f, p)
  <2>1. p # dest
    BY <1>2, <1>6 DEF FilesInv, FilesTypes, Inodes, Kept
  <2> QED BY <1>3, <2>1 DEF Spares
<1>7. \A t \in transfers' : t \in transfers \/ (t.out = NoInode /\ ~Copies(t))
  BY <1>2, <1>3 DEF Copies
<1>8. \A t \in transfers', f \in stored, p \in Folders : Kept(f, p) => Spares(t, f, p)
  BY <1>2, <1>6 DEF Kept
<1>9. \A p \in Folders \ folders', f \in FileNames : names[p][f] = NoInode
  BY <1>2 DEF FilesInv, Inodes
<1> QED BY <1>2, <1>4, <1>5, <1>7, <1>8, <1>9, FilesUntouched

\* A folder to delete.
LEMMA DeleteFilesInv ==
  ASSUME FilesInv, NEW c \in FileClients, NEW p \in Folders, FilesDelete(c, p)
  PROVE  FilesInv'
<1>1. PICK s : s = Request(c, "delete", p, p, "removeList")
  OBVIOUS
<1>2. /\ transfers' = transfers \cup {s} /\ UNCHANGED <<folders, names, whole, stored>>
      /\ Idle(c)
  BY <1>1 DEF FilesDelete
<1>3. /\ s.client = c /\ s.op = "delete" /\ s.src = p /\ s.dest = p /\ s.pc = "removeList"
      /\ s.file = NoName /\ s.in = NoInode /\ s.out = NoInode
      /\ s \in TransferRecords
  BY <1>1 DEF Request, TransferRecords, NoInode
<1>4. FilesTypes'
  BY <1>2, <1>3 DEF FilesInv, FilesTypes
<1>5. Orderly'
  <2>1. Phase(s) /\ ~Owns(s)
    BY <1>2, <1>3 DEF Phase, Copies, Pastes, Owns
  <2> QED BY <1>2, <1>3, <2>1, OrderlyBegins DEF FilesInv
<1>7. \A t \in transfers' : t \in transfers \/ (t.out = NoInode /\ ~Copies(t))
  BY <1>2, <1>3 DEF Copies
<1>8. \A t \in transfers', f \in stored, q \in Folders : Kept(f, q) => Spares(t, f, q)
  BY <1>2, <1>3 DEF Kept, Spares, Pastes
<1>9. \A q \in Folders \ folders', f \in FileNames : names[q][f] = NoInode
  BY <1>2 DEF FilesInv, Inodes
<1> QED BY <1>2, <1>4, <1>5, <1>7, <1>8, <1>9, FilesUntouched

\* A file to upload, to a folder where nobody pastes.
LEMMA UploadFilesInv ==
  ASSUME Careful, FilesInv, NEW c \in FileClients, NEW p \in Folders,
         NEW g \in FileNames \ Links, FileUpload(c, p, g)
  PROVE  FilesInv'
<1>1. PICK s : s = [Request(c, "upload", p, p, "create") EXCEPT !.file = g]
  OBVIOUS
<1>2. /\ transfers' = transfers \cup {s} /\ UNCHANGED <<names, whole, stored>>
      /\ Idle(c) /\ folders' = folders \cup {p}
      /\ \A r \in transfers : p \notin {r.src, r.dest}
  BY <1>1 DEF FileUpload
<1>3. /\ s.client = c /\ s.op = "upload" /\ s.src = p /\ s.dest = p /\ s.pc = "create"
      /\ s.file = g /\ s.in = NoInode /\ s.out = NoInode
      /\ s \in TransferRecords
  BY <1>1 DEF Request, TransferRecords, NoInode
<1>4. FilesTypes'
  BY <1>2, <1>3 DEF FilesInv, FilesTypes
<1>5. Orderly'
  <2>1. Phase(s)
    BY <1>2, <1>3 DEF Phase, Copies, Pastes
  <2> QED BY <1>2, <1>3, <2>1, OrderlyBegins DEF FilesInv
<1>7. \A t \in transfers' : t \in transfers \/ (t.out = NoInode /\ ~Copies(t))
  BY <1>2, <1>3 DEF Copies
<1>8. \A t \in transfers', f \in stored, q \in Folders : Kept(f, q) => Spares(t, f, q)
  BY <1>2, <1>3 DEF Kept, Spares, Pastes
<1>9. \A q \in Folders \ folders', f \in FileNames : names[q][f] = NoInode
  BY <1>2 DEF FilesInv, Inodes
<1> QED BY <1>2, <1>4, <1>5, <1>7, <1>8, <1>9, FilesUntouched

\* A request is answered, or all of them are dropped.
LEMMA RespondFilesInv ==
  ASSUME FilesInv, UNCHANGED <<names, whole, stored>>, transfers' \subseteq transfers,
         folders' \subseteq Folders,
         \A p \in Folders \ folders', f \in FileNames : names[p][f] = NoInode
  PROVE  FilesInv'
<1>1. FilesTypes'
  BY DEF FilesInv, FilesTypes
<1>2. Orderly'
  BY OrderlyResponds DEF FilesInv
<1>3. \A s \in transfers', f \in stored, p \in Folders : Kept(f, p) => Spares(s, f, p)
  BY DEF Kept
<1> QED BY <1>1, <1>2, <1>3, FilesUntouched

\* A request goes on without touching a file.
LEMMA BecomesFilesInv ==
  ASSUME FilesInv, UNCHANGED <<names, whole, stored>>, NEW r \in transfers,
         NEW s \in TransferRecords, Becomes(r, s), folders \subseteq folders',
         folders' \subseteq Folders, Phase(s), s.out = NoInode, ~Copies(s),
         s.client = r.client, s.op = r.op, s.src = r.src, s.dest \in {r.src, r.dest},
         Owns(s) => Owns(r) /\ s.dest = r.dest,
         \A f \in stored, p \in Folders : Kept(f, p) => Spares(s, f, p)
  PROVE  FilesInv'
<1>1. FilesTypes'
  BY DEF FilesInv, FilesTypes, Becomes
<1>2. Orderly'
  BY OrderlyBecomes DEF FilesInv
<1>3. \A t \in transfers', f \in stored, p \in Folders : Kept(f, p) => Spares(t, f, p)
  BY DEF Kept, Becomes
<1>4. \A t \in transfers' : t \in transfers \/ (t.out = NoInode /\ ~Copies(t))
  BY DEF Becomes
<1>5. \A p \in Folders \ folders', f \in FileNames : names[p][f] = NoInode
  BY DEF FilesInv, Inodes
<1> QED BY <1>1, <1>2, <1>3, <1>4, <1>5, FilesUntouched

\* A copy that fails goes on with the removal of what it made.
LEMMA FailsFilesInv ==
  ASSUME FilesInv, UNCHANGED <<folders, names, whole, stored>>, NEW r \in transfers,
         r.pc \in {"enter", "list", "copy"}, CopyFails(r)
  PROVE  FilesInv'
<1>1. PICK s : s = [Closed(r) EXCEPT !.pc = "removeList", !.todo = {}]
  OBVIOUS
<1>2. r \in TransferRecords /\ Phase(r) /\ Orderly /\ folders \subseteq Folders
  BY DEF FilesInv, FilesTypes, Orderly
<1>3. /\ s \in TransferRecords /\ s.client = r.client /\ s.op = r.op /\ s.src = r.src
      /\ s.dest = r.dest /\ s.pc = "removeList" /\ s.out = NoInode
  BY <1>1, <1>2 DEF Closed, TransferRecords, NoInode, NoName
<1>4. Becomes(r, s) /\ Phase(s) /\ ~Copies(s) /\ (Owns(s) => Owns(r))
  BY <1>1, <1>2, <1>3 DEF CopyFails, Phase, Copies, Owns
<1>5. \A f \in stored, p \in Folders : Kept(f, p) => Spares(s, f, p)
  BY <1>3 DEF Kept, Spares
<1> QED BY <1>2, <1>3, <1>4, <1>5, BecomesFilesInv

\* The copy begins: the source is listed without its links.
LEMMA EnterListFilesInv ==
  ASSUME FilesInv, NEW r \in transfers, Enter(r) \/ List(r)
  PROVE  FilesInv'
<1>1. r \in TransferRecords /\ Phase(r) /\ Orderly /\ folders \subseteq Folders
  BY DEF FilesInv, FilesTypes, Orderly
<1>2. CASE Enter(r) /\ r.src \in folders
  <2>1. PICK s : s = [r EXCEPT !.pc = "list"]
    OBVIOUS
  <2>2. /\ s \in TransferRecords /\ s.client = r.client /\ s.op = r.op /\ s.src = r.src
        /\ s.dest = r.dest /\ s.pc = "list" /\ s.out = r.out /\ s.file = r.file
    BY <1>1, <2>1 DEF TransferRecords
  <2>3. r.pc = "enter" /\ folders' = folders \cup {r.dest} /\ Becomes(r, s)
        /\ UNCHANGED <<names, whole, stored>>
    BY <1>2, <2>1 DEF Enter
  <2>4. Phase(s) /\ ~Copies(s) /\ (Owns(s) => Owns(r)) /\ s.out = NoInode
    BY <1>1, <2>2, <2>3 DEF Phase, Copies, Owns
  <2>5. \A f \in stored, p \in Folders : Kept(f, p) => Spares(s, f, p)
    BY <2>2 DEF Kept, Spares
  <2>6. folders' \subseteq Folders /\ folders \subseteq folders'
    BY <1>1, <2>3 DEF TransferRecords
  <2> QED BY <2>2, <2>3, <2>4, <2>5, <2>6, BecomesFilesInv
<1>3. CASE List(r) /\ r.src \in folders
  <2>1. PICK s : s = [r EXCEPT !.pc = "copy", !.todo = Has(r.src) \ Links]
    OBVIOUS
  <2>2. /\ s \in TransferRecords /\ s.client = r.client /\ s.op = r.op /\ s.src = r.src
        /\ s.dest = r.dest /\ s.pc = "copy" /\ s.out = r.out /\ s.todo = Has(r.src) \ Links
        /\ s.file = r.file
    BY <1>1, <2>1 DEF TransferRecords, Has
  <2>3. r.pc = "list" /\ Becomes(r, s) /\ UNCHANGED <<folders, names, whole, stored>>
    BY <1>3, <2>1 DEF List
  <2>4. Phase(s) /\ ~Copies(s) /\ (Owns(s) => Owns(r)) /\ s.out = NoInode
    BY <1>1, <2>2, <2>3 DEF Phase, Copies, Owns
  <2>5. \A f \in stored, p \in Folders : Kept(f, p) => Spares(s, f, p)
    <3> TAKE f \in stored, p \in Folders
    <3>1. Kept(f, p) => names[p][f] # NoInode /\ f \in FileNames \ Links
      BY DEF Kept, FilesInv, FilesTypes
    <3> QED BY <2>2, <3>1 DEF Kept, Spares, Has
  <2> QED BY <1>1, <2>2, <2>3, <2>4, <2>5, BecomesFilesInv
<1>4. CASE (Enter(r) \/ List(r)) /\ r.src \notin folders
  BY <1>4, FailsFilesInv DEF Enter, List
<1> QED BY <1>2, <1>3, <1>4

\* The copy is done. When it was a cut, every file that counts is in the new
\* folder by now, which is nobody else's.
LEMMA CopyDoneFilesInv ==
  ASSUME FilesInv, NEW r \in transfers, CopyDone(r)
  PROVE  FilesInv'
<1>1. r \in TransferRecords /\ Phase(r) /\ Orderly /\ FilesTypes
  BY DEF FilesInv, FilesTypes, Orderly
<1>2. r.pc = "copy" /\ r.file = NoName /\ r.todo = {} /\ UNCHANGED <<folders, names, whole, stored>>
  BY DEF CopyDone
<1>3. CASE r.op = "cut"
  <2>1. PICK s : s = [r EXCEPT !.pc = "removeList", !.dest = r.src]
    OBVIOUS
  <2>2. /\ s \in TransferRecords /\ s.client = r.client /\ s.op = "cut" /\ s.src = r.src
        /\ s.dest = r.src /\ s.pc = "removeList" /\ s.out = r.out /\ s.file = r.file
    BY <1>1, <1>3, <2>1 DEF TransferRecords
  <2>3. Becomes(r, s)
    BY <1>3, <2>1 DEF CopyDone
  <2>4. Phase(s) /\ ~Copies(s) /\ ~Owns(s) /\ s.out = NoInode
    BY <1>1, <1>2, <1>3, <2>2 DEF Phase, Copies, Owns
  <2>5. FilesTypes'
    BY <1>1, <1>2, <2>2, <2>3 DEF FilesTypes, Becomes
  <2>6. Orderly'
    BY <1>1, <1>3, <2>2, <2>3, <2>4, OrderlyBecomes
  <2>7. Inodes'
    BY <1>2 DEF FilesInv, Inodes
  <2>8. ASSUME NEW t \in transfers' PROVE Out(t)' /\ In(t)'
    BY <1>2, <2>3, <2>4, <2>8 DEF FilesInv, Out, In, Copies, Becomes
  <2>9. ASSUME NEW f \in stored PROVE \E p \in Folders : Kept(f, p)'
    <3>1. PICK p \in Folders : Kept(f, p)
      BY DEF FilesInv, KeptSomewhere
    <3>2. CASE p # r.src
      BY <1>2, <2>2, <2>3, <3>1, <3>2 DEF Kept, Spares, Becomes
    <3>3. CASE p = r.src
      <4>1. f # NoName /\ r.dest \in Folders
        BY <1>1, FileMovesAssumption DEF FilesTypes, NoName, TransferRecords
      <4>2. names[r.dest][f] \in whole
        BY <1>2, <1>3, <3>1, <3>3, <4>1 DEF Kept, Spares, Pastes
      <4>3. \A t \in transfers \ {r} : t.op \in Pastes => r.dest \notin {t.src, t.dest}
        BY <1>1, <1>2, <1>3 DEF Orderly, Owns, Phase, Pastes
      <4>4. r.src # r.dest
        BY <1>1, <1>2, <1>3 DEF Phase, Pastes
      <4>5. Kept(f, r.dest)'
        BY <1>2, <2>2, <2>3, <4>2, <4>3, <4>4 DEF Kept, Spares, Becomes
      <4> QED BY <4>1, <4>5
    <3> QED BY <3>2, <3>3
  <2> QED BY <1>2, <2>5, <2>6, <2>7, <2>8, <2>9 DEF FilesInv, KeptSomewhere
<1>4. CASE r.op # "cut"
  <2>1. transfers' \subseteq transfers
    BY <1>4 DEF CopyDone, Respond
  <2> QED BY <1>1, <1>2, <2>1, RespondFilesInv DEF FilesInv, FilesTypes, Inodes
<1> QED BY <1>3, <1>4

\* A folder is listed before it is emptied, and goes when it is empty.
LEMMA RemoveListFilesInv ==
  ASSUME FilesInv, NEW r \in transfers, RemoveList(r) \/ RemoveFolder(r) \/ RemoveBreaks(r)
  PROVE  FilesInv'
<1>1. r \in TransferRecords /\ Phase(r) /\ Orderly /\ FilesTypes /\ Inodes
  BY DEF FilesInv, FilesTypes, Orderly
<1>2. CASE RemoveList(r) /\ r.dest \in folders
  <2>1. PICK s : s = [r EXCEPT !.pc = "remove", !.todo = Has(r.dest)]
    OBVIOUS
  <2>2. /\ s \in TransferRecords /\ s.client = r.client /\ s.op = r.op /\ s.src = r.src
        /\ s.dest = r.dest /\ s.pc = "remove" /\ s.out = r.out /\ s.file = r.file
    BY <1>1, <2>1 DEF TransferRecords, Has
  <2>3. r.pc = "removeList" /\ Becomes(r, s) /\ UNCHANGED <<folders, names, whole, stored>>
    BY <1>2, <2>1 DEF RemoveList
  <2>4. Phase(s) /\ ~Copies(s) /\ (Owns(s) => Owns(r)) /\ s.out = NoInode
    BY <1>1, <2>2, <2>3 DEF Phase, Copies, Owns
  <2>5. \A f \in stored, p \in Folders : Kept(f, p) => Spares(s, f, p)
    BY <2>2 DEF Kept, Spares
  <2>6. folders' \subseteq Folders /\ folders \subseteq folders'
    BY <1>1, <2>3 DEF FilesTypes
  <2> QED BY <2>2, <2>3, <2>4, <2>5, <2>6, BecomesFilesInv
<1>3. CASE RemoveFolder(r)
  <2>1. /\ UNCHANGED <<names, whole, stored>> /\ transfers' \subseteq transfers
        /\ folders' = IF Has(r.dest) = {} THEN folders \ {r.dest} ELSE folders
    BY <1>3 DEF RemoveFolder, Respond
  <2>2. \A p \in Folders \ folders', f \in FileNames : names[p][f] = NoInode
    BY <1>1, <2>1 DEF Inodes, Has
  <2>3. folders' \subseteq Folders
    BY <1>1, <2>1 DEF FilesTypes
  <2> QED BY <2>1, <2>2, <2>3, RespondFilesInv
<1>4. CASE RemoveBreaks(r) \/ (RemoveList(r) /\ r.dest \notin folders)
  <2>1. UNCHANGED <<folders, names, whole, stored>> /\ transfers' \subseteq transfers
    BY <1>4 DEF RemoveBreaks, RemoveList, Respond
  <2> QED BY <1>1, <2>1, RespondFilesInv DEF FilesTypes, Inodes
<1> QED BY <1>2, <1>3, <1>4

\* A folder made, and a crash of the daemon, touch no file.
LEMMA MkdirFilesInv ==
  ASSUME FilesInv, (\E p \in Folders : FilesMkdir(p)) \/ FileCrash
  PROVE  FilesInv'
<1>1. UNCHANGED <<names, whole, stored>> /\ transfers' \subseteq transfers
      /\ folders \subseteq folders' /\ folders' \subseteq Folders
  BY DEF FilesMkdir, FileCrash, FilesInv, FilesTypes
<1> QED BY <1>1, RespondFilesInv DEF FilesInv, Inodes

-----------------------------------------------------------------------------
(* Files *)

\* A rename moves the files, and with them what keeps them.
LEMMA RenameFilesInv ==
  ASSUME Careful, FilesInv, NEW p \in Folders, NEW q \in Folders, Rename(p, q)
  PROVE  FilesInv'
<1>1. /\ p # q /\ q \notin folders /\ p \in folders /\ UNCHANGED <<whole, transfers, stored>>
      /\ \A r \in transfers : q \notin {r.src, r.dest} /\ p # r.dest
      /\ folders' = (folders \ {p}) \cup {q}
      /\ names' = [names EXCEPT ![p] = names[q], ![q] = names[p]]
  BY DEF Rename, Apart
<1>2. FilesTypes /\ Orderly /\ Inodes /\ (\A r \in transfers : Out(r) /\ In(r)) /\ KeptSomewhere
  BY DEF FilesInv
<1>3. /\ names' \in [Folders -> [FileNames -> Nat]]
      /\ \A f \in FileNames : names'[p][f] = NoInode /\ names'[q][f] = names[p][f]
      /\ \A a \in Folders \ {p, q} : names'[a] = names[a]
  BY <1>1, <1>2 DEF FilesTypes, Inodes
<1>4. FilesTypes' /\ Orderly'
  BY <1>1, <1>2, <1>3 DEF FilesTypes, Orderly
<1>5. Inodes'
  <2>1. ASSUME NEW a \in Folders, NEW b \in Folders, NEW f \in FileNames, NEW g \in FileNames,
               names'[a][f] = names'[b][g], names'[a][f] # NoInode
        PROVE  a = b /\ f = g
    BY <1>2, <1>3, <2>1 DEF Inodes
  <2>2. ASSUME NEW a \in Folders \ folders', NEW f \in FileNames
        PROVE  names'[a][f] = NoInode
    BY <1>1, <1>2, <1>3, <2>2 DEF Inodes
  <2> QED BY <2>1, <2>2 DEF Inodes
<1>6. ASSUME NEW r \in transfers PROVE Out(r)' /\ In(r)'
  <2>0. r \in TransferRecords /\ Phase(r)
    BY <1>2 DEF FilesTypes, Orderly
  <2>1. Out(r)'
    BY <1>1, <1>2, <1>3, <2>0 DEF Out, TransferRecords
  <2>2. Copies(r) => names'[r.src][r.file] \in {names[r.src][r.file], NoInode}
    BY <1>1, <1>3, <2>0 DEF TransferRecords, Copies
  <2>3. In(r)'
    BY <1>1, <1>2, <2>0, <2>2 DEF In, Copies, Phase
  <2> QED BY <2>1, <2>3
<1>7. ASSUME NEW f \in stored PROVE \E a \in Folders : Kept(f, a)'
  <2>0. f \in FileNames
    BY <1>2 DEF FilesTypes
  <2>1. PICK a \in Folders : Kept(f, a)
    BY <1>2 DEF KeptSomewhere
  <2>2. a # q
    BY <1>1, <1>2, <2>0, <2>1 DEF Kept, Inodes, FilesTypes
  <2>3. CASE a = p
    <3>1. Kept(f, q)'
      BY <1>1, <1>3, <2>0, <2>1, <2>3 DEF Kept, Spares
    <3> QED BY <3>1
  <2>4. CASE a # p
    <3>1. names'[a] = names[a] /\ \A r \in transfers : r \in TransferRecords
      BY <1>2, <1>3, <2>2, <2>4 DEF FilesTypes
    <3>2. \A r \in transfers : names'[r.dest] = names[r.dest]
      BY <1>1, <1>3, <3>1 DEF TransferRecords
    <3>3. ASSUME NEW r \in transfers PROVE Spares(r, f, a)'
      <4>1. names'[r.dest] = names[r.dest] /\ whole' = whole /\ Spares(r, f, a)
        BY <1>1, <2>1, <3>2 DEF Kept
      <4> QED BY <4>1 DEF Spares
    <3>4. Kept(f, a)'
      BY <1>1, <2>1, <3>1, <3>3 DEF Kept
    <3> QED BY <3>4
  <2> QED BY <2>3, <2>4
<1> QED BY <1>1, <1>4, <1>5, <1>6, <1>7 DEF FilesInv, KeptSomewhere

\* A name goes, in a folder that no other request fills. If its file counted,
\* that folder was not where it is kept.
LEMMA FilesUnlinked ==
  ASSUME FilesInv, NEW r \in transfers, NEW g \in FileNames, Unlink(r, r.dest, g),
         UNCHANGED folders, stored' \subseteq stored, transfers' \subseteq TransferRecords,
         Orderly',
         \A t \in transfers' : t \in transfers \/ (t.out = NoInode /\ ~Copies(t)),
         \A t \in transfers' \ transfers : t.op \in Pastes =>
           r.op \in Pastes /\ t.pc # "copy" /\ t.dest = r.dest,
         g \in stored' => /\ ~Kept(g, r.dest)
                          /\ \A t \in transfers' : t.op = "cut" /\ t.pc = "copy" => t.dest # r.dest
  PROVE  FilesInv'
<1>1. r \in TransferRecords /\ r.dest \in Folders /\ FilesTypes /\ Inodes
  BY DEF FilesInv, FilesTypes, TransferRecords
<1>2. /\ names' \in [Folders -> [FileNames -> Nat]]
      /\ \A p \in Folders, f \in FileNames :
           names'[p][f] = IF p = r.dest /\ f = g THEN NoInode ELSE names[p][f]
      /\ whole' \subseteq whole /\ whole \ {names[r.dest][g]} \subseteq whole'
  BY <1>1 DEF Unlink, FilesTypes, NoInode
<1>3. FilesTypes'
  BY <1>1, <1>2 DEF FilesTypes
<1>4. Inodes'
  BY <1>1, <1>2 DEF Inodes
<1>5. ASSUME NEW t \in transfers' PROVE Out(t)' /\ In(t)'
  <2>1. CASE t \in transfers
    <3>1. Out(t) /\ In(t) /\ t \in TransferRecords /\ Phase(t)
      BY <2>1 DEF FilesInv, FilesTypes, Orderly
    <3>2. Out(t)'
      <4>1. SUFFICES ASSUME t.out # NoInode PROVE Out(t)'
        BY DEF Out
      <4>2. t.out \notin whole' /\ \A u \in transfers' : u.out = t.out => u = t
        BY <1>2, <3>1, <4>1 DEF Out
      <4>3. \A p \in Folders, f \in FileNames : names'[p][f] = t.out => p = t.dest /\ f = t.file
        BY <1>2, <3>1, <4>1 DEF Out
      <4>4. names'[t.dest][t.file] \in {t.out, NoInode}
        <5>1. t.dest \in Folders /\ t.file \in FileNames
          BY <3>1, <4>1 DEF TransferRecords, Phase, Copies
        <5> QED BY <1>2, <3>1, <4>1, <5>1 DEF Out
      <4> QED BY <4>2, <4>3, <4>4 DEF Out
    <3>3. In(t)'
      <4>1. SUFFICES ASSUME Copies(t) PROVE In(t)'
        BY DEF In, Copies
      <4>2. t.src \in Folders /\ t.file \in FileNames /\ t.in # NoInode
        BY <3>1, <4>1 DEF TransferRecords, Phase, Copies
      <4>3. names'[t.src][t.file] \in {names[t.src][t.file], NoInode}
        BY <1>2, <4>2
      <4> QED BY <1>2, <3>1, <4>1, <4>2, <4>3 DEF In
    <3> QED BY <3>2, <3>3
  <2>2. CASE t.out = NoInode /\ ~Copies(t)
    BY <2>2 DEF Out, In, Copies
  <2> QED BY <2>1, <2>2
<1>6. ASSUME NEW f \in stored' PROVE \E p \in Folders : Kept(f, p)'
  <2>1. PICK p \in Folders : Kept(f, p)
    BY <1>6 DEF FilesInv, KeptSomewhere
  <2>2. f \in FileNames
    BY <1>3 DEF FilesTypes
  <2>3. ~(p = r.dest /\ f = g)
    BY <1>6, <2>1
  <2>4. names'[p][f] = names[p][f] /\ names'[p][f] \in whole'
    BY <1>1, <1>2, <2>1, <2>2, <2>3 DEF Kept, Inodes, FilesTypes
  <2>5. ASSUME NEW t \in transfers' PROVE Spares(t, f, p)'
    <3>1. SUFFICES ASSUME t.op \in Pastes PROVE Spares(t, f, p)'
      BY DEF Spares
    <3>2. CASE t \notin transfers
      <4>1. r.op \in Pastes /\ t.pc # "copy" /\ t.dest = r.dest
        BY <3>1, <3>2
      <4>2. p # r.dest
        BY <2>1, <4>1 DEF Kept, Spares
      <4> QED BY <4>1, <4>2 DEF Spares
    <3>3. CASE t \in transfers
      <4>1. Spares(t, f, p) /\ t.dest \in Folders
        BY <2>1, <3>3 DEF Kept, FilesInv, FilesTypes, TransferRecords
      <4>2. SUFFICES ASSUME t.op = "cut", t.pc = "copy"
                     PROVE  names'[t.dest][f] = names[t.dest][f]
                            /\ (names[t.dest][f] \in whole => names[t.dest][f] \in whole')
        BY <3>1, <4>1 DEF Spares
      <4>3. ~(t.dest = r.dest /\ f = g)
        BY <1>6, <4>2
      <4> QED BY <1>1, <1>2, <2>2, <4>1, <4>3 DEF Inodes, FilesTypes
    <3> QED BY <3>2, <3>3
  <2> QED BY <2>4, <2>5 DEF Kept
<1> QED BY <1>3, <1>4, <1>5, <1>6 DEF FilesInv, KeptSomewhere

\* What a request owns no other one that copies or uploads has in its hands.
LEMMA OwnedAlone ==
  ASSUME Orderly, NEW r \in transfers, r.op # "delete",
         NEW t \in transfers, t # r, t.pc \in {"copy", "write"}, t \in TransferRecords
  PROVE  t.dest # r.dest /\ (Owns(r) => t.src # r.dest)
<1>1. Phase(t) /\ Owns(t) /\ t.op # "delete"
  BY DEF Orderly, Owns, Phase, Pastes, TransferRecords
<1> QED BY <1>1 DEF Orderly

\* A file goes from a folder that is removed: one that was to be deleted, or
\* one that kept nothing.
LEMMA RemoveFileFilesInv ==
  ASSUME FilesInv, NEW r \in transfers, NEW g \in FileNames, RemoveFile(r, g)
  PROVE  FilesInv'
<1>1. r \in TransferRecords /\ Phase(r) /\ Orderly /\ FilesTypes
  BY DEF FilesInv, FilesTypes, Orderly
<1>2. PICK s : s = [r EXCEPT !.todo = @ \ {g}]
  OBVIOUS
<1>3. /\ s \in TransferRecords /\ s.client = r.client /\ s.op = r.op /\ s.src = r.src
      /\ s.dest = r.dest /\ s.pc = r.pc /\ s.out = r.out /\ s.file = r.file
  BY <1>1, <1>2 DEF TransferRecords
<1>4. /\ r.pc = "remove" /\ Becomes(r, s) /\ Unlink(r, r.dest, g) /\ UNCHANGED folders
      /\ stored' = IF r.op = "delete" THEN stored \ {g} ELSE stored
  BY <1>2 DEF RemoveFile
<1>5. Phase(s) /\ ~Copies(s) /\ (Owns(s) => Owns(r)) /\ s.out = NoInode
  BY <1>1, <1>3, <1>4 DEF Phase, Copies, Owns
<1>6. Orderly'
  BY <1>1, <1>3, <1>4, <1>5, OrderlyBecomes
<1>7. g \in stored' => /\ ~Kept(g, r.dest)
                       /\ \A t \in transfers' : t.op = "cut" /\ t.pc = "copy" => t.dest # r.dest
  <2>1. SUFFICES ASSUME g \in stored' PROVE
          /\ ~Kept(g, r.dest)
          /\ \A t \in transfers' : t.op = "cut" /\ t.pc = "copy" => t.dest # r.dest
    OBVIOUS
  <2>2. r.op \in Pastes
    BY <1>1, <1>4, <2>1 DEF TransferRecords, Phase, Pastes
  <2>3. ~Kept(g, r.dest)
    BY <2>2 DEF Kept, Spares
  <2>4. \A t \in transfers' : t.op = "cut" /\ t.pc = "copy" => t \in transfers \ {r}
    BY <1>3, <1>4 DEF Becomes
  <2>5. \A t \in transfers' : t.op = "cut" /\ t.pc = "copy" => t.dest # r.dest
    BY <1>1, <2>2, <2>4, OwnedAlone DEF FilesTypes, Pastes
  <2> QED BY <2>3, <2>5
<1>8. transfers' \subseteq TransferRecords /\ stored' \subseteq stored
      /\ \A t \in transfers' : t \in transfers \/ (t.out = NoInode /\ ~Copies(t))
  BY <1>1, <1>3, <1>4, <1>5 DEF Becomes, FilesTypes
<1>9. \A t \in transfers' \ transfers : t.op \in Pastes =>
        r.op \in Pastes /\ t.pc # "copy" /\ t.dest = r.dest
  BY <1>3, <1>4 DEF Becomes
<1> QED BY <1>4, <1>6, <1>7, <1>8, <1>9, FilesUnlinked

\* A file that could not be copied goes.
LEMMA CopyBreaksFilesInv ==
  ASSUME FilesInv, NEW r \in transfers, CopyBreaks(r)
  PROVE  FilesInv'
<1>1. r \in TransferRecords /\ Phase(r) /\ Orderly /\ FilesTypes
  BY DEF FilesInv, FilesTypes, Orderly
<1>2. PICK s : s = [Closed(r) EXCEPT !.pc = "removeList", !.todo = {}]
  OBVIOUS
<1>3. /\ s \in TransferRecords /\ s.client = r.client /\ s.op = r.op /\ s.src = r.src
      /\ s.dest = r.dest /\ s.pc = "removeList" /\ s.out = NoInode
  BY <1>1, <1>2 DEF Closed, TransferRecords, NoInode, NoName
<1>4. /\ r.pc = "copy" /\ r.file # NoName /\ Becomes(r, s) /\ Unlink(r, r.dest, r.file)
      /\ UNCHANGED <<folders, stored>>
  BY <1>2 DEF CopyBreaks, CopyFails
<1>5. Phase(s) /\ ~Copies(s) /\ (Owns(s) => Owns(r)) /\ r.op \in Pastes /\ r.file \in FileNames
  BY <1>1, <1>3, <1>4 DEF Phase, Copies, Owns, TransferRecords, Pastes
<1>6. Orderly'
  BY <1>1, <1>3, <1>4, <1>5, OrderlyBecomes
<1>7. ~Kept(r.file, r.dest)
  BY <1>5 DEF Kept, Spares
<1>8. \A t \in transfers' : t.op = "cut" /\ t.pc = "copy" => t.dest # r.dest
  <2>1. \A t \in transfers' : t.op = "cut" /\ t.pc = "copy" => t \in transfers \ {r}
    BY <1>3, <1>4 DEF Becomes
  <2> QED BY <1>1, <1>5, <2>1, OwnedAlone DEF FilesTypes, Pastes
<1>9. transfers' \subseteq TransferRecords
      /\ \A t \in transfers' : t \in transfers \/ (t.out = NoInode /\ ~Copies(t))
  BY <1>1, <1>3, <1>4, <1>5 DEF Becomes, FilesTypes
<1>10. \A t \in transfers' \ transfers : t.op \in Pastes =>
         r.op \in Pastes /\ t.pc # "copy" /\ t.dest = r.dest
  BY <1>3, <1>4, <1>5 DEF Becomes
<1> QED BY <1>4, <1>5, <1>6, <1>7, <1>8, <1>9, <1>10, FilesUnlinked

\* A file that could not be uploaded goes, and nobody counts on it.
LEMMA UploadBreaksFilesInv ==
  ASSUME FilesInv, NEW r \in transfers, UploadBreaks(r)
  PROVE  FilesInv'
<1>1. r \in TransferRecords /\ Phase(r) /\ Orderly /\ FilesTypes /\ Out(r)
  BY DEF FilesInv, FilesTypes, Orderly
<1>2. /\ r.pc = "write" /\ transfers' = transfers \ {r} /\ Unlink(r, r.dest, r.file)
      /\ UNCHANGED <<folders, stored>>
  BY DEF UploadBreaks, Respond
<1>3. r.op = "upload" /\ r.file \in FileNames /\ r.out # NoInode
  BY <1>1, <1>2 DEF Phase, TransferRecords, Pastes
<1>4. Orderly'
  BY <1>1, <1>2, OrderlyResponds
<1>5. ~Kept(r.file, r.dest)
  BY <1>1, <1>3 DEF Kept, Out, FilesTypes, NoInode
<1>6. \A t \in transfers' : t.op = "cut" /\ t.pc = "copy" => t.dest # r.dest
  BY <1>1, <1>2, <1>3, OwnedAlone DEF FilesTypes
<1>7. transfers' \subseteq TransferRecords
  BY <1>1, <1>2 DEF FilesTypes
<1> QED BY <1>2, <1>3, <1>4, <1>5, <1>6, <1>7, FilesUnlinked

\* The inode that a name gets is nobody's, or was the name's own.
LEMMA CreatedInode ==
  ASSUME FilesInv, NEW r \in transfers, Owns(r), r.op # "delete", r.out = NoInode,
         NEW g \in FileNames, CanCreate(r.dest, g), NEW out, out = Created(r.dest, g)
  PROVE  /\ out \in Nat \ {NoInode}
         /\ \A p \in Folders, f \in FileNames : names[p][f] = out => p = r.dest /\ f = g
         /\ \A t \in transfers : t.out # out
<1>1. r \in TransferRecords /\ r.dest \in Folders /\ Orderly /\ FilesTypes /\ Inodes
  BY DEF FilesInv, FilesTypes, TransferRecords
<1>2. CASE names[r.dest][g] = NoInode
  <2>1. out \in FreeInodes
    BY <1>2 DEF CanCreate, Created
  <2>2. out \in Nat \ {NoInode} /\ ~Named(out) /\ OpenIn(out) = {}
    BY <2>1, FileMovesAssumption DEF FreeInodes, NoInode
  <2> QED BY <2>2 DEF Named, OpenIn
<1>3. CASE names[r.dest][g] # NoInode
  <2>1. out = names[r.dest][g]
    BY <1>3 DEF Created
  <2>2. out \in Nat \ {NoInode}
    BY <1>1, <1>3, <2>1 DEF FilesTypes
  <2>3. \A p \in Folders, f \in FileNames : names[p][f] = out => p = r.dest /\ f = g
    BY <1>1, <1>3, <2>1 DEF Inodes
  <2>4. ASSUME NEW t \in transfers, t.out = out PROVE FALSE
    <3>1. t # r /\ t.out # NoInode
      BY <2>2, <2>4
    <3>2. t.pc \in {"copy", "write"} /\ t \in TransferRecords
      BY <1>1, <3>1 DEF Orderly, Phase, Copies, FilesTypes
    <3>3. t.dest # r.dest
      BY <1>1, <3>1, <3>2, OwnedAlone
    <3>4. Out(t)
      BY DEF FilesInv
    <3> QED BY <1>1, <2>1, <2>4, <3>1, <3>3, <3>4 DEF Out
  <2> QED BY <2>2, <2>3, <2>4
<1> QED BY <1>2, <1>3

\* A file is made or emptied by the request that owns its folder.
LEMMA FilesOpened ==
  ASSUME FilesInv, NEW r \in transfers, Owns(r), r.op # "delete", r.out = NoInode,
         NEW g \in FileNames, CanCreate(r.dest, g), NEW out, out = Created(r.dest, g),
         names' = [names EXCEPT ![r.dest][g] = out], whole' = whole \ {out},
         r.dest \in folders, UNCHANGED folders, stored' \subseteq stored,
         NEW s \in TransferRecords, BecomesAndEmpties(r, s, out), Phase(s),
         s.client = r.client, s.op = r.op, s.src = r.src, s.dest = r.dest, s.file = g,
         s.out = out, In(s)',
         \A f \in stored' : Kept(f, r.dest) => f # g,
         \A f \in stored', p \in Folders :
           Kept(f, p) => \/ s.op # "cut" \/ s.pc # "copy" \/ s.src # p \/ f \in s.todo
                         \/ f = g \/ names[s.dest][f] \in whole'
  PROVE  FilesInv'
<1>1. r \in TransferRecords /\ r.dest \in Folders /\ Orderly /\ FilesTypes /\ Inodes
  BY DEF FilesInv, FilesTypes, TransferRecords
<1>2. /\ out \in Nat \ {NoInode}
      /\ \A p \in Folders, f \in FileNames : names[p][f] = out => p = r.dest /\ f = g
      /\ \A t \in transfers : t.out # out
  BY CreatedInode
<1>3. /\ names' \in [Folders -> [FileNames -> Nat]]
      /\ \A p \in Folders, f \in FileNames :
           names'[p][f] = IF p = r.dest /\ f = g THEN out ELSE names[p][f]
  BY <1>1, <1>2 DEF FilesTypes
<1>4. \A v \in transfers' : v = s \/ \E t \in transfers \ {r} :
        /\ v \in TransferRecords /\ v.client = t.client /\ v.op = t.op /\ v.src = t.src
        /\ v.dest = t.dest /\ v.pc = t.pc /\ v.todo = t.todo /\ v.file = t.file
        /\ v.in = t.in /\ v.out = t.out /\ v.intact = (t.intact /\ t.in # out)
        /\ v = [t EXCEPT !.intact = @ /\ t.in # out]
  <2> TAKE v \in transfers'
  <2>1. CASE v = s
    BY <2>1
  <2>2. CASE v # s
    <3>1. PICK t \in transfers \ {r} : v = [t EXCEPT !.intact = @ /\ t.in # out]
      BY <2>2 DEF BecomesAndEmpties
    <3>2. t \in TransferRecords
      BY <1>1 DEF FilesTypes
    <3>3. (t.intact /\ t.in # out) \in BOOLEAN
      OBVIOUS
    <3>4. /\ v \in TransferRecords /\ v.client = t.client /\ v.op = t.op /\ v.src = t.src
          /\ v.dest = t.dest /\ v.pc = t.pc /\ v.todo = t.todo /\ v.file = t.file
          /\ v.in = t.in /\ v.out = t.out
      BY <3>1, <3>2, <3>3 DEF TransferRecords
    <3>5. v.intact = (t.intact /\ t.in # out)
      BY <3>1, <3>2, <3>3 DEF TransferRecords
    <3> QED BY <3>1, <3>4, <3>5
  <2> QED BY <2>1, <2>2
<1>5. FilesTypes'
  BY <1>1, <1>2, <1>3, <1>4 DEF FilesTypes
<1>6. Inodes'
  BY <1>1, <1>2, <1>3 DEF Inodes
<1>7. Orderly'
  <2>1. \A v \in transfers' : Phase(v)
    BY <1>1, <1>4 DEF Orderly, Phase, Copies
  <2>2. ASSUME NEW v \in transfers', NEW w \in transfers', v.client = w.client PROVE v = w
    BY <1>1, <1>4, <2>2 DEF Orderly
  <2>3. ASSUME NEW v \in transfers', NEW w \in transfers', v # w, Owns(v), w.op # "delete"
        PROVE  v.dest \notin {w.src, w.dest}
    <3>1. PICK t \in transfers : /\ v.client = t.client /\ v.op = t.op /\ v.src = t.src
                                 /\ v.dest = t.dest
      BY <1>4
    <3>2. PICK u \in transfers : /\ w.client = u.client /\ w.op = u.op /\ w.src = u.src
                                 /\ w.dest = u.dest
      BY <1>4
    <3>3. t # u /\ Owns(t) /\ u.op # "delete"
      BY <2>2, <2>3, <3>1, <3>2 DEF Owns
    <3> QED BY <1>1, <3>1, <3>2, <3>3 DEF Orderly
  <2> QED BY <2>1, <2>2, <2>3 DEF Orderly
<1>8. ASSUME NEW v \in transfers' PROVE Out(v)' /\ In(v)'
  <2>1. CASE v = s
    <3>1. \A w \in transfers' : w.out = out => w = s
      BY <1>2, <1>4
    <3>2. Out(s)'
      BY <1>1, <1>2, <1>3, <3>1 DEF Out
    <3> QED BY <2>1, <3>2
  <2>2. ASSUME NEW t \in transfers \ {r},
               v \in TransferRecords, v.client = t.client, v.op = t.op, v.src = t.src,
               v.dest = t.dest, v.pc = t.pc, v.file = t.file, v.in = t.in, v.out = t.out,
               v.intact = (t.intact /\ t.in # out)
        PROVE  Out(v)' /\ In(v)'
    <3>1. Out(t) /\ In(t) /\ t \in TransferRecords /\ Phase(t)
      BY <1>1 DEF FilesInv, FilesTypes, Orderly
    <3>2. Out(v)'
      <4>1. SUFFICES ASSUME t.out # NoInode PROVE Out(v)'
        BY <2>2 DEF Out
      <4>2. t.pc \in {"copy", "write"} /\ t.dest \in Folders /\ t.file \in FileNames
        BY <3>1, <4>1 DEF Phase, Copies, TransferRecords
      <4>3. t.dest # r.dest
        BY <1>1, <3>1, <4>2, OwnedAlone
      <4>4. t.out \notin whole'
        BY <3>1, <4>1 DEF Out
      <4>5. \A p \in Folders, f \in FileNames : names'[p][f] = t.out => p = t.dest /\ f = t.file
        BY <1>2, <1>3, <3>1, <4>1 DEF Out
      <4>6. names'[t.dest][t.file] \in {t.out, NoInode}
        BY <1>3, <3>1, <4>1, <4>2, <4>3 DEF Out
      <4>7. ASSUME NEW w \in transfers', w.out = t.out PROVE w = v
        <5>1. w # s
          BY <1>2, <4>7
        <5>2. PICK u \in transfers \ {r} : w.out = u.out /\ w.client = u.client
          BY <1>4, <5>1
        <5>3. u = t
          BY <3>1, <4>1, <4>7, <5>2 DEF Out
        <5> QED BY <1>7, <2>2, <5>2, <5>3 DEF Orderly
      <4> QED BY <2>2, <4>4, <4>5, <4>6, <4>7 DEF Out
    <3>3. In(v)'
      <4>1. SUFFICES ASSUME Copies(t) PROVE In(v)'
        BY <2>2 DEF In, Copies
      <4>2. t.src \in Folders /\ t.file \in FileNames /\ t.in # NoInode /\ t.pc = "copy"
        BY <3>1, <4>1 DEF TransferRecords, Phase, Copies
      <4>3. t.src # r.dest
        BY <1>1, <3>1, <4>2, OwnedAlone
      <4>4. names'[t.src][t.file] = names[t.src][t.file]
        BY <1>3, <4>2, <4>3
      <4> QED BY <2>2, <3>1, <4>1, <4>4 DEF In
    <3> QED BY <3>2, <3>3
  <2> QED BY <1>4, <2>1, <2>2
<1>9. ASSUME NEW f \in stored' PROVE \E p \in Folders : Kept(f, p)'
  <2>1. PICK p \in Folders : Kept(f, p)
    BY <1>9 DEF FilesInv, KeptSomewhere
  <2>2. f \in FileNames
    BY <1>5 DEF FilesTypes
  <2>3. ~(p = r.dest /\ f = g)
    BY <1>9, <2>1
  <2>4. names'[p][f] = names[p][f] /\ names'[p][f] \in whole'
    BY <1>2, <1>3, <2>1, <2>2, <2>3 DEF Kept
  <2>5. Spares(s, f, p)'
    <3>1. SUFFICES ASSUME s.op \in Pastes PROVE Spares(s, f, p)'
      BY DEF Spares
    <3>2. s.dest # p
      BY <2>1, <3>1 DEF Kept, Spares
    <3>3. ASSUME s.op = "cut", s.pc = "copy", s.src = p
          PROVE  \/ f \in s.todo
                 \/ f = g /\ names'[s.dest][f] = out
                 \/ names'[s.dest][f] \in whole'
      BY <1>1, <1>3, <1>9, <2>1, <2>2, <3>3
    <3> QED BY <3>2, <3>3 DEF Spares
  <2>6. ASSUME NEW t \in transfers \ {r}, NEW v,
               v.op = t.op, v.src = t.src, v.dest = t.dest, v.pc = t.pc, v.todo = t.todo,
               v.file = t.file, v.out = t.out
        PROVE  Spares(v, f, p)'
    <3>1. Spares(t, f, p) /\ t \in TransferRecords
      BY <1>1, <2>1 DEF Kept, FilesTypes
    <3>2. SUFFICES ASSUME t.pc = "copy"
                   PROVE  names'[t.dest][f] = names[t.dest][f] /\ names[t.dest][f] # out
      BY <2>6, <3>1 DEF Spares
    <3>3. t.dest # r.dest /\ t.dest \in Folders
      BY <1>1, <3>1, <3>2, OwnedAlone DEF TransferRecords
    <3> QED BY <1>2, <1>3, <2>2, <3>3
  <2> QED BY <1>4, <2>4, <2>5, <2>6 DEF Kept
<1> QED BY <1>5, <1>6, <1>7, <1>8, <1>9 DEF FilesInv, KeptSomewhere

\* The next file of a copy is opened, or the copy fails.
LEMMA CopyOpenFilesInv ==
  ASSUME FilesInv, NEW r \in transfers, NEW g \in FileNames, CopyOpen(r, g)
  PROVE  FilesInv'
<1>1. r \in TransferRecords /\ Phase(r) /\ FilesTypes
  BY DEF FilesInv, FilesTypes, Orderly
<1>2. r.pc = "copy" /\ r.file = NoName /\ g \in r.todo /\ UNCHANGED <<folders, stored>>
  BY DEF CopyOpen
<1>3. CASE g \in Has(r.src) /\ r.dest \in folders
  <2>1. PICK out : out = Created(r.dest, g)
    OBVIOUS
  <2>2. PICK s : s = [r EXCEPT !.todo = @ \ {g}, !.file = g, !.in = names[r.src][g], !.out = out,
                               !.intact = names[r.src][g] \in whole \ {out}]
    OBVIOUS
  <2>3. /\ CanCreate(r.dest, g) /\ names' = [names EXCEPT ![r.dest][g] = out]
        /\ whole' = whole \ {out} /\ BecomesAndEmpties(r, s, out)
    BY <1>3, <2>1, <2>2 DEF CopyOpen, OpenOut
  <2>4. r.op \in Pastes /\ Owns(r) /\ r.out = NoInode /\ r.src # r.dest
    BY <1>1, <1>2 DEF Phase, Copies, Owns, TransferRecords, Pastes
  <2>5. out \in Nat \ {NoInode}
    BY <2>1, <2>3, <2>4, CreatedInode DEF Pastes
  <2>6. names[r.src][g] \in Nat \ {NoInode} /\ r.src \in Folders /\ r.dest \in Folders
    BY <1>1, <1>3 DEF Has, FilesTypes, TransferRecords
  <2>7. /\ s \in TransferRecords /\ s.client = r.client /\ s.op = r.op /\ s.src = r.src
        /\ s.dest = r.dest /\ s.pc = "copy" /\ s.todo = r.todo \ {g} /\ s.file = g
        /\ s.in = names[r.src][g] /\ s.out = out
    <3>1. (names[r.src][g] \in whole \ {out}) \in BOOLEAN /\ r.todo \ {g} \subseteq FileNames
      BY <1>1 DEF TransferRecords
    <3> QED BY <1>1, <1>2, <2>2, <2>5, <2>6, <3>1 DEF TransferRecords
  <2>8. s.intact = (names[r.src][g] \in whole \ {out})
    BY <1>1, <2>2 DEF TransferRecords
  <2>9. Phase(s)
    BY <1>1, <1>2, <2>4, <2>5, <2>6, <2>7, FileMovesAssumption
       DEF Phase, Copies, Pastes, NoName
  <2>10. names'[r.src][g] = names[r.src][g]
    BY <1>1, <2>3, <2>4, <2>6 DEF FilesTypes
  <2>11. In(s)'
    BY <2>3, <2>7, <2>8, <2>10 DEF In
  <2>12. \A f \in stored' : Kept(f, r.dest) => f # g
    BY <2>4 DEF Kept, Spares
  <2>13. \A f \in stored', p \in Folders :
           Kept(f, p) => \/ s.op # "cut" \/ s.pc # "copy" \/ s.src # p \/ f \in s.todo
                         \/ f = g \/ names[s.dest][f] \in whole'
    <3> TAKE f \in stored', p \in Folders
    <3>1. SUFFICES ASSUME Kept(f, p), s.op = "cut", s.src = p, f # g, f \notin s.todo
                   PROVE  names[s.dest][f] \in whole'
      OBVIOUS
    <3>2. f \in FileNames /\ f # NoName
      BY <1>1, <1>2, FileMovesAssumption DEF FilesTypes, NoName
    <3>3. names[r.dest][f] \in whole
      BY <1>2, <2>7, <3>1, <3>2 DEF Kept, Spares, Pastes
    <3>4. names[r.dest][f] # out
      BY <2>1, <2>3, <2>4, <2>6, <3>1, <3>2, CreatedInode DEF Pastes
    <3> QED BY <2>3, <2>7, <3>3, <3>4
  <2> QED
    BY <1>2, <1>3, <2>1, <2>3, <2>4, <2>7, <2>9, <2>11, <2>12, <2>13, FilesOpened DEF Pastes
<1>4. CASE ~(g \in Has(r.src) /\ r.dest \in folders)
  BY <1>2, <1>4, FailsFilesInv DEF CopyOpen
<1> QED BY <1>3, <1>4

\* An upload makes its file, or empties the one it replaces, which does not
\* count any more.
LEMMA UploadCreateFilesInv ==
  ASSUME FilesInv, NEW r \in transfers, UploadCreate(r)
  PROVE  FilesInv'
<1>1. r \in TransferRecords /\ Phase(r) /\ FilesTypes
  BY DEF FilesInv, FilesTypes, Orderly
<1>2. r.pc = "create" /\ r.op = "upload" /\ r.file \in FileNames /\ r.out = NoInode
      /\ r.dest \in Folders
  BY <1>1 DEF UploadCreate, Phase, Copies, Pastes, TransferRecords
<1>3. CASE r.dest \in folders
  <2>1. PICK out : out = Created(r.dest, r.file)
    OBVIOUS
  <2>2. PICK s : s = [r EXCEPT !.pc = "write", !.out = out]
    OBVIOUS
  <2>3. /\ CanCreate(r.dest, r.file) /\ names' = [names EXCEPT ![r.dest][r.file] = out]
        /\ whole' = whole \ {out} /\ BecomesAndEmpties(r, s, out) /\ UNCHANGED folders
        /\ stored' = IF names[r.dest][r.file] = NoInode THEN stored ELSE stored \ {r.file}
    BY <1>3, <2>1, <2>2 DEF UploadCreate
  <2>4. Owns(r)
    BY <1>2 DEF Owns
  <2>5. out \in Nat \ {NoInode}
    BY <1>2, <2>1, <2>3, <2>4, CreatedInode
  <2>6. /\ s \in TransferRecords /\ s.client = r.client /\ s.op = r.op /\ s.src = r.src
        /\ s.dest = r.dest /\ s.pc = "write" /\ s.file = r.file /\ s.out = out
    BY <1>1, <2>2, <2>5 DEF TransferRecords
  <2>7. Phase(s) /\ In(s)'
    BY <1>1, <1>2, <2>5, <2>6 DEF Phase, Copies, Pastes, In
  <2>8. \A f \in stored' : Kept(f, r.dest) => f # r.file
    BY <1>1, <2>3 DEF Kept, FilesTypes
  <2>9. stored' \subseteq stored
    BY <2>3
  <2> QED
    BY <1>2, <1>3, <2>1, <2>3, <2>4, <2>6, <2>7, <2>8, <2>9, FilesOpened
<1>4. CASE r.dest \notin folders
  <2>1. UNCHANGED <<folders, names, whole, stored>> /\ transfers' \subseteq transfers
    BY <1>4 DEF UploadCreate, Respond
  <2> QED BY <1>1, <2>1, RespondFilesInv DEF FilesTypes, FilesInv, Inodes
<1> QED BY <1>3, <1>4

\* The file that was written is closed, and nobody else writes or reads it.
LEMMA FilesClosed ==
  ASSUME FilesInv, NEW r \in transfers, r.out # NoInode,
         whole' \subseteq whole \cup {r.out}, whole \ {r.out} \subseteq whole',
         UNCHANGED <<folders, names>>, stored' \subseteq FileNames \ Links,
         transfers' \subseteq TransferRecords, Orderly',
         \A t \in transfers' : t \in transfers \ {r} \/ (t.out = NoInode /\ ~Copies(t)),
         \A f \in stored' \ stored : \E p \in Folders : Kept(f, p)',
         \A t \in transfers' \ transfers, f \in stored, p \in Folders :
           Kept(f, p) => Spares(t, f, p)'
  PROVE  FilesInv'
<1>1. r \in TransferRecords /\ Orderly /\ FilesTypes /\ Inodes /\ Out(r) /\ Phase(r)
  BY DEF FilesInv, FilesTypes, Orderly
<1>2. FilesTypes' /\ Inodes'
  BY <1>1 DEF FilesTypes, Inodes, TransferRecords
<1>3. whole \subseteq whole' /\ r.op # "delete" /\ Owns(r)
  BY <1>1 DEF Out, Phase, Copies, Owns, TransferRecords, Pastes
<1>4. ASSUME NEW t \in transfers' PROVE Out(t)' /\ In(t)'
  <2>1. CASE t \in transfers \ {r}
    <3>1. Out(t) /\ In(t) /\ t \in TransferRecords /\ Phase(t)
      BY <1>1, <2>1 DEF FilesInv, FilesTypes, Orderly
    <3>2. Out(t)'
      <4>1. SUFFICES ASSUME t.out # NoInode PROVE Out(t)'
        BY DEF Out
      <4>2. t.out # r.out
        BY <1>1, <2>1 DEF Out
      <4>3. \A u \in transfers' : u.out = t.out => u = t
        BY <3>1, <4>1 DEF Out
      <4> QED BY <3>1, <4>1, <4>2, <4>3 DEF Out
    <3>3. In(t)'
      <4>1. SUFFICES ASSUME Copies(t) PROVE In(t)'
        BY DEF In, Copies
      <4>2. t.src \in Folders /\ t.file \in FileNames /\ t.pc = "copy"
        BY <3>1, <4>1 DEF TransferRecords, Phase, Copies
      <4>3. t.src # r.dest
        BY <1>1, <1>3, <2>1, <3>1, <4>2, OwnedAlone
      <4>4. names[t.src][t.file] # r.out
        BY <1>1, <4>2, <4>3 DEF Out
      <4> QED BY <3>1, <4>1, <4>4 DEF In
    <3> QED BY <3>2, <3>3
  <2>2. CASE t.out = NoInode /\ ~Copies(t)
    BY <2>2 DEF Out, In, Copies
  <2> QED BY <2>1, <2>2
<1>5. ASSUME NEW f \in stored' PROVE \E p \in Folders : Kept(f, p)'
  <2>1. CASE f \in stored
    <3>1. PICK p \in Folders : Kept(f, p)
      BY <2>1 DEF FilesInv, KeptSomewhere
    <3>2. ASSUME NEW t \in transfers, t \in transfers' PROVE Spares(t, f, p)'
      <4>1. Spares(t, f, p)
        BY <3>1 DEF Kept
      <4> QED BY <1>3, <4>1 DEF Spares
    <3>3. Kept(f, p)'
      BY <1>3, <2>1, <3>1, <3>2 DEF Kept
    <3> QED BY <3>3
  <2> QED BY <2>1, <1>5
<1> QED BY <1>2, <1>4, <1>5 DEF FilesInv, KeptSomewhere

\* The copy of a file is whole when the file that the source names is.
LEMMA CopyCloseFilesInv ==
  ASSUME FilesInv, NEW r \in transfers, CopyClose(r)
  PROVE  FilesInv'
<1>1. r \in TransferRecords /\ Orderly /\ FilesTypes /\ Out(r) /\ In(r) /\ Phase(r)
  BY DEF FilesInv, FilesTypes, Orderly
<1>2. PICK s : s = Closed(r)
  OBVIOUS
<1>3. /\ Copies(r) /\ r.pc = "copy" /\ r.out # NoInode /\ Becomes(r, s)
      /\ UNCHANGED <<folders, names, stored>>
      /\ CloseOut(r, r.intact /\ r.in \in whole)
  BY <1>1, <1>2 DEF CopyClose, Copies, Phase
<1>4. /\ s \in TransferRecords /\ s.client = r.client /\ s.op = r.op /\ s.src = r.src
      /\ s.dest = r.dest /\ s.pc = "copy" /\ s.todo = r.todo /\ s.file = NoName
      /\ s.in = NoInode /\ s.out = NoInode
  BY <1>1, <1>2, <1>3 DEF Closed, TransferRecords, NoInode, NoName
<1>5. Phase(s) /\ ~Copies(s) /\ (Owns(s) => Owns(r))
  BY <1>1, <1>3, <1>4 DEF Phase, Copies, Owns
<1>6. Orderly'
  BY <1>1, <1>3, <1>4, <1>5, OrderlyBecomes
<1>7. \A t \in transfers \ {r} : t.out # r.out
  BY <1>1, <1>3 DEF Out
<1>8. /\ whole' \subseteq whole \cup {r.out} /\ whole \ {r.out} \subseteq whole'
      /\ r.intact /\ r.in \in whole => r.out \in whole'
  BY <1>3, <1>7 DEF CloseOut
<1>9. ASSUME NEW f \in stored, NEW p \in Folders, Kept(f, p) PROVE Spares(s, f, p)'
  <2>1. Spares(r, f, p)
    BY <1>9 DEF Kept
  <2>2. SUFFICES ASSUME s.op = "cut", s.src = p, f \notin s.todo PROVE names'[s.dest][f] \in whole'
    BY <1>4, <2>1 DEF Spares
  <2>3. CASE names[r.dest][f] \in whole
    <3>1. names[r.dest][f] # r.out
      BY <1>1, <1>3, <2>3 DEF Out
    <3> QED BY <1>3, <1>4, <1>8, <2>3, <3>1
  <2>4. CASE f = r.file /\ names[r.dest][f] = r.out
    <3>1. names[r.src][r.file] \in whole
      BY <1>4, <1>9, <2>2, <2>4 DEF Kept
    <3>2. r.intact /\ r.in \in whole
      BY <1>1, <1>3, <3>1 DEF In, FilesTypes
    <3> QED BY <1>3, <1>4, <1>8, <2>4, <3>2
  <2> QED BY <1>3, <1>4, <2>1, <2>2, <2>3, <2>4 DEF Spares, Pastes
<1>10. /\ transfers' \subseteq TransferRecords /\ stored' \subseteq FileNames \ Links
       /\ \A t \in transfers' : t \in transfers \ {r} \/ (t.out = NoInode /\ ~Copies(t))
       /\ \A t \in transfers' \ transfers : t = s
  BY <1>1, <1>3, <1>4, <1>5 DEF Becomes, FilesTypes
<1> QED BY <1>3, <1>6, <1>8, <1>9, <1>10, FilesClosed

\* An upload is answered: the file is whole, in a folder that nobody clears
\* without its users' leave.
LEMMA UploadCloseFilesInv ==
  ASSUME FilesInv, NEW r \in transfers, UploadClose(r)
  PROVE  FilesInv'
<1>1. r \in TransferRecords /\ Orderly /\ FilesTypes /\ Out(r) /\ Phase(r)
  BY DEF FilesInv, FilesTypes, Orderly
<1>2. /\ r.pc = "write" /\ transfers' = transfers \ {r} /\ UNCHANGED <<folders, names>>
      /\ stored' = IF names[r.dest][r.file] = r.out THEN stored \cup {r.file} ELSE stored
      /\ CloseOut(r, TRUE)
  BY DEF UploadClose, Respond
<1>3. r.op = "upload" /\ r.file \in FileNames \ Links /\ r.out # NoInode /\ r.dest \in Folders
  BY <1>1, <1>2 DEF Phase, TransferRecords, Pastes
<1>4. \A t \in transfers \ {r} : t.out # r.out
  BY <1>1, <1>3 DEF Out
<1>5. whole' = whole \cup {r.out}
  BY <1>2, <1>4 DEF CloseOut
<1>6. Orderly' /\ transfers' \subseteq TransferRecords /\ stored' \subseteq FileNames \ Links
  BY <1>1, <1>2, <1>3, OrderlyResponds DEF FilesTypes
<1>7. ASSUME NEW f \in stored' \ stored PROVE \E p \in Folders : Kept(f, p)'
  <2>1. f = r.file /\ names'[r.dest][f] \in whole'
    BY <1>2, <1>5, <1>7
  <2>2. \A t \in transfers' : t.op \in Pastes => r.dest \notin {t.src, t.dest}
    BY <1>1, <1>2, <1>3 DEF Orderly, Owns, Pastes
  <2>3. Kept(f, r.dest)'
    BY <2>1, <2>2 DEF Kept, Spares
  <2> QED BY <1>3, <2>3
<1>8. /\ \A t \in transfers' : t \in transfers \ {r} \/ (t.out = NoInode /\ ~Copies(t))
      /\ \A t \in transfers' \ transfers, f \in stored, p \in Folders :
           Kept(f, p) => Spares(t, f, p)'
  BY <1>2
<1> QED BY <1>2, <1>3, <1>5, <1>6, <1>7, <1>8, FilesClosed

-----------------------------------------------------------------------------
\* The daemon starts with a folder of files that are all whole.
LEMMA InitFilesInv == FilesInit => FilesInv
<1> SUFFICES ASSUME FilesInit PROVE FilesInv
  OBVIOUS
<1>1. PICK p \in Folders, here \in SUBSET FileNames :
        LET inode == CHOOSE i \in [here -> 1 .. Cardinality(here)] :
                       \A f, g \in here : i[f] = i[g] => f = g IN
        /\ folders = {p}
        /\ names = [q \in Folders |-> [f \in FileNames |->
                      IF q = p /\ f \in here THEN inode[f] ELSE NoInode]]
        /\ whole = 1 .. Cardinality(here)
        /\ transfers = {}
        /\ stored = here \ Links
  BY DEF FilesInit
<1>2. IsFiniteSet(here)
  BY FileMovesAssumption, FS_Subset
<1>3. PICK i \in [here -> 1 .. Cardinality(here)] : \A f, g \in here : i[f] = i[g] => f = g
  <2>1. Cardinality(here) \in Nat /\ ExistsBijection(1 .. Cardinality(here), here)
    BY <1>2, FS_CardinalityType
  <2>2. PICK b \in Bijection(1 .. Cardinality(here), here) : TRUE
    BY <2>1 DEF ExistsBijection
  <2>3. \A x \in here : \E k \in 1 .. Cardinality(here) : b[k] = x
    BY <2>2 DEF Bijection, Surjection
  <2> DEFINE j == [x \in here |-> CHOOSE k \in 1 .. Cardinality(here) : b[k] = x]
  <2>4. \A x \in here : j[x] \in 1 .. Cardinality(here) /\ b[j[x]] = x
    BY <2>3
  <2>5. j \in [here -> 1 .. Cardinality(here)]
    BY <2>4
  <2>6. \A f, g \in here : j[f] = j[g] => f = g
    BY <2>4, <2>5
  <2> HIDE DEF j
  <2> QED BY <2>5, <2>6
<1>4. PICK inode \in [here -> 1 .. Cardinality(here)] :
        /\ \A f, g \in here : inode[f] = inode[g] => f = g
        /\ names = [q \in Folders |-> [f \in FileNames |->
                      IF q = p /\ f \in here THEN inode[f] ELSE NoInode]]
  BY <1>1, <1>3
<1>5. Cardinality(here) \in Nat /\ \A f \in here : inode[f] \in Nat \ {0}
  BY <1>2, <1>4, FS_CardinalityType
<1>6. FilesTypes
  <2>1. names \in [Folders -> [FileNames -> Nat]]
    <3>1. \A q \in Folders : [f \in FileNames |->
             IF q = p /\ f \in here THEN inode[f] ELSE NoInode] \in [FileNames -> Nat]
      BY <1>5 DEF NoInode
    <3> QED
      BY <1>4, <3>1
  <2>2. whole \subseteq Nat \ {NoInode}
    BY <1>1, <1>5 DEF NoInode
  <2>3. folders \subseteq Folders /\ transfers \subseteq TransferRecords /\ stored \subseteq FileNames \ Links
    BY <1>1
  <2> QED
    BY <2>1, <2>2, <2>3 DEF FilesTypes
<1>7. \A q \in Folders, f \in FileNames :
        names[q][f] = IF q = p /\ f \in here THEN inode[f] ELSE NoInode
  BY <1>4
<1>8. Inodes
  BY <1>1, <1>4, <1>7 DEF Inodes
<1>9. Orderly /\ \A r \in transfers : Out(r) /\ In(r)
  BY <1>1 DEF Orderly
<1>10. KeptSomewhere
  BY <1>1, <1>4, <1>7 DEF KeptSomewhere, Kept
<1> QED BY <1>6, <1>8, <1>9, <1>10 DEF FilesInv

\* Every step of careful clients keeps the invariant.
LEMMA NextFilesInv ==
  ASSUME Careful, FilesInv, [FilesNext]_fileVars
  PROVE  FilesInv'
<1>1. CASE UNCHANGED fileVars
  <2>1. FilesTypes' /\ Orderly' /\ Inodes' /\ \A r \in transfers' : Out(r)' /\ In(r)'
    BY <1>1 DEF fileVars, FilesInv, FilesTypes, Orderly, Inodes, Out, In
  <2>2. \A f \in stored, p \in Folders : Kept(f, p) => Kept(f, p)'
    BY <1>1 DEF fileVars, Kept, Spares
  <2> QED BY <1>1, <2>1, <2>2 DEF fileVars, FilesInv, KeptSomewhere
<1>2. CASE \E c \in FileClients, p, q \in Folders :
             \/ \E op \in {"copy", "cut"} : FilesPaste(c, op, p, q)
             \/ FilesDelete(c, p)
             \/ \E f \in FileNames \ Links : FileUpload(c, p, f)
  BY <1>2, PasteFilesInv, DeleteFilesInv, UploadFilesInv DEF Pastes
<1>3. CASE (\E p, q \in Folders : Rename(p, q)) \/ (\E p \in Folders : FilesMkdir(p)) \/ FileCrash
  BY <1>3, RenameFilesInv, MkdirFilesInv
<1>4. CASE \E r \in transfers : CopyStep(r)
  BY <1>4, EnterListFilesInv, CopyOpenFilesInv, CopyCloseFilesInv, CopyBreaksFilesInv,
     CopyDoneFilesInv DEF CopyStep
<1>5. CASE \E r \in transfers : RemoveStep(r)
  BY <1>5, RemoveListFilesInv, RemoveFileFilesInv DEF RemoveStep
<1>6. CASE \E r \in transfers : UploadStep(r)
  BY <1>6, UploadCreateFilesInv, UploadCloseFilesInv, UploadBreaksFilesInv DEF UploadStep
<1> QED BY <1>1, <1>2, <1>3, <1>4, <1>5, <1>6 DEF FilesNext

\* As long as clients keep out of each other's folders, a file that was stored
\* and not deleted is whole somewhere, whatever fails and wherever the daemon
\* dies.
THEOREM FilesKept == Careful => (FilesSpec => []NothingIsLost)
<1> SUFFICES ASSUME Careful PROVE FilesSpec => []NothingIsLost
  OBVIOUS
<1>1. FilesInv /\ [FilesNext]_fileVars => FilesInv'
  BY NextFilesInv
<1>2. FilesInv => NothingIsLost
  BY DEF FilesInv, KeptSomewhere, Kept, NothingIsLost
<1> QED BY InitFilesInv, <1>1, <1>2, PTL DEF FilesSpec

-----------------------------------------------------------------------------
(* What NimBackup keeps, for any jobs, destinations and numbers of snapshots. *)

KnownJobs ==
  [known : {TRUE}, enabled : BOOLEAN, next : NextRuns, status : Statuses,
   last : Nat, source : Sources, dest : Dests]
RunRecords ==
  [job : BackupJobs, by : Starters,
   pc : {"start", "snapshot", "send", "success", "failure"},
   parent : Nat, source : Sources, dest : Dests, snap : Nat]

\* The snaps in a directory of snapshots are those taken of its source.
SnapsTyped ==
  /\ nextSnap \in Nat \ {0}
  /\ localSnaps \in [Sources -> SUBSET Nat] /\ newest \in [Sources -> Nat]
  /\ \A s \in Sources :
       newest[s] < nextSnap /\ \A n \in localSnaps[s] : n <= newest[s]

\* The rows, the runs and the snapshots there are.
BackupTypes ==
  /\ backupRows \in [BackupJobs -> KnownJobs \cup {NoJob}]
  /\ runs \subseteq RunRecords
  /\ SnapsTyped

\* A run that works is marked in backupRunningJobs.
RunsMarked == \A r \in runs : r.pc # "start" => r.job \in backupRunning

\* What a run takes for its success was received.
SentIsReceived ==
  \A r \in runs : r.pc = "success" => [dest |-> r.dest, snap |-> r.snap] \in received

\* The newest snapshot of a source is there, and no retention has it on its list.
NewestThere ==
  ~userDeleted => \A s \in Sources : newest[s] # NoSnap => newest[s] \in localSnaps[s]
NewestSpared ==
  \A c \in cleanups :
    /\ c.source \in Sources
    /\ c.pc = "delete" => \A n \in c.snaps : n \in Nat /\ n < newest[c.source]

BackupInv ==
  /\ BackupTypes /\ RunsMarked /\ OneRunPerJob
  /\ SentIsReceived /\ BaselineReceived
  /\ NewestThere /\ NewestSpared

\* An installation without backups keeps all of it.
LEMMA InitBackupInv == BackupInit => BackupInv
<1> SUFFICES ASSUME BackupInit PROVE BackupInv
  OBVIOUS
<1>1. (CHOOSE d \in Dests : TRUE) \in Dests /\ (CHOOSE s \in Sources : TRUE) \in Sources
  BY BackupAssumption
<1> QED
  BY <1>1 DEF BackupInit, NewJob, NoSnap, BackupInv, BackupTypes, SnapsTyped, KnownJobs,
              NextRuns, Statuses, RunsMarked, OneRunPerJob, SentIsReceived,
              BaselineReceived, NewestThere, NewestSpared

\* A row that is updated is one that is known; the others stay.
LEMMA UpdatedRows ==
  ASSUME BackupTypes, NEW j \in BackupJobs, NEW row,
         backupRows[j].known => row \in KnownJobs,
         backupRows' = Updated(j, row)
  PROVE  /\ backupRows' \in [BackupJobs -> KnownJobs \cup {NoJob}]
         /\ \A k \in BackupJobs :
              \/ backupRows'[k] = backupRows[k]
              \/ k = j /\ backupRows[j].known /\ backupRows'[j] = row
<1>1. backupRows' = [backupRows EXCEPT ![j] = IF backupRows[j].known THEN row ELSE backupRows[j]]
  BY DEF Updated
<1>2. backupRows[j] \in KnownJobs \cup {NoJob}
  BY DEF BackupTypes
<1> QED
  BY <1>1, <1>2 DEF BackupTypes

\* A snapshot that is taken is the newest of its source from then on.
LEMMA SnappedInv ==
  ASSUME SnapsTyped, NewestThere, NewestSpared, UNCHANGED <<cleanups, userDeleted>>,
         NEW s \in Sources, NEW snaps,
         nextSnap \in snaps, snaps \subseteq localSnaps[s] \cup {nextSnap},
         Snapped(s, snaps)
  PROVE  SnapsTyped' /\ NewestThere' /\ NewestSpared'
<1>1. /\ localSnaps' = [localSnaps EXCEPT ![s] = snaps]
      /\ newest' = [newest EXCEPT ![s] = nextSnap] /\ nextSnap' = nextSnap + 1
  BY DEF Snapped
<1>2. \A n \in snaps : n \in Nat /\ n <= nextSnap
  BY DEF SnapsTyped
<1>3. SnapsTyped'
  BY <1>1, <1>2 DEF SnapsTyped
<1>4. NewestThere'
  BY <1>1 DEF NewestThere, SnapsTyped
<1>5. NewestSpared'
  BY <1>1 DEF NewestSpared, SnapsTyped
<1> QED
  BY <1>3, <1>4, <1>5

\* Edits, the passing of time and new runs touch no snapshot.
LEMMA StartersInv ==
  ASSUME BackupInv,
         \/ CheckAndRunDueJobs
         \/ \E j \in BackupJobs : BecomesDue(j) \/ RunBackup(j) \/ UpdateJob(j) \/ DeleteJob(j)
         \/ DeleteDevice
  PROVE  BackupInv'
<1> USE DEF BackupInv
<1>1. UNCHANGED <<received, backupRunning, cleanups, snapVars>>
  BY DEF CheckAndRunDueJobs, BecomesDue, RunBackup, UpdateJob, DeleteJob, DeleteDevice,
         snapVars, backupHistory
<1>2. NewestThere' /\ NewestSpared'
  BY <1>1 DEF NewestThere, NewestSpared, snapVars
<1>3. \A r \in runs' : r \in runs \/ (r \in RunRecords /\ r.pc = "start")
  <2>1. ASSUME NEW j \in BackupJobs, NEW by \in Starters, backupRows[j].known
        PROVE  NewRun(j, by) \in RunRecords /\ NewRun(j, by).pc = "start"
    <3>1. backupRows[j] \in KnownJobs
      BY <2>1 DEF BackupTypes, NoJob
    <3> QED
      BY <3>1 DEF NewRun, RunRecords, KnownJobs, NoSnap
  <2>2. CASE CheckAndRunDueJobs
    <3>1. \A r \in runs' : r \in runs \/ \E j \in Due : r = NewRun(j, "tick")
      BY <2>2 DEF CheckAndRunDueJobs
    <3> QED
      BY <2>1, <3>1 DEF Due, Starters
  <2>3. CASE \E j \in BackupJobs : RunBackup(j)
    BY <2>1, <2>3 DEF RunBackup, Starters
  <2>4. CASE runs' = runs
    BY <2>4
  <2> QED
    BY <2>2, <2>3, <2>4 DEF BecomesDue, UpdateJob, DeleteJob, DeleteDevice
<1>4. RunsMarked' /\ OneRunPerJob' /\ SentIsReceived' /\ runs' \subseteq RunRecords
  BY <1>1, <1>3 DEF RunsMarked, OneRunPerJob, SentIsReceived, BackupTypes
<1>5. /\ backupRows' \in [BackupJobs -> KnownJobs \cup {NoJob}]
      /\ \A k \in BackupJobs \ byHand' : backupRows'[k].known =>
           /\ k \notin byHand /\ backupRows[k].known
           /\ backupRows'[k].last = backupRows[k].last
  <2>1. ASSUME NEW j \in BackupJobs, NEW row,
               backupRows[j].known => row \in KnownJobs,
               backupRows' = Updated(j, row),
               byHand' = IF row.last # backupRows[j].last THEN byHand \cup {j} ELSE byHand
        PROVE  <1>5
    BY <2>1, UpdatedRows
  <2>2. \A j \in BackupJobs : backupRows[j].known => backupRows[j] \in KnownJobs
    BY DEF BackupTypes, NoJob
  <2>3. ASSUME NEW j \in BackupJobs, BecomesDue(j) PROVE <1>5
    <3>1. backupRows[j].known => [backupRows[j] EXCEPT !.next = "past"] \in KnownJobs
                              /\ [backupRows[j] EXCEPT !.next = "past"].last = backupRows[j].last
      BY <2>2 DEF KnownJobs, NextRuns
    <3> QED
      BY <2>1, <2>3, <3>1 DEF BecomesDue, backupHistory
  <2>4. ASSUME NEW j \in BackupJobs, UpdateJob(j) PROVE <1>5
    <3>1. PICK row \in EditedRows(backupRows[j]) :
            /\ backupRows' = Updated(j, row)
            /\ byHand' = IF row.last # backupRows[j].last THEN byHand \cup {j} ELSE byHand
      BY <2>4 DEF UpdateJob
    <3>2. ASSUME backupRows[j].known PROVE row \in KnownJobs
      <4>1. backupRows[j] \in KnownJobs /\ NoSnap .. MaxSnaps \subseteq Nat
        BY <2>2, <3>2, BackupAssumption DEF NoSnap
      <4> QED
        BY <4>1 DEF EditedRows, KnownJobs
    <3> QED
      BY <2>1, <3>1, <3>2
  <2>5. ASSUME NEW j \in BackupJobs, DeleteJob(j) PROVE <1>5
    BY <2>5 DEF DeleteJob, BackupTypes, NoJob, backupHistory
  <2>6. CASE DeleteDevice
    BY <2>6 DEF DeleteDevice, NoJob, backupHistory
  <2>7. CASE backupRows' = backupRows /\ byHand' = byHand
    BY <2>7 DEF BackupTypes
  <2> QED
    BY <2>3, <2>4, <2>5, <2>6, <2>7 DEF CheckAndRunDueJobs, RunBackup, backupHistory
<1>6. BaselineReceived'
  BY <1>1, <1>5 DEF BaselineReceived, NoJob
<1> QED
  BY <1>1, <1>2, <1>4, <1>5, <1>6 DEF BackupTypes, SnapsTyped, snapVars

\* A run that goes on, or ends, is one of its job.
LEMMA RunsInv ==
  ASSUME BackupInv, NEW r \in runs, RunStep(r)
  PROVE  BackupInv'
<1> USE DEF BackupInv
<1>1. r \in RunRecords
  BY DEF BackupTypes
<1>2. backupRows[r.job].known => backupRows[r.job] \in KnownJobs
  BY <1>1 DEF BackupTypes, NoJob, RunRecords
<1>3. CASE BeginRun(r)
  <2> DEFINE to == [r EXCEPT !.pc = "snapshot"]
             row == [backupRows[r.job] EXCEPT !.status = "running"]
  <2>1. /\ UNCHANGED <<localSnaps, received, nextSnap, cleanups, newest, userDeleted, byHand>>
        /\ r.pc = "start"
    BY <1>3 DEF BeginRun, backupHistory
  <2>2. NewestThere' /\ NewestSpared'
    BY <2>1 DEF NewestThere, NewestSpared
  <2>j. r.job \in BackupJobs
    BY <1>1 DEF RunRecords
  <2>s. to \in RunRecords /\ to.job = r.job /\ to.pc = "snapshot"
    BY <1>1 DEF RunRecords
  <2>k. backupRows[r.job].known => row \in KnownJobs /\ row.last = backupRows[r.job].last
    BY <1>2 DEF KnownJobs, Statuses
  <2>3. CASE MayRun(r)
    <3>1. /\ backupRunning' = backupRunning \cup {r.job} /\ r.job \notin backupRunning
          /\ runs' = (runs \ {r}) \cup {to} /\ backupRows' = Updated(r.job, row)
      BY <1>3, <2>3 DEF BeginRun, MayRun, RunMoves
    <3> HIDE DEF to, row
    <3>3. runs' \subseteq RunRecords /\ RunsMarked' /\ SentIsReceived'
      BY <2>1, <3>1, <2>s DEF BackupTypes, RunsMarked, SentIsReceived
    <3>4. OneRunPerJob'
      BY <3>1, <2>s DEF OneRunPerJob, RunsMarked
    <3>6. /\ backupRows' \in [BackupJobs -> KnownJobs \cup {NoJob}]
          /\ \A k \in BackupJobs : backupRows'[k].known =>
               backupRows[k].known /\ backupRows'[k].last = backupRows[k].last
      BY <2>j, <2>k, <3>1, UpdatedRows
    <3>7. BaselineReceived'
      BY <2>1, <3>6 DEF BaselineReceived
    <3> QED
      BY <2>1, <2>2, <3>3, <3>4, <3>6, <3>7 DEF BackupTypes, SnapsTyped
  <2>4. CASE ~MayRun(r)
    <3>1. runs' = runs \ {r} /\ UNCHANGED <<backupRows, backupRunning>>
      BY <1>3, <2>4 DEF BeginRun
    <3> QED
      BY <2>1, <2>2, <3>1
         DEF BackupTypes, SnapsTyped, RunsMarked, OneRunPerJob, SentIsReceived,
             BaselineReceived
  <2> QED
    BY <2>3, <2>4
\* Until it is recorded, a run only takes a snapshot or sends it.
<1>4. ASSUME NEW to \in RunRecords, runs' = (runs \ {r}) \cup {to},
             to.job = r.job, r.pc # "start", to.pc # "start",
             received \subseteq received',
             UNCHANGED <<backupRows, backupRunning, cleanups, userDeleted, byHand>>,
             to.pc = "success" => [dest |-> to.dest, snap |-> to.snap] \in received',
             \/ UNCHANGED <<localSnaps, nextSnap, newest>>
             \/ Snapped(r.source, localSnaps[r.source] \cup {nextSnap})
      PROVE  BackupInv'
  <2>1. runs' \subseteq RunRecords /\ RunsMarked' /\ SentIsReceived' /\ OneRunPerJob'
    BY <1>4 DEF BackupTypes, RunsMarked, SentIsReceived, OneRunPerJob
  <2>2. BaselineReceived'
    BY <1>4 DEF BaselineReceived
  <2>s. r.source \in Sources
    BY <1>1 DEF RunRecords
  <2>3. CASE UNCHANGED <<localSnaps, nextSnap, newest>>
    BY <1>4, <2>1, <2>2, <2>3 DEF BackupTypes, SnapsTyped, NewestThere, NewestSpared
  <2>4. CASE Snapped(r.source, localSnaps[r.source] \cup {nextSnap})
    <3>1. r.source \in Sources /\ nextSnap \in localSnaps[r.source] \cup {nextSnap}
          /\ localSnaps[r.source] \cup {nextSnap} \subseteq localSnaps[r.source] \cup {nextSnap}
      BY <2>s
    <3>2. SnapsTyped' /\ NewestThere' /\ NewestSpared'
      BY <1>4, <2>4, <3>1, SnappedInv DEF BackupTypes
    <3> QED
      BY <1>4, <2>1, <2>2, <3>2 DEF BackupTypes
  <2> QED
    BY <1>4, <2>3, <2>4
<1>5. CASE Snapshot(r)
  <2>1. /\ [r EXCEPT !.pc = "send", !.snap = nextSnap] \in RunRecords
        /\ [r EXCEPT !.pc = "failure"] \in RunRecords
    BY <1>1 DEF RunRecords, BackupTypes, SnapsTyped
  <2>2. CASE deviceKnown /\ nextSnap <= MaxSnaps
    BY <1>1, <1>4, <1>5, <2>1, <2>2 DEF Snapshot, RunMoves, RunRecords
  <2>3. CASE ~(deviceKnown /\ nextSnap <= MaxSnaps)
    BY <1>1, <1>4, <1>5, <2>1, <2>3 DEF Snapshot, RunMoves, RunRecords
  <2> QED
    BY <2>2, <2>3
<1>6. CASE Send(r)
  <2>1. [r EXCEPT !.pc = "success"] \in RunRecords /\ [r EXCEPT !.pc = "failure"] \in RunRecords
    BY <1>1 DEF RunRecords
  <2> QED
    BY <1>1, <1>4, <1>6, <2>1 DEF Send, RunMoves, RunRecords, backupHistory
\* The end of a run takes away its mark: no other run of the job works.
<1>7. ASSUME EndRun(r), r.pc # "start", UNCHANGED received
      PROVE  /\ runs' \subseteq RunRecords /\ RunsMarked' /\ SentIsReceived' /\ OneRunPerJob'
  BY <1>7 DEF EndRun, BackupTypes, RunsMarked, SentIsReceived, OneRunPerJob
<1>8. CASE RecordSuccess(r)
  <2> DEFINE row == [backupRows[r.job] EXCEPT !.status = "ok", !.next = "later", !.last = r.snap]
  <2>1. /\ runs' \subseteq RunRecords /\ RunsMarked' /\ SentIsReceived' /\ OneRunPerJob'
        /\ UNCHANGED <<localSnaps, received, nextSnap, newest, userDeleted>>
        /\ byHand' = byHand \ {r.job} /\ r.source \in Sources
        /\ cleanups' = cleanups \cup {[pc |-> "list", source |-> r.source]}
        /\ backupRows' = Updated(r.job, row)
    BY <1>1, <1>7, <1>8 DEF RecordSuccess, snapVars, RunRecords
  <2>2. backupRows[r.job].known => row \in KnownJobs /\ row.last = r.snap
    BY <1>1, <1>2 DEF KnownJobs, RunRecords, NextRuns, Statuses
  <2>3. [dest |-> r.dest, snap |-> r.snap] \in received /\ r.dest \in Dests /\ r.job \in BackupJobs
    BY <1>1, <1>8 DEF RecordSuccess, SentIsReceived, RunRecords
  <2>4. backupRows' \in [BackupJobs -> KnownJobs \cup {NoJob}] /\ BaselineReceived'
    <3> HIDE DEF row
    <3>1. /\ backupRows' \in [BackupJobs -> KnownJobs \cup {NoJob}]
          /\ \A k \in BackupJobs : \/ backupRows'[k] = backupRows[k]
                                   \/ k = r.job /\ backupRows'[k].last = r.snap
      BY <2>1, <2>2, <2>3, UpdatedRows
    <3>2. ASSUME NEW k \in BackupJobs, k \notin byHand', backupRows'[k].known
          PROVE  \/ backupRows'[k].last = r.snap
                 \/ k \notin byHand /\ backupRows'[k] = backupRows[k]
      <4>1. CASE k # r.job
        BY <2>1, <3>1, <3>2, <4>1 DEF Updated, BackupTypes
      <4>2. CASE k = r.job /\ backupRows[r.job].known
        BY <2>1, <2>2, <3>1, <4>2 DEF Updated, BackupTypes
      <4>3. CASE k = r.job /\ ~backupRows[r.job].known
        BY <2>1, <2>3, <3>2, <4>3 DEF Updated, BackupTypes
      <4> QED
        BY <4>1, <4>2, <4>3
    <3> QED
      BY <2>1, <2>3, <3>1, <3>2 DEF BaselineReceived
  <2>5. NewestThere' /\ NewestSpared'
    BY <2>1 DEF NewestThere, NewestSpared
  <2> QED
    BY <2>1, <2>4, <2>5 DEF BackupTypes, SnapsTyped
<1>9. CASE RecordBackupFailure(r)
  <2> DEFINE row == [backupRows[r.job] EXCEPT !.status = "error"]
  <2>1. /\ runs' \subseteq RunRecords /\ RunsMarked' /\ SentIsReceived' /\ OneRunPerJob'
        /\ UNCHANGED <<localSnaps, received, nextSnap, cleanups, newest, userDeleted, byHand>>
        /\ backupRows' = Updated(r.job, row)
    BY <1>7, <1>9 DEF RecordBackupFailure, Failed, backupHistory
  <2>2. backupRows[r.job].known => row \in KnownJobs /\ row.last = backupRows[r.job].last
    BY <1>2 DEF KnownJobs, Statuses
  <2>3. /\ backupRows' \in [BackupJobs -> KnownJobs \cup {NoJob}]
        /\ \A k \in BackupJobs : backupRows'[k].known =>
             backupRows[k].known /\ backupRows'[k].last = backupRows[k].last
    <3>1. r.job \in BackupJobs
      BY <1>1 DEF RunRecords
    <3> HIDE DEF row
    <3> QED
      BY <2>1, <2>2, <3>1, UpdatedRows
  <2>4. BaselineReceived' /\ NewestThere' /\ NewestSpared'
    BY <2>1, <2>3 DEF BaselineReceived, NewestThere, NewestSpared
  <2> QED
    BY <2>1, <2>3, <2>4 DEF BackupTypes, SnapsTyped
<1> QED
  BY <1>3, <1>5, <1>6, <1>8, <1>9 DEF RunStep

\* The retention lists and prunes what has a newer one; only an administrator
\* deletes the newest.
LEMMA RetentionInv ==
  ASSUME BackupInv,
         ListOutdated \/ DeleteOutdated \/ CreateBackupSnapshot \/ DeleteBackupSnapshot
  PROVE  BackupInv'
<1> USE DEF BackupInv
<1>1. UNCHANGED <<backupRows, received, backupRunning, runs, byHand>>
  BY DEF ListOutdated, DeleteOutdated, CreateBackupSnapshot, DeleteBackupSnapshot,
         backupHistory
<1>2. RunsMarked' /\ OneRunPerJob' /\ SentIsReceived' /\ BaselineReceived'
  BY <1>1 DEF RunsMarked, OneRunPerJob, SentIsReceived, BaselineReceived
<1>3. SUFFICES SnapsTyped' /\ NewestThere' /\ NewestSpared'
  BY <1>1, <1>2 DEF BackupTypes
<1> USE DEF BackupTypes
<1>4. CASE ListOutdated
  <2>1. PICK c \in cleanups, cutoff \in 0 .. MaxSnaps :
          cleanups' = (cleanups \ {c})
            \cup {[pc |-> "delete", source |-> c.source,
                   snaps |-> Outdated(localSnaps[c.source], cutoff)]}
    BY <1>4 DEF ListOutdated
  <2>2. UNCHANGED <<localSnaps, nextSnap, newest, userDeleted>> /\ c.source \in Sources
    BY <1>4 DEF ListOutdated, backupHistory, NewestSpared
  <2>3. \A n \in Outdated(localSnaps[c.source], cutoff) : n \in Nat /\ n < newest[c.source]
    BY <2>2 DEF Outdated, SnapsTyped
  <2> QED
    BY <2>1, <2>2, <2>3 DEF SnapsTyped, NewestThere, NewestSpared
<1>5. CASE DeleteOutdated
  <2>1. PICK c \in cleanups : /\ c.pc = "delete"
                              /\ localSnaps' = [localSnaps EXCEPT ![c.source] = @ \ c.snaps]
                              /\ cleanups' = cleanups \ {c}
    BY <1>5 DEF DeleteOutdated
  <2>2. /\ UNCHANGED <<nextSnap, newest, userDeleted>>
        /\ c.source \in Sources /\ newest[c.source] \notin c.snaps
    BY <1>5, <2>1 DEF DeleteOutdated, NewestSpared, SnapsTyped, backupHistory
  <2>3. SnapsTyped' /\ NewestSpared'
    BY <2>1, <2>2 DEF SnapsTyped, NewestSpared
  <2>4. NewestThere'
    BY <2>1, <2>2 DEF SnapsTyped, NewestThere
  <2> QED
    BY <2>3, <2>4
<1>6. CASE CreateBackupSnapshot
  <2>1. PICK s \in Sources : LET all == localSnaps[s] \cup {nextSnap}
                             IN  Snapped(s, all \ ToPrune(all))
    BY <1>6 DEF CreateBackupSnapshot
  <2> DEFINE all == localSnaps[s] \cup {nextSnap}
  <2>2. nextSnap \notin ToPrune(all)
    <3>1. {t \in all : t > nextSnap} = {}
      BY DEF SnapsTyped
    <3>2. Cardinality({t \in all : t > nextSnap}) = 0
      BY <3>1, FS_EmptySet
    <3>3. ~(0 >= SnapshotMax)
      BY BackupAssumption
    <3> QED
      BY <3>2, <3>3 DEF ToPrune
  <2>3. nextSnap \in all \ ToPrune(all) /\ all \ ToPrune(all) \subseteq all
    BY <2>2
  <2>4. UNCHANGED <<cleanups, userDeleted>> /\ Snapped(s, all \ ToPrune(all))
    BY <1>6, <2>1 DEF CreateBackupSnapshot
  <2> HIDE DEF BackupTypes
  <2>5. SnapsTyped /\ NewestThere /\ NewestSpared
    BY DEF BackupTypes
  <2> QED
    BY <2>3, <2>4, <2>5, SnappedInv
<1>7. CASE DeleteBackupSnapshot
  BY <1>7 DEF DeleteBackupSnapshot, SnapsTyped, NewestThere, NewestSpared
<1> QED
  BY <1>4, <1>5, <1>6, <1>7

\* Every step keeps the invariant; a crash loses the runs with their marks.
LEMMA NextBackupInv == BackupInv /\ [BackupNext]_backupVars => BackupInv'
<1> SUFFICES ASSUME BackupInv, [BackupNext]_backupVars PROVE BackupInv'
  OBVIOUS
<1>1. CASE BackupCrash
  BY <1>1 DEF BackupCrash, backupHistory, BackupInv, BackupTypes, SnapsTyped, RunsMarked,
              OneRunPerJob, SentIsReceived, BaselineReceived, NewestThere, NewestSpared
<1>2. CASE UNCHANGED backupVars
  BY <1>2 DEF backupVars, BackupInv, BackupTypes, SnapsTyped, RunsMarked, OneRunPerJob,
              SentIsReceived, BaselineReceived, NewestThere, NewestSpared
<1> QED
  BY <1>1, <1>2, StartersInv, RunsInv, RetentionInv DEF BackupNext

\* No job runs twice at a time, what it notes as its last snapshot was received
\* unless a request wrote it, and the retention of overlapping runs leaves the
\* newest snapshot of a source: for any jobs, sources, destinations, edits,
\* crashes and failing sends.
THEOREM BackupsSound == BackupSpec => []BackupsAreSound
<1>1. BackupInv => BackupsAreSound
  BY DEF BackupInv, BackupsAreSound, NewestSnapshotKept, NewestThere
<1> QED
  BY <1>1, InitBackupInv, NextBackupInv, PTL DEF BackupSpec
-----------------------------------------------------------------------------
(* The secrets of stacks, for any apps and any number of jobs that interleave *)
(* on the same files: the deployments that hold a secret hold the one there   *)
(* is, or all the same one, and the data are deleted only by a job that asked.*)

PortModes == {"lan", "caddy_only"}
ComposeFiles == [dir : BOOLEAN, ports : PortModes \cup {"none"}, secret : Nat]
DeployRecords ==
  [id : JobIds, kind : {"deploy"}, app : Stacks, secret : Nat,
   pc : {"write", "secret", "env", "fill", "up", "register"}]
AppJobRecords ==
  DeployRecords
    \cup [id : JobIds, kind : {"create"}, app : Singles, pc : {"register"}]
    \cup [id : JobIds, kind : {"delete"}, app : Apps, pc : {"down", "files", "data", "row"},
          wipe : BOOLEAN]
    \cup [id : JobIds, kind : {"mode"}, app : Stacks, mode : PortModes, src : ComposeFiles,
          pc : {"rewrite", "save"}]
    \cup [id : JobIds, kind : {"install"}, app : {"engine"},
          pc : {"accepted", "lock", "stop", "start", "failed", "succeeded"}]

\* The jobs, and the files.
AppJobsTyped == jobs \subseteq AppJobRecords /\ appJobs \in 0 .. MaxAppJobs
AppTypes ==
  /\ compose \in [Stacks -> ComposeFiles] /\ volume \in [Stacks -> Nat]
  /\ AppJobsTyped

\* A job that wipes was asked to, and one that deletes files wipes.
WipesAsked ==
  \A j \in jobs : j.kind = "delete" =>
    /\ j.wipe => j.app \in wiped
    /\ j.pc \in {"files", "data"} => j.wipe

\* A deployment that has read a secret, and not written it.
Holds(k) == k.kind = "deploy" /\ k.pc \in {"env", "fill"}
HoldersStay == {k \in jobs' : Holds(k)} = {k \in jobs : Holds(k)}

\* Of the stacks the property speaks of, a secret that is held is the one of the
\* .env file, if it has one, and that of every other deployment.
HoldersAgree ==
  \A k \in jobs : Holds(k) /\ k.app \notin wiped \cup torn =>
    /\ compose[k.app].secret # 0 => k.secret = compose[k.app].secret
    /\ \A l \in jobs : Holds(l) /\ l.app = k.app => l.secret = k.secret

AppsInv == AppTypes /\ WipesAsked /\ SecretsKept /\ HoldersAgree

\* Without jobs and data there is nothing to keep.
LEMMA InitAppsInv == AppsInit => AppsInv
<1> SUFFICES ASSUME AppsInit PROVE AppsInv
  OBVIOUS
<1>1. NoCompose \in ComposeFiles
  BY DEF NoCompose, ComposeFiles
<1> QED
  BY <1>1, AppsAssumption DEF AppsInit, AppsInv, AppTypes, AppJobsTyped, WipesAsked,
                              SecretsKept, HoldersAgree

\* A job that begins is one of the records, asks for what it wipes, and holds
\* nothing.
LEMMA StartInv ==
  ASSUME AppsInv, NEW job, Start(job), job.id = appJobs => job \in AppJobRecords,
         job.id = appJobs, wiped \subseteq wiped', ~Holds(job),
         job.kind = "delete" => /\ job.wipe => job.app \in wiped'
                                /\ job.pc \notin {"files", "data"}
  PROVE  AppJobsTyped' /\ WipesAsked' /\ HoldersStay
<1>1. jobs' = jobs \cup {job} /\ appJobs' = appJobs - 1 /\ appJobs > 0
  BY DEF Start
<1>2. AppJobsTyped'
  BY <1>1, AppsAssumption DEF AppsInv, AppTypes, AppJobsTyped
<1>3. WipesAsked'
  BY <1>1 DEF AppsInv, WipesAsked
<1>4. HoldersStay
  BY <1>1 DEF HoldersStay
<1> QED
  BY <1>2, <1>3, <1>4

\* The next step of a job, whatever it does to the files.
LEMMA JobGoes ==
  ASSUME AppsInv, NEW j \in jobs, NEW to, to \in AppJobRecords,
         to.kind = j.kind, to.app = j.app, to.kind = "delete" => to.wipe = j.wipe,
         to.kind = "delete" /\ to.pc \in {"files", "data"} => j.wipe,
         jobs' \subseteq (jobs \ {j}) \cup {to}, UNCHANGED <<wiped, appJobs>>
  PROVE  AppJobsTyped' /\ WipesAsked'
<1>1. WipesAsked'
  BY DEF AppsInv, WipesAsked
<1> QED
  BY <1>1 DEF AppsInv, AppTypes, AppJobsTyped

\* The step of a job that holds no secret, before or after.
LEMMA PlainGoes ==
  ASSUME AppsInv, NEW j \in jobs, NEW pc, [j EXCEPT !.pc = pc] \in AppJobRecords,
         j.kind = "delete" /\ pc \in {"files", "data"} => j.wipe,
         ~Holds(j), j.kind = "deploy" => pc \notin {"env", "fill"},
         Ends(j) \/ Goes(j, pc), UNCHANGED <<wiped, appJobs>>
  PROVE  AppJobsTyped' /\ WipesAsked' /\ HoldersStay
<1> DEFINE to == [j EXCEPT !.pc = pc]
<1>1. j \in AppJobRecords
  BY DEF AppsInv, AppTypes, AppJobsTyped
<1>2. /\ to.kind = j.kind /\ to.app = j.app /\ to.pc = pc
      /\ j.kind = "delete" => to.wipe = j.wipe
  BY <1>1 DEF AppJobRecords, DeployRecords
<1>3. jobs' = jobs \ {j} \/ jobs' = (jobs \ {j}) \cup {to}
  BY DEF Ends, Goes
<1>4. to \in AppJobRecords
  OBVIOUS
<1> HIDE DEF to
<1>5. AppJobsTyped' /\ WipesAsked'
  BY <1>2, <1>3, <1>4, JobGoes
<1>6. HoldersStay
  BY <1>2, <1>3 DEF HoldersStay, Holds
<1> QED
  BY <1>5, <1>6

\* A compose file that is written keeps its secret, and a database is created with
\* the secret of the file.
LEMMA FilesKeep ==
  ASSUME AppsInv, AppJobsTyped', WipesAsked', HoldersStay,
         wiped \subseteq wiped', torn \subseteq torn',
         NEW s \in Stacks, NEW file \in ComposeFiles, file.secret = compose[s].secret,
         compose' = [compose EXCEPT ![s] = file],
         \/ volume' = volume
         \/ volume' = [volume EXCEPT ![s] = IF @ = 0 THEN file.secret ELSE @]
  PROVE  AppsInv'
<1>1. file.secret \in Nat
  BY DEF ComposeFiles
<1>2. AppTypes'
  BY <1>1 DEF AppsInv, AppTypes
<1>3. \A t \in Stacks : compose'[t].secret = compose[t].secret
  BY DEF AppsInv, AppTypes
<1>4. ASSUME NEW t \in Stacks, volume'[t] # volume[t]
      PROVE  volume'[t] = compose'[t].secret
  <2>1. t = s /\ volume'[s] = file.secret
    BY <1>4 DEF AppsInv, AppTypes
  <2> QED
    BY <1>3, <2>1
<1>5. SecretsKept'
  <2> SUFFICES ASSUME NEW t \in Stacks \ (wiped' \cup torn'), volume'[t] # 0
               PROVE  \/ compose'[t].secret = volume'[t]
                      \/ \E j \in jobs' : /\ j.kind = "deploy" /\ j.app = t /\ j.pc = "fill"
                                        /\ j.secret = volume'[t]
    BY DEF SecretsKept
  <2>1. CASE volume'[t] = volume[t]
    <3>1. \/ compose[t].secret = volume[t]
          \/ \E j \in jobs : /\ j.kind = "deploy" /\ j.app = t /\ j.pc = "fill"
                            /\ j.secret = volume[t]
      BY <2>1 DEF AppsInv, SecretsKept
    <3> QED
      BY <1>3, <2>1, <3>1 DEF HoldersStay, Holds
  <2> QED
    BY <1>4, <2>1
<1>6. HoldersAgree'
  <2> SUFFICES ASSUME NEW k \in jobs', Holds(k), k.app \notin wiped' \cup torn'
               PROVE  /\ compose'[k.app].secret # 0 => k.secret = compose'[k.app].secret
                      /\ \A l \in jobs' : Holds(l) /\ l.app = k.app => l.secret = k.secret
    BY DEF HoldersAgree, Holds
  <2>1. k \in jobs /\ \A l \in jobs' : Holds(l) => l \in jobs
    BY DEF HoldersStay
  <2>2. k.app \in Stacks
    BY <2>1 DEF AppsInv, AppTypes, AppJobsTyped, AppJobRecords, DeployRecords, Holds
  <2> QED
    BY <1>3, <2>1, <2>2 DEF AppsInv, HoldersAgree
<1> QED
  BY <1>2, <1>5, <1>6 DEF AppsInv

\* A step that touches no file, no data and no holder.
LEMMA FilesStay ==
  ASSUME AppsInv, AppJobsTyped', WipesAsked', HoldersStay,
         wiped \subseteq wiped', torn \subseteq torn', UNCHANGED <<compose, volume>>
  PROVE  AppsInv'
<1>1. AppTypes'
  BY DEF AppsInv, AppTypes
<1>2. SecretsKept'
  BY DEF AppsInv, SecretsKept, HoldersStay, Holds
<1>3. HoldersAgree'
  <2>1. \A k \in jobs' : Holds(k) => k \in jobs
    BY DEF HoldersStay
  <2> QED
    BY <2>1 DEF AppsInv, HoldersAgree, Holds
<1> QED
  BY <1>1, <1>2, <1>3 DEF AppsInv

-----------------------------------------------------------------------------
\* A deployment up to the reading of the secret, and after its writing.
LEMMA DeployInv ==
  ASSUME AppsInv, NEW j \in jobs, WriteCompose(j) \/ DeployUp(j) \/ RegisterApp(j)
  PROVE  AppsInv'
<1>1. j \in AppJobRecords
  BY DEF AppsInv, AppTypes, AppJobsTyped
<1>2. UNCHANGED <<wiped, torn, appJobs>>
  BY DEF WriteCompose, DeployUp, RegisterApp, appHistory
<1>3. CASE WriteCompose(j)
  <2> DEFINE s == j.app
  <2>1. j \in DeployRecords /\ j.pc = "write" /\ j.kind = "deploy"
    BY <1>1, <1>3 DEF WriteCompose, AppJobRecords
  <2>2. s \in Stacks /\ compose[s] \in ComposeFiles /\ compose \in [Stacks -> ComposeFiles]
    BY <2>1 DEF DeployRecords, AppsInv, AppTypes
  <2>3. [j EXCEPT !.pc = "secret"] \in AppJobRecords /\ ~Holds(j)
    BY <2>1 DEF AppJobRecords, DeployRecords, Holds
  <2>4. AppJobsTyped' /\ WipesAsked' /\ HoldersStay
    BY <1>2, <1>3, <2>1, <2>3, PlainGoes DEF WriteCompose
  <2>5. ASSUME NEW ports \in {"lan", "none"}
        PROVE  /\ [compose[s] EXCEPT !.ports = ports] \in ComposeFiles
               /\ [compose[s] EXCEPT !.ports = ports].secret = compose[s].secret
    BY <2>2 DEF ComposeFiles, PortModes
  <2>6. /\ volume' = volume
        /\ \/ compose' = compose
           \/ compose' = [compose EXCEPT ![s].ports = "lan"]
           \/ compose' = [compose EXCEPT ![s].ports = "none"]
    BY <1>3 DEF WriteCompose
  <2>7. CASE compose' = compose
    BY <1>2, <2>4, <2>6, <2>7, FilesStay
  <2>8. ASSUME NEW ports \in {"lan", "none"}, compose' = [compose EXCEPT ![s].ports = ports]
        PROVE  AppsInv'
    <3> DEFINE file == [compose[s] EXCEPT !.ports = ports]
    <3>1. compose' = [compose EXCEPT ![s] = file]
      BY <2>2, <2>8
    <3>2. file \in ComposeFiles /\ file.secret = compose[s].secret
      BY <2>5
    <3> HIDE DEF file, s
    <3> QED
      BY <1>2, <2>2, <2>4, <2>6, <3>1, <3>2, FilesKeep
  <2> QED
    BY <2>6, <2>7, <2>8
<1>4. CASE DeployUp(j)
  <2>1. j \in DeployRecords /\ j.pc = "up" /\ j.kind = "deploy"
    BY <1>1, <1>4 DEF DeployUp, AppJobRecords
  <2>2. j.app \in Stacks /\ compose[j.app] \in ComposeFiles
    BY <2>1 DEF DeployRecords, AppsInv, AppTypes
  <2>3. [j EXCEPT !.pc = "register"] \in AppJobRecords /\ ~Holds(j)
    BY <2>1 DEF AppJobRecords, DeployRecords, Holds
  <2>4. compose' = compose /\ (Goes(j, "register") \/ Ends(j))
    BY <1>4 DEF DeployUp
  <2>5. AppJobsTyped' /\ WipesAsked' /\ HoldersStay
    BY <1>2, <2>1, <2>3, <2>4, PlainGoes
  <2>6. \/ volume' = volume
        \/ volume' = [volume EXCEPT ![j.app] = IF @ = 0 THEN compose[j.app].secret ELSE @]
    BY <1>4 DEF DeployUp, ComposeUp
  <2>7. compose' = [compose EXCEPT ![j.app] = compose[j.app]]
    BY <2>2, <2>4 DEF AppsInv, AppTypes
  <2> QED
    BY <1>2, <2>2, <2>5, <2>6, <2>7, FilesKeep
<1>5. CASE RegisterApp(j)
  <2>1. j.pc = "register" /\ Ends(j) /\ UNCHANGED <<compose, volume>>
    BY <1>5 DEF RegisterApp
  <2>2. j.kind # "delete" /\ [j EXCEPT !.pc = "register"] \in AppJobRecords /\ ~Holds(j)
    BY <1>1, <2>1 DEF AppJobRecords, DeployRecords, Holds
  <2>3. AppJobsTyped' /\ WipesAsked' /\ HoldersStay
    BY <1>2, <2>1, <2>2, PlainGoes
  <2> QED
    BY <1>2, <2>1, <2>3, FilesStay
<1> QED
  BY <1>3, <1>4, <1>5

\* A deployment reads the secret: the one there is; a new one if there is none and
\* nobody holds another; else its stack is torn.
LEMMA ReadSecretInv ==
  ASSUME AppsInv, NEW j \in jobs, ReadSecret(j)
  PROVE  AppsInv'
<1>1. j \in DeployRecords /\ j.pc = "secret" /\ j.kind = "deploy"
  BY DEF AppsInv, AppTypes, AppJobsTyped, AppJobRecords, ReadSecret
<1>2. j.app \in Stacks /\ j.id \in Nat /\ compose[j.app].secret \in Nat
  BY <1>1 DEF DeployRecords, JobIds, AppsInv, AppTypes, ComposeFiles
<1>3. PICK drawn \in Nat :
        /\ jobs' = (jobs \ {j}) \cup {[j EXCEPT !.pc = "env", !.secret = drawn]}
        /\ \/ /\ drawn = ResolveRandom(j.app, j.id)
              /\ torn' = IF compose[j.app].secret = 0 /\ Holders(j) # {}
                         THEN torn \cup {j.app} ELSE torn
           \/ torn' = torn \cup {j.app}
  BY <1>2 DEF ReadSecret, ResolveRandom
<1> DEFINE to == [j EXCEPT !.pc = "env", !.secret = drawn]
<1>4. /\ to \in DeployRecords /\ to.kind = "deploy" /\ to.app = j.app /\ to.pc = "env"
      /\ to.secret = drawn
  BY <1>1 DEF DeployRecords
<1> HIDE DEF to
<1>5. UNCHANGED <<compose, volume, wiped, appJobs>> /\ jobs' = (jobs \ {j}) \cup {to}
  BY <1>3 DEF ReadSecret, to
<1>6. AppJobsTyped' /\ WipesAsked'
  BY <1>1, <1>4, <1>5, JobGoes DEF AppJobRecords
<1>7. AppTypes'
  BY <1>5, <1>6 DEF AppsInv, AppTypes
<1>8. SecretsKept'
  BY <1>1, <1>3, <1>5 DEF AppsInv, SecretsKept
<1>9. ASSUME j.app \notin wiped \cup torn'
      PROVE  /\ compose[j.app].secret # 0 => drawn = compose[j.app].secret
             /\ \A l \in jobs \ {j} : Holds(l) /\ l.app = j.app => l.secret = drawn
  <2>1. /\ drawn = ResolveRandom(j.app, j.id) /\ torn' = torn
        /\ compose[j.app].secret # 0 \/ Holders(j) = {}
    BY <1>3, <1>9
  <2>2. compose[j.app].secret # 0 => drawn = compose[j.app].secret
    BY <2>1 DEF ResolveRandom
  <2>3. ASSUME NEW l \in jobs \ {j}, Holds(l), l.app = j.app
        PROVE  l.secret = drawn
    <3>1. l \in Holders(j)
      BY <2>3 DEF Holders, Holds
    <3>2. compose[j.app].secret # 0
      BY <2>1, <3>1
    <3>3. l.secret = compose[j.app].secret
      BY <1>9, <2>1, <2>3, <3>2 DEF AppsInv, HoldersAgree
    <3> QED
      BY <2>2, <3>2, <3>3
  <2> QED
    BY <2>2, <2>3
<1>10. HoldersAgree'
  <2> SUFFICES ASSUME NEW k \in jobs', Holds(k), k.app \notin wiped \cup torn'
               PROVE  /\ compose[k.app].secret # 0 => k.secret = compose[k.app].secret
                      /\ \A l \in jobs' : Holds(l) /\ l.app = k.app => l.secret = k.secret
    BY <1>5 DEF HoldersAgree, Holds
  <2>1. k \in jobs \ {j} \/ k = to
    BY <1>5
  <2>2. torn \subseteq torn'
    BY <1>3
  <2>3. CASE k.app # j.app
    <3>1. k \in jobs \ {j} /\ \A l \in jobs' : l.app = k.app => l \in jobs
      BY <1>4, <1>5, <2>1, <2>3
    <3> QED
      BY <2>2, <3>1 DEF AppsInv, HoldersAgree
  <2>4. CASE k.app = j.app
    <3>1. k.secret = drawn
      BY <1>4, <1>9, <2>1, <2>4
    <3>2. \A l \in jobs' : Holds(l) /\ l.app = j.app => l.secret = drawn
      BY <1>4, <1>5, <1>9, <2>4
    <3> QED
      BY <1>9, <2>4, <3>1, <3>2
  <2> QED
    BY <2>3, <2>4
<1> QED
  BY <1>6, <1>7, <1>8, <1>10 DEF AppsInv

\* A deployment writes its .env: what it puts in is what it took out.
LEMMA EnvInv ==
  ASSUME AppsInv, NEW j \in jobs, TruncateEnv(j) \/ FillEnv(j)
  PROVE  AppsInv'
<1>1. j \in DeployRecords /\ j.kind = "deploy" /\ j.pc \in {"env", "fill"} /\ Holds(j)
  BY DEF AppsInv, AppTypes, AppJobsTyped, AppJobRecords, TruncateEnv, FillEnv, Holds
<1>2. /\ j.app \in Stacks /\ j.secret \in Nat /\ compose \in [Stacks -> ComposeFiles]
      /\ compose[j.app] \in ComposeFiles
  BY <1>1 DEF DeployRecords, AppsInv, AppTypes
<1>3. PICK pc \in {"fill", "up"}, secret \in {compose[j.app].secret, 0, j.secret} :
        /\ Goes(j, pc) /\ compose' = [compose EXCEPT ![j.app].secret = secret]
        /\ \/ j.pc = "env" /\ pc = "fill" /\ secret = 0
           \/ j.pc = "env" /\ pc = "up" /\ secret = compose[j.app].secret
           \/ j.pc = "fill" /\ pc = "up" /\ secret = j.secret
           \/ /\ j.pc = "fill" /\ pc = "up" /\ secret = compose[j.app].secret
              /\ j.app \in torn'
  <2>1. compose = [compose EXCEPT ![j.app].secret = compose[j.app].secret]
    BY <1>2 DEF ComposeFiles
  <2>2. CASE TruncateEnv(j)
    <3>1. CASE compose' = [compose EXCEPT ![j.app].secret = 0] /\ Goes(j, "fill")
      BY <2>2, <3>1 DEF TruncateEnv
    <3>2. CASE compose' = compose /\ Goes(j, "up")
      BY <2>1, <2>2, <3>2 DEF TruncateEnv
    <3> QED
      BY <2>2, <3>1, <3>2 DEF TruncateEnv
  <2>3. CASE FillEnv(j)
    <3>1. CASE compose' = [compose EXCEPT ![j.app].secret = j.secret]
      BY <2>3, <3>1 DEF FillEnv
    <3>2. CASE compose' = compose /\ j.app \in torn'
      BY <2>1, <2>3, <3>2 DEF FillEnv
    <3> QED
      BY <2>3, <3>1, <3>2 DEF FillEnv
  <2> QED
    BY <2>2, <2>3
<1> DEFINE to == [j EXCEPT !.pc = pc]
<1>4. /\ to \in DeployRecords /\ to.kind = "deploy" /\ to.app = j.app /\ to.pc = pc
      /\ to.secret = j.secret
  BY <1>1 DEF DeployRecords
<1>5. jobs' = (jobs \ {j}) \cup {to}
  BY <1>3 DEF Goes
<1> HIDE DEF to
<1>6. UNCHANGED <<volume, wiped, appJobs>> /\ torn \subseteq torn'
  BY DEF TruncateEnv, FillEnv, appHistory
<1>7. AppJobsTyped' /\ WipesAsked'
  BY <1>1, <1>4, <1>5, <1>6, JobGoes DEF AppJobRecords
<1>8. secret \in Nat
  BY <1>2 DEF ComposeFiles
<1>9. [compose[j.app] EXCEPT !.secret = secret] \in ComposeFiles
  BY <1>2, <1>8 DEF ComposeFiles
<1>10. compose' = [compose EXCEPT ![j.app] = [compose[j.app] EXCEPT !.secret = secret]]
  BY <1>2, <1>3
<1>11. AppTypes'
  BY <1>6, <1>7, <1>9, <1>10 DEF AppsInv, AppTypes
<1>12. \A t \in Stacks : t # j.app => compose'[t] = compose[t]
  BY <1>2, <1>10
<1>13. compose'[j.app].secret = secret
  BY <1>2, <1>10 DEF ComposeFiles
<1>14. ASSUME NEW k \in jobs, Holds(k), k.app = j.app, j.app \notin wiped \cup torn
      PROVE  k.secret = j.secret
  BY <1>1, <1>14 DEF AppsInv, HoldersAgree
<1>15. SecretsKept'
  <2> SUFFICES ASSUME NEW t \in Stacks \ (wiped' \cup torn'), volume'[t] # 0
               PROVE  \/ compose'[t].secret = volume'[t]
                      \/ \E k \in jobs' : /\ k.kind = "deploy" /\ k.app = t /\ k.pc = "fill"
                                        /\ k.secret = volume'[t]
    BY DEF SecretsKept
  <2>1. \/ compose[t].secret = volume[t]
        \/ \E k \in jobs : /\ k.kind = "deploy" /\ k.app = t /\ k.pc = "fill"
                          /\ k.secret = volume[t]
    BY <1>6 DEF AppsInv, SecretsKept
  <2>2. CASE t # j.app
    BY <1>5, <1>6, <1>12, <2>1, <2>2
  <2>3. CASE t = j.app
    <3>1. t \notin wiped \cup torn
      BY <1>6
    <3>2. volume[t] = j.secret
      <4>1. CASE compose[t].secret = volume[t]
        BY <1>1, <1>6, <2>3, <3>1, <4>1 DEF AppsInv, HoldersAgree
      <4>2. CASE \E k \in jobs : /\ k.kind = "deploy" /\ k.app = t /\ k.pc = "fill"
                                 /\ k.secret = volume[t]
        BY <1>14, <2>3, <3>1, <4>2 DEF Holds
      <4> QED
        BY <2>1, <4>1, <4>2
    <3>3. CASE pc = "fill"
      BY <1>4, <1>5, <1>6, <2>3, <3>2, <3>3
    <3>4. CASE pc = "up"
      <4>1. CASE secret = j.secret
        BY <1>6, <1>13, <2>3, <3>2, <4>1
      <4>2. CASE secret # j.secret
        <5>1. j.pc = "env" /\ secret = compose[t].secret
          BY <1>1, <1>3, <2>3, <3>4, <4>2
        <5>2. \A k \in jobs : k.pc = "fill" => k \in jobs'
          BY <1>5, <5>1
        <5> QED
          BY <1>6, <1>13, <2>1, <2>3, <5>1, <5>2
      <4> QED
        BY <4>1, <4>2
    <3> QED
      BY <3>3, <3>4
  <2> QED
    BY <2>2, <2>3
<1>16. HoldersAgree'
  <2> SUFFICES ASSUME NEW k \in jobs', Holds(k), k.app \notin wiped' \cup torn'
               PROVE  /\ compose'[k.app].secret # 0 => k.secret = compose'[k.app].secret
                      /\ \A l \in jobs' : Holds(l) /\ l.app = k.app => l.secret = k.secret
    BY DEF HoldersAgree, Holds
  <2>1. \A l \in jobs' : l \in jobs \ {j} \/ l = to
    BY <1>5
  <2>2. k.app \notin wiped \cup torn
    BY <1>6
  <2>3. CASE k.app # j.app
    <3>1. k \in jobs /\ k.app \in Stacks /\ \A l \in jobs' : l.app = k.app => l \in jobs
      BY <1>4, <2>1, <2>3 DEF AppsInv, AppTypes, AppJobsTyped, AppJobRecords,
         DeployRecords, Holds
    <3>2. /\ compose[k.app].secret # 0 => k.secret = compose[k.app].secret
          /\ \A l \in jobs : Holds(l) /\ l.app = k.app => l.secret = k.secret
      BY <2>2, <3>1 DEF AppsInv, HoldersAgree
    <3> QED
      BY <1>12, <2>3, <3>1, <3>2
  <2>4. CASE k.app = j.app
    <3>1. \A l \in jobs' : Holds(l) /\ l.app = j.app => l.secret = j.secret
      BY <1>4, <1>14, <2>1, <2>2, <2>4
    <3>2. compose'[j.app].secret # 0 => j.secret = compose'[j.app].secret
      <4>1. compose[j.app].secret # 0 => j.secret = compose[j.app].secret
        BY <1>1, <2>2, <2>4 DEF AppsInv, HoldersAgree
      <4> QED
        BY <1>3, <1>13, <4>1
    <3> QED
      BY <2>4, <3>1, <3>2
  <2> QED
    BY <2>3, <2>4
<1> QED
  BY <1>7, <1>11, <1>15, <1>16 DEF AppsInv

-----------------------------------------------------------------------------
\* An uninstall that deletes the files: the deployments that held their .env open
\* hold it no longer, and of this stack nothing is promised.
LEMMA WipeFilesInv ==
  ASSUME AppsInv, NEW j \in jobs, WipeStackFiles(j)
  PROVE  AppsInv'
<1>1. /\ j \in [id : JobIds, kind : {"delete"}, app : Apps,
                pc : {"down", "files", "data", "row"}, wipe : BOOLEAN]
      /\ j.pc = "files"
  BY DEF AppsInv, AppTypes, AppJobsTyped, AppJobRecords, DeployRecords, WipeStackFiles
<1>2. j.wipe /\ j.app \in wiped /\ wiped' = wiped /\ torn' = torn
  BY <1>1 DEF AppsInv, WipesAsked, WipeStackFiles, appHistory
<1> DEFINE to == [j EXCEPT !.pc = "data"]
<1>3. to \in AppJobRecords /\ to.kind = "delete" /\ to.app = j.app /\ to.wipe = j.wipe
  BY <1>1 DEF AppJobRecords
<1>4. jobs' = {Unlinked(j, k) : k \in jobs \ {j}} \cup {to}
  BY DEF WipeStackFiles
<1> HIDE DEF to
<1>5. ASSUME NEW k \in jobs
      PROVE  /\ Unlinked(j, k) \in AppJobRecords
             /\ Unlinked(j, k).kind = k.kind /\ Unlinked(j, k).app = k.app
             /\ Unlinked(j, k) = k \/ (k.kind = "deploy" /\ k.app = j.app)
  <2>1. k \in AppJobRecords
    BY DEF AppsInv, AppTypes, AppJobsTyped
  <2>2. CASE k.kind = "deploy" /\ k.app = j.app /\ k.pc = "fill"
    <3>1. k \in DeployRecords
      BY <2>1, <2>2 DEF AppJobRecords
    <3>2. /\ [k EXCEPT !.pc = "up"] \in DeployRecords
          /\ [k EXCEPT !.pc = "up"].kind = k.kind /\ [k EXCEPT !.pc = "up"].app = k.app
      BY <3>1 DEF DeployRecords
    <3> QED
      BY <2>2, <3>2 DEF Unlinked, AppJobRecords
  <2>3. CASE ~(k.kind = "deploy" /\ k.app = j.app /\ k.pc = "fill")
    <3>1. Unlinked(j, k) = k
      BY <2>3 DEF Unlinked
    <3> QED
      BY <2>1, <3>1
  <2> QED
    BY <2>2, <2>3
<1>6. AppJobsTyped'
  <2>1. jobs' \subseteq AppJobRecords
    BY <1>3, <1>4, <1>5
  <2> QED
    BY <2>1 DEF AppsInv, AppTypes, AppJobsTyped, WipeStackFiles
<1>7. \A l \in jobs' : l \in jobs \/ l = to \/ (l.kind = "deploy" /\ l.app = j.app)
  BY <1>4, <1>5
<1>8. \A k \in jobs : k = j \/ k \in jobs' \/ (k.kind = "deploy" /\ k.app = j.app)
  BY <1>4, <1>5
<1>9. WipesAsked'
  BY <1>2, <1>3, <1>7 DEF AppsInv, WipesAsked
<1>10. /\ compose \in [Stacks -> ComposeFiles]
       /\ compose' = [compose EXCEPT ![j.app] = NoCompose] /\ volume' = volume
       /\ NoCompose \in ComposeFiles
  BY DEF WipeStackFiles, AppsInv, AppTypes, NoCompose, ComposeFiles
<1>11. AppTypes' /\ \A t \in Stacks : t # j.app => compose'[t] = compose[t]
  BY <1>6, <1>10 DEF AppsInv, AppTypes
<1>12. SecretsKept'
  <2> SUFFICES ASSUME NEW t \in Stacks \ (wiped \cup torn), volume[t] # 0
               PROVE  \/ compose'[t].secret = volume[t]
                      \/ \E k \in jobs' : /\ k.kind = "deploy" /\ k.app = t /\ k.pc = "fill"
                                        /\ k.secret = volume[t]
    BY <1>2, <1>10 DEF SecretsKept
  <2>1. t # j.app
    BY <1>2
  <2>2. \/ compose[t].secret = volume[t]
        \/ \E k \in jobs : /\ k.kind = "deploy" /\ k.app = t /\ k.pc = "fill"
                          /\ k.secret = volume[t]
    BY DEF AppsInv, SecretsKept
  <2> QED
    BY <1>1, <1>8, <1>11, <2>1, <2>2
<1>13. HoldersAgree'
  <2> SUFFICES ASSUME NEW k \in jobs', Holds(k), k.app \notin wiped \cup torn
               PROVE  /\ compose'[k.app].secret # 0 => k.secret = compose'[k.app].secret
                      /\ \A l \in jobs' : Holds(l) /\ l.app = k.app => l.secret = k.secret
    BY <1>2 DEF HoldersAgree, Holds
  <2>1. k.app # j.app
    BY <1>2
  <2>2. k \in jobs /\ \A l \in jobs' : Holds(l) /\ l.app = k.app => l \in jobs
    BY <1>3, <1>7, <2>1 DEF Holds
  <2>3. k.app \in Stacks
    BY <2>2 DEF AppsInv, AppTypes, AppJobsTyped, AppJobRecords, DeployRecords, Holds
  <2> QED
    BY <1>11, <2>1, <2>2, <2>3 DEF AppsInv, HoldersAgree
<1> QED
  BY <1>9, <1>11, <1>12, <1>13 DEF AppsInv

\* The rest of an uninstall: only a job that was asked to wipes the data.
LEMMA DeleteInv ==
  ASSUME AppsInv, NEW j \in jobs, TakeDown(j) \/ WipeStackData(j) \/ DeleteDockerApp(j)
  PROVE  AppsInv'
<1>1. j \in [id : JobIds, kind : {"delete"}, app : Apps, pc : {"down", "files", "data", "row"},
             wipe : BOOLEAN]
  BY DEF AppsInv, AppTypes, AppJobsTyped, AppJobRecords, DeployRecords, TakeDown,
         WipeStackData, DeleteDockerApp
<1>2. /\ \A pc \in {"down", "files", "data", "row"} : [j EXCEPT !.pc = pc] \in AppJobRecords
      /\ ~Holds(j) /\ j.kind = "delete"
  BY <1>1 DEF AppJobRecords, Holds
<1>3. UNCHANGED <<wiped, torn, appJobs, compose>>
  BY DEF TakeDown, WipeStackData, DeleteDockerApp, appHistory
<1>4. AppJobsTyped' /\ WipesAsked' /\ HoldersStay
  <2>1. CASE TakeDown(j)
    <3>1. AfterDown(j) \in {"files", "row"} /\ (AfterDown(j) = "files" => j.wipe)
      BY DEF AfterDown
    <3> QED
      BY <1>2, <1>3, <2>1, <3>1, PlainGoes DEF TakeDown
  <2>2. CASE WipeStackData(j)
    BY <1>2, <1>3, <2>2, PlainGoes DEF WipeStackData
  <2>3. CASE DeleteDockerApp(j)
    BY <1>2, <1>3, <2>3, PlainGoes DEF DeleteDockerApp
  <2> QED
    BY <2>1, <2>2, <2>3
<1>5. CASE TakeDown(j) \/ DeleteDockerApp(j)
  <2>1. volume' = volume
    BY <1>5 DEF TakeDown, DeleteDockerApp
  <2> QED
    BY <1>3, <1>4, <2>1, FilesStay
<1>6. CASE WipeStackData(j)
  <2>1. volume' = [volume EXCEPT ![j.app] = 0] /\ j.pc = "data"
    BY <1>6 DEF WipeStackData
  <2>2. j.app \in wiped
    BY <1>1, <2>1 DEF AppsInv, WipesAsked
  <2>3. AppTypes' /\ \A t \in Stacks : t # j.app => volume'[t] = volume[t]
    BY <1>3, <1>4, <2>1 DEF AppsInv, AppTypes
  <2>4. SecretsKept'
    BY <1>3, <1>4, <2>2, <2>3 DEF AppsInv, SecretsKept, HoldersStay, Holds
  <2>5. HoldersAgree'
    <3>1. \A k \in jobs' : Holds(k) => k \in jobs
      BY <1>4 DEF HoldersStay
    <3> QED
      BY <1>3, <3>1 DEF AppsInv, HoldersAgree, Holds
  <2> QED
    BY <1>4, <2>3, <2>4, <2>5 DEF AppsInv
<1> QED
  BY <1>5, <1>6

\* Changing the access mode rewrites the ports of the file that is there.
LEMMA ModeInv ==
  ASSUME AppsInv, NEW j \in jobs, ApplyAccessMode(j) \/ SaveAccessMode(j)
  PROVE  AppsInv'
<1>1. j \in [id : JobIds, kind : {"mode"}, app : Stacks, mode : PortModes, src : ComposeFiles,
             pc : {"rewrite", "save"}]
  BY DEF AppsInv, AppTypes, AppJobsTyped, AppJobRecords, DeployRecords, ApplyAccessMode,
         SaveAccessMode
<1>2. UNCHANGED <<wiped, torn, appJobs>> /\ (Goes(j, "save") \/ Ends(j))
  BY DEF ApplyAccessMode, SaveAccessMode, appHistory
<1>3. AppJobsTyped' /\ WipesAsked' /\ HoldersStay
  <2>1. [j EXCEPT !.pc = "save"] \in AppJobRecords /\ j.kind = "mode" /\ ~Holds(j)
    BY <1>1 DEF AppJobRecords, Holds
  <2> QED
    BY <1>2, <2>1, PlainGoes
<1> DEFINE a == j.app
           file == [compose[a] EXCEPT !.ports = j.mode]
           back == [compose[a] EXCEPT !.ports = j.src.ports]
<1>4. a \in Stacks /\ compose[a] \in ComposeFiles
  BY <1>1 DEF AppsInv, AppTypes
<1>5. j.mode \in PortModes /\ j.src.ports \in PortModes \cup {"none"}
  BY <1>1 DEF ComposeFiles
<1>6. /\ file \in ComposeFiles /\ file.secret = compose[a].secret
      /\ back \in ComposeFiles /\ back.secret = compose[a].secret
  BY <1>4, <1>5 DEF ComposeFiles
<1>7. \/ /\ compose' = [compose EXCEPT ![a] = file]
         /\ volume' = [volume EXCEPT ![a] = IF @ = 0 THEN file.secret ELSE @]
      \/ compose' = [compose EXCEPT ![a] = back] /\ volume' = volume
      \/ UNCHANGED <<compose, volume>>
  BY DEF ApplyAccessMode, SaveAccessMode
<1> HIDE DEF file, back, a
<1>8. CASE UNCHANGED <<compose, volume>>
  BY <1>2, <1>3, <1>8, FilesStay
<1>9. CASE compose' = [compose EXCEPT ![a] = back] /\ volume' = volume
  BY <1>2, <1>3, <1>4, <1>6, <1>9, FilesKeep
<1>10. CASE /\ compose' = [compose EXCEPT ![a] = file]
            /\ volume' = [volume EXCEPT ![a] = IF @ = 0 THEN file.secret ELSE @]
  BY <1>2, <1>3, <1>4, <1>6, <1>10, FilesKeep
<1> QED
  BY <1>7, <1>8, <1>9, <1>10

\* The installation of the engine touches no stack.
LEMMA InstallInv ==
  ASSUME AppsInv, NEW j \in jobs,
         \/ MarkRunning(j) \/ LockInstall(j) \/ StopEngine(j) \/ StartEngine(j)
         \/ MarkFinished(j)
  PROVE  AppsInv'
<1> DEFINE pcs == {"accepted", "lock", "stop", "start", "failed", "succeeded"}
<1>1. j \in [id : JobIds, kind : {"install"}, app : {"engine"}, pc : pcs]
  BY DEF AppsInv, AppTypes, AppJobsTyped, AppJobRecords, DeployRecords, MarkRunning,
         LockInstall, StopEngine, StartEngine, MarkFinished
<1>2. /\ \A pc \in pcs : [j EXCEPT !.pc = pc] \in AppJobRecords
      /\ j.kind = "install" /\ ~Holds(j)
  BY <1>1 DEF AppJobRecords, Holds
<1>3. UNCHANGED <<compose, volume, wiped, torn, appJobs>>
  BY DEF MarkRunning, LockInstall, StopEngine, StartEngine, MarkFinished, appHistory
<1>4. Ends(j) \/ \E pc \in pcs : Goes(j, pc)
  BY DEF MarkRunning, LockInstall, StopEngine, StartEngine, MarkFinished
<1>5. Ends(j) => Ends(j) \/ Goes(j, "lock")
  OBVIOUS
<1> HIDE DEF pcs
<1>6. PICK pc \in pcs : Ends(j) \/ Goes(j, pc)
  BY <1>4, <1>5 DEF pcs
<1>7. AppJobsTyped' /\ WipesAsked' /\ HoldersStay
  BY <1>2, <1>3, <1>6, PlainGoes
<1> QED
  BY <1>3, <1>7, FilesStay

\* The daemon dies: no deployment holds anything any more, and a .env that was
\* empty just then is one of a stack in torn.
LEMMA AppsCrashInv ==
  ASSUME AppsInv, AppsCrash
  PROVE  AppsInv'
<1>1. /\ jobs' = {} /\ UNCHANGED <<compose, volume, wiped, appJobs>>
      /\ torn' = torn \cup {j.app : j \in {k \in jobs : k.kind = "deploy" /\ k.pc = "fill"}}
  BY DEF AppsCrash
<1>2. SecretsKept'
  BY <1>1 DEF AppsInv, SecretsKept
<1> QED
  BY <1>1, <1>2 DEF AppsInv, AppTypes, AppJobsTyped, WipesAsked, HoldersAgree

\* Every step keeps the invariant.
LEMMA NextAppsInv == AppsInv /\ [AppsNext]_appVars => AppsInv'
<1> SUFFICES ASSUME AppsInv, [AppsNext]_appVars PROVE AppsInv'
  OBVIOUS
<1>1. appJobs > 0 => appJobs \in JobIds
  BY AppsAssumption DEF AppsInv, AppTypes, AppJobsTyped, JobIds
<1>2. ASSUME NEW s \in Stacks, BeginDeploy(s) PROVE AppsInv'
  <2> DEFINE job == [id |-> appJobs, kind |-> "deploy", app |-> s, pc |-> "write",
                     secret |-> 0]
             file == [compose[s] EXCEPT !.dir = TRUE]
  <2>1. Start(job) /\ UNCHANGED <<volume, wiped, torn>> /\ appJobs > 0
    BY <1>2 DEF BeginDeploy, Start, appHistory
  <2>2. job \in AppJobRecords /\ job.id = appJobs /\ job.kind # "delete" /\ ~Holds(job)
    BY <1>1, <2>1 DEF AppJobRecords, DeployRecords, Holds
  <2> HIDE DEF job
  <2>3. AppJobsTyped' /\ WipesAsked' /\ HoldersStay
    BY <2>1, <2>2, StartInv
  <2>4. compose \in [Stacks -> ComposeFiles] /\ compose[s] \in ComposeFiles
    BY DEF AppsInv, AppTypes
  <2>5. file \in ComposeFiles /\ file.secret = compose[s].secret
    BY <2>4 DEF ComposeFiles
  <2>6. compose' = compose \/ compose' = [compose EXCEPT ![s] = file]
    BY <1>2, <2>4 DEF BeginDeploy
  <2> HIDE DEF file
  <2>7. CASE compose' = compose
    BY <2>1, <2>3, <2>7, FilesStay
  <2>8. CASE compose' = [compose EXCEPT ![s] = file]
    BY <2>1, <2>3, <2>5, <2>8, FilesKeep
  <2> QED
    BY <2>6, <2>7, <2>8
<1>3. ASSUME NEW s \in Stacks, Recreate(s) PROVE AppsInv'
  <2>1. /\ UNCHANGED <<compose, jobs, wiped, torn>> /\ appJobs' = appJobs - 1 /\ appJobs > 0
        /\ volume' = [volume EXCEPT ![s] = IF @ = 0 THEN compose[s].secret ELSE @]
    BY <1>3 DEF Recreate, ComposeUp, appHistory
  <2>2. compose[s] \in ComposeFiles /\ compose' = [compose EXCEPT ![s] = compose[s]]
    BY <2>1 DEF AppsInv, AppTypes
  <2>3. AppJobsTyped' /\ WipesAsked' /\ HoldersStay
    BY <2>1, AppsAssumption DEF AppsInv, AppTypes, AppJobsTyped, WipesAsked, HoldersStay
  <2> QED
    BY <2>1, <2>2, <2>3, FilesKeep
<1>4. ASSUME NEW s \in Stacks, NEW mode \in {"lan", "caddy_only"}, BeginAccessMode(s, mode)
      PROVE  AppsInv'
  <2> DEFINE job == [id |-> appJobs, kind |-> "mode", app |-> s, mode |-> mode,
                     src |-> compose[s],
                     pc |-> IF compose[s].ports = mode THEN "save" ELSE "rewrite"]
  <2>1. Start(job) /\ UNCHANGED <<compose, volume, wiped, torn>> /\ appJobs > 0
    BY <1>4 DEF BeginAccessMode, Start, appHistory
  <2>2. compose[s] \in ComposeFiles
    BY DEF AppsInv, AppTypes
  <2>3. job \in AppJobRecords /\ job.id = appJobs /\ job.kind # "delete" /\ ~Holds(job)
    BY <1>1, <2>1, <2>2 DEF AppJobRecords, PortModes, Holds
  <2> HIDE DEF job
  <2> QED
    BY <2>1, <2>3, StartInv, FilesStay
<1>5. ASSUME NEW c \in Singles, CreateContainer(c) PROVE AppsInv'
  <2> DEFINE job == [id |-> appJobs, kind |-> "create", app |-> c, pc |-> "register"]
  <2>1. Start(job) /\ UNCHANGED <<compose, volume, wiped, torn>> /\ appJobs > 0
    BY <1>5 DEF CreateContainer, Start, appHistory
  <2>2. job \in AppJobRecords /\ job.id = appJobs /\ job.kind # "delete" /\ ~Holds(job)
    BY <1>1, <2>1 DEF AppJobRecords, Holds
  <2> HIDE DEF job
  <2> QED
    BY <2>1, <2>2, StartInv, FilesStay
<1>6. ASSUME NEW a \in Apps, NEW wipe \in BOOLEAN, DeleteApp(a, wipe) PROVE AppsInv'
  <2> DEFINE job == [id |-> appJobs, kind |-> "delete", app |-> a, pc |-> "down", wipe |-> wipe]
  <2>1. UNCHANGED <<compose, volume, torn>>
    BY <1>6 DEF DeleteApp
  <2>2. CASE Start(job) /\ wiped' = IF wipe THEN wiped \cup {a} ELSE wiped
    <3>1. wiped \subseteq wiped' /\ (wipe => a \in wiped') /\ appJobs > 0
      BY <2>2 DEF Start
    <3>2. /\ job \in AppJobRecords /\ job.id = appJobs /\ job.wipe = wipe /\ job.app = a
          /\ job.pc \notin {"files", "data"} /\ ~Holds(job)
      BY <1>1, <3>1 DEF AppJobRecords, Holds
    <3> HIDE DEF job
    <3> QED
      BY <2>1, <2>2, <3>1, <3>2, StartInv, FilesStay
  <2>3. CASE UNCHANGED <<jobs, wiped, appJobs>>
    <3>1. AppJobsTyped' /\ WipesAsked' /\ HoldersStay
      BY <2>3 DEF AppsInv, AppTypes, AppJobsTyped, WipesAsked, HoldersStay
    <3> QED
      BY <2>1, <2>3, <3>1, FilesStay
  <2> QED
    BY <1>6, <2>2, <2>3 DEF DeleteApp
<1>7. CASE AcceptInstall
  <2> DEFINE job == [id |-> appJobs, kind |-> "install", app |-> "engine", pc |-> "accepted"]
  <2>1. Start(job) /\ UNCHANGED <<compose, volume, wiped, torn>> /\ appJobs > 0
    BY <1>7 DEF AcceptInstall, Start, appHistory
  <2>2. job \in AppJobRecords /\ job.id = appJobs /\ job.kind # "delete" /\ ~Holds(job)
    BY <1>1, <2>1 DEF AppJobRecords, Holds
  <2> HIDE DEF job
  <2> QED
    BY <2>1, <2>2, StartInv, FilesStay
<1>8. CASE UninstallEngine \/ Adopt \/ UNCHANGED appVars
  <2>1. /\ UNCHANGED <<compose, volume, jobs, wiped, torn>>
        /\ appJobs' \in {appJobs, appJobs - 1} /\ (appJobs' # appJobs => appJobs > 0)
    BY <1>8 DEF UninstallEngine, Adopt, ListContainers, ListRows, ReimportOrphan, appVars,
                appHistory
  <2>2. AppJobsTyped' /\ WipesAsked' /\ HoldersStay
    BY <2>1, AppsAssumption DEF AppsInv, AppTypes, AppJobsTyped, WipesAsked, HoldersStay
  <2> QED
    BY <2>1, <2>2, FilesStay
<1>9. ASSUME NEW j \in jobs, JobStep(j) PROVE AppsInv'
  BY <1>9, DeployInv, ReadSecretInv, EnvInv, WipeFilesInv, DeleteInv, ModeInv, InstallInv
  DEF JobStep
<1> QED
  BY <1>2, <1>3, <1>4, <1>5, <1>6, <1>7, <1>8, <1>9, AppsCrashInv DEF AppsNext

\* The database of a stack that nobody asked to wipe opens with the password of
\* the .env file, or of the deployment that is writing it, for any apps and jobs
\* that interleave, fail or die, as long as no .env was lost sight of.
THEOREM AppsKeepSecrets == AppsSpec => []SecretsKept
<1>1. AppsInv => SecretsKept
  BY DEF AppsInv
<1> QED
  BY <1>1, InitAppsInv, NextAppsInv, PTL DEF AppsSpec
=============================================================================
