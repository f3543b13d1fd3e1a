------------------------------- MODULE Backup -------------------------------
(***************************************************************************)
(* NimBackup (backup.go): jobs that snapshot a Btrfs source and send it to *)
(* a paired device, incrementally from the last snapshot that was sent;    *)
(* the scheduler and the administrators that start them, and the           *)
(* retention that deletes old snapshots.                                   *)
(*                                                                         *)
(* The jobs of one source share its directory of snapshots.  A snapshot is *)
(* its timestamp: 1, 2, ...                                                *)
(***************************************************************************)
EXTENDS Integers, FiniteSets

CONSTANTS
  BackupJobs,       \* ids of backup_jobs
  Sources,          \* the directories a job may back up
  Dests,            \* where a job may send to
  SnapshotMax,      \* snapshotRetentionMax (10 in the code)
  MaxSnaps,         \* bound: after it, snapshots fail (the disk is full)
  MaxBackupEdits,   \* bound: requests of the administrators
  MaxBackupFaults   \* bound: crashes, and sends that fail by themselves

ASSUME BackupAssumption ==
  Sources # {} /\ Dests # {} /\ SnapshotMax \in Nat \ {0} /\ MaxSnaps \in Nat

Starters == {"tick", "manual"}
NoJob == [known |-> FALSE]
NoSnap == 0

VARIABLES
  backupRows,    \* backup_jobs: id -> row, or NoJob
  deviceKnown,   \* the row of the device in backup_devices
  localSnaps,    \* source -> what is in <source>/.snapshots
  received,      \* what the device holds: a set of [dest, snap]
  nextSnap,      \* the next timestamp
  backupRunning, \* backupRunningJobs
  runs,          \* goroutines of executeBackupJob: a set of records
  cleanups,      \* goroutines of the retention: a set of sets to delete
  newest,        \* history: source -> the newest snapshot taken of it
  userDeleted,   \* history: an administrator deleted a snapshot
  byHand,        \* history: the jobs whose last_snap a request wrote
  backupEdits, backupFaults  \* what is left of the bounds

backupVars == <<backupRows, deviceKnown, localSnaps, received, nextSnap, backupRunning,
                runs, cleanups, newest, userDeleted, byHand, backupEdits, backupFaults>>

snapVars == <<localSnaps, nextSnap, newest, userDeleted>>
backupHistory == <<newest, userDeleted, byHand>>

\* next is what next_run says: a time to come, one that is over, or nothing
\* that time.Parse accepts, so that the job never falls due.
Statuses == {"ok", "running", "error"}
NextRuns == {"later", "past", "never"}

NewJob(source, dest) ==
  [known |-> TRUE, enabled |-> TRUE, next |-> "later", status |-> "ok",
   last |-> NoSnap, source |-> source, dest |-> dest]

BackupInit ==
  /\ backupRows = [j \in BackupJobs |-> NewJob(CHOOSE s \in Sources : TRUE, CHOOSE d \in Dests : TRUE)]
  /\ deviceKnown = TRUE
  /\ localSnaps = [s \in Sources |-> {}] /\ received = {}
  /\ nextSnap = 1
  /\ backupRunning = {} /\ runs = {} /\ cleanups = {}
  /\ newest = [s \in Sources |-> NoSnap] /\ userDeleted = FALSE /\ byHand = {}
  /\ backupEdits = MaxBackupEdits
  /\ backupFaults = MaxBackupFaults

BackupEdit == backupEdits > 0 /\ backupEdits' = backupEdits - 1
BackupFault == backupFaults > 0 /\ backupFaults' = backupFaults - 1

\* UPDATE ... WHERE id = ?: a row that is gone stays so.
Updated(j, row) == [backupRows EXCEPT ![j] = IF @.known THEN row ELSE @]
RunMoves(r, to) == runs' = (runs \ {r}) \cup {to}

\* btrfs subvolume snapshot, into the directory of the source.
Snapped(source, snaps) ==
  /\ nextSnap <= MaxSnaps
  /\ localSnaps' = [localSnaps EXCEPT ![source] = snaps]
  /\ newest' = [newest EXCEPT ![source] = nextSnap]
  /\ nextSnap' = nextSnap + 1

---------------------------------------------------------------------------
(* Starting: the scheduler and POST /api/backup/run read the row, the      *)
(* goroutine works on that copy.                                           *)

NewRun(j, by) == [job |-> j, by |-> by, pc |-> "start",
                  parent |-> backupRows[j].last, source |-> backupRows[j].source,
                  dest |-> backupRows[j].dest, snap |-> NoSnap]

\* now.After(nextRun)
BecomesDue(j) ==
  /\ backupRows[j].known /\ backupRows[j].next = "later"
  /\ backupRows' = Updated(j, [backupRows[j] EXCEPT !.next = "past"])
  /\ UNCHANGED <<deviceKnown, localSnaps, received, nextSnap, backupRunning, runs,
                 cleanups, backupHistory, backupEdits, backupFaults>>

\* Mutant: a job whose row says that it runs is left alone.
DueAtRest == {j \in BackupJobs : backupRows[j].known /\ backupRows[j].enabled
                                   /\ backupRows[j].next = "past"
                                   /\ backupRows[j].status # "running"}

Due == {j \in BackupJobs : backupRows[j].known /\ backupRows[j].enabled
                              /\ backupRows[j].next = "past"}

\* checkAndRunDueJobs, every minute.  A goroutine the last tick started and
\* that did not run yet is not started twice (bound).
CheckAndRunDueJobs ==
  /\ \E j \in Due : \A r \in runs : r.job = j /\ r.by = "tick" => r.pc # "start"
  /\ runs' = runs \cup {NewRun(j, "tick") : j \in
                          {k \in Due : \A r \in runs : r.job = k /\ r.by = "tick"
                                                          => r.pc # "start"}}
  /\ UNCHANGED <<backupRows, deviceKnown, localSnaps, received, nextSnap, backupRunning,
                 cleanups, backupHistory, backupEdits, backupFaults>>

RunBackup(j) ==
  /\ BackupEdit
  /\ backupRows[j].known
  /\ runs' = runs \cup {NewRun(j, "manual")}
  /\ UNCHANGED <<backupRows, deviceKnown, localSnaps, received, nextSnap, backupRunning,
                 cleanups, backupHistory, backupFaults>>

---------------------------------------------------------------------------
(* executeBackupJob. *)

EndRun(r) == runs' = runs \ {r} /\ backupRunning' = backupRunning \ {r.job}

\* Mutant: the check and the mark are two critical sections.
Unguarded(r) == TRUE

\* backupRunningJobs, looked at and marked under backupRunningJobsMu.
MayRun(r) == r.job \notin backupRunning

BeginRun(r) ==
  /\ r.pc = "start"
  /\ IF MayRun(r)
       THEN /\ backupRunning' = backupRunning \cup {r.job}
            /\ RunMoves(r, [r EXCEPT !.pc = "snapshot"])
            /\ backupRows' = Updated(r.job, [backupRows[r.job] EXCEPT !.status = "running"])
       ELSE runs' = runs \ {r} /\ UNCHANGED <<backupRows, backupRunning>>
  /\ UNCHANGED <<deviceKnown, localSnaps, received, nextSnap, cleanups,
                 backupHistory, backupEdits, backupFaults>>

\* The device is looked up, the snapshot is taken (btrfs subvolume snapshot).
Snapshot(r) ==
  /\ r.pc = "snapshot"
  /\ IF deviceKnown /\ nextSnap <= MaxSnaps
       THEN /\ Snapped(r.source, localSnaps[r.source] \cup {nextSnap})
            /\ RunMoves(r, [r EXCEPT !.pc = "send", !.snap = nextSnap])
       ELSE /\ UNCHANGED <<localSnaps, nextSnap, newest>>
            /\ RunMoves(r, [r EXCEPT !.pc = "failure"])
  /\ UNCHANGED <<backupRows, deviceKnown, received, backupRunning, cleanups,
                 userDeleted, byHand, backupEdits, backupFaults>>

HasParent(r) == r.parent = NoSnap \/ r.parent \in localSnaps[r.source]
Base(r) == r.parent = NoSnap \/ [dest |-> r.dest, snap |-> r.parent] \in received
Sendable(r) == HasParent(r) /\ Base(r) /\ r.snap \in localSnaps[r.source]

\* btrfs send [-p parent] | ssh btrfs receive: both sides need the parent.
Send(r) ==
  /\ r.pc = "send"
  /\ \/ /\ Sendable(r)
        /\ received' = received \cup {[dest |-> r.dest, snap |-> r.snap]}
        /\ RunMoves(r, [r EXCEPT !.pc = "success"])
        /\ UNCHANGED backupFaults
     \/ /\ IF Sendable(r)
             THEN BackupFault ELSE UNCHANGED backupFaults
        /\ RunMoves(r, [r EXCEPT !.pc = "failure"])
        /\ UNCHANGED received
  /\ UNCHANGED <<backupRows, deviceKnown, localSnaps, nextSnap, backupRunning, cleanups,
                 backupHistory, backupEdits>>

\* Success: next_run and last_snap move on, and the retention starts.
RecordSuccess(r) ==
  /\ r.pc = "success"
  /\ backupRows' = Updated(r.job, [backupRows[r.job] EXCEPT
                     !.status = "ok", !.next = "later", !.last = r.snap])
  /\ byHand' = byHand \ {r.job}
  /\ cleanups' = cleanups \cup {[pc |-> "list", source |-> r.source]}
  /\ EndRun(r)
  /\ UNCHANGED <<deviceKnown, received, snapVars, backupEdits, backupFaults>>

\* recordBackupFailure: next_run stays, so the next tick tries again.
Failed(r, row) == [row EXCEPT !.status = "error"]

RecordBackupFailure(r) ==
  /\ r.pc = "failure"
  /\ backupRows' = Updated(r.job, Failed(r, backupRows[r.job]))
  /\ EndRun(r)
  /\ UNCHANGED <<deviceKnown, localSnaps, received, nextSnap, cleanups,
                 backupHistory, backupEdits, backupFaults>>

---------------------------------------------------------------------------
(* Retention: the directory is read, then what is too old is deleted. *)

\* applyRetentionBtrfs: by age or by count, the newest name is spared.
Outdated(snaps, cutoff) ==
  {s \in snaps : s <= cutoff /\ \E t \in snaps : t > s}

ListOutdated ==
  /\ \E c \in cleanups, cutoff \in 0..MaxSnaps :
       /\ c.pc = "list"
       /\ cleanups' = (cleanups \ {c})
            \cup {[pc |-> "delete", source |-> c.source,
                   snaps |-> Outdated(localSnaps[c.source], cutoff)]}
  /\ UNCHANGED <<backupRows, deviceKnown, localSnaps, received, nextSnap, backupRunning,
                 runs, backupHistory, backupEdits, backupFaults>>

DeleteOutdated ==
  /\ \E c \in cleanups :
       /\ c.pc = "delete"
       /\ localSnaps' = [localSnaps EXCEPT ![c.source] = @ \ c.snaps]
       /\ cleanups' = cleanups \ {c}
  /\ UNCHANGED <<backupRows, deviceKnown, received, nextSnap, backupRunning, runs,
                 backupHistory, backupEdits, backupFaults>>

\* createBackupSnapshot, with pruneSnapshotsByRetention: the newest stay.
ToPrune(snaps) == {s \in snaps : Cardinality({t \in snaps : t > s}) >= SnapshotMax}

CreateBackupSnapshot ==
  /\ BackupEdit
  /\ \E s \in Sources :
       LET snaps == localSnaps[s] \cup {nextSnap} IN Snapped(s, snaps \ ToPrune(snaps))
  /\ UNCHANGED <<backupRows, deviceKnown, received, backupRunning, runs, cleanups,
                 userDeleted, byHand, backupFaults>>

DeleteBackupSnapshot ==
  /\ BackupEdit
  /\ \E s \in Sources : \E n \in localSnaps[s] :
       localSnaps' = [localSnaps EXCEPT ![s] = @ \ {n}]
  /\ userDeleted' = TRUE
  /\ UNCHANGED <<backupRows, deviceKnown, received, nextSnap, backupRunning, runs,
                 cleanups, newest, byHand, backupFaults>>

---------------------------------------------------------------------------
(* The other requests. *)

\* What dbBackupJobUpdate makes of a body with one field, for the fields that
\* matter here; a body with several is several requests.  A schedule ends in
\* next_run being computed anew, which is the case of "later".
EditedRows(row) ==
  {[row EXCEPT !.enabled = on] : on \in BOOLEAN}
    \cup {[row EXCEPT !.next = n] : n \in NextRuns}
    \cup {[row EXCEPT !.status = st] : st \in Statuses}
    \cup {[row EXCEPT !.last = n] : n \in NoSnap..MaxSnaps}
    \cup {[row EXCEPT !.source = s] : s \in Sources}
    \cup {[row EXCEPT !.dest = d] : d \in Dests}

\* PUT /api/backup/jobs/:id hands the body on as it came: a request may write
\* status, next_run and last_snap too, whatever the job is doing.
UpdateJob(j) ==
  /\ BackupEdit
  /\ backupRows[j].known
  /\ \E row \in EditedRows(backupRows[j]) :
       /\ backupRows' = Updated(j, row)
       /\ byHand' = IF row.last # backupRows[j].last THEN byHand \cup {j} ELSE byHand
  /\ UNCHANGED <<deviceKnown, received, backupRunning, runs, cleanups, snapVars,
                 backupFaults>>

DeleteJob(j) ==
  /\ BackupEdit
  /\ backupRows[j].known
  /\ backupRows' = [backupRows EXCEPT ![j] = NoJob]
  /\ UNCHANGED <<deviceKnown, localSnaps, received, nextSnap, backupRunning, runs,
                 cleanups, backupHistory, backupFaults>>

\* dbBackupDeviceDelete: its jobs go with it.
DeleteDevice ==
  /\ BackupEdit
  /\ deviceKnown
  /\ deviceKnown' = FALSE
  /\ backupRows' = [j \in BackupJobs |-> NoJob]
  /\ UNCHANGED <<localSnaps, received, nextSnap, backupRunning, runs, cleanups,
                 backupHistory, backupFaults>>

\* The daemon dies and comes back: the status of a row that ran stays.
BackupCrash ==
  /\ BackupFault
  /\ runs # {} \/ cleanups # {}
  /\ runs' = {} /\ cleanups' = {} /\ backupRunning' = {}
  /\ UNCHANGED <<backupRows, deviceKnown, localSnaps, received, nextSnap, backupHistory,
                 backupEdits>>

RunStep(r) ==
  \/ BeginRun(r) \/ Snapshot(r) \/ Send(r) \/ RecordSuccess(r) \/ RecordBackupFailure(r)

BackupNext ==
  \/ CheckAndRunDueJobs
  \/ \E j \in BackupJobs : BecomesDue(j) \/ RunBackup(j) \/ UpdateJob(j) \/ DeleteJob(j)
  \/ \E r \in runs : RunStep(r)
  \/ ListOutdated \/ DeleteOutdated \/ CreateBackupSnapshot \/ DeleteBackupSnapshot
  \/ DeleteDevice
  \/ BackupCrash

(* The scheduler ticks, time passes, and the goroutine of a run goes on.     *)
BackupFairness ==
  /\ WF_backupVars(CheckAndRunDueJobs)
  /\ \A j \in BackupJobs :
       /\ WF_backupVars(BecomesDue(j))
       /\ WF_backupVars(\E r \in runs : r.job = j /\ BeginRun(r))
       /\ WF_backupVars(\E r \in runs : r.job = j /\ r.pc # "start" /\ RunStep(r))

BackupSpec == BackupInit /\ [][BackupNext]_backupVars /\ BackupFairness

---------------------------------------------------------------------------
(* One job never runs twice at a time, whoever starts it: two runs would   *)
(* send from the same parent and each note its own last snapshot           *)
(* (backup.go, "Prevent double execution").                                *)
OneRunPerJob ==
  \A r, s \in runs : (r.job = s.job /\ r.pc # "start" /\ s.pc # "start") => r = s

(* The snapshot a job notes as its last one was received by a device,      *)
(* unless a request wrote that field (PUT /api/backup/jobs/:id takes it):  *)
(* a failure, a crash, a late goroutine or any other edit never moves the  *)
(* base of the next incremental send forward, and the next success puts    *)
(* right what a request wrote.                                             *)
BaselineReceived ==
  \A j \in BackupJobs \ byHand :
    (backupRows[j].known /\ backupRows[j].last # NoSnap)
      => \E d \in Dests : [dest |-> d, snap |-> backupRows[j].last] \in received

(* However the retention of several jobs and the pruning of manual         *)
(* snapshots overlap, they never leave a source without a snapshot.        *)
NewestSnapshotKept ==
  ~userDeleted => \A s \in Sources : newest[s] # NoSnap => localSnaps[s] # {}

(* All three: what the scheduler, the runs and the retention keep.         *)
BackupsAreSound == OneRunPerJob /\ BaselineReceived /\ NewestSnapshotKept

(* A job does not stay "running": its run ends, and after a crash, or a    *)
(* request that wrote the status, the scheduler runs it again.  A request  *)
(* that leaves no time in next_run takes the job away from the scheduler   *)
(* (checkAndRunDueJobs skips it): those rows are excepted.                 *)
JobsRecover ==
  \A j \in BackupJobs :
    []<>~(/\ backupRows[j].known /\ backupRows[j].enabled
          /\ backupRows[j].status = "running" /\ backupRows[j].next # "never")

=============================================================================
