----------------------------- MODULE DockerApps -----------------------------
(***************************************************************************)
(* Docker apps: the handlers that deploy, rebuild, lock to Caddy and       *)
(* uninstall them (docker_stacks.go, docker_containers.go,                 *)
(* docker_access_mode.go), the reconciler that adopts containers without a *)
(* row (docker_reconciler.go), and the installation of the engine with the *)
(* operation that reports it (docker_install.go, docker_async.go).         *)
(*                                                                         *)
(* Every handler is a job; jobs interleave between two effects on docker,  *)
(* on the pool or on the database.  No lock orders them.                   *)
(***************************************************************************)
EXTENDS Integers, FiniteSets

CONSTANTS
  Stacks,       \* apps with a docker-compose.yml
  Singles,      \* apps of one container
  MaxAppJobs,   \* bound: requests
  MaxAppFaults  \* bound: failing commands, statements and crashes

ASSUME AppsAssumption == MaxAppJobs \in Nat /\ MaxAppFaults \in Nat

Apps == Stacks \cup Singles
JobIds == 1..MaxAppJobs

NoApp == [known |-> FALSE]
NoCompose == [dir |-> FALSE, ports |-> "none", secret |-> 0]

VARIABLES
  appRows,   \* docker_apps: app -> [known, deleting, mode], or NoApp
  compose,   \* stacks/<id>: whether it is there, the ports of its compose file
             \* ("none": no file that works), the secret of its .env (0: none)
  volume,    \* containers/<id>: the secret its database was created with
  live,      \* docker ps -a: app -> "none" or the bind of its ports
  engine,    \* "absent", "stopped" or "up"
  jobs,      \* the handlers and goroutines in flight, a set of records
  ops,       \* nimos_operations, by the request that opened the row
  adoption,  \* the local state of DockerAppReconciler.Reconcile
  wiped,     \* history: the stacks somebody asked to wipe
  torn,      \* history: the stacks whose .env was lost sight of: it could not be
             \* read, its writing was cut short, or a deployment drew a secret
             \* while another one held its own, not written yet
  lost,      \* history: the operations whose worker died with the daemon, or
             \* whose last statement failed
  appJobs, appFaults  \* what is left of the bounds

appVars == <<appRows, compose, volume, live, engine, jobs, ops, adoption,
             wiped, torn, lost, appJobs, appFaults>>
appHistory == <<wiped, torn, lost>>

AppsInit ==
  /\ appRows = [a \in Apps |-> NoApp]
  /\ compose = [s \in Stacks |-> NoCompose]
  /\ volume = [s \in Stacks |-> 0]
  /\ live = [a \in Apps |-> "none"]
  /\ engine \in {"absent", "up"}
  /\ jobs = {}
  /\ ops = [i \in JobIds |-> "none"]
  /\ adoption = [pc |-> "idle"]
  /\ wiped = {} /\ torn = {} /\ lost = {}
  /\ appJobs = MaxAppJobs
  /\ appFaults = MaxAppFaults

---------------------------------------------------------------------------
\* Requests take their turn; a job goes on as another record or ends.
Start(job) ==
  /\ appJobs > 0
  /\ appJobs' = appJobs - 1
  /\ jobs' = jobs \cup {job}
Goes(j, pc) == jobs' = (jobs \ {j}) \cup {[j EXCEPT !.pc = pc]}
Ends(j) == jobs' = jobs \ {j}
AppFault == appFaults > 0 /\ appFaults' = appFaults - 1

Registered(mode) == [known |-> TRUE, deleting |-> FALSE, mode |-> mode]

\* CreateOrUpdateDockerApp: ON CONFLICT keeps access_mode, and deleting = 0.
CreateOrUpdateDockerApp(a) ==
  appRows' = [appRows EXCEPT ![a] = Registered(IF @.known THEN @.mode ELSE "lan")]

\* docker compose up of a stack: its database is created on an empty volume, if
\* it is given a secret.
ComposeUp(s) ==
  /\ live' = [live EXCEPT ![s] = compose[s].ports]
  /\ volume' = [volume EXCEPT ![s] = IF @ = 0 THEN compose[s].secret ELSE @]

CanUp(s) == engine = "up" /\ compose[s].ports # "none"

---------------------------------------------------------------------------
(* Deploy and create. *)

\* dockerStackDeploy: the directory of the stack first.
BeginDeploy(s) ==
  /\ engine # "absent"
  /\ Start([id |-> appJobs, kind |-> "deploy", app |-> s, pc |-> "write", secret |-> 0])
  /\ \/ compose' = [compose EXCEPT ![s].dir = TRUE] /\ UNCHANGED appFaults
     \/ AppFault /\ UNCHANGED compose
  /\ UNCHANGED <<appRows, volume, live, engine, ops, adoption, appHistory>>

\* os.WriteFile of the compose file, with its ports open, whose error nobody
\* reads: the old file may stay, or an empty one.
WriteCompose(j) ==
  /\ j.kind = "deploy" /\ j.pc = "write"
  /\ \/ /\ compose[j.app].dir
        /\ compose' = [compose EXCEPT ![j.app].ports = "lan"] /\ UNCHANGED appFaults
     \/ ~compose[j.app].dir /\ UNCHANGED <<compose, appFaults>>
     \/ /\ AppFault
        /\ \/ UNCHANGED compose
           \/ compose' = [compose EXCEPT ![j.app].ports = "none"]
  /\ Goes(j, "secret")
  /\ UNCHANGED <<appRows, volume, live, engine, ops, adoption, appHistory, appJobs>>

\* Mutant: the secret is drawn anew by every deploy.
DrawSecret(s, fresh) == fresh

\* resolveRandomPlaceholders: {RANDOM} keeps the value of the previous .env.
ResolveRandom(s, fresh) == IF compose[s].secret # 0 THEN compose[s].secret ELSE fresh

\* Deployments of the same stack that hold a secret and have not written it.
Holders(j) == {k \in jobs \ {j} : k.kind = "deploy" /\ k.app = j.app /\ k.pc \in {"env", "fill"}}

\* readEnvFile: what cannot be read is taken for a first installation.
ReadSecret(j) ==
  /\ j.kind = "deploy" /\ j.pc = "secret"
  /\ \/ /\ jobs' = (jobs \ {j}) \cup
                   {[j EXCEPT !.pc = "env", !.secret = ResolveRandom(j.app, j.id)]}
        /\ torn' = IF compose[j.app].secret = 0 /\ Holders(j) # {}
                   THEN torn \cup {j.app} ELSE torn
        /\ UNCHANGED appFaults
     \/ /\ AppFault
        /\ jobs' = (jobs \ {j}) \cup {[j EXCEPT !.pc = "env", !.secret = j.id]}
        /\ torn' = torn \cup {j.app}
  /\ UNCHANGED <<appRows, compose, volume, live, engine, ops, adoption, wiped, lost,
                 appJobs>>

\* os.WriteFile of .env empties the file that is there and then writes it; its
\* error is not read either.
TruncateEnv(j) ==
  /\ j.kind = "deploy" /\ j.pc = "env"
  /\ \/ /\ compose[j.app].dir
        /\ compose' = [compose EXCEPT ![j.app].secret = 0]
        /\ Goes(j, "fill") /\ UNCHANGED appFaults
     \/ ~compose[j.app].dir /\ Goes(j, "up") /\ UNCHANGED <<compose, appFaults>>
     \/ AppFault /\ Goes(j, "up") /\ UNCHANGED compose
  /\ UNCHANGED <<appRows, volume, live, engine, ops, adoption, appHistory, appJobs>>

FillEnv(j) ==
  /\ j.kind = "deploy" /\ j.pc = "fill"
  /\ \/ /\ compose' = [compose EXCEPT ![j.app].secret = j.secret]
        /\ UNCHANGED <<torn, appFaults>>
     \/ /\ AppFault
        /\ torn' = torn \cup {j.app} /\ UNCHANGED compose
  /\ Goes(j, "up")
  /\ UNCHANGED <<appRows, volume, live, engine, ops, adoption, wiped, lost, appJobs>>

\* up -d: without the compose file, or the engine, the handler answers 500; so
\* it does when up fails, before or after the database has started. The pull
\* that comes before changes nothing that is kept here.
DeployUp(j) ==
  /\ j.kind = "deploy" /\ j.pc = "up"
  /\ \/ /\ CanUp(j.app)
        /\ ComposeUp(j.app)
        /\ \/ Goes(j, "register") /\ UNCHANGED appFaults
           \/ Ends(j) /\ AppFault
     \/ /\ IF CanUp(j.app) THEN AppFault ELSE UNCHANGED appFaults
        /\ Ends(j)
        /\ UNCHANGED <<volume, live>>
  /\ UNCHANGED <<appRows, compose, engine, ops, adoption, appHistory, appJobs>>

\* dockerContainerCreate: docker run --name refuses a name that exists.
CreateContainer(c) ==
  /\ engine = "up" /\ live[c] = "none"
  /\ Start([id |-> appJobs, kind |-> "create", app |-> c, pc |-> "register"])
  /\ live' = [live EXCEPT ![c] = "lan"]
  /\ UNCHANGED <<appRows, compose, volume, engine, ops, adoption, appHistory,
                 appFaults>>

\* The row comes last, and its failure is only logged.
RegisterApp(j) ==
  /\ j.pc = "register"
  /\ \/ CreateOrUpdateDockerApp(j.app) /\ UNCHANGED appFaults
     \/ AppFault /\ UNCHANGED appRows
  /\ Ends(j)
  /\ UNCHANGED <<compose, volume, live, engine, ops, adoption, appHistory,
                 appJobs>>

---------------------------------------------------------------------------
(* Uninstall: the row is marked, a goroutine does the rest. *)

MarkDockerAppDeleting(a) ==
  appRows' = [appRows EXCEPT ![a] = IF @.known THEN [@ EXCEPT !.deleting = TRUE] ELSE @]

\* dockerStackDelete, dockerContainerDelete.  Without a pool that is mounted
\* the path of a stack is unknown, and its row is all that is deleted.
DeleteApp(a, wipe) ==
  /\ \/ /\ MarkDockerAppDeleting(a)
        /\ Start([id |-> appJobs, kind |-> "delete", app |-> a, pc |-> "down", wipe |-> wipe])
        /\ wiped' = IF wipe THEN wiped \cup {a} ELSE wiped
        /\ UNCHANGED appFaults
     \/ /\ a \in Stacks /\ ~wipe
        /\ AppFault
        /\ appRows' = [appRows EXCEPT ![a] = NoApp]
        /\ UNCHANGED <<jobs, wiped, appJobs>>
  /\ UNCHANGED <<compose, volume, live, engine, ops, adoption, torn, lost>>

AfterDown(j) == IF j.wipe /\ j.app \in Stacks THEN "files" ELSE "row"

\* compose down, or stop and rm; the result is not looked at.
TakeDown(j) ==
  /\ j.kind = "delete" /\ j.pc = "down"
  /\ LET down == engine = "up" /\ (j.app \in Stacks => compose[j.app].ports # "none") IN
       \/ /\ live' = IF down THEN [live EXCEPT ![j.app] = "none"] ELSE live
          /\ UNCHANGED appFaults
       \/ down /\ AppFault /\ UNCHANGED live
  /\ Goes(j, AfterDown(j))
  /\ UNCHANGED <<appRows, compose, volume, engine, ops, adoption, appHistory,
                 appJobs>>

\* RemoveAll of stacks/<id>, then of containers/<id>. A .env that is being
\* written goes with it.
Unlinked(j, k) ==
  IF k.kind = "deploy" /\ k.app = j.app /\ k.pc = "fill" THEN [k EXCEPT !.pc = "up"] ELSE k

WipeStackFiles(j) ==
  /\ j.kind = "delete" /\ j.pc = "files"
  /\ compose' = [compose EXCEPT ![j.app] = NoCompose]
  /\ jobs' = {Unlinked(j, k) : k \in jobs \ {j}} \cup {[j EXCEPT !.pc = "data"]}
  /\ UNCHANGED <<appRows, volume, live, engine, ops, adoption, appHistory,
                 appJobs, appFaults>>

WipeStackData(j) ==
  /\ j.kind = "delete" /\ j.pc = "data"
  /\ volume' = [volume EXCEPT ![j.app] = 0]
  /\ Goes(j, "row")
  /\ UNCHANGED <<appRows, compose, live, engine, ops, adoption, appHistory,
                 appJobs, appFaults>>

DeleteDockerApp(j) ==
  /\ j.kind = "delete" /\ j.pc = "row"
  /\ \/ appRows' = [appRows EXCEPT ![j.app] = NoApp] /\ UNCHANGED appFaults
     \/ AppFault /\ UNCHANGED appRows
  /\ Ends(j)
  /\ UNCHANGED <<compose, volume, live, engine, ops, adoption, appHistory,
                 appJobs>>

---------------------------------------------------------------------------
(* dockerContainerRebuild and dockerAppUpdate: up -d --force-recreate of   *)
(* the compose file that is there.                                         *)
Recreate(s) ==
  /\ CanUp(s)
  /\ appJobs > 0
  /\ appJobs' = appJobs - 1
  /\ ComposeUp(s)
  /\ UNCHANGED <<appRows, compose, engine, jobs, ops, adoption, appHistory,
                 appFaults>>

\* setAppAccessModeWorker: the row is there, and the compose file is read.
BeginAccessMode(s, mode) ==
  /\ appRows[s].known /\ ~appRows[s].deleting
  /\ compose[s].ports # "none"
  /\ Start([id |-> appJobs, kind |-> "mode", app |-> s, mode |-> mode, src |-> compose[s],
            pc |-> IF compose[s].ports = mode THEN "save" ELSE "rewrite"])
  /\ UNCHANGED <<appRows, compose, volume, live, engine, ops, adoption, appHistory,
                 appFaults>>

\* The ports are rewritten and applied; if up fails, the file that was read
\* is put back and started again.
ApplyAccessMode(j) ==
  /\ j.kind = "mode" /\ j.pc = "rewrite"
  /\ LET dir == compose[j.app].dir  \* else the file is not written
         file == [compose[j.app] EXCEPT !.ports = j.mode]
         back == [compose[j.app] EXCEPT !.ports = j.src.ports] IN
       \/ /\ dir /\ engine = "up"
          /\ compose' = [compose EXCEPT ![j.app] = file]
          /\ live' = [live EXCEPT ![j.app] = j.mode]
          /\ volume' = [volume EXCEPT ![j.app] = IF @ = 0 THEN file.secret ELSE @]
          /\ Goes(j, "save")
          /\ UNCHANGED appFaults
       \/ /\ dir
          /\ IF engine = "up" THEN AppFault ELSE UNCHANGED appFaults
          /\ compose' = [compose EXCEPT ![j.app] = back]
          /\ live' = [live EXCEPT ![j.app] = IF engine = "up" THEN back.ports ELSE @]
          /\ Ends(j)
          /\ UNCHANGED volume
       \/ ~dir /\ Ends(j) /\ UNCHANGED <<compose, live, volume, appFaults>>
  /\ UNCHANGED <<appRows, engine, ops, adoption, appHistory, appJobs>>

\* SetDockerAppAccessMode.
SaveAccessMode(j) ==
  /\ j.kind = "mode" /\ j.pc = "save"
  /\ appRows' = [appRows EXCEPT ![j.app] =
                   IF @.known THEN [@ EXCEPT !.mode = j.mode] ELSE @]
  /\ Ends(j)
  /\ UNCHANGED <<compose, volume, live, engine, ops, adoption, appHistory,
                 appJobs, appFaults>>

---------------------------------------------------------------------------
(* DockerAppReconciler.Reconcile: containers first, rows second. *)

ListContainers ==
  /\ adoption.pc = "idle" /\ engine = "up"
  /\ \E a \in Apps : live[a] # "none"
  /\ adoption' = [pc |-> "rows", found |-> {a \in Apps : live[a] # "none"}]
  /\ UNCHANGED <<appRows, compose, volume, live, engine, jobs, ops, appHistory,
                 appJobs, appFaults>>

\* Mutant: only the containers of stacks are taken for orphans.
StackOrphans(found) == {a \in found \cap Stacks : ~appRows[a].known}

Orphans(found) == {a \in found : ~appRows[a].known}

ListRows ==
  /\ adoption.pc = "rows"
  /\ adoption' = IF Orphans(adoption.found) = {} THEN [pc |-> "idle"]
                 ELSE [pc |-> "import", found |-> Orphans(adoption.found)]
  /\ UNCHANGED <<appRows, compose, volume, live, engine, jobs, ops, appHistory,
                 appJobs, appFaults>>

\* reimportOrphan, one app at a time; a failure waits for the next pass.
ReimportOrphan ==
  /\ adoption.pc = "import"
  /\ \E a \in adoption.found :
       /\ \/ CreateOrUpdateDockerApp(a) /\ UNCHANGED appFaults
          \/ AppFault /\ UNCHANGED appRows
       /\ adoption' = IF adoption.found = {a} THEN [pc |-> "idle"]
                      ELSE [adoption EXCEPT !.found = @ \ {a}]
  /\ UNCHANGED <<compose, volume, live, engine, jobs, ops, appHistory, appJobs>>

---------------------------------------------------------------------------
(* dockerInstall with async=true, and runWorkerAsync. *)

AcceptInstall ==
  /\ Start([id |-> appJobs, kind |-> "install", app |-> "engine", pc |-> "accepted"])
  /\ ops' = [ops EXCEPT ![appJobs] = "pending"]
  /\ UNCHANGED <<appRows, compose, volume, live, engine, adoption, appHistory,
                 appFaults>>

\* Its failure is only logged, like that of the last statement (MarkFinished).
MarkRunning(j) ==
  /\ j.kind = "install" /\ j.pc = "accepted"
  /\ \/ /\ ops' = [ops EXCEPT ![j.id] = IF @ = "pending" THEN "running" ELSE @]
        /\ UNCHANGED appFaults
     \/ AppFault /\ UNCHANGED ops
  /\ Goes(j, "lock")
  /\ UNCHANGED <<appRows, compose, volume, live, engine, adoption, appHistory, appJobs>>

InstallLocked == \E j \in jobs : j.kind = "install" /\ j.pc \in {"stop", "start"}

\* dockerInstallMu.TryLock, and the checks of the environment.
LockInstall(j) ==
  /\ j.kind = "install" /\ j.pc = "lock"
  /\ \/ ~InstallLocked /\ Goes(j, "stop") /\ UNCHANGED appFaults
     \/ InstallLocked /\ Goes(j, "failed") /\ UNCHANGED appFaults
     \/ ~InstallLocked /\ AppFault /\ Goes(j, "failed")
  /\ UNCHANGED <<appRows, compose, volume, live, engine, ops, adoption, appHistory,
                 appJobs>>

\* The engine is stopped, installed where it is missing, and started again
\* with its data on the pool: what was there is found again.
StopEngine(j) ==
  /\ j.kind = "install" /\ j.pc = "stop"
  /\ \/ Goes(j, "start") /\ engine' = "stopped" /\ UNCHANGED appFaults
     \/ engine = "absent" /\ AppFault /\ Goes(j, "failed") /\ UNCHANGED engine
  /\ UNCHANGED <<appRows, compose, volume, live, ops, adoption, appHistory, appJobs>>

StartEngine(j) ==
  /\ j.kind = "install" /\ j.pc = "start"
  /\ engine' = IF engine = "stopped" THEN "up" ELSE engine
  /\ Goes(j, "succeeded")
  /\ UNCHANGED <<appRows, compose, volume, live, ops, adoption, appHistory, appJobs,
                 appFaults>>

\* Mutant: a worker that fails returns without MarkFailed.
FinishSucceeded(j) == IF j.pc = "failed" THEN ops[j.id] ELSE j.pc

\* MarkSucceeded and MarkFailed.
Finish(j) == IF ops[j.id] \in {"succeeded", "failed"} THEN ops[j.id] ELSE j.pc

MarkFinished(j) ==
  /\ j.kind = "install" /\ j.pc \in {"failed", "succeeded"}
  /\ \/ /\ ops' = [ops EXCEPT ![j.id] = Finish(j)]
        /\ UNCHANGED <<lost, appFaults>>
     \/ /\ AppFault
        /\ lost' = lost \cup {j.id} /\ UNCHANGED ops
  /\ Ends(j)
  /\ UNCHANGED <<appRows, compose, volume, live, engine, adoption, wiped, torn,
                 appJobs>>

\* dockerUninstall: every container goes, then the engine; no row does.
UninstallEngine ==
  /\ engine = "up"
  /\ appJobs > 0
  /\ appJobs' = appJobs - 1
  /\ engine' = "absent"
  /\ live' = [a \in Apps |-> "none"]
  /\ UNCHANGED <<appRows, compose, volume, jobs, ops, adoption, appHistory,
                 appFaults>>

---------------------------------------------------------------------------
\* The daemon dies: jobs and the pass are gone, docker goes on.
AppsCrash ==
  /\ AppFault
  /\ jobs # {}
  /\ jobs' = {} /\ adoption' = [pc |-> "idle"]
  /\ lost' = lost \cup {j.id : j \in {k \in jobs : k.kind = "install"}}
  /\ torn' = torn \cup {j.app : j \in {k \in jobs : k.kind = "deploy" /\ k.pc = "fill"}}
  /\ UNCHANGED <<appRows, compose, volume, live, engine, ops, wiped, appJobs>>

JobStep(j) ==
  \/ WriteCompose(j) \/ ReadSecret(j) \/ TruncateEnv(j) \/ FillEnv(j)
  \/ DeployUp(j) \/ RegisterApp(j)
  \/ TakeDown(j) \/ WipeStackFiles(j) \/ WipeStackData(j) \/ DeleteDockerApp(j)
  \/ ApplyAccessMode(j) \/ SaveAccessMode(j)
  \/ MarkRunning(j) \/ LockInstall(j) \/ StopEngine(j) \/ StartEngine(j)
  \/ MarkFinished(j)

Adopt == ListContainers \/ ListRows \/ ReimportOrphan

AppsNext ==
  \/ \E s \in Stacks : BeginDeploy(s) \/ Recreate(s)
  \/ \E s \in Stacks, mode \in {"lan", "caddy_only"} : BeginAccessMode(s, mode)
  \/ \E c \in Singles : CreateContainer(c)
  \/ \E a \in Apps, wipe \in BOOLEAN : DeleteApp(a, wipe)
  \/ AcceptInstall \/ UninstallEngine
  \/ \E j \in jobs : JobStep(j)
  \/ Adopt
  \/ AppsCrash

(* The reconciler passes every five minutes; what a request has begun goes   *)
(* on, though no one says in which order.                                    *)
AppsFairness ==
  WF_appVars(Adopt) /\ WF_appVars(\E j \in jobs : JobStep(j))

AppsSpec == AppsInit /\ [][AppsNext]_appVars /\ AppsFairness

---------------------------------------------------------------------------
(* The database of a stack opens with the password of its .env, or with    *)
(* the one a deployment is about to write there, whatever is uninstalled,  *)
(* deployed again, fails or crashes in any interleaving                    *)
(* (resolveRandomPlaceholders keeps it, a soft uninstall spares it).       *)
(* Nothing promises it for a stack somebody asked to wipe, nor, since .env *)
(* is emptied before it is written and no lock orders two deployments, for *)
(* one in torn: there the next password is a new one and the data is shut. *)
SecretsKept ==
  \A s \in Stacks \ (wiped \cup torn) : volume[s] # 0 =>
    \/ compose[s].secret = volume[s]
    \/ \E j \in jobs : /\ j.kind = "deploy" /\ j.app = s /\ j.pc = "fill"
                      /\ j.secret = volume[s]

(* A container that stays has a row in the end: neither a statement that   *)
(* failed, nor a crash, nor an uninstall that raced with a deploy leaves   *)
(* an app the daemon does not know (docker_reconciler.go).                 *)
AppsStayRegistered ==
  []<>(engine = "up" => \A a \in Apps : live[a] = "none" \/ appRows[a].known)

(* An operation a client polls reaches its end, whatever fails in the      *)
(* worker and whoever holds the lock of the installation, unless its worker *)
(* dies with the daemon or its last statement fails: no one resumes it then *)
(* (runWorkerAsync).                                                        *)
InstallsEnd ==
  []<>(\A i \in JobIds \ lost : ops[i] \notin {"pending", "running"})
=============================================================================
