-------------------------- MODULE MCStorageDaemon --------------------------
(* The storage side of the daemon in one run of TLC. The components keep     *)
(* their state apart (each module has its own variables), so every behaviour *)
(* moves one of them, the one that focus names, while the others stay in one *)
(* of their initial states; the state spaces add up instead of multiplying.  *)
EXTENDS MCStorageLayout, PoolMounts, PoolHealth, Backup, Services

VARIABLE focus

layoutVars == vars

DaemonInit ==
  /\ focus \in {"layout", "mounts", "health", "backup", "services"}
  /\ Init /\ MountInit /\ HealthInit /\ BackupInit /\ ServicesInit
  /\ focus # "services" => ~dockerConf

DaemonNext ==
  /\ UNCHANGED focus
  /\ \/ /\ focus = "layout" /\ Next
        /\ UNCHANGED <<mountVars, healthVars, backupVars, serviceVars>>
     \/ /\ focus = "mounts" /\ MountNext
        /\ UNCHANGED <<layoutVars, healthVars, backupVars, serviceVars>>
     \/ /\ focus = "health" /\ HealthNext
        /\ UNCHANGED <<layoutVars, mountVars, backupVars, serviceVars>>
     \/ /\ focus = "backup" /\ BackupNext
        /\ UNCHANGED <<layoutVars, mountVars, healthVars, serviceVars>>
     \/ /\ focus = "services" /\ ServicesNext
        /\ UNCHANGED <<layoutVars, mountVars, healthVars, backupVars>>

daemonVars == <<focus, layoutVars, mountVars, healthVars, backupVars, serviceVars>>

(* The fairness of each component, while it is the one that moves.           *)
LayoutFair ==
  LET on == focus = "layout" IN
  /\ WF_layoutVars(on /\ CallSteps) /\ WF_layoutVars(on /\ BootSteps)
  /\ \A o \in Ops : WF_layoutVars(on /\ ConvSteps(o)) /\ WF_layoutVars(on /\ WatchSteps(o))
  /\ \A p \in Pools : WF_layoutVars(on /\ \E ok \in BOOLEAN : BalanceEnds(p, ok))

MountFair ==
  LET on == focus = "mounts" IN
  /\ WF_mountVars(on /\ BootStep)
  /\ WF_mountVars(on /\ LockedStep) /\ WF_mountVars(on /\ RenameStep)
  /\ \A b \in Reconcilers : WF_mountVars(on /\ ReconcileStep(b))
  /\ \A s \in Sweepers : WF_mountVars(on /\ SweepStep(s))
  /\ \A f \in Filesystems : WF_mountVars(on /\ DeviceComesUp(f))
  /\ WF_mountVars(on /\ DevicesReappear)

HealthFair ==
  LET on == focus = "health" IN
  /\ WF_healthVars(on /\ HealthCheck)
  /\ \A d \in HealthDisks : WF_healthVars(on /\ SmartScan(d))

BackupFair ==
  LET on == focus = "backup" IN
  /\ WF_backupVars(on /\ CheckAndRunDueJobs)
  /\ \A j \in BackupJobs :
       /\ WF_backupVars(on /\ BecomesDue(j))
       /\ WF_backupVars(on /\ \E r \in runs : r.job = j /\ BeginRun(r))
       /\ WF_backupVars(on /\ \E r \in runs : r.job = j /\ r.pc # "start" /\ RunStep(r))

ServicesFair ==
  LET on == focus = "services" IN
  /\ WF_serviceVars(on /\ ServicesTick)
  /\ \A p \in Passers : WF_serviceVars(on /\ PassStep(p))
  /\ WF_serviceVars(on /\ \E o \in orders : OrderStep(o))
  /\ WF_serviceVars(on /\ RemovalStep)
  /\ \A a \in HealthApps : WF_serviceVars(on /\ RemoveApp(a))
  /\ WF_serviceVars(on /\ DeleteByPool)

DaemonSpec ==
  /\ DaemonInit /\ [][DaemonNext]_daemonVars
  /\ LayoutFair /\ MountFair /\ HealthFair /\ BackupFair /\ ServicesFair

-----------------------------------------------------------------------------
(* Whatever overlapped, once requests and faults stop each service is shown  *)
(* as it is, for good (NimHealthObserver.Reconcile every 30 s).              *)
ServicesSettle == <>[](focus = "services" => ServicesAreRight)
=============================================================================
