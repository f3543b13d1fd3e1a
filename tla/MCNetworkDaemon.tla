-------------------------- MODULE MCNetworkDaemon --------------------------
(* What the daemon keeps putting right, in one run of TLC: the pools whose   *)
(* disks come back, the snapshot of them, the DDNS entries, the exposure,    *)
(* the docker apps and their updates, and the scheduler that calls the       *)
(* reconcilers. As in MCStorageDaemon, a behaviour moves one of them: the    *)
(* one that focus names.                                                     *)
EXTENDS MCDeviceReconciler, NetworkDdns, NetworkExposure, DockerApps, AppUpdates,
        ReconcilerScheduler, StorageObserverLoop

VARIABLE focus

deviceVars == vars

DaemonInit ==
  /\ focus \in {"devices", "ddns", "exposure", "apps", "updates", "scheduler",
               "observer"}
  /\ Init /\ DdnsInit /\ ExposureInit /\ AppsInit /\ UpdatesInit /\ SchedInit
  /\ ObserverInit
  /\ focus # "devices" => present = {} /\ age = [d \in Disks |-> 0]
  /\ focus # "exposure" => ~exposureCfg.on
  /\ focus # "apps" => engine = "absent"

\* Only the loop of the DeviceReconciler never rests.
Rest == focus # "devices" /\ UNCHANGED <<deviceVars, ddnsVars, exposureVars,
                                         appVars, updateVars, schedVars, observerVars>>

DaemonNext ==
  /\ UNCHANGED focus
  /\ \/ /\ focus = "devices" /\ Next
        /\ UNCHANGED <<ddnsVars, exposureVars, appVars, updateVars, schedVars,
                       observerVars>>
     \/ /\ focus = "ddns" /\ DdnsNext
        /\ UNCHANGED <<deviceVars, exposureVars, appVars, updateVars, schedVars,
                       observerVars>>
     \/ /\ focus = "exposure" /\ ExposureNext
        /\ UNCHANGED <<deviceVars, ddnsVars, appVars, updateVars, schedVars,
                       observerVars>>
     \/ /\ focus = "apps" /\ AppsNext
        /\ UNCHANGED <<deviceVars, ddnsVars, exposureVars, updateVars, schedVars,
                       observerVars>>
     \/ /\ focus = "updates" /\ UpdatesNext
        /\ UNCHANGED <<deviceVars, ddnsVars, exposureVars, appVars, schedVars,
                       observerVars>>
     \/ /\ focus = "scheduler" /\ SchedNext
        /\ UNCHANGED <<deviceVars, ddnsVars, exposureVars, appVars, updateVars,
                       observerVars>>
     \/ /\ focus = "observer" /\ ObserverNext
        /\ UNCHANGED <<deviceVars, ddnsVars, exposureVars, appVars, updateVars,
                       schedVars>>
     \/ Rest

daemonVars == <<focus, deviceVars, ddnsVars, exposureVars, appVars,
                updateVars, schedVars, observerVars>>

(* The fairness of each component, while it is the one that moves.           *)
DeviceFair ==
  LET on == focus = "devices" IN
  WF_deviceVars(on /\ Tick) /\ WF_deviceVars(on /\ Cycle) /\ SF_deviceVars(on /\ Scan)

DdnsFair ==
  LET on == focus = "ddns" IN
  /\ WF_ddnsVars(on /\ DdnsReconcile) /\ WF_ddnsVars(on /\ CooldownPasses)
  /\ \A c \in DdnsAdmins : WF_ddnsVars(on /\ DdnsHandler(c))

ExposureFair ==
  LET on == focus = "exposure" IN
  /\ WF_exposureVars(on /\ Reconcile)
  /\ \A c \in ExposureAdmins : WF_exposureVars(on /\ FinishRequest(c))

AppsFair ==
  LET on == focus = "apps" IN
  WF_appVars(on /\ Adopt) /\ WF_appVars(on /\ \E j \in jobs : JobStep(j))

UpdatesFair ==
  LET on == focus = "updates" IN
  \A i \in Images :
       /\ WF_updateVars(on /\ AnswerExpires(i))
       /\ WF_updateVars(on /\ \E q \in inquiries : q.image = i /\ Answers(q))
       /\ WF_updateVars(on /\ \E q \in inquiries : q.image = i /\ StoreAnswer(q))

ObserverFair ==
  LET on == focus = "observer" IN
  /\ WF_observerVars(on /\ TickerFires) /\ WF_observerVars(on /\ TryReconcile)
  /\ SF_observerVars(on /\ Probe)
  /\ \A h \in Callers : WF_observerVars(on /\ Invalidate(h))

DaemonSpec ==
  /\ DaemonInit /\ [][DaemonNext]_daemonVars
  /\ DeviceFair /\ DdnsFair /\ ExposureFair /\ AppsFair /\ UpdatesFair
  /\ ObserverFair

-----------------------------------------------------------------------------
(* Whatever failed before and in whatever order edits fell into the passes, *)
(* once edits and faults stop what is declared is what Caddy serves, for     *)
(* good (NetworkExposureReconciler.Reconcile every 30 s).                    *)
CaddyConverges == <>[](focus = "exposure" => DeclaredIsServed)
=============================================================================
