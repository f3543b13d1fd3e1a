------------------------------ MODULE Services ------------------------------
(***************************************************************************)
(* The registry of services and its health: the detectors that register    *)
(* service_instances, the pass that reconciles each row with systemd, the  *)
(* cache of the Docker engine and its apps (services.go, nimhealth*.go),   *)
(* the requests that start and stop services, and the installation and the *)
(* removal of Docker (docker_install.go).                                  *)
(*                                                                         *)
(* A row is its status: the code writes the health with it, "healthy" with *)
(* "running", "failed" with "error", "unknown" otherwise.  There is one    *)
(* pool, the home of the services that have one.                           *)
(***************************************************************************)
EXTENDS Integers, FiniteSets

CONSTANTS
  PoolServices,       \* live in the pool: "docker", "nimtorrent"
  SystemServices,     \* managed by systemd, without a pool: "ssh", "samba" ...
  InternalServices,   \* run inside the daemon: "nimbackup"
  HealthApps,         \* docker apps, each with a container of its name
  MaxServiceRequests, \* bound: requests
  MaxServiceFaults    \* bound: failing commands and queries, units and
                      \*   containers that die, the pool unmounted

Registrable == PoolServices \cup SystemServices \cup InternalServices
WithUnit == PoolServices \cup SystemServices

NoService == "no row"
Unlisted == [s \in Registrable |-> NoService]
Childless == [a \in HealthApps |-> "absent"]

\* Goroutines of a pass: the scheduler's, the one of bootServices and of
\* dockerInstall, and a forced refresh of the cache.
Passers == {"tick", "install", "force"}
AtRest == [pc |-> "idle"]

VARIABLES
  serviceRows,  \* service_instances: id -> status, or NoService
  unitActive,   \* systemctl is-active
  poolRow,      \* storage_pools has the pool
  poolUp,       \* it is mounted
  destroying,   \* a destroy between the row of the pool and those of its services
  dockerConf,   \* docker.json: installed
  removal,      \* the local state of dockerUninstall
  appRow,       \* docker_apps: app -> "none", "known" or "deleting"
  containers,   \* docker ps -a: app -> "none", "running", "stopped" or "error"
  dockerCache,  \* [init, children, orphans]
  passes,       \* the local state of each goroutine
  orders,       \* serviceStart and serviceStop in flight: a set of records
  serviceRequests, serviceFaults  \* what is left of the bounds

worldVars == <<unitActive, poolRow, poolUp, destroying, dockerConf, removal, appRow, containers>>
serviceVars == <<serviceRows, worldVars, dockerCache, passes, orders, serviceRequests, serviceFaults>>

ServicesInit ==
  /\ serviceRows = Unlisted
  /\ unitActive = [s \in WithUnit |-> TRUE]
  /\ poolRow = TRUE /\ poolUp = TRUE /\ destroying = FALSE
  /\ dockerConf \in BOOLEAN
  /\ removal = "idle"
  /\ appRow \in [HealthApps -> IF dockerConf THEN {"none", "known"} ELSE {"none"}]
  /\ containers = [a \in HealthApps |-> IF appRow[a] = "none" THEN "none" ELSE "running"]
  /\ dockerCache = [init |-> FALSE, children |-> Childless, orphans |-> 0]
  /\ passes = [p \in Passers |-> AtRest]
  /\ orders = {}
  /\ serviceRequests = MaxServiceRequests
  /\ serviceFaults = MaxServiceFaults

ServiceRequest == serviceRequests > 0 /\ serviceRequests' = serviceRequests - 1
ServiceFault == serviceFaults > 0 /\ serviceFaults' = serviceFaults - 1

---------------------------------------------------------------------------
(* The table. *)

\* What the detectors return: docker only with docker.json, the others here
\* are installed.
Detected == Registrable \ (IF dockerConf THEN {} ELSE {"docker"})

\* dbServiceRegister, INSERT OR REPLACE.
Registration(s) == IF s \in InternalServices THEN "running" ELSE "unknown"

\* dbServiceUpdateStatus: no row, no effect.
UpdateStatus(s, status) ==
  serviceRows' = [serviceRows EXCEPT ![s] = IF @ = NoService THEN @ ELSE status]

\* canDestroyPool, what GET /api/services/dependencies answers: the services
\* of the pool all require it.
CanDestroyPool == \A s \in PoolServices : serviceRows[s] \notin {"running", "starting", "stopping"}

---------------------------------------------------------------------------
(* NimHealthObserver.Reconcile, and the same calls in dockerInstall.       *)

PassGoes(p, state) == passes' = [passes EXCEPT ![p] = state]
OnlyPass == UNCHANGED <<worldVars, orders, serviceRequests>>

\* runAutoRegister reads the table first; an error there is ignored and
\* reads as an empty table (dbServiceListWithTimeout).
ListExisting(p, pc, next) ==
  /\ passes[p].pc = pc
  /\ \/ /\ PassGoes(p, [pc |-> next, existing |-> {s \in Registrable : serviceRows[s] # NoService}])
        /\ UNCHANGED serviceFaults
     \/ ServiceFault /\ PassGoes(p, [pc |-> next, existing |-> {}])
  /\ OnlyPass /\ UNCHANGED <<serviceRows, dockerCache>>

RegisterAbsent(p, pc, next) ==
  /\ passes[p].pc = pc
  /\ serviceRows' = [s \in Registrable |->
                       IF s \in Detected \ passes[p].existing THEN Registration(s) ELSE serviceRows[s]]
  /\ PassGoes(p, [pc |-> next])
  /\ OnlyPass /\ UNCHANGED <<dockerCache, serviceFaults>>

\* reconcileServices, after it registered once more: the rows of pools that
\* storageService.ListPools does not return go; an error is no pool at all.
ReadPools(p) ==
  /\ passes[p].pc = "pools"
  /\ \/ PassGoes(p, [pc |-> "orphans", known |-> poolRow]) /\ UNCHANGED serviceFaults
     \/ ServiceFault /\ PassGoes(p, [pc |-> "orphans", known |-> FALSE])
  /\ OnlyPass /\ UNCHANGED <<serviceRows, dockerCache>>

\* The list that follows is what the goroutines work on.
CleanOrphanServices(p) ==
  /\ passes[p].pc = "orphans"
  /\ serviceRows' = [s \in Registrable |->
                       IF s \in PoolServices /\ ~passes[p].known THEN NoService ELSE serviceRows[s]]
  /\ PassGoes(p, [pc |-> "instances", listed |-> serviceRows', observed |-> Unlisted])
  /\ OnlyPass /\ UNCHANGED <<dockerCache, serviceFaults>>

\* What reconcileOneInstance finds: systemctl is-active for a unit; a pool
\* that is not mounted is an error before that.
RealStatus(s) ==
  IF s \in InternalServices THEN "running"
  ELSE IF s \in PoolServices /\ ~poolUp THEN "error"
  ELSE IF unitActive[s] THEN "running" ELSE "stopped"

ToDo(p) == {s \in Registrable : passes[p].listed[s] # NoService}

\* Mutant: a service in error is left for the administrator.
WrongButErrors(listed, real) == listed \notin {real, "error"}

\* The row is written when what was listed differs from what was found.
Wrong(listed, real) == listed # real

\* The goroutine of an instance looks, then it writes.
ObserveInstance(p, s) ==
  /\ passes[p].pc = "instances"
  /\ s \in ToDo(p) /\ passes[p].observed[s] = NoService
  /\ PassGoes(p, [passes[p] EXCEPT !.observed[s] = RealStatus(s)])
  /\ OnlyPass /\ UNCHANGED <<serviceRows, dockerCache, serviceFaults>>

WriteInstance(p, s) ==
  /\ passes[p].pc = "instances"
  /\ s \in ToDo(p) /\ passes[p].observed[s] # NoService
  /\ IF Wrong(passes[p].listed[s], passes[p].observed[s])
       THEN UpdateStatus(s, passes[p].observed[s])
       ELSE UNCHANGED serviceRows
  /\ PassGoes(p, [passes[p] EXCEPT !.listed[s] = NoService])
  /\ OnlyPass /\ UNCHANGED <<dockerCache, serviceFaults>>

---------------------------------------------------------------------------
(* refreshDockerCache. *)

\* Without Docker the cache is empty; without a row of the engine, or when
\* the query fails, it stays as it is.
BeginRefresh(p) ==
  /\ \/ passes[p].pc = "cache"
     \/ passes[p].pc = "instances" /\ ToDo(p) = {}
  /\ IF ~dockerConf
       THEN /\ dockerCache' = [init |-> TRUE, children |-> Childless, orphans |-> 0]
            /\ PassGoes(p, AtRest) /\ UNCHANGED serviceFaults
       ELSE /\ UNCHANGED dockerCache
            /\ \/ /\ PassGoes(p, IF serviceRows["docker"] = NoService THEN AtRest
                           ELSE [pc |-> "apps"])
                  /\ UNCHANGED serviceFaults
               \/ ServiceFault /\ PassGoes(p, AtRest)
  /\ OnlyPass /\ UNCHANGED serviceRows

\* getDockerAppStatuses: docker_apps, then docker ps -a.
ReadApps(p) ==
  /\ passes[p].pc = "apps"
  /\ PassGoes(p, [pc |-> "ps", apps |-> appRow])
  /\ OnlyPass /\ UNCHANGED <<serviceRows, dockerCache, serviceFaults>>

Listing == IF unitActive["docker"] THEN containers ELSE [a \in HealthApps |-> "none"]

\* An app without a container is stopped; a container whose app is being
\* deleted is no orphan.
Children(apps, found) ==
  [a \in HealthApps |-> IF apps[a] # "known" THEN "absent"
                        ELSE IF found[a] = "none" THEN "stopped" ELSE found[a]]
OrphanCount(apps, found) == Cardinality({a \in HealthApps : found[a] # "none" /\ apps[a] = "none"})

DockerPs(p) ==
  /\ passes[p].pc = "ps"
  /\ PassGoes(p, [pc |-> "store", children |-> Children(passes[p].apps, Listing),
            orphans |-> OrphanCount(passes[p].apps, Listing)])
  /\ OnlyPass /\ UNCHANGED <<serviceRows, dockerCache, serviceFaults>>

StoreCache(p) ==
  /\ passes[p].pc = "store"
  /\ dockerCache' = [init |-> TRUE, children |-> passes[p].children, orphans |-> passes[p].orphans]
  /\ PassGoes(p, AtRest)
  /\ OnlyPass /\ UNCHANGED <<serviceRows, serviceFaults>>

\* ComputeDockerAggregateHealth.
AggregateHealth(children) ==
  LET statuses == {children[a] : a \in HealthApps} \ {"absent"}
  IN IF "error" \in statuses \/ {"running", "stopped"} \subseteq statuses
       THEN "degraded" ELSE "healthy"

\* enrichDockerInstance: the health that GET /api/services shows.
ShownHealth ==
  IF ~dockerConf \/ ~dockerCache.init THEN "unknown" ELSE AggregateHealth(dockerCache.children)

---------------------------------------------------------------------------
\* The pass registers by itself and again inside reconcileServices.
PassStep(p) ==
  \/ ListExisting(p, "existing1", "register1") \/ RegisterAbsent(p, "register1", "existing2")
  \/ ListExisting(p, "existing2", "register2") \/ RegisterAbsent(p, "register2", "pools")
  \/ ReadPools(p) \/ CleanOrphanServices(p)
  \/ \E s \in Registrable : ObserveInstance(p, s) \/ WriteInstance(p, s)
  \/ BeginRefresh(p) \/ ReadApps(p) \/ DockerPs(p) \/ StoreCache(p)

\* The ticker of the scheduler.
ServicesTick ==
  /\ passes["tick"].pc = "idle"
  /\ PassGoes("tick", [pc |-> "existing1"])
  /\ OnlyPass /\ UNCHANGED <<serviceRows, dockerCache, serviceFaults>>

---------------------------------------------------------------------------
(* Requests: POST /api/services/{id}/start, stop and restart.              *)

Ordered(o, pc) == orders' = (orders \ {o}) \cup {[o EXCEPT !.pc = pc]}
OrderOver(o) == orders' = orders \ {o}
OnlyOrder == UNCHANGED <<worldVars, dockerCache, passes, serviceRequests>>

Order(s, action) ==
  /\ ServiceRequest
  /\ serviceRows[s] # NoService
  /\ orders' = orders \cup {[service |-> s, action |-> action,
                             pc |-> IF action = "start" THEN "lock" ELSE "stopping"]}
  /\ UNCHANGED <<serviceRows, worldVars, dockerCache, passes, serviceFaults>>

\* serviceStart waits for storageMu, then looks at the mount: for a service
\* without a pool the path is the directory of the pools, which is none.
CheckMount(o) ==
  /\ o.pc = "lock" /\ ~destroying
  /\ IF o.service \in PoolServices /\ poolUp
       THEN Ordered(o, "starting") /\ UNCHANGED serviceRows
       ELSE OrderOver(o) /\ UpdateStatus(o.service, "error")
  /\ OnlyOrder /\ UNCHANGED serviceFaults

Announce(o) ==
  /\ o.pc \in {"starting", "stopping"}
  /\ UpdateStatus(o.service, o.pc)
  /\ Ordered(o, IF o.pc = "starting" THEN "up" ELSE "down")
  /\ OnlyOrder /\ UNCHANGED serviceFaults

\* What follows an end of serviceStop: restart goes on, whatever stop said.
AfterStop(o) == IF o.action = "restart" THEN Ordered(o, "lock") ELSE OrderOver(o)

\* systemctl; an internal service has its status written at once.
Command(o) ==
  /\ o.pc \in {"up", "down"}
  /\ unitActive' = IF o.service \in WithUnit
                     THEN [unitActive EXCEPT ![o.service] = o.pc = "up"] ELSE unitActive
  /\ IF o.service \in InternalServices
       THEN UpdateStatus(o.service, IF o.pc = "up" THEN "running" ELSE "stopped")
       ELSE UNCHANGED serviceRows
  /\ IF o.pc = "up" THEN OrderOver(o) ELSE AfterStop(o)
  /\ UNCHANGED <<poolRow, poolUp, destroying, dockerConf, removal, appRow, containers,
                 dockerCache, passes, serviceRequests, serviceFaults>>

CommandFails(o) ==
  /\ ServiceFault
  /\ o.pc \in {"up", "down"} /\ o.service \in WithUnit
  /\ UpdateStatus(o.service, "error")
  /\ IF o.pc = "up" THEN OrderOver(o) ELSE AfterStop(o)
  /\ OnlyOrder

OrderStep(o) == CheckMount(o) \/ Announce(o) \/ Command(o) \/ CommandFails(o)

---------------------------------------------------------------------------
(* Docker comes and goes, and its apps. *)

\* dockerInstall saves docker.json and makes a pass of its own.
InstallDocker ==
  /\ ServiceRequest
  /\ ~dockerConf /\ poolUp /\ removal = "idle" /\ passes["install"].pc = "idle"
  /\ dockerConf' = TRUE
  /\ unitActive' = [unitActive EXCEPT !["docker"] = TRUE]
  /\ PassGoes("install", [pc |-> "existing1"])
  /\ UNCHANGED <<serviceRows, poolRow, poolUp, destroying, removal, appRow, containers,
                 dockerCache, orders, serviceFaults>>

\* dockerUninstall: the containers and the engine, then the row of the
\* service, and docker.json only at the end.
UninstallDocker ==
  /\ ServiceRequest
  /\ dockerConf /\ removal = "idle"
  /\ removal' = "row"
  /\ containers' = [a \in HealthApps |-> "none"]
  /\ unitActive' = [unitActive EXCEPT !["docker"] = FALSE]
  /\ UNCHANGED <<serviceRows, poolRow, poolUp, destroying, dockerConf, appRow, dockerCache,
                 passes, orders, serviceFaults>>

RemovalStep ==
  /\ \/ /\ removal = "row"
        /\ serviceRows' = [serviceRows EXCEPT !["docker"] = NoService]
        /\ removal' = "conf" /\ UNCHANGED dockerConf
     \/ removal = "conf" /\ dockerConf' = FALSE /\ removal' = "idle" /\ UNCHANGED serviceRows
  /\ UNCHANGED <<unitActive, poolRow, poolUp, destroying, appRow, containers, dockerCache,
                 passes, orders, serviceRequests, serviceFaults>>

\* Handlers of the Docker module, with the refresh they force: an app is
\* deployed, its container is started or stopped (bound: they wait for the
\* refresh before).
Refreshed(a, row, container) ==
  /\ passes["force"].pc = "idle"
  /\ appRow' = [appRow EXCEPT ![a] = row]
  /\ containers' = [containers EXCEPT ![a] = container]
  /\ PassGoes("force", [pc |-> "cache"])
  /\ UNCHANGED <<serviceRows, unitActive, poolRow, poolUp, destroying, dockerConf, removal,
                 dockerCache, orders, serviceFaults>>

DockerServes == dockerConf /\ unitActive["docker"] /\ removal = "idle"

ContainerCreate(a) ==
  ServiceRequest /\ DockerServes /\ appRow[a] = "none" /\ Refreshed(a, "known", "running")

ContainerAction(a) ==
  /\ ServiceRequest /\ DockerServes
  /\ appRow[a] = "known" /\ containers[a] # "none"
  /\ \E container \in {"running", "stopped"} : Refreshed(a, "known", container)

\* POST /api/services/{app}/stop and start: no refresh.
ServiceContainerAction(a) ==
  /\ ServiceRequest /\ DockerServes
  /\ containers[a] # "none"
  /\ \E container \in {"running", "stopped"} : containers' = [containers EXCEPT ![a] = container]
  /\ UNCHANGED <<serviceRows, unitActive, poolRow, poolUp, destroying, dockerConf, removal, appRow,
                 dockerCache, passes, orders, serviceFaults>>

\* dockerContainerDelete marks the row; its goroutine removes the container,
\* then the row, and refreshes.
MarkAppDeleting(a) ==
  /\ ServiceRequest
  /\ appRow[a] = "known"
  /\ appRow' = [appRow EXCEPT ![a] = "deleting"]
  /\ UNCHANGED <<serviceRows, unitActive, poolRow, poolUp, destroying, dockerConf, removal, containers,
                 dockerCache, passes, orders, serviceFaults>>

RemoveApp(a) ==
  /\ appRow[a] = "deleting"
  /\ UNCHANGED serviceRequests
  /\ IF containers[a] # "none"
       THEN /\ containers' = [containers EXCEPT ![a] = "none"]
            /\ UNCHANGED <<serviceRows, unitActive, poolRow, poolUp, destroying, dockerConf, removal,
                           appRow, dockerCache, passes, orders, serviceFaults>>
       ELSE Refreshed(a, "none", "none")

---------------------------------------------------------------------------
(* The pool, and what fails by itself. *)

\* destroyPoolBtrfs, which holds storageMu: the row of the pool, then the
\* rows of its services (dbServiceDeleteByPool).
DestroyPool ==
  /\ ServiceRequest
  /\ poolRow /\ ~destroying
  /\ poolRow' = FALSE /\ poolUp' = FALSE /\ destroying' = TRUE
  /\ UNCHANGED <<serviceRows, unitActive, dockerConf, removal, appRow, containers, dockerCache,
                 passes, orders, serviceFaults>>

DeleteByPool ==
  /\ destroying
  /\ destroying' = FALSE
  /\ serviceRows' = [s \in Registrable |-> IF s \in PoolServices THEN NoService ELSE serviceRows[s]]
  /\ UNCHANGED <<unitActive, poolRow, poolUp, dockerConf, removal, appRow, containers, dockerCache,
                 passes, orders, serviceRequests, serviceFaults>>

\* A pool of the same name is created, or the pool is mounted again.
PoolComesUp ==
  /\ ServiceRequest
  /\ ~poolUp /\ ~destroying
  /\ poolRow' = TRUE /\ poolUp' = TRUE
  /\ UNCHANGED <<serviceRows, unitActive, destroying, dockerConf, removal, appRow, containers,
                 dockerCache, passes, orders, serviceFaults>>

ItFails ==
  /\ ServiceFault
  /\ \/ poolUp' = FALSE /\ UNCHANGED <<unitActive, containers>>
     \/ /\ \E s \in WithUnit : unitActive' = [unitActive EXCEPT ![s] = FALSE]
        /\ UNCHANGED <<poolUp, containers>>
     \/ /\ \E a \in HealthApps : containers[a] # "none" /\ containers' = [containers EXCEPT ![a] = "error"]
        /\ UNCHANGED <<poolUp, unitActive>>
  /\ UNCHANGED <<serviceRows, poolRow, destroying, dockerConf, removal, appRow, dockerCache,
                 passes, orders, serviceRequests>>

---------------------------------------------------------------------------
ServicesNext ==
  \/ ServicesTick
  \/ \E p \in Passers : PassStep(p)
  \/ \E s \in Registrable, action \in {"start", "stop", "restart"} : Order(s, action)
  \/ \E o \in orders : OrderStep(o)
  \/ InstallDocker \/ UninstallDocker \/ RemovalStep
  \/ \E a \in HealthApps : ContainerCreate(a) \/ ContainerAction(a) \/ ServiceContainerAction(a)
                              \/ MarkAppDeleting(a) \/ RemoveApp(a)
  \/ DestroyPool \/ DeleteByPool \/ PoolComesUp \/ ItFails

\* Goroutines run; requests and faults need not come.
ServicesFairness ==
  /\ WF_serviceVars(ServicesTick)
  /\ \A p \in Passers : WF_serviceVars(PassStep(p))
  /\ WF_serviceVars(\E o \in orders : OrderStep(o))
  /\ WF_serviceVars(RemovalStep)
  /\ \A a \in HealthApps : WF_serviceVars(RemoveApp(a))
  /\ WF_serviceVars(DeleteByPool)

ServicesSpec == ServicesInit /\ [][ServicesNext]_serviceVars /\ ServicesFairness

---------------------------------------------------------------------------
\* Each service that is installed on a pool the database knows is shown as it
\* is, and the engine with the health of its containers. (Whatever overlapped,
\* this holds for good once nothing moves any more: ServicesSettle.)
ServicesAreRight ==
  /\ \A s \in Detected : s \notin PoolServices \/ poolRow => serviceRows[s] = RealStatus(s)
  /\ dockerConf /\ poolRow => ShownHealth = AggregateHealth(Children(appRow, Listing))
=============================================================================
