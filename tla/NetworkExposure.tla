-------------------------- MODULE NetworkExposure --------------------------
(***************************************************************************)
(* The exposure of apps to the internet: the declared rows and settings in *)
(* SQLite (network_exposure_repo.go, network_exposure_config.go), the      *)
(* administrators that edit them over HTTP (network_exposure_http.go), and *)
(* the reconciler that pushes them to Caddy and to the host firewall       *)
(* (network_exposure_reconciler.go, _caddy.go, _firewall.go).              *)
(*                                                                         *)
(* A pass of the reconciler is a sequence of steps, because an             *)
(* administrator's transaction may fall between any two of them, and any   *)
(* call to Caddy, to ufw or to SQLite may fail.  What an app routes to     *)
(* (subdomain, path, upstream) is one model value.                         *)
(***************************************************************************)
EXTENDS Integers, FiniteSets

CONSTANTS
  ExposedApps,      \* the app_ids of network_exposed_apps
  ExposureAdmins,   \* HTTP clients that edit them
  Routes,           \* what an app may route to
  FwPorts,          \* the values of http_port (https_port stays as it is)
  SshPort,          \* 22, which the reconciler never closes
  MaxExposureEdits, \* bound: requests of the administrators
  MaxExposureFaults \* bound: failing calls, restarts of Caddy, crashes

NoRow == [id |-> 0]            \* no such row; ids start at 1
NoRoute == "none"
NoSnapshot == [app |-> "none"]

VARIABLES
  exposed,        \* network_exposed_apps: app_id -> row, or NoRow
  exposureCfg,    \* network_exposure_config, the singleton row
  caddy,          \* what Caddy serves now
  ufw,            \* the rules of the host firewall
  userPorts,      \* history: the ports the user opened in ufw by hand
  pass,           \* the local state of Reconcile
  request,        \* the PUT or DELETE each administrator has in flight
  seen,           \* the row each administrator last read
  exposureEdits, exposureFaults,  \* what is left of the two bounds
  fwFaulty        \* history: a ufw command or the save of its result failed

exposureVars == <<exposed, exposureCfg, caddy, ufw, userPorts, pass, request,
                  seen, exposureEdits, exposureFaults, fwFaulty>>

Content(row) == [route |-> row.route, on |-> row.on]

Idle == [pc |-> "idle"]
NoRequest == [kind |-> "none"]

(* The routes and domains that the settings and the rows stand for: what a *)
(* pass that read both at once would send.  Without a base domain there is *)
(* nothing to route; the redirect and the certificates need the token.     *)
Enabled(cfg, rows) ==
  {a \in ExposedApps : cfg.on /\ rows[a] # NoRow /\ rows[a].on}
AppRoutes(cfg, rows) ==
  [a \in ExposedApps |-> IF cfg.domain /\ a \in Enabled(cfg, rows)
                           THEN rows[a].route ELSE NoRoute]
TLSDomains(cfg, rows) ==
  IF cfg.domain /\ cfg.token THEN {"base"} \cup Enabled(cfg, rows) ELSE {}

\* Either nothing was ever configured, or every app was declared before.
FreshRow == [id |-> MaxExposureEdits + 1, route |-> CHOOSE r \in Routes : TRUE,
             on |-> TRUE, desired |-> 1, applied |-> 0]

ExposureInit ==
  /\ \E on \in BOOLEAN :
       /\ exposed = [a \in ExposedApps |-> IF on THEN FreshRow ELSE NoRow]
       /\ exposureCfg = [on |-> on, domain |-> on, token |-> on, managed |-> {},
                         port |-> CHOOSE p \in FwPorts \ {SshPort} : TRUE]
  /\ caddy = [listen |-> exposureCfg.port, routes |-> [a \in ExposedApps |-> NoRoute],
              redirect |-> {}, automate |-> {}]
  /\ ufw = [active |-> TRUE, allowed |-> {SshPort}]
  /\ userPorts = {SshPort}
  /\ pass = Idle
  /\ request = [c \in ExposureAdmins |-> NoRequest]
  /\ seen = [c \in ExposureAdmins |-> NoSnapshot]
  /\ exposureEdits = MaxExposureEdits
  /\ exposureFaults = MaxExposureFaults
  /\ fwFaulty = FALSE

Edit == exposureEdits > 0 /\ exposureEdits' = exposureEdits - 1
Fault == exposureFaults > 0 /\ exposureFaults' = exposureFaults - 1

---------------------------------------------------------------------------
(* Administrators. *)

\* exposureGetHTTP / exposureListHTTP: the client keeps what it was shown.
ReadExposed(c, a) ==
  /\ request[c] = NoRequest
  /\ exposed[a] # NoRow
  /\ exposureEdits > 0
  /\ seen' = [seen EXCEPT ![c] = [app |-> a, row |-> exposed[a]]]
  /\ UNCHANGED <<exposed, exposureCfg, caddy, ufw, userPorts, pass, request,
                 exposureEdits, exposureFaults, fwFaulty>>

\* exposureCreateHTTP: app_id is UNIQUE, a new row gets a new id (UUID).
CreateExposed(c, a, r) ==
  /\ Edit
  /\ request[c] = NoRequest
  /\ exposed[a] = NoRow
  /\ exposed' = [exposed EXCEPT ![a] =
       [id |-> exposureEdits, route |-> r, on |-> TRUE, desired |-> 1, applied |-> 0]]
  /\ UNCHANGED <<exposureCfg, caddy, ufw, userPorts, pass, request, seen,
                 exposureFaults, fwFaulty>>

Changes == [field : {"route"}, to : Routes] \cup [field : {"on"}, to : BOOLEAN]
Merge(new, row) ==
  [route |-> IF new.field = "route" THEN new.to ELSE row.route,
   on |-> IF new.field = "on" THEN new.to ELSE row.on]

\* exposureUpdateHTTP, first half: GetExposedApp by id, then the fields of
\* the request over the row as it is now.
BeginUpdateExposed(c, new) ==
  /\ Edit
  /\ request[c] = NoRequest
  /\ seen[c] # NoSnapshot
  /\ LET a == seen[c].app IN
       /\ exposed[a] # NoRow
       /\ exposed[a].id = seen[c].row.id
       /\ request' = [request EXCEPT ![c] =
            [kind |-> "update", app |-> a, id |-> seen[c].row.id,
             gen |-> seen[c].row.desired, new |-> Merge(new, exposed[a])]]
  /\ UNCHANGED <<exposed, exposureCfg, caddy, ufw, userPorts, pass, seen,
                 exposureFaults, fwFaulty>>

\* The optimistic lock of UPDATE and DELETE: WHERE id = ? AND
\* desired_generation = ?, with the generation of the client's If-Match.
StillAt(rows, a, id, gen) ==
  rows[a] # NoRow /\ rows[a].id = id /\ rows[a].desired = gen

\* exposureUpdateHTTP, second half: UpdateExposedAppConfig.  A row that is
\* gone or has another generation answers 404 or 412 and nothing changes.
FinishUpdateExposed(c) ==
  /\ request[c].kind = "update"
  /\ request' = [request EXCEPT ![c] = NoRequest]
  /\ LET q == request[c] IN
       exposed' = IF StillAt(exposed, q.app, q.id, q.gen)
         THEN [exposed EXCEPT ![q.app] =
                [exposed[q.app] EXCEPT !.route = q.new.route, !.on = q.new.on,
                                       !.desired = exposed[q.app].desired + 1]]
         ELSE exposed
  /\ seen' = [seen EXCEPT ![c] = NoSnapshot]
  /\ UNCHANGED <<exposureCfg, caddy, ufw, userPorts, pass, exposureEdits,
                 exposureFaults, fwFaulty>>

\* exposureDeleteHTTP: one transaction under the same lock.
DeleteExposed(c) ==
  /\ Edit
  /\ request[c] = NoRequest
  /\ seen[c] # NoSnapshot
  /\ exposed' = IF StillAt(exposed, seen[c].app, seen[c].row.id, seen[c].row.desired)
                  THEN [exposed EXCEPT ![seen[c].app] = NoRow] ELSE exposed
  /\ seen' = [seen EXCEPT ![c] = NoSnapshot]
  /\ UNCHANGED <<exposureCfg, caddy, ufw, userPorts, pass, request,
                 exposureFaults, fwFaulty>>

\* exposureConfigPutHTTP, first half: the row as it is with the request's
\* fields over it.  BaseDomain, Enabled and HTTPPort are the fields told apart.
BeginPutConfig(c) ==
  /\ Edit
  /\ request[c] = NoRequest
  /\ \E new \in {[exposureCfg EXCEPT !.on = b] : b \in BOOLEAN}
          \cup {[exposureCfg EXCEPT !.domain = b] : b \in BOOLEAN}
          \cup {[exposureCfg EXCEPT !.on = TRUE, !.domain = TRUE]}
          \cup {[exposureCfg EXCEPT !.port = p] : p \in FwPorts} :
       request' = [request EXCEPT ![c] = [kind |-> "config", new |-> new]]
  /\ UNCHANGED <<exposed, exposureCfg, caddy, ufw, userPorts, pass, seen,
                 exposureFaults, fwFaulty>>

\* Mutant: the settings that were read before are saved as a whole.
SaveWholeConfig(old, new) ==
  IF new.on /\ ~new.domain THEN old ELSE [new EXCEPT !.token = old.token]

\* SaveExposureConfig refuses to enable without a domain and leaves the
\* column of the managed ports alone.
SaveExposureConfig(old, new) ==
  IF new.on /\ ~new.domain THEN old
  ELSE [new EXCEPT !.managed = old.managed, !.token = old.token]

FinishPutConfig(c) ==
  /\ request[c].kind = "config"
  /\ request' = [request EXCEPT ![c] = NoRequest]
  /\ exposureCfg' = SaveExposureConfig(exposureCfg, request[c].new)
  /\ UNCHANGED <<exposed, caddy, ufw, userPorts, pass, seen, exposureEdits,
                 exposureFaults, fwFaulty>>

\* The DDNS entry of the base domain, or its token, comes or goes: what
\* duckdnsToken finds when it looks the secret up.
TokenChanges ==
  /\ Edit
  /\ exposureCfg' = [exposureCfg EXCEPT !.token = ~@]
  /\ UNCHANGED <<exposed, caddy, ufw, userPorts, pass, request, seen,
                 exposureFaults, fwFaulty>>

---------------------------------------------------------------------------
(* The reconciler. *)

RestOfPass == <<exposed, exposureCfg, caddy, ufw, userPorts, request, seen,
                exposureEdits>>

GetExposureConfig ==
  /\ pass.pc = "idle"
  /\ pass' = [pc |-> "list", cfg |-> exposureCfg]
  /\ UNCHANGED <<RestOfPass, exposureFaults, fwFaulty>>

\* Mutant: the pass lists the enabled apps only (ListEnabledExposedApps).
ListEnabledExposedApps ==
  /\ pass.pc = "list"
  /\ pass' = [pc |-> "listen", cfg |-> pass.cfg,
              rows |-> [a \in ExposedApps |->
                          IF exposed[a] # NoRow /\ exposed[a].on THEN exposed[a] ELSE NoRow]]
  /\ UNCHANGED <<RestOfPass, exposureFaults, fwFaulty>>

ListExposedApps ==
  /\ pass.pc = "list"
  /\ pass' = [pc |-> "listen", cfg |-> pass.cfg, rows |-> exposed]
  /\ UNCHANGED <<RestOfPass, exposureFaults, fwFaulty>>

\* SyncListen is best effort: a refusal leaves Caddy on its old port.
SyncListen ==
  /\ pass.pc = "listen"
  /\ pass' = [pass EXCEPT !.pc = "firewall"]
  /\ \/ caddy' = [caddy EXCEPT !.listen = pass.cfg.port] /\ UNCHANGED exposureFaults
     \/ Fault /\ UNCHANGED caddy
  /\ UNCHANGED <<exposed, exposureCfg, ufw, userPorts, request, seen,
                 exposureEdits, fwFaulty>>

Wanted(cfg) == {cfg.port}
\* Stale managed ports are closed, except the wanted ones and SSH.
ToClose(cfg) == (cfg.managed \ Wanted(cfg)) \ {SshPort}

\* After EnsurePorts: save the list of managed ports if it changed.
AfterEnsure(managed) ==
  IF managed = pass.cfg.managed THEN [pass EXCEPT !.pc = "routes"]
  ELSE [pc |-> "save", cfg |-> pass.cfg, rows |-> pass.rows, managed |-> managed]

\* EnsurePorts: with ufw off nothing is managed any more; with ufw on, first
\* every wanted port is allowed, then the stale ones are deleted.  The first
\* command that fails ends it with what was done so far, and nothing saved.
EnsurePorts ==
  /\ pass.pc = "firewall"
  /\ \/ /\ ~ufw.active
        /\ pass' = AfterEnsure({})
        /\ UNCHANGED <<ufw, exposureFaults, fwFaulty>>
     \/ /\ ufw.active
        /\ ufw' = [ufw EXCEPT !.allowed = (@ \cup Wanted(pass.cfg)) \ ToClose(pass.cfg)]
        /\ pass' = AfterEnsure(Wanted(pass.cfg))
        /\ UNCHANGED <<exposureFaults, fwFaulty>>
     \/ /\ ufw.active
        /\ Fault
        /\ \/ UNCHANGED ufw
           \/ \E closed \in SUBSET ToClose(pass.cfg) :
                ufw' = [ufw EXCEPT !.allowed = (@ \cup Wanted(pass.cfg)) \ closed]
        /\ pass' = [pass EXCEPT !.pc = "routes"]
        /\ fwFaulty' = TRUE
  /\ UNCHANGED <<exposed, exposureCfg, caddy, userPorts, request, seen, exposureEdits>>

\* UpdateFWManagedPorts: only its own column.
UpdateFWManagedPorts ==
  /\ pass.pc = "save"
  /\ \/ exposureCfg' = [exposureCfg EXCEPT !.managed = pass.managed]
        /\ UNCHANGED <<exposureFaults, fwFaulty>>
     \/ Fault /\ fwFaulty' = TRUE /\ UNCHANGED exposureCfg
  /\ pass' = [pc |-> "routes", cfg |-> pass.cfg, rows |-> pass.rows]
  /\ UNCHANGED <<exposed, caddy, ufw, userPorts, request, seen, exposureEdits>>

\* SyncAppRoutes replaces every route, the redirect first; if Caddy refuses,
\* Reconcile returns its error and marks nothing.
SyncAppRoutes ==
  /\ pass.pc = "routes"
  /\ \/ /\ caddy' = [caddy EXCEPT !.routes = AppRoutes(pass.cfg, pass.rows),
                                  !.redirect = TLSDomains(pass.cfg, pass.rows)]
        /\ pass' = [pass EXCEPT !.pc = "tls"]
        /\ UNCHANGED exposureFaults
     \/ /\ Fault
        /\ pass' = Idle
        /\ UNCHANGED caddy
  /\ UNCHANGED <<exposed, exposureCfg, ufw, userPorts, request, seen,
                 exposureEdits, fwFaulty>>

Pending(row) == row # NoRow /\ row.applied < row.desired

\* SyncTLS is best effort too.
SyncTLS ==
  /\ pass.pc = "tls"
  /\ \/ caddy' = [caddy EXCEPT !.automate = TLSDomains(pass.cfg, pass.rows)]
        /\ UNCHANGED exposureFaults
     \/ Fault /\ UNCHANGED caddy
  /\ pass' = [pc |-> "mark",
              todo |-> {[app |-> a, id |-> pass.rows[a].id] :
                          a \in {x \in ExposedApps : Pending(pass.rows[x])}}]
  /\ UNCHANGED <<exposed, exposureCfg, ufw, userPorts, request, seen,
                 exposureEdits, fwFaulty>>

\* applied_generation = desired_generation: of the row as it is now.
MarkRow(row) == [row EXCEPT !.applied = row.desired]

\* MarkExposedAppApplied for one app that was pending when it was listed; a
\* row deleted since, or a failing transaction, is skipped.
MarkExposedAppApplied ==
  /\ pass.pc = "mark"
  /\ \E m \in pass.todo :
       /\ pass' = [pass EXCEPT !.todo = @ \ {m}]
       /\ \/ /\ exposed' = IF exposed[m.app] # NoRow /\ exposed[m.app].id = m.id
                             THEN [exposed EXCEPT ![m.app] = MarkRow(@)] ELSE exposed
             /\ UNCHANGED exposureFaults
          \/ Fault /\ UNCHANGED exposed
  /\ UNCHANGED <<exposureCfg, caddy, ufw, userPorts, request, seen, exposureEdits,
                 fwFaulty>>

EndOfPass ==
  /\ pass.pc = "mark" /\ pass.todo = {}
  /\ pass' = Idle
  /\ UNCHANGED <<RestOfPass, exposureFaults, fwFaulty>>

---------------------------------------------------------------------------
(* The environment. *)

\* Caddy restarts on its base configuration, without the routes of the apps.
CaddyRestarts ==
  /\ Fault
  /\ caddy' = [caddy EXCEPT !.routes = [a \in ExposedApps |-> NoRoute],
                            !.redirect = {}, !.automate = {}]
  /\ UNCHANGED <<exposed, exposureCfg, ufw, userPorts, pass, request, seen,
                 exposureEdits, fwFaulty>>

\* The user switches ufw on or off, which keeps its rules.
SwitchUfw ==
  /\ Fault
  /\ ufw' = [ufw EXCEPT !.active = ~@]
  /\ fwFaulty' = TRUE
  /\ UNCHANGED <<exposed, exposureCfg, caddy, userPorts, pass, request, seen,
                 exposureEdits>>

\* The user opens a port in ufw for something of his own.
UserAllows(p) ==
  /\ Fault
  /\ p \notin ufw.allowed
  /\ ufw' = [ufw EXCEPT !.allowed = @ \cup {p}]
  /\ userPorts' = userPorts \cup {p}
  /\ UNCHANGED <<exposed, exposureCfg, caddy, pass, request, seen, exposureEdits,
                 fwFaulty>>

\* The daemon dies: the pass and the requests in flight go with it.
ExposureCrash ==
  /\ Fault
  /\ pass # Idle \/ \E c \in ExposureAdmins : request[c] # NoRequest
  /\ pass' = Idle
  /\ request' = [c \in ExposureAdmins |-> NoRequest]
  /\ seen' = [c \in ExposureAdmins |-> NoSnapshot]
  /\ fwFaulty' = (fwFaulty \/ pass.pc = "save")
  /\ UNCHANGED <<exposed, exposureCfg, caddy, ufw, userPorts, exposureEdits>>

Reconcile ==
  \/ GetExposureConfig \/ ListExposedApps \/ SyncListen \/ EnsurePorts
  \/ UpdateFWManagedPorts \/ SyncAppRoutes \/ SyncTLS \/ MarkExposedAppApplied
  \/ EndOfPass

FinishRequest(c) == FinishUpdateExposed(c) \/ FinishPutConfig(c)

ExposureNext ==
  \/ \E c \in ExposureAdmins :
       \/ \E a \in ExposedApps : ReadExposed(c, a)
       \/ \E a \in ExposedApps, r \in Routes : CreateExposed(c, a, r)
       \/ \E new \in Changes : BeginUpdateExposed(c, new)
       \/ DeleteExposed(c)
       \/ BeginPutConfig(c)
       \/ FinishRequest(c)
  \/ TokenChanges
  \/ Reconcile
  \/ CaddyRestarts \/ SwitchUfw \/ ExposureCrash
  \/ \E p \in FwPorts : UserAllows(p)

(* The scheduler calls Reconcile every 30 s for as long as the daemon runs, *)
(* and a request that has begun runs to its end.                            *)
ExposureFairness ==
  /\ WF_exposureVars(Reconcile)
  /\ \A c \in ExposureAdmins : WF_exposureVars(FinishRequest(c))

ExposureSpec == ExposureInit /\ [][ExposureNext]_exposureVars /\ ExposureFairness

---------------------------------------------------------------------------

(* Caddy serves exactly what is declared, ports, routes, redirect and      *)
(* certificates, every row is marked applied and the firewall lets the port *)
(* through (what the passes bring about: CaddyConverges).                  *)
DeclaredIsServed ==
  /\ caddy = [listen |-> exposureCfg.port,
              routes |-> AppRoutes(exposureCfg, exposed),
              redirect |-> TLSDomains(exposureCfg, exposed),
              automate |-> TLSDomains(exposureCfg, exposed)]
  /\ \A a \in ExposedApps : ~Pending(exposed[a])
  /\ ufw.active => Wanted(exposureCfg) \subseteq ufw.allowed

(* While no ufw command and no save of its result fails, every open port   *)
(* that the user did not open is on the list of managed ports (between     *)
(* passes), so that the next change of port closes it: no PUT of the       *)
(* settings, read before the pass and saved after it, loses the list.      *)
NoPortForgotten ==
  (~fwFaulty /\ pass.pc # "save") =>
     ufw.allowed \subseteq userPorts \cup exposureCfg.managed

(* Port 22 stays open through any change of ports, also when it was itself *)
(* an exposure port for a while (the guard rail of EnsurePorts).           *)
SshStaysOpen == SshPort \in ufw.allowed

(* Both together: what the exposure does to the firewall.                  *)
FirewallKeepsItsWord == NoPortForgotten /\ SshStaysOpen

=============================================================================
