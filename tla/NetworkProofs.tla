---------------------------- MODULE NetworkProofs ---------------------------
(* Theorems about the exposure of apps, the event log and Dynamic DNS.         *)
EXTENDS NetworkExposure, NetworkEvents, NetworkDdns, TLAPS

-----------------------------------------------------------------------------
(* What the exposure does to the firewall, for any apps, administrators,   *)
(* ports and number of edits and faults.  The list of managed ports is     *)
(* written by the reconciler alone (SaveExposureConfig leaves it), so that *)
(* what a pass read is still what the table has when it has worked out     *)
(* what to open and close (FreshList).  Between the commands of ufw and    *)
(* the save of their result, the pass itself holds the list.               *)

\* The records have their fields (their values do not matter here).
CfgShape(c) == c = [on |-> c.on, domain |-> c.domain, token |-> c.token,
                    managed |-> c.managed, port |-> c.port]
UfwShape == ufw = [active |-> ufw.active, allowed |-> ufw.allowed]
PassShape ==
  pass.pc \in {"listen", "firewall", "routes", "tls"} =>
    pass = [pc |-> pass.pc, cfg |-> pass.cfg, rows |-> pass.rows]
RequestShape ==
  /\ request = [c \in ExposureAdmins |-> request[c]]
  /\ \A c \in ExposureAdmins : request[c].kind = "config" => CfgShape(request[c].new)

Shapes == CfgShape(exposureCfg) /\ UfwShape /\ PassShape /\ RequestShape

\* What the pass works from is the list that the table still has.
FreshList ==
  pass.pc \in {"list", "listen", "firewall"} => pass.cfg.managed = exposureCfg.managed

\* The list as the pass would have it, or the table.
Managed == IF pass.pc = "save" THEN pass.managed ELSE exposureCfg.managed

NoneForgotten ==
  ~fwFaulty => ufw.active /\ ufw.allowed \subseteq userPorts \cup Managed

FirewallInv ==
  Shapes /\ FreshList /\ NoneForgotten /\ SshPort \in userPorts /\ SshStaysOpen

-------------------------------------------------------------------------------
LEMMA InitInv == ExposureInit => FirewallInv
<1> SUFFICES ASSUME ExposureInit PROVE FirewallInv
  OBVIOUS
<1>1. PICK on \in BOOLEAN :
        exposureCfg = [on |-> on, domain |-> on, token |-> on, managed |-> {},
                       port |-> CHOOSE p \in FwPorts \ {SshPort} : TRUE]
  BY DEF ExposureInit
<1>2. CfgShape(exposureCfg)
  BY <1>1 DEF CfgShape
<1>3. ufw = [active |-> TRUE, allowed |-> {SshPort}] /\ userPorts = {SshPort} /\ pass = Idle
  BY DEF ExposureInit
<1>4. RequestShape
  BY DEF ExposureInit, RequestShape, NoRequest
<1>5. UfwShape /\ PassShape /\ FreshList
  BY <1>3 DEF UfwShape, PassShape, FreshList, Idle
<1>6. NoneForgotten /\ SshStaysOpen
  BY <1>3 DEF NoneForgotten, SshStaysOpen
<1> QED BY <1>2, <1>3, <1>4, <1>5, <1>6 DEF FirewallInv, Shapes

\* A step that leaves the firewall and the pass, and of the settings the list.
LEMMA AsideInv ==
  ASSUME FirewallInv, UNCHANGED <<ufw, userPorts, pass, fwFaulty>>,
         CfgShape(exposureCfg)', exposureCfg'.managed = exposureCfg.managed, RequestShape'
  PROVE  FirewallInv'
BY DEF FirewallInv, Shapes, UfwShape, PassShape, FreshList, NoneForgotten, Managed, SshStaysOpen

\* The administrators, and Caddy's restarts.
LEMMA AdminsInv ==
  ASSUME FirewallInv, NEW c \in ExposureAdmins,
         \/ \E a \in ExposedApps : ReadExposed(c, a)
         \/ \E a \in ExposedApps, r \in Routes : CreateExposed(c, a, r)
         \/ \E new \in Changes : BeginUpdateExposed(c, new)
         \/ DeleteExposed(c) \/ BeginPutConfig(c) \/ FinishRequest(c)
  PROVE  FirewallInv'
<1> USE DEF FirewallInv, Shapes
<1>1. UNCHANGED <<ufw, userPorts, pass, fwFaulty>>
  BY DEF ReadExposed, CreateExposed, BeginUpdateExposed, DeleteExposed, BeginPutConfig,
         FinishRequest, FinishUpdateExposed, FinishPutConfig
<1>2. CASE (\E a \in ExposedApps : ReadExposed(c, a))
           \/ (\E a \in ExposedApps, r \in Routes : CreateExposed(c, a, r)) \/ DeleteExposed(c)
  <2>1. UNCHANGED <<exposureCfg, request>>
    BY <1>2 DEF ReadExposed, CreateExposed, DeleteExposed
  <2> QED BY <1>1, <2>1, AsideInv DEF RequestShape, CfgShape
<1>3. CASE \E new \in Changes : BeginUpdateExposed(c, new)
  <2>1. PICK q : /\ request' = [request EXCEPT ![c] = q] /\ q.kind = "update"
                 /\ exposureCfg' = exposureCfg
    BY <1>3 DEF BeginUpdateExposed
  <2> QED BY <1>1, <2>1, AsideInv DEF RequestShape, CfgShape
<1>4. CASE BeginPutConfig(c)
  <2>1. PICK new : /\ request' = [request EXCEPT ![c] = [kind |-> "config", new |-> new]]
                   /\ \/ \E b \in BOOLEAN : new = [exposureCfg EXCEPT !.on = b]
                      \/ \E b \in BOOLEAN : new = [exposureCfg EXCEPT !.domain = b]
                      \/ new = [exposureCfg EXCEPT !.on = TRUE, !.domain = TRUE]
                      \/ \E p \in FwPorts : new = [exposureCfg EXCEPT !.port = p]
    BY <1>4 DEF BeginPutConfig
  <2>2. CfgShape(new)
    BY <2>1 DEF CfgShape
  <2>3. exposureCfg' = exposureCfg
    BY <1>4 DEF BeginPutConfig
  <2> QED BY <1>1, <2>1, <2>2, <2>3, AsideInv DEF RequestShape, CfgShape
<1>5. CASE FinishUpdateExposed(c)
  <2>1. request' = [request EXCEPT ![c] = NoRequest] /\ exposureCfg' = exposureCfg
    BY <1>5 DEF FinishUpdateExposed
  <2> QED BY <1>1, <2>1, AsideInv DEF RequestShape, CfgShape, NoRequest
<1>6. CASE FinishPutConfig(c)
  <2> DEFINE new == request[c].new
  <2>1. CfgShape(new) /\ CfgShape(exposureCfg)
    BY <1>6 DEF FinishPutConfig, RequestShape
  <2>2. request' = [request EXCEPT ![c] = NoRequest]
        /\ exposureCfg' = SaveExposureConfig(exposureCfg, new)
    BY <1>6 DEF FinishPutConfig
  <2> HIDE DEF new
  <2>3. CfgShape(SaveExposureConfig(exposureCfg, new))
        /\ SaveExposureConfig(exposureCfg, new).managed = exposureCfg.managed
    BY <2>1 DEF SaveExposureConfig, CfgShape
  <2> QED BY <1>1, <2>2, <2>3, AsideInv DEF RequestShape, CfgShape, NoRequest
<1> QED BY <1>2, <1>3, <1>4, <1>5, <1>6 DEF FinishRequest

\* What happens outside: the user's own ports stay the user's.
LEMMA OutsideInv ==
  ASSUME FirewallInv,
         TokenChanges \/ CaddyRestarts \/ SwitchUfw \/ ExposureCrash
           \/ (\E p \in FwPorts : UserAllows(p))
  PROVE  FirewallInv'
<1> USE DEF FirewallInv, Shapes
<1>1. CASE TokenChanges
  <2>1. CfgShape(exposureCfg') /\ exposureCfg'.managed = exposureCfg.managed
    BY <1>1 DEF TokenChanges, CfgShape
  <2> QED BY <1>1, <2>1, AsideInv DEF TokenChanges, RequestShape
<1>2. CASE CaddyRestarts
  BY <1>2, AsideInv DEF CaddyRestarts, RequestShape
<1>3. CASE SwitchUfw
  <2>1. /\ ufw' = [ufw EXCEPT !.active = ~@] /\ fwFaulty' = TRUE
        /\ UNCHANGED <<exposureCfg, userPorts, pass, request>>
    BY <1>3 DEF SwitchUfw
  <2>2. UfwShape' /\ ufw'.allowed = ufw.allowed
    BY <2>1 DEF UfwShape
  <2> QED BY <2>1, <2>2 DEF PassShape, RequestShape, FreshList, NoneForgotten, SshStaysOpen, CfgShape
<1>4. CASE ExposureCrash
  <2>1. /\ pass' = Idle /\ request' = [c \in ExposureAdmins |-> NoRequest]
        /\ fwFaulty' = (fwFaulty \/ pass.pc = "save")
        /\ UNCHANGED <<exposureCfg, ufw, userPorts>>
    BY <1>4 DEF ExposureCrash
  <2>2. RequestShape' /\ PassShape' /\ FreshList' /\ UfwShape'
    BY <2>1 DEF RequestShape, NoRequest, PassShape, FreshList, Idle, UfwShape
  <2>3. NoneForgotten'
    BY <2>1 DEF NoneForgotten, Managed, Idle
  <2> QED BY <2>1, <2>2, <2>3 DEF SshStaysOpen, CfgShape
<1>5. CASE \E p \in FwPorts : UserAllows(p)
  <2>1. PICK p \in FwPorts : /\ ufw' = [ufw EXCEPT !.allowed = @ \cup {p}]
                             /\ userPorts' = userPorts \cup {p}
                             /\ UNCHANGED <<exposureCfg, pass, request, fwFaulty>>
    BY <1>5 DEF UserAllows
  <2>2. UfwShape' /\ ufw'.active = ufw.active /\ ufw'.allowed = ufw.allowed \cup {p}
    BY <2>1 DEF UfwShape
  <2>3. NoneForgotten'
    BY <2>1, <2>2 DEF NoneForgotten, Managed
  <2> QED BY <2>1, <2>2, <2>3 DEF PassShape, RequestShape, FreshList, SshStaysOpen, CfgShape
<1> QED BY <1>1, <1>2, <1>3, <1>4, <1>5

\* EnsurePorts: the ports that stay open are the user's, the wanted one and SSH.
LEMMA EnsureInv ==
  ASSUME FirewallInv, EnsurePorts
  PROVE  FirewallInv'
<1> USE DEF FirewallInv, Shapes
<1>1. /\ pass = [pc |-> "firewall", cfg |-> pass.cfg, rows |-> pass.rows]
      /\ pass.cfg.managed = exposureCfg.managed
      /\ UNCHANGED <<exposureCfg, userPorts, request>>
  BY DEF EnsurePorts, PassShape, FreshList
<1>2. CfgShape(exposureCfg)' /\ RequestShape'
  BY <1>1 DEF CfgShape, RequestShape
<1> DEFINE wanted == Wanted(pass.cfg)
           gone == ToClose(pass.cfg)
<1>3. SshPort \notin gone /\ pass.cfg.managed \subseteq wanted \cup gone \cup {SshPort}
  BY DEF ToClose
<1>4. \A managed : AfterEnsure(managed) \in
        {[pc |-> "routes", cfg |-> pass.cfg, rows |-> pass.rows],
         [pc |-> "save", cfg |-> pass.cfg, rows |-> pass.rows, managed |-> managed]}
        /\ (AfterEnsure(managed).pc = "routes" => managed = exposureCfg.managed)
  <2> TAKE managed
  <2>1. CASE managed = pass.cfg.managed
    BY <1>1, <2>1 DEF AfterEnsure
  <2>2. CASE managed # pass.cfg.managed
    BY <1>1, <2>2 DEF AfterEnsure
  <2> QED BY <2>1, <2>2
<1>5. CASE ~ufw.active /\ pass' = AfterEnsure({}) /\ UNCHANGED <<ufw, fwFaulty>>
  <2>1. PassShape' /\ FreshList'
    BY <1>4, <1>5 DEF PassShape, FreshList
  <2>2. fwFaulty
    BY <1>5 DEF NoneForgotten
  <2>3. UfwShape' /\ NoneForgotten' /\ SshStaysOpen'
    BY <1>5, <2>2 DEF UfwShape, NoneForgotten, SshStaysOpen
  <2> QED BY <1>1, <1>2, <2>1, <2>3
<1>6. CASE /\ ufw' = [ufw EXCEPT !.allowed = (@ \cup wanted) \ gone]
           /\ pass' = AfterEnsure(wanted) /\ fwFaulty' = fwFaulty
  <2>1. PassShape' /\ FreshList'
    BY <1>4, <1>6 DEF PassShape, FreshList
  <2>2. UfwShape' /\ ufw'.active = ufw.active /\ ufw'.allowed = (ufw.allowed \cup wanted) \ gone
    BY <1>6 DEF UfwShape
  <2>3. Managed' = wanted
    BY <1>1, <1>4, <1>6 DEF Managed
  <2>4. NoneForgotten'
    <3>1. ~fwFaulty => ufw.active /\ ufw.allowed \subseteq userPorts \cup exposureCfg.managed
      BY <1>1 DEF NoneForgotten, Managed
    <3> HIDE DEF wanted, gone
    <3> QED BY <1>1, <1>3, <1>6, <2>2, <2>3, <3>1 DEF NoneForgotten
  <2>5. SshStaysOpen'
    BY <1>3, <2>2 DEF SshStaysOpen
  <2> QED BY <1>1, <1>2, <2>1, <2>2, <2>4, <2>5
<1>7. CASE /\ ufw' = ufw \/ \E closed \in SUBSET gone :
                              ufw' = [ufw EXCEPT !.allowed = (@ \cup wanted) \ closed]
           /\ pass' = [pass EXCEPT !.pc = "routes"] /\ fwFaulty' = TRUE
  <2>1. pass' = [pc |-> "routes", cfg |-> pass.cfg, rows |-> pass.rows]
    BY <1>1, <1>7
  <2>2. PassShape' /\ FreshList' /\ NoneForgotten'
    BY <1>7, <2>1 DEF PassShape, FreshList, NoneForgotten
  <2>3. UfwShape' /\ SshStaysOpen'
    <3>1. CASE ufw' = ufw
      BY <3>1 DEF UfwShape, SshStaysOpen
    <3>2. CASE \E closed \in SUBSET gone : ufw' = [ufw EXCEPT !.allowed = (@ \cup wanted) \ closed]
      <4>1. PICK closed \in SUBSET gone : ufw' = [ufw EXCEPT !.allowed = (@ \cup wanted) \ closed]
        BY <3>2
      <4>2. UfwShape' /\ ufw'.allowed = (ufw.allowed \cup wanted) \ closed
        BY <4>1 DEF UfwShape
      <4>3. SshPort \notin closed
        BY <1>3, <4>1
      <4> QED BY <4>2, <4>3 DEF SshStaysOpen
    <3> QED BY <1>7, <3>1, <3>2
  <2> QED BY <1>1, <1>2, <2>2, <2>3
<1> QED BY <1>5, <1>6, <1>7 DEF EnsurePorts

\* The other steps of a pass.
LEMMA PassInv ==
  ASSUME FirewallInv,
         GetExposureConfig \/ ListExposedApps \/ SyncListen \/ UpdateFWManagedPorts
           \/ SyncAppRoutes \/ SyncTLS \/ MarkExposedAppApplied \/ EndOfPass
  PROVE  FirewallInv'
<1> USE DEF FirewallInv, Shapes
<1>1. UNCHANGED <<ufw, userPorts, request>>
  BY DEF GetExposureConfig, ListExposedApps, SyncListen, UpdateFWManagedPorts, SyncAppRoutes,
         SyncTLS, MarkExposedAppApplied, EndOfPass, RestOfPass
<1>2. UfwShape' /\ RequestShape' /\ SshStaysOpen' /\ SshPort \in userPorts'
  BY <1>1 DEF UfwShape, RequestShape, SshStaysOpen
<1>3. CASE UpdateFWManagedPorts
  <2>1. /\ pass.pc = "save" /\ pass' = [pc |-> "routes", cfg |-> pass.cfg, rows |-> pass.rows]
        /\ \/ exposureCfg' = [exposureCfg EXCEPT !.managed = pass.managed] /\ fwFaulty' = fwFaulty
           \/ exposureCfg' = exposureCfg /\ fwFaulty' = TRUE
    BY <1>3 DEF UpdateFWManagedPorts
  <2>2. PassShape' /\ FreshList'
    BY <2>1 DEF PassShape, FreshList
  <2>3. CfgShape(exposureCfg') /\ (fwFaulty' \/ exposureCfg'.managed = pass.managed)
    BY <2>1 DEF CfgShape
  <2>4. Managed' = exposureCfg'.managed
    BY <2>1 DEF Managed
  <2>5. NoneForgotten'
    BY <1>1, <2>1, <2>3, <2>4 DEF NoneForgotten, Managed
  <2> QED BY <1>2, <2>2, <2>3, <2>5
<1>4. CASE GetExposureConfig \/ ListExposedApps \/ SyncListen
           \/ SyncAppRoutes \/ SyncTLS \/ MarkExposedAppApplied \/ EndOfPass
  <2>1. exposureCfg' = exposureCfg /\ fwFaulty' = fwFaulty
    BY <1>4 DEF GetExposureConfig, ListExposedApps, SyncListen, SyncAppRoutes, SyncTLS,
                MarkExposedAppApplied, EndOfPass, RestOfPass
  <2>2. /\ pass.pc # "save" /\ pass'.pc # "save" /\ PassShape' /\ FreshList'
    <3>1. CASE GetExposureConfig
      BY <3>1 DEF GetExposureConfig, RestOfPass, PassShape, FreshList
    <3>2. CASE ListExposedApps
      BY <3>2 DEF ListExposedApps, RestOfPass, PassShape, FreshList
    <3>3. CASE SyncListen
      <4>1. pass = [pc |-> "listen", cfg |-> pass.cfg, rows |-> pass.rows]
            /\ pass.cfg.managed = exposureCfg.managed /\ pass' = [pass EXCEPT !.pc = "firewall"]
        BY <3>3 DEF SyncListen, PassShape, FreshList
      <4>2. pass' = [pc |-> "firewall", cfg |-> pass.cfg, rows |-> pass.rows]
        BY <4>1
      <4> QED BY <2>1, <4>1, <4>2 DEF PassShape, FreshList
    <3>4. CASE SyncAppRoutes
      <4>1. pass = [pc |-> "routes", cfg |-> pass.cfg, rows |-> pass.rows]
            /\ pass' \in {Idle, [pass EXCEPT !.pc = "tls"]}
        BY <3>4 DEF SyncAppRoutes, PassShape
      <4>2. pass' = Idle \/ pass' = [pc |-> "tls", cfg |-> pass.cfg, rows |-> pass.rows]
        BY <4>1
      <4> QED BY <4>1, <4>2 DEF PassShape, FreshList, Idle
    <3>5. CASE SyncTLS
      BY <3>5 DEF SyncTLS, PassShape, FreshList
    <3>6. CASE MarkExposedAppApplied
      <4>1. pass.pc = "mark" /\ \E m \in pass.todo : pass' = [pass EXCEPT !.todo = @ \ {m}]
        BY <3>6 DEF MarkExposedAppApplied
      <4>2. pass'.pc = "mark"
        BY <4>1
      <4> QED BY <4>1, <4>2 DEF PassShape, FreshList
    <3>7. CASE EndOfPass
      BY <3>7 DEF EndOfPass, PassShape, FreshList, Idle
    <3> QED BY <1>4, <3>1, <3>2, <3>3, <3>4, <3>5, <3>6, <3>7
  <2>3. NoneForgotten'
    BY <1>1, <2>1, <2>2 DEF NoneForgotten, Managed
  <2>4. CfgShape(exposureCfg')
    BY <2>1
  <2> QED BY <1>2, <2>2, <2>3, <2>4
<1> QED BY <1>3, <1>4

LEMMA NextInv == ASSUME FirewallInv, [ExposureNext]_exposureVars PROVE FirewallInv'
<1>1. ASSUME NEW c \in ExposureAdmins,
             \/ \E a \in ExposedApps : ReadExposed(c, a)
             \/ \E a \in ExposedApps, r \in Routes : CreateExposed(c, a, r)
             \/ \E new \in Changes : BeginUpdateExposed(c, new)
             \/ DeleteExposed(c) \/ BeginPutConfig(c) \/ FinishRequest(c)
      PROVE  FirewallInv'
  BY <1>1, AdminsInv
<1>2. CASE TokenChanges \/ CaddyRestarts \/ SwitchUfw \/ ExposureCrash
           \/ (\E p \in FwPorts : UserAllows(p))
  BY <1>2, OutsideInv
<1>3. CASE Reconcile
  BY <1>3, EnsureInv, PassInv DEF Reconcile
<1>4. CASE UNCHANGED exposureVars
  BY <1>4 DEF exposureVars, FirewallInv, Shapes, CfgShape, UfwShape, PassShape, RequestShape,
              FreshList, NoneForgotten, Managed, SshStaysOpen
<1> QED BY <1>1, <1>2, <1>3, <1>4 DEF ExposureNext

\* EnsurePorts and the save of its result against edits of the settings and the user's
\* own rules: no port that NimOS opened is forgotten while nothing fails, and SSH
\* stays open whatever fails.
THEOREM FirewallIsKept == ExposureSpec => []FirewallKeepsItsWord
<1>1. FirewallInv => FirewallKeepsItsWord
  BY DEF FirewallInv, NoneForgotten, Managed, FirewallKeepsItsWord, NoPortForgotten
<1> QED BY InitInv, NextInv, <1>1, PTL DEF ExposureSpec
-----------------------------------------------------------------------------
(* Theorems about NetworkEvents, for every set of keys and emitters.          *)

Emitting == Emitters \cup {Runner}
Writing(e) == emits[e].pc = "write"

\* The rows of the event log, and the operations they may name.
EventTypes ==
  /\ now \in Nat /\ workLeft \in 0 .. MaxWork
  /\ events \subseteq [id : 1 .. MaxWork, key : Keys, op : 0 .. MaxWork, at : Nat, fresh : BOOLEAN]
  /\ operations \subseteq [id : 1 .. MaxWork, done : Nat]
  /\ emits = [e \in Emitting |-> emits[e]]
  /\ \A e \in Emitting : Writing(e) => emits[e].key \in Keys /\ emits[e].op \in 0 .. MaxWork

\* A number is given to one event: to a row or to an emit in flight.
NumbersDistinct ==
  /\ \A r \in events : r.id > workLeft
  /\ \A r, s \in events : r.id = s.id => r = s
  /\ \A e \in Emitting : Writing(e) =>
       /\ emits[e].id \in workLeft + 1 .. MaxWork
       /\ \A r \in events : r.id # emits[e].id
  /\ \A e, f \in Emitting : Writing(e) /\ Writing(f) /\ emits[e].id = emits[f].id => e = f

\* What the lookup of an emit found is still so as long as nothing has been
\* committed since.
LookupHolds ==
  \A e \in Emitting \ stale : Writing(e) =>
    IF emits[e].hit = NoHit THEN Hits(emits[e].key) = {}
    ELSE \E r \in Hits(emits[e].key) : r.id = emits[e].hit

EventsInv == EventTypes /\ NumbersDistinct /\ LookupHolds /\ NoDoubleRows

\* The log of a fresh installation is empty.
LEMMA InitEventsInv == EventsInit => EventsInv
BY EventsAssumption
   DEF EventsInit, EventsInv, EventTypes, NumbersDistinct, LookupHolds, NoDoubleRows, Emitting,
       Writing, EmitIdle

\* A lookup returns the number of a row of the key that was just seen, if there
\* is one.
LEMMA HitFound ==
  ASSUME EventTypes, NEW key
  PROVE  IF Hits(key) = {} THEN Hit(key) = NoHit
         ELSE Hit(key) # NoHit /\ \E r \in Hits(key) : r.id = Hit(key)
<1>1. CASE Hits(key) # {}
  <2>1. PICK r \in Hits(key) : r.id \in 1 .. MaxWork
    BY <1>1 DEF EventTypes, Hits
  <2>2. Hit(key) = CHOOSE i \in 1 .. MaxWork : \E s \in Hits(key) : s.id = i
    BY <1>1 DEF Hit
  <2>3. Hit(key) \in 1 .. MaxWork /\ \E s \in Hits(key) : s.id = Hit(key)
    BY <2>1, <2>2
  <2> QED
    BY <1>1, <2>3 DEF NoHit
<1> QED
  BY <1>1 DEF Hit

\* Rows that go, and a commit that outdates what is in flight.
LEMMA RowsGo ==
  ASSUME EventsInv, events' \subseteq events, UNCHANGED <<now, emits, workLeft>>,
         operations' \subseteq [id : 1 .. MaxWork, done : Nat],
         Committed \/ (events' = events /\ stale' = stale)
  PROVE  EventsInv'
<1>1. EventTypes' /\ NumbersDistinct' /\ NoDoubleRows'
  BY DEF EventsInv, EventTypes, NumbersDistinct, NoDoubleRows, Writing
<1>2. CASE Committed
  BY <1>1, <1>2 DEF EventsInv, LookupHolds, Committed, Writing, Emitting
<1>3. CASE events' = events /\ stale' = stale
  BY <1>1, <1>3 DEF EventsInv, LookupHolds, Writing, Hits
<1> QED
  BY <1>2, <1>3

\* An emit gets a number of its own and sees the rows as they are.
LEMMA BeginKeeps ==
  ASSUME EventsInv, NEW e \in Emitting, NEW key \in Keys, NEW op \in 0 .. MaxWork,
         BeginEmit(e, key, op), UNCHANGED <<now, events, operations>>
  PROVE  EventsInv'
<1>1. workLeft \in 1 .. MaxWork /\ workLeft' = workLeft - 1 /\ ~Writing(e) /\ MaxWork \in Nat
  BY EventsAssumption DEF BeginEmit, EventsInv, EventTypes, Writing
<1>2. CASE UNCHANGED <<emits, bucket, stale>>
  BY <1>1, <1>2
     DEF EventsInv, EventTypes, NumbersDistinct, LookupHolds, NoDoubleRows, Writing, Hits
<1>3. CASE ~UNCHANGED <<emits, bucket, stale>>
  <2> DEFINE m == [pc |-> "write", id |-> workLeft, key |-> key, op |-> op, hit |-> Hit(key)]
  <2>1. /\ stale' = stale \ {e}
        /\ \A f \in Emitting : emits'[f] = IF f = e THEN m ELSE emits[f]
        /\ emits' = [f \in Emitting |-> emits'[f]]
    BY <1>3 DEF BeginEmit, EventsInv, EventTypes
  <2>2. \A f \in Emitting : Writing(f)' <=> (f = e \/ Writing(f))
    BY <2>1 DEF Writing
  <2>3. EventTypes'
    BY <1>1, <2>1, <2>2 DEF EventsInv, EventTypes
  <2>4. NumbersDistinct'
    BY <1>1, <2>1, <2>2 DEF EventsInv, EventTypes, NumbersDistinct
  <2>5. LookupHolds'
    <3> SUFFICES ASSUME NEW f \in Emitting \ stale', Writing(f)'
                 PROVE  IF emits'[f].hit = NoHit THEN Hits(emits'[f].key) = {}
                        ELSE \E r \in Hits(emits'[f].key) : r.id = emits'[f].hit
      BY DEF LookupHolds, Hits
    <3>1. CASE f = e
      BY <2>1, <3>1, HitFound DEF EventsInv
    <3>2. CASE f # e
      BY <2>1, <2>2, <3>2 DEF EventsInv, LookupHolds
    <3> QED
      BY <3>1, <3>2
  <2> QED
    BY <2>3, <2>4, <2>5 DEF EventsInv, NoDoubleRows
<1> QED
  BY <1>2, <1>3

\* An emit whose view is current adds a row only when none was just seen, and
\* otherwise counts the one that was.
LEMMA WriteKeeps ==
  ASSUME EventsInv, NEW e \in Emitting, WriteEvent(e)
  PROVE  EventsInv'
<1>1. /\ Writing(e) /\ UNCHANGED <<now, operations, workLeft>>
      /\ \A f \in Emitting : emits'[f] = IF f = e THEN EmitIdle ELSE emits[f]
      /\ emits' = [f \in Emitting |-> emits'[f]]
  BY DEF WriteEvent, EventsInv, EventTypes, Writing
<1>2. \A f \in Emitting : Writing(f)' <=> (f # e /\ Writing(f))
  BY <1>1 DEF Writing, EmitIdle
<1>3. CASE UNCHANGED events /\ stale' = stale \ {e}
  BY <1>1, <1>2, <1>3
     DEF EventsInv, EventTypes, NumbersDistinct, LookupHolds, NoDoubleRows, Hits
<1>4. CASE /\ e \notin stale /\ events' = Upsert(emits[e])
           /\ stale' = {x \in Emitting : emits'[x].pc = "write"}
  <2>1. LookupHolds'
    BY <1>4 DEF LookupHolds, Writing
  <2>2. CASE emits[e].hit = NoHit
    <3> DEFINE row == NewRow(emits[e])
    <3>1. /\ events' = events \cup {row} /\ row.id = emits[e].id /\ row.key = emits[e].key
          /\ Hits(row.key) = {}
      BY <1>1, <1>4, <2>2 DEF Upsert, NewRow, EventsInv, LookupHolds
    <3>2. row \in [id : 1 .. MaxWork, key : Keys, op : 0 .. MaxWork, at : Nat, fresh : BOOLEAN]
      BY <1>1 DEF NewRow, EventsInv, EventTypes, NumbersDistinct
    <3>3. EventTypes'
      BY <1>1, <1>2, <3>1, <3>2 DEF EventsInv, EventTypes
    <3>4. NumbersDistinct'
      <4> HIDE DEF row
      <4>1. /\ \A r \in events : r.id # row.id
            /\ row.id > workLeft
            /\ \A f \in Emitting : Writing(f) /\ f # e => emits[f].id # row.id
        BY <1>1, <3>1 DEF EventsInv, EventTypes, NumbersDistinct
      <4> QED
        BY <1>1, <1>2, <3>1, <4>1 DEF EventsInv, NumbersDistinct
    <3>5. NoDoubleRows'
      <4> HIDE DEF row
      <4> QED
        BY <3>1 DEF EventsInv, NoDoubleRows, Hits
    <3> QED
      BY <2>1, <3>3, <3>4, <3>5 DEF EventsInv
  <2>3. CASE emits[e].hit # NoHit
    <3>1. PICK r \in events : r.fresh /\ r.id = emits[e].hit
      BY <1>1, <1>4, <2>3 DEF EventsInv, LookupHolds, Hits
    <3>2. \A s \in events : s.id = emits[e].hit => [s EXCEPT !.fresh = TRUE] = s
      BY <3>1 DEF EventsInv, EventTypes, NumbersDistinct
    <3>3. events' = events
      BY <1>4, <2>3, <3>2 DEF Upsert
    <3> QED
      BY <1>1, <1>2, <2>1, <3>3 DEF EventsInv, EventTypes, NumbersDistinct, NoDoubleRows
  <2> QED
    BY <2>2, <2>3
<1> QED
  BY <1>3, <1>4 DEF WriteEvent, Emitting

\* Every step keeps it.
LEMMA NextEventsInv == EventsInv /\ [EventsNext]_eventVars => EventsInv'
<1> SUFFICES ASSUME EventsInv, [EventsNext]_eventVars PROVE EventsInv'
  OBVIOUS
<1>0. EventTypes /\ MaxWork \in Nat
  BY EventsAssumption DEF EventsInv
<1>1. CASE CreateOperation \/ PersistSnapshot
  <2>1. workLeft > 0 /\ workLeft' = workLeft - 1 /\ UNCHANGED <<now, events, emits>>
    BY <1>1 DEF CreateOperation, PersistSnapshot
  <2>2. operations' \subseteq [id : 1 .. MaxWork, done : Nat]
    BY <1>0, <1>1, <2>1 DEF CreateOperation, PersistSnapshot, EventTypes
  <2>3. LookupHolds'
    BY <1>1, <2>1 DEF CreateOperation, PersistSnapshot, LookupHolds, Committed, Writing, Emitting
  <2> QED
    BY <1>0, <2>1, <2>2, <2>3 DEF EventsInv, EventTypes, NumbersDistinct, NoDoubleRows, Writing
<1>2. CASE UpdateOperationStatus
  <2>1. operations' \subseteq [id : 1 .. MaxWork, done : Nat]
    BY <1>0, <1>2 DEF UpdateOperationStatus, EventTypes
  <2> QED
    BY <1>2, <2>1, RowsGo DEF UpdateOperationStatus
<1>3. ASSUME NEW e \in Emitters, NEW k \in Keys \ {AuditKey},
             NEW op \in {o.id : o \in {x \in operations : x.done = 0}} \cup {NoOperation},
             EmitFor(e, k, op)
      PROVE  EventsInv'
  <2>1. op \in 0 .. MaxWork
    BY <1>0 DEF EventTypes, NoOperation
  <2> QED
    BY <1>3, <2>1, BeginKeeps DEF EmitFor, Emitting
<1>4. CASE \E e \in Emitters \cup {Runner} : WriteEvent(e)
  BY <1>4, WriteKeeps DEF Emitting
<1>5. CASE BeginRunOnce \/ PruneObservedSnapshots \/ PruneCompletedOperations
           \/ PruneEventsByRetention \/ UNCHANGED eventVars
  BY <1>0, <1>5, RowsGo
     DEF BeginRunOnce, PruneObservedSnapshots, PruneCompletedOperations, PruneEventsByRetention,
         PruneFails, EventTypes, eventVars
<1>6. CASE ReportPurge
  <2>1. CASE workLeft > 0
    BY <1>0, <1>6, <2>1, BeginKeeps DEF ReportPurge, Emitting, Keys, NoOperation
  <2>2. CASE ~(workLeft > 0)
    BY <1>0, <1>6, <2>2, RowsGo DEF ReportPurge, EventTypes
  <2> QED
    BY <2>1, <2>2
<1>7. CASE HourPasses
  <2>1. /\ UNCHANGED <<operations, emits, workLeft>> /\ now' = now + 1
        /\ events' = {[r EXCEPT !.fresh = FALSE] : r \in events}
        /\ \A e \in Emitting : ~Writing(e)
    BY <1>7 DEF HourPasses, Emitting, Writing
  <2>2. \A r \in events' : ~r.fresh /\ r \in [id : 1 .. MaxWork, key : Keys, op : 0 .. MaxWork,
                                               at : Nat, fresh : BOOLEAN]
    BY <1>0, <2>1 DEF EventTypes
  <2>3. \A r \in events' : \E s \in events : r = [s EXCEPT !.fresh = FALSE] /\ r.id = s.id
    BY <1>0, <2>1 DEF EventTypes
  <2>4. EventTypes'
    BY <1>0, <2>1, <2>2 DEF EventTypes, Writing
  <2>5. NumbersDistinct'
    <3>1. \A r, s \in events' : r.id = s.id => r = s
      <4> SUFFICES ASSUME NEW r \in events', NEW s \in events', r.id = s.id PROVE r = s
        OBVIOUS
      <4>1. PICK a \in events, b \in events :
              /\ r = [a EXCEPT !.fresh = FALSE] /\ s = [b EXCEPT !.fresh = FALSE]
              /\ r.id = a.id /\ s.id = b.id
        BY <2>3
      <4>2. a = b
        BY <4>1 DEF EventsInv, NumbersDistinct
      <4> QED
        BY <4>1, <4>2
    <3>2. /\ \A r \in events' : r.id > workLeft
          /\ \A e \in Emitting : ~(emits'[e].pc = "write")
      BY <2>1, <2>3 DEF EventsInv, NumbersDistinct, Writing
    <3> QED
      BY <2>1, <3>1, <3>2 DEF NumbersDistinct, Writing
  <2>6. LookupHolds' /\ NoDoubleRows'
    BY <2>1, <2>2 DEF LookupHolds, NoDoubleRows, Writing
  <2> QED
    BY <2>4, <2>5, <2>6 DEF EventsInv
<1> QED
  BY <1>1, <1>2, <1>3, <1>4, <1>5, <1>6, <1>7 DEF EventsNext

\* However the goroutines that emit it interleave, and whatever the purge
\* deletes in between, an event that repeats within the window is one row.
THEOREM EventsOnce == EventsSpec => []NoDoubleRows
<1>1. EventsSpec => []EventsInv
  BY InitEventsInv, NextEventsInv, PTL DEF EventsSpec
<1>2. EventsInv => NoDoubleRows
  BY DEF EventsInv
<1> QED
  BY <1>1, <1>2, PTL

-----------------------------------------------------------------------------
(* What Dynamic DNS leaves behind, for any domains and administrators.  An    *)
(* entry and its token are told apart by the number both got when they were   *)
(* made, which no other ever gets (NumbersNew): so a request that works with  *)
(* a number it read before finds its own entry and token, or none.            *)

Numbers == Nat \ {0}
Tokens == [id : Numbers, good : BOOLEAN]
Entries ==
  [id : Numbers, secret : Numbers, on : BOOLEAN, auto : BOOLEAN, desired : Nat, applied : Nat,
   run : {"never", "recent", "due"}]
Creations == [pc : {"insert", "undo"}, label : Labels, id : Numbers, on : BOOLEAN, auto : BOOLEAN]
DdnsChanges ==
  [pc : {"delete", "delete_secret", "rotate", "undo"}, domain : Domains, row : Numbers,
   id : Numbers, good : BOOLEAN]
Listed == [domain : Domains, row : Entries]

DdnsTypes ==
  /\ ddns \in [Domains -> Entries \cup {NoEntry}]
  /\ secrets \in [Labels -> Tokens \cup {NoSecret}]
  /\ ddnsRequest \in [DdnsAdmins -> Creations \cup DdnsChanges \cup {NoDdnsRequest}]
  /\ ddnsEdits \in Nat /\ openOps \in Int /\ strayOps \in Int

PassTypes ==
  ddnsPass \in {DdnsIdle} \cup [pc : {"next"}, todo : SUBSET Listed]
                 \cup [pc : {"secret", "close"}, todo : SUBSET Listed, at : Listed]
                 \cup [pc : {"call", "success", "failed", "close"}, todo : SUBSET Listed,
                       at : Listed, good : BOOLEAN]

\* The numbers given out are above those that are left, and of one label each.
NumbersNew ==
  /\ \A l \in Labels : secrets[l] # NoSecret => secrets[l].id > ddnsEdits
  /\ \A d \in Domains : ddns[d] # NoEntry => ddns[d].id = ddns[d].secret
  /\ \A c \in DdnsAdmins : ddnsRequest[c] # NoDdnsRequest => ddnsRequest[c].id > ddnsEdits
  /\ \A d \in Domains : ddns[d] # NoEntry => ddns[d].secret > ddnsEdits
  /\ \A l, m \in Labels : (secrets[l] # NoSecret /\ secrets[l].id = secrets[m].id) => l = m

\* A request creates the entry of the token it stored, or deletes the entry
\* of the token it read.
RequestsOwn ==
  \A c \in DdnsAdmins :
    /\ ddnsRequest[c].pc = "insert" =>
         \A l \in Labels : secrets[l].id = ddnsRequest[c].id => l = ddnsRequest[c].label
    /\ ddnsRequest[c].pc \in {"delete", "delete_secret"} =>
         ddnsRequest[c].row = ddnsRequest[c].id

\* The failing calls since the last cooldown are those the breaker counts; one
\* that has cooled down starts anew.
BreakerCounts ==
  /\ breaker \in [state : {"closed", "open"}, failures : Nat, cooled : BOOLEAN]
  /\ burst \in Nat
  /\ breaker.state = "closed" => burst = breaker.failures /\ burst < FailureThreshold
  /\ breaker.state = "open" => burst <= FailureThreshold /\ (breaker.cooled => burst = 0)

TokensInv == DdnsTypes /\ NumbersNew /\ RequestsOwn /\ NoStrandedSecret
DdnsPassInv == PassTypes /\ OperationsClose /\ BreakerCounts
DdnsInv == TokensInv /\ DdnsPassInv

\* A fresh installation has no entries, no tokens and a closed breaker.
LEMMA InitDdnsInv == DdnsInit => DdnsInv
<1> SUFFICES ASSUME DdnsInit PROVE DdnsInv
  OBVIOUS
<1> USE DdnsAssumption DEF DdnsInit
<1>1. DdnsTypes
  BY DEF DdnsTypes
<1>2. NumbersNew /\ RequestsOwn /\ NoStrandedSecret
  BY DEF NumbersNew, RequestsOwn, NoStrandedSecret, NoDdnsRequest
<1>3. DdnsPassInv
  BY DEF DdnsPassInv, PassTypes, OperationsClose, BreakerCounts, DdnsIdle
<1> QED
  BY <1>1, <1>2, <1>3 DEF DdnsInv, TokensInv

-----------------------------------------------------------------------------
(* The reconciler *)

\* A pass changes of the entries only what tells how they were applied.
LEMMA PassLeaves ==
  ASSUME TokensInv, PassTypes, DdnsReconcile \/ CooldownPasses \/ \E d \in Domains : IntervalPasses(d)
  PROVE  /\ UNCHANGED <<secrets, ddnsRequest, ddnsEdits, kept>>
         /\ ddns' \in [Domains -> Entries \cup {NoEntry}]
         /\ \A d \in Domains : /\ ddns'[d] = NoEntry <=> ddns[d] = NoEntry
                               /\ ddns'[d] # NoEntry => /\ ddns'[d].id = ddns[d].id
                                                        /\ ddns'[d].secret = ddns[d].secret
<1> USE DEF NotPass
<1>1. ddns \in [Domains -> Entries \cup {NoEntry}]
  BY DEF TokensInv, DdnsTypes
<1>2. UNCHANGED <<secrets, ddnsRequest, ddnsEdits, kept>>
  BY DEF DdnsReconcile, ListDdns, OpenOperation, GetSecret, ProviderUpdate, RecordDdnsRun,
         CloseOperation, EndDdnsPass, CooldownPasses, IntervalPasses
<1>3. ASSUME NEW d \in Domains, NEW e \in Entries, ddns[d] \in Entries,
             e.id = ddns[d].id, e.secret = ddns[d].secret, ddns' = [ddns EXCEPT ![d] = e]
      PROVE  /\ ddns' \in [Domains -> Entries \cup {NoEntry}]
             /\ \A x \in Domains : /\ ddns'[x] = NoEntry <=> ddns[x] = NoEntry
                                   /\ ddns'[x] # NoEntry => /\ ddns'[x].id = ddns[x].id
                                                            /\ ddns'[x].secret = ddns[x].secret
  <2>1. e # NoEntry /\ ddns[d] # NoEntry
    <3>1. \A y \in Entries : y.id # 0
      BY DEF Entries, Numbers
    <3>2. NoEntry.id = 0
      BY DEF NoEntry
    <3> QED
      BY <1>3, <3>1, <3>2
  <2> QED
    BY <1>1, <1>3, <2>1
<1>4. CASE ddns' = ddns
  BY <1>1, <1>2, <1>4
<1>5. ASSUME NEW d \in Domains, IntervalPasses(d) PROVE ddns' = ddns \/ \E e \in Entries :
        ddns[d] \in Entries /\ e.id = ddns[d].id /\ e.secret = ddns[d].secret
          /\ ddns' = [ddns EXCEPT ![d] = e]
  <2>1. ddns[d] \in Entries /\ ddns' = [ddns EXCEPT ![d] = [ddns[d] EXCEPT !.run = "due"]]
    BY <1>1, <1>5 DEF IntervalPasses
  <2>2. LET e == [ddns[d] EXCEPT !.run = "due"] IN
          e \in Entries /\ e.id = ddns[d].id /\ e.secret = ddns[d].secret
    BY <2>1 DEF Entries
  <2> QED
    BY <2>1, <2>2
<1>6. ASSUME RecordDdnsRun PROVE ddns' = ddns \/ \E d \in Domains, e \in Entries :
        ddns[d] \in Entries /\ e.id = ddns[d].id /\ e.secret = ddns[d].secret
          /\ ddns' = [ddns EXCEPT ![d] = e]
  <2> DEFINE d == ddnsPass.at.domain
             ok == ddnsPass.pc = "success"
             e == [ddns[d] EXCEPT !.run = "recent",
                     !.applied = IF ok THEN ddns[d].desired ELSE ddns[d].applied]
  <2>1. d \in Domains /\ ddnsPass.at.row.id # 0
    BY <1>6 DEF RecordDdnsRun, PassTypes, Listed, Entries, Numbers, DdnsIdle
  <2>2. CASE ddns[d].id = ddnsPass.at.row.id /\ ddns' # ddns
    <3>1. ddns[d] \in Entries
      BY <1>1, <2>1, <2>2 DEF NoEntry
    <3>2. e \in Entries /\ e.id = ddns[d].id /\ e.secret = ddns[d].secret
      BY <3>1 DEF Entries
    <3>3. ddns' = [ddns EXCEPT ![d] = e]
      BY <1>6, <2>2 DEF RecordDdnsRun
    <3> HIDE DEF e, d
    <3> QED
      BY <2>1, <3>1, <3>2, <3>3
  <2>3. CASE ddns[d].id # ddnsPass.at.row.id
    BY <1>6, <2>3 DEF RecordDdnsRun
  <2> QED
    BY <2>2, <2>3
<1> QED
  BY <1>2, <1>3, <1>4, <1>5, <1>6
     DEF DdnsReconcile, ListDdns, OpenOperation, GetSecret, ProviderUpdate, CloseOperation,
         EndDdnsPass, CooldownPasses

\* So it neither loses a token nor mixes up two.
LEMMA PassTokens ==
  ASSUME TokensInv, UNCHANGED <<secrets, ddnsRequest, ddnsEdits, kept>>,
         ddns' \in [Domains -> Entries \cup {NoEntry}], openOps' \in Int, strayOps' \in Int,
         \A d \in Domains : /\ ddns'[d] = NoEntry <=> ddns[d] = NoEntry
                            /\ ddns'[d] # NoEntry => /\ ddns'[d].id = ddns[d].id
                                                     /\ ddns'[d].secret = ddns[d].secret
  PROVE  TokensInv'
<1> USE DEF TokensInv
<1>1. DdnsTypes' /\ NumbersNew' /\ RequestsOwn'
  BY DEF DdnsTypes, NumbersNew, RequestsOwn
<1>2. NoStrandedSecret'
  <2>1. \A l \in Labels : l.domain \in Domains
    BY DEF Labels
  <2> QED
    BY <2>1 DEF NoStrandedSecret
<1> QED
  BY <1>1, <1>2

\* A pass opens and closes one operation at a time.
LEMMA PassOperations ==
  ASSUME DdnsTypes, PassTypes, OperationsClose, DdnsReconcile
  PROVE  PassTypes' /\ OperationsClose' /\ openOps' \in Int /\ strayOps' \in Int
<1> USE DEF DdnsTypes
<1>1. CASE ListDdns
  <2>1. \A d \in Domains : ddns[d] # NoEntry => [domain |-> d, row |-> ddns[d]] \in Listed
    BY DEF Listed
  <2>2. ddnsPass'.pc = "next" /\ ddnsPass' \in [pc : {"next"}, todo : SUBSET Listed]
    BY <1>1, <2>1 DEF ListDdns
  <2> QED
    BY <1>1, <2>2 DEF ListDdns, PassTypes, OperationsClose
<1>2. CASE EndDdnsPass
  BY <1>2 DEF EndDdnsPass, PassTypes, OperationsClose, DdnsIdle
<1>3. CASE OpenOperation
  <2>1. ddnsPass \in [pc : {"next"}, todo : SUBSET Listed]
    BY <1>3 DEF OpenOperation, PassTypes, DdnsIdle
  <2>2. PICK d \in ddnsPass.todo :
          \/ /\ openOps' = openOps + 1
             /\ ddnsPass' = [pc |-> "secret", todo |-> ddnsPass.todo \ {d}, at |-> d]
          \/ /\ ddnsPass' = [ddnsPass EXCEPT !.todo = @ \ {d}]
             /\ openOps' = openOps
    BY <1>3 DEF OpenOperation
  <2>3. d \in Listed /\ strayOps' = strayOps
    BY <1>3, <2>1 DEF OpenOperation
  <2> QED
    BY <2>1, <2>2, <2>3 DEF PassTypes, OperationsClose
<1>4. CASE GetSecret
  <2>1. ddnsPass \in [pc : {"secret"}, todo : SUBSET Listed, at : Listed]
    BY <1>4 DEF GetSecret, PassTypes, DdnsIdle
  <2> DEFINE id == ddnsPass.at.row.secret
  <2>2. HasSecret(id) => secrets[LabelOf(id)].good \in BOOLEAN
    <3>1. id # 0
      BY <2>1 DEF Listed, Entries, Numbers
    <3>2. HasSecret(id) => LabelOf(id) \in Labels /\ secrets[LabelOf(id)].id = id
      BY DEF HasSecret, LabelOf
    <3> QED
      BY <3>1, <3>2 DEF NoSecret, Tokens
  <2>3. \/ ddnsPass' \in [pc : {"call"}, todo : SUBSET Listed, at : Listed, good : BOOLEAN]
        \/ ddnsPass' \in [pc : {"close"}, todo : SUBSET Listed, at : Listed]
    BY <1>4, <2>1, <2>2 DEF GetSecret
  <2> QED
    BY <1>4, <2>1, <2>3 DEF GetSecret, PassTypes, OperationsClose
<1>5. CASE ProviderUpdate
  <2>1. ddnsPass \in [pc : {"call"}, todo : SUBSET Listed, at : Listed, good : BOOLEAN]
    BY <1>5 DEF ProviderUpdate, PassTypes, DdnsIdle
  <2>2. \E result \in {"success", "failed"} : ddnsPass' = [ddnsPass EXCEPT !.pc = result]
    BY <1>5 DEF ProviderUpdate
  <2>3. ddnsPass' \in [pc : {"success", "failed"}, todo : SUBSET Listed, at : Listed,
                       good : BOOLEAN]
    BY <2>1, <2>2
  <2> QED
    BY <1>5, <2>1, <2>3 DEF ProviderUpdate, PassTypes, OperationsClose
<1>6. CASE RecordDdnsRun
  <2>1. ddnsPass \in [pc : {"success", "failed"}, todo : SUBSET Listed, at : Listed,
                      good : BOOLEAN]
    BY <1>6 DEF RecordDdnsRun, PassTypes, DdnsIdle
  <2>2. ddnsPass' \in [pc : {"close"}, todo : SUBSET Listed, at : Listed, good : BOOLEAN]
    BY <1>6, <2>1 DEF RecordDdnsRun
  <2> QED
    BY <1>6, <2>1, <2>2 DEF RecordDdnsRun, PassTypes, OperationsClose
<1>7. CASE CloseOperation
  <2>1. ddnsPass.pc = "close" /\ ddnsPass.todo \subseteq Listed
    BY <1>7 DEF CloseOperation, PassTypes, DdnsIdle
  <2>2. ddnsPass' \in [pc : {"next"}, todo : SUBSET Listed]
    BY <1>7, <2>1 DEF CloseOperation
  <2> QED
    BY <1>7, <2>1, <2>2 DEF CloseOperation, PassTypes, OperationsClose
<1> QED
  BY <1>1, <1>2, <1>3, <1>4, <1>5, <1>6, <1>7 DEF DdnsReconcile

Breakers == [state : {"closed", "open", "half_open"}, failures : Nat, cooled : BOOLEAN]

Won(x) == [x EXCEPT !.state = "closed", !.failures = 0]
Opened == [state |-> "open", failures |-> FailureThreshold, cooled |-> FALSE]
Lost(x) == [x EXCEPT !.failures = x.failures + 1]

\* What a breaker is for a call, and becomes when it has been answered.
LEMMA Answered ==
  ASSUME NEW x \in Breakers
  PROVE  /\ x.state = "closed" => BeforeCall(x) = x
         /\ (x.state = "open" /\ ~x.cooled) => BeforeCall(x) = x
         /\ (x.state = "open" /\ x.cooled) =>
              BeforeCall(x) \in Breakers /\ BeforeCall(x).state = "half_open"
         /\ Won(x) \in Breakers /\ Won(x).state = "closed" /\ Won(x).failures = 0
         /\ Lost(x) \in Breakers /\ Lost(x).state = x.state /\ Lost(x).failures = x.failures + 1
<1>1. BeforeCall(x) = IF x.state = "open" /\ x.cooled
                        THEN [x EXCEPT !.state = "half_open", !.cooled = FALSE] ELSE x
  BY DEF BeforeCall
<1>2. /\ [x EXCEPT !.state = "half_open", !.cooled = FALSE] \in Breakers
      /\ [x EXCEPT !.state = "half_open", !.cooled = FALSE].state = "half_open"
  BY DEF Breakers
<1>3. Won(x) \in Breakers /\ Won(x).state = "closed" /\ Won(x).failures = 0
  BY DEF Breakers, Won
<1>4. Lost(x) \in Breakers /\ Lost(x).state = x.state /\ Lost(x).failures = x.failures + 1
  BY DEF Breakers, Lost
<1>5. x.cooled \in BOOLEAN /\ x.state \in {"closed", "open", "half_open"}
  BY DEF Breakers
<1> QED
  BY <1>1, <1>2, <1>3, <1>4, <1>5

\* Only a call moves the breaker, and its cooldown.
LEMMA BreakerMoves ==
  ASSUME BreakerCounts, DdnsReconcile \/ CooldownPasses
  PROVE  BreakerCounts'
<1> USE DdnsAssumption
<1>0. breaker \in Breakers /\ breaker.state \in {"closed", "open"} /\ breaker.cooled \in BOOLEAN
  BY DEF BreakerCounts, Breakers
<1>c. ASSUME breaker' \in Breakers, breaker'.state = "closed",
             breaker'.failures = burst', burst' \in Nat, burst' < FailureThreshold
      PROVE  BreakerCounts'
  BY <1>c DEF BreakerCounts, Breakers
<1>o. ASSUME breaker' = Opened, burst' \in Nat, burst' <= FailureThreshold
      PROVE  BreakerCounts'
  BY <1>o DEF BreakerCounts, Opened
<1>1. CASE ProviderUpdate
  <2> DEFINE b == BeforeCall(breaker)
             many == b.state = "half_open" \/ b.failures + 1 >= FailureThreshold
  <2>1. \/ breaker' = breaker /\ burst' = burst
        \/ b.state # "open" /\ breaker' = Won(b) /\ burst' = 0
        \/ b.state # "open" /\ many /\ breaker' = Opened /\ burst' = burst + 1
        \/ b.state # "open" /\ ~many /\ breaker' = Lost(b) /\ burst' = burst + 1
    BY <1>1 DEF ProviderUpdate, AfterCall, Won, Lost, Opened
  <2>2. CASE breaker' = breaker /\ burst' = burst
    BY <2>2 DEF BreakerCounts
  <2>3. b.state # "open" => \/ breaker.state = "closed" /\ b = breaker
                            \/ breaker.state = "open" /\ breaker.cooled /\ b \in Breakers
                                 /\ b.state = "half_open"
    BY <1>0, Answered
  <2> HIDE DEF b
  <2>4. breaker.state = "closed" => /\ burst = breaker.failures /\ burst < FailureThreshold
                                    /\ burst \in Nat
    BY DEF BreakerCounts
  <2>5. (breaker.state = "open" /\ breaker.cooled) => burst = 0
    BY DEF BreakerCounts
  <2>6. CASE b.state # "open" /\ breaker' = Won(b) /\ burst' = 0
    <3>1. b \in Breakers
      BY <1>0, <2>3, <2>6
    <3>2. breaker' \in Breakers /\ breaker'.state = "closed" /\ breaker'.failures = 0
      BY <2>6, <3>1, Answered
    <3> QED
      BY <1>c, <2>6, <3>2, DdnsAssumption DEF DdnsAssumption
  <2>7. CASE b.state # "open" /\ breaker' = Opened /\ burst' = burst + 1
    <3>1. burst' \in Nat /\ burst' <= FailureThreshold
      BY <2>3, <2>4, <2>5, <2>7, DdnsAssumption DEF DdnsAssumption
    <3> QED
      BY <1>o, <2>7, <3>1
  <2>8. CASE b.state # "open" /\ ~many /\ breaker' = Lost(b) /\ burst' = burst + 1
    <3>1. breaker.state = "closed" /\ b = breaker
      BY <2>3, <2>8
    <3>2. /\ breaker' \in Breakers /\ breaker'.state = "closed"
          /\ breaker'.failures = breaker.failures + 1
      BY <1>0, <2>8, <3>1, Answered
    <3>3. burst' < FailureThreshold /\ burst' \in Nat /\ burst' = breaker'.failures
      BY <2>4, <2>8, <3>1, <3>2, DdnsAssumption DEF DdnsAssumption
    <3> QED
      BY <1>c, <3>2, <3>3
  <2> HIDE DEF many
  <2> QED
    BY <2>1, <2>2, <2>6, <2>7, <2>8
<1>2. CASE CooldownPasses
  <2>1. breaker' = [breaker EXCEPT !.cooled = TRUE] /\ breaker.state = "open" /\ burst' = 0
    BY <1>2 DEF CooldownPasses
  <2>2. breaker' \in [state : {"closed", "open"}, failures : Nat, cooled : BOOLEAN]
    BY <2>1 DEF BreakerCounts
  <2>3. breaker'.state = "open"
    BY <2>1 DEF BreakerCounts
  <2> QED
    BY <2>1, <2>2, <2>3 DEF BreakerCounts, DdnsAssumption
<1>3. CASE UNCHANGED <<breaker, burst>>
  BY <1>3 DEF BreakerCounts
<1> QED
  BY <1>1, <1>2, <1>3
     DEF DdnsReconcile, ListDdns, OpenOperation, GetSecret, RecordDdnsRun, CloseOperation,
         EndDdnsPass

-----------------------------------------------------------------------------
(* The administrators *)

\* A request that starts has read the entry that is there, or has stored a
\* token under a new number.
LEMMA BeginsTokens ==
  ASSUME TokensInv,
         \/ \E c \in DdnsAdmins : \E l \in Labels, auto, good \in BOOLEAN :
              CreateSecret(c, l, TRUE, auto, good)
         \/ \E c \in DdnsAdmins : \E d \in Domains, good \in BOOLEAN,
                                     what \in {"delete", "delete_secret", "rotate"} :
              GetDdns(c, d, what, good)
         \/ \E d \in Domains, on, auto \in BOOLEAN : UpdateDdnsConfig(d, on, auto)
  PROVE  TokensInv'
<1> USE DEF TokensInv, NotHandlers
<1>1. ASSUME NEW c \in DdnsAdmins, NEW l \in Labels, NEW auto \in BOOLEAN, NEW good \in BOOLEAN,
             CreateSecret(c, l, TRUE, auto, good)
      PROVE  TokensInv'
  <2> DEFINE token == [id |-> ddnsEdits, good |-> good]
             q == [pc |-> "insert", label |-> l, id |-> ddnsEdits, on |-> TRUE, auto |-> auto]
  <2>1. /\ secrets' = [secrets EXCEPT ![l] = token] /\ secrets[l] = NoSecret
        /\ ddnsRequest' = [ddnsRequest EXCEPT ![c] = q] /\ ddnsRequest[c] = NoDdnsRequest
        /\ ddnsEdits > 0 /\ ddnsEdits' = ddnsEdits - 1
        /\ UNCHANGED <<ddns, kept, openOps, strayOps>>
    BY <1>1 DEF CreateSecret, Ask, Restock
  <2>2. /\ token \in Tokens /\ token.id = ddnsEdits /\ q \in Creations
        /\ q.pc = "insert" /\ q.label = l /\ q.id = ddnsEdits /\ token # NoSecret
    BY <2>1 DEF DdnsTypes, Tokens, Creations, Numbers, NoSecret
  <2> HIDE DEF token, q
  <2>3. DdnsTypes'
    BY <2>1, <2>2 DEF DdnsTypes
  <2>4. /\ secrets'[l] = token /\ ddnsRequest'[c] = q
        /\ \A m \in Labels \ {l} : secrets'[m] = secrets[m]
        /\ \A x \in DdnsAdmins \ {c} : ddnsRequest'[x] = ddnsRequest[x]
    BY <2>1 DEF DdnsTypes
  <2>5. \A m \in Labels \ {l} : secrets'[m].id # ddnsEdits
    BY <2>1, <2>4 DEF NumbersNew, NoSecret, DdnsTypes
  <2>6. \A d \in Domains : ddns'[d] # NoEntry => /\ ddns'[d].id = ddns'[d].secret
                                                 /\ ddns'[d].secret > ddnsEdits'
    BY <2>1 DEF NumbersNew, DdnsTypes, Entries, Numbers
  <2>7. /\ \A m \in Labels : secrets'[m] # NoSecret => secrets'[m].id > ddnsEdits'
        /\ \A x \in DdnsAdmins : ddnsRequest'[x] # NoDdnsRequest => ddnsRequest'[x].id > ddnsEdits'
    <3>1. \A m \in Labels : secrets[m] # NoSecret => secrets[m].id \in Nat
      BY DEF DdnsTypes, Tokens, Numbers
    <3>2. \A x \in DdnsAdmins : ddnsRequest[x] # NoDdnsRequest => ddnsRequest[x].id \in Nat
      BY DEF DdnsTypes, Creations, DdnsChanges, Numbers
    <3> QED
      BY <2>1, <2>2, <2>4, <3>1, <3>2 DEF NumbersNew, DdnsTypes
  <2>8. NumbersNew'
    BY <2>2, <2>4, <2>5, <2>6, <2>7 DEF NumbersNew
  <2>9. RequestsOwn'
    <3>1. \A x \in DdnsAdmins \ {c} : ddnsRequest[x].pc = "insert" => ddnsRequest[x].id > ddnsEdits
      BY DEF NumbersNew, NoDdnsRequest
    <3>2. \A x \in DdnsAdmins \ {c} : ddnsRequest[x].pc = "insert" => ddnsRequest[x].id # ddnsEdits
      BY <3>1 DEF DdnsTypes
    <3> QED
      BY <2>2, <2>4, <2>5, <3>2 DEF RequestsOwn
  <2>10. NoStrandedSecret'
    <3>1. \A x \in DdnsAdmins : ddnsRequest[x].pc \in {"insert", "undo"} => x # c
      BY <2>1 DEF NoDdnsRequest
    <3> QED
      BY <2>1, <2>2, <2>4, <3>1 DEF NoStrandedSecret
  <2> QED
    BY <2>3, <2>8, <2>9, <2>10
<1>2. ASSUME NEW c \in DdnsAdmins, NEW d \in Domains, NEW good \in BOOLEAN,
             NEW what \in {"delete", "delete_secret", "rotate"}, GetDdns(c, d, what, good)
      PROVE  TokensInv'
  <2> DEFINE q == [pc |-> what, domain |-> d, row |-> ddns[d].id, id |-> ddns[d].secret,
                   good |-> good]
  <2>1. /\ ddnsRequest' = [ddnsRequest EXCEPT ![c] = q] /\ ddnsRequest[c] = NoDdnsRequest
        /\ ddnsEdits' = ddnsEdits - 1 /\ ddnsEdits > 0 /\ ddns[d] # NoEntry
        /\ UNCHANGED <<ddns, secrets, kept, openOps, strayOps>>
    BY <1>2 DEF GetDdns, Ask
  <2>2. /\ q \in DdnsChanges /\ q.pc = what /\ q.row = q.id /\ q.id > ddnsEdits /\ q.id \in Nat
    BY <2>1 DEF DdnsTypes, NumbersNew, Entries, DdnsChanges, Numbers
  <2> HIDE DEF q
  <2>3. DdnsTypes'
    BY <2>1, <2>2 DEF DdnsTypes
  <2>4. ddnsRequest'[c] = q /\ \A x \in DdnsAdmins \ {c} : ddnsRequest'[x] = ddnsRequest[x]
    BY <2>1 DEF DdnsTypes
  <2>5. NumbersNew'
    <3>1. \A m \in Labels : secrets[m] # NoSecret => secrets[m].id \in Nat
      BY DEF DdnsTypes, Tokens, Numbers
    <3>2. \A x \in DdnsAdmins : ddnsRequest[x] # NoDdnsRequest => ddnsRequest[x].id \in Nat
      BY DEF DdnsTypes, Creations, DdnsChanges, Numbers
    <3>3. \A x \in Domains : ddns[x] # NoEntry => ddns[x].secret \in Nat
      BY DEF DdnsTypes, Entries, Numbers
    <3> QED
      BY <2>1, <2>2, <2>4, <3>1, <3>2, <3>3 DEF NumbersNew, DdnsTypes
  <2>6. RequestsOwn'
    BY <2>1, <2>2, <2>4 DEF RequestsOwn
  <2>7. NoStrandedSecret'
    <3>1. \A x \in DdnsAdmins : ddnsRequest[x].pc \in {"insert", "undo"} => x # c
      BY <2>1 DEF NoDdnsRequest
    <3> QED
      BY <2>1, <2>4, <3>1 DEF NoStrandedSecret
  <2> QED
    BY <2>3, <2>5, <2>6, <2>7
<1>3. ASSUME NEW d \in Domains, NEW on \in BOOLEAN, NEW auto \in BOOLEAN,
             UpdateDdnsConfig(d, on, auto)
      PROVE  TokensInv'
  <2> DEFINE e == [ddns[d] EXCEPT !.on = on, !.auto = auto, !.desired = ddns[d].desired + 1]
  <2>1. /\ ddns' = [ddns EXCEPT ![d] = e] /\ ddns[d] \in Entries /\ ddns[d] # NoEntry
        /\ ddnsEdits' = ddnsEdits - 1 /\ ddnsEdits > 0
        /\ UNCHANGED <<secrets, ddnsRequest, kept, openOps, strayOps>>
    BY <1>3 DEF UpdateDdnsConfig, Ask, DdnsTypes
  <2>2. e \in Entries /\ e.id = ddns[d].id /\ e.secret = ddns[d].secret /\ e # NoEntry
    <3>1. e \in Entries /\ e.id = ddns[d].id /\ e.secret = ddns[d].secret
      <4>1. ddns[d].desired + 1 \in Nat
        BY <2>1 DEF Entries
      <4> QED
        BY <2>1, <4>1 DEF Entries
    <3>2. e.id # 0 /\ NoEntry.id = 0
      BY <3>1 DEF Entries, Numbers, NoEntry
    <3> QED
      BY <3>1, <3>2
  <2> HIDE DEF e
  <2>3. DdnsTypes'
    BY <2>1, <2>2 DEF DdnsTypes
  <2>4. \A x \in Domains : /\ ddns'[x] = NoEntry <=> ddns[x] = NoEntry
                           /\ ddns'[x] # NoEntry => /\ ddns'[x].id = ddns[x].id
                                                    /\ ddns'[x].secret = ddns[x].secret
    BY <2>1, <2>2 DEF DdnsTypes
  <2>5. NumbersNew'
    <3>1. \A m \in Labels : secrets[m] # NoSecret => secrets[m].id \in Nat
      BY DEF DdnsTypes, Tokens, Numbers
    <3>2. \A x \in DdnsAdmins : ddnsRequest[x] # NoDdnsRequest => ddnsRequest[x].id \in Nat
      BY DEF DdnsTypes, Creations, DdnsChanges, Numbers
    <3>3. \A x \in Domains : ddns[x] # NoEntry => ddns[x].secret \in Nat
      BY DEF DdnsTypes, Entries, Numbers
    <3> QED
      BY <2>1, <2>4, <3>1, <3>2, <3>3 DEF NumbersNew, DdnsTypes
  <2>6. RequestsOwn' /\ NoStrandedSecret'
    <3>1. \A l \in Labels : l.domain \in Domains
      BY DEF Labels
    <3> QED
      BY <2>1, <2>4, <3>1 DEF RequestsOwn, NoStrandedSecret
  <2> QED
    BY <2>3, <2>5, <2>6
<1> QED
  BY <1>1, <1>2, <1>3

\* The steps of a request concern the token with its number.
LEMMA HandlerTokens ==
  ASSUME TokensInv, NEW c \in DdnsAdmins, DdnsHandler(c)
  PROVE  TokensInv'
<1> USE DEF TokensInv, NotHandlers
<1> DEFINE q == ddnsRequest[c]
<1>1. ddnsEdits' = ddnsEdits /\ UNCHANGED <<openOps, strayOps>>
  BY DEF DdnsHandler, CreateDdns, DeleteSecret, DeleteDdns, RotateToken
<1>2. q # NoDdnsRequest /\ q.id \in Numbers /\ q.id > ddnsEdits
  <2>1. q.pc # "none"
    BY DEF DdnsHandler, CreateDdns, DeleteSecret, DeleteDdns, RotateToken
  <2>2. q # NoDdnsRequest /\ q \in Creations \cup DdnsChanges
    BY <2>1 DEF NoDdnsRequest, DdnsTypes
  <2> QED
    BY <2>2 DEF Creations, DdnsChanges, NumbersNew
<1>3. \A l \in Labels : l.domain \in Domains
  BY DEF Labels
<1>n. /\ NoDdnsRequest.pc = "none" /\ NoSecret.id = 0 /\ NoEntry.id = 0
      /\ \A l \in Labels : secrets[l] # NoSecret => secrets[l].id \in Numbers
      /\ \A d \in Domains : ddns[d] # NoEntry => ddns[d] \in Entries /\ ddns[d].id # 0
  BY DEF NoDdnsRequest, NoSecret, NoEntry, DdnsTypes, Tokens, Entries, Numbers
<1>r. ASSUME Reply(c)
      PROVE  /\ ddnsRequest' \in [DdnsAdmins -> Creations \cup DdnsChanges \cup {NoDdnsRequest}]
             /\ ddnsRequest'[c] = NoDdnsRequest
             /\ \A x \in DdnsAdmins \ {c} : ddnsRequest'[x] = ddnsRequest[x]
  BY <1>r DEF Reply, DdnsTypes
<1>u. ASSUME ddnsRequest' = [ddnsRequest EXCEPT ![c].pc = "undo"]
      PROVE  /\ ddnsRequest' \in [DdnsAdmins -> Creations \cup DdnsChanges \cup {NoDdnsRequest}]
             /\ ddnsRequest'[c].pc = "undo" /\ ddnsRequest'[c].id = q.id
             /\ \A x \in DdnsAdmins \ {c} : ddnsRequest'[x] = ddnsRequest[x]
  <2>1. [q EXCEPT !.pc = "undo"] \in Creations \cup DdnsChanges /\ [q EXCEPT !.pc = "undo"].id = q.id
        /\ [q EXCEPT !.pc = "undo"].pc = "undo"
    BY <1>2 DEF DdnsTypes, Creations, DdnsChanges
  <2>2. ddnsRequest' = [ddnsRequest EXCEPT ![c] = [q EXCEPT !.pc = "undo"]]
    BY <1>u
  <2> QED
    BY <2>1, <2>2 DEF DdnsTypes
<1> HIDE DEF q
\* What the request answers or undoes does not change its number.
<1>4. ASSUME UNCHANGED secrets,
             Reply(c) \/ ddnsRequest' = [ddnsRequest EXCEPT ![c].pc = "undo"],
             ddns' \in [Domains -> Entries \cup {NoEntry}],
             \A d \in Domains : ddns'[d] # NoEntry =>
                ddns'[d].id = ddns'[d].secret /\ ddns'[d].secret > ddnsEdits
      PROVE  DdnsTypes' /\ NumbersNew' /\ RequestsOwn'
  <2>1. DdnsTypes'
    BY <1>1, <1>4, <1>r, <1>u DEF DdnsTypes
  <2>2. /\ \A x \in DdnsAdmins \ {c} : ddnsRequest'[x] = ddnsRequest[x]
        /\ \/ ddnsRequest'[c] = NoDdnsRequest
           \/ ddnsRequest'[c].pc = "undo" /\ ddnsRequest'[c].id = q.id
    BY <1>4, <1>r, <1>u
  <2>3. RequestsOwn'
    BY <1>4, <1>n, <2>2 DEF RequestsOwn
  <2>4. NumbersNew'
    BY <1>1, <1>2, <1>4, <2>2 DEF NumbersNew
  <2> QED
    BY <2>1, <2>3, <2>4
<1>5. CASE CreateDdns(c)
  <2>1. q.pc = "insert" /\ UNCHANGED <<secrets, kept>> /\ q \in Creations
    BY <1>5, <1>2 DEF CreateDdns, DdnsTypes, q, DdnsChanges
  <2> DEFINE e == NewEntry(q)
             d == q.label.domain
  <2>2. /\ e \in Entries /\ e.id = q.id /\ e.secret = q.id /\ e # NoEntry /\ d \in Domains
    BY <1>2, <1>3, <1>n, <2>1 DEF NewEntry, Entries, Creations, Numbers, Labels
  <2>3. CASE ddns[d] = NoEntry /\ ddns' = [ddns EXCEPT ![d] = e] /\ Reply(c)
    <3> HIDE DEF e
    <3>1. ddns'[d] = e /\ \A x \in Domains \ {d} : ddns'[x] = ddns[x]
      BY <2>2, <2>3 DEF DdnsTypes
    <3>2. /\ ddns' \in [Domains -> Entries \cup {NoEntry}]
          /\ \A x \in Domains : ddns'[x] # NoEntry =>
                ddns'[x].id = ddns'[x].secret /\ ddns'[x].secret > ddnsEdits
      BY <1>2, <2>2, <2>3, <3>1 DEF DdnsTypes, NumbersNew
    <3>3. NoStrandedSecret'
      <4> SUFFICES ASSUME NEW l \in Labels \ kept, secrets[l] # NoSecret
                   PROVE  \/ ddns'[l.domain] # NoEntry /\ ddns'[l.domain].secret = secrets[l].id
                          \/ \E x \in DdnsAdmins : /\ ddnsRequest'[x].pc \in {"insert", "undo"}
                                                   /\ ddnsRequest'[x].id = secrets[l].id
        BY <2>1 DEF NoStrandedSecret
      <4>1. CASE secrets[l].id = q.id
        <5>1. l.domain = d
          BY <2>1, <4>1 DEF RequestsOwn, q
        <5> QED
          BY <2>2, <3>1, <4>1, <5>1
      <4>2. CASE secrets[l].id # q.id
        BY <1>3, <1>r, <2>3, <3>1, <4>2 DEF NoStrandedSecret, q
      <4> QED
        BY <4>1, <4>2
    <3> QED
      BY <1>4, <2>1, <2>3, <3>2, <3>3
  <2>4. CASE UNCHANGED ddns /\ ddnsRequest' = [ddnsRequest EXCEPT ![c].pc = "undo"]
    <3>1. /\ ddns' \in [Domains -> Entries \cup {NoEntry}]
          /\ \A x \in Domains : ddns'[x] # NoEntry =>
                ddns'[x].id = ddns'[x].secret /\ ddns'[x].secret > ddnsEdits
      BY <2>4 DEF DdnsTypes, NumbersNew
    <3>2. NoStrandedSecret'
      BY <1>u, <2>1, <2>4 DEF NoStrandedSecret, q
    <3> QED
      BY <1>4, <2>1, <2>4, <3>1, <3>2
  <2> QED
    BY <1>5, <2>3, <2>4 DEF CreateDdns, q
<1>6. CASE DeleteSecret(c)
  <2>1. Reply(c)
    BY <1>6 DEF DeleteSecret
  <2>2. CASE /\ ddns' = Cascade(q.id) /\ kept' = kept
             /\ secrets' = [l \in Labels |-> IF secrets[l].id = q.id THEN NoSecret ELSE secrets[l]]
    <3>1. \A x \in Domains : ddns'[x] = IF ddns[x] # NoEntry /\ ddns[x].secret = q.id
                                          THEN NoEntry ELSE ddns[x]
      BY <2>2 DEF Cascade
    <3>2. \A l \in Labels : secrets'[l] = IF secrets[l].id = q.id THEN NoSecret ELSE secrets[l]
      BY <2>2
    <3>3. DdnsTypes'
      <4>1. ddns' \in [Domains -> Entries \cup {NoEntry}]
        BY <2>2, <3>1 DEF DdnsTypes, Cascade
      <4>2. secrets' \in [Labels -> Tokens \cup {NoSecret}]
        BY <2>2, <3>2 DEF DdnsTypes
      <4> QED
        BY <1>1, <1>r, <2>1, <4>1, <4>2 DEF DdnsTypes
    <3>4. NumbersNew'
      <4>1. ddnsEdits' = ddnsEdits
        BY <1>6 DEF DeleteSecret
      <4>2. /\ \A l \in Labels : secrets'[l] # NoSecret => secrets'[l].id > ddnsEdits
            /\ \A l, m \in Labels :
                 (secrets'[l] # NoSecret /\ secrets'[l].id = secrets'[m].id) => l = m
        BY <1>n, <3>2 DEF NumbersNew, Numbers
      <4>3. /\ \A d \in Domains : ddns'[d] # NoEntry => ddns'[d].id = ddns'[d].secret
            /\ \A d \in Domains : ddns'[d] # NoEntry => ddns'[d].secret > ddnsEdits
        BY <3>1 DEF NumbersNew
      <4>4. \A x \in DdnsAdmins : ddnsRequest'[x] # NoDdnsRequest =>
               ddnsRequest'[x].id > ddnsEdits
        BY <1>r, <2>1 DEF NumbersNew
      <4> QED
        BY <4>1, <4>2, <4>3, <4>4 DEF NumbersNew
    <3>5. RequestsOwn'
      <4>1. \A x \in DdnsAdmins : ddnsRequest[x].pc = "insert" => ddnsRequest[x].id # 0
        BY DEF DdnsTypes, Creations, DdnsChanges, NoDdnsRequest, Numbers
      <4> QED
        BY <1>r, <1>n, <2>1, <3>2, <4>1 DEF RequestsOwn
    <3>6. NoStrandedSecret'
      <4> SUFFICES ASSUME NEW l \in Labels \ kept, secrets'[l] # NoSecret
                   PROVE  \/ ddns'[l.domain] # NoEntry /\ ddns'[l.domain].secret = secrets'[l].id
                          \/ \E x \in DdnsAdmins : /\ ddnsRequest'[x].pc \in {"insert", "undo"}
                                                   /\ ddnsRequest'[x].id = secrets'[l].id
        BY <2>2 DEF NoStrandedSecret
      <4>1. secrets'[l] = secrets[l] /\ secrets[l].id # q.id /\ secrets[l] # NoSecret
        BY <3>2
      <4> QED
        BY <1>3, <1>r, <2>1, <3>1, <4>1 DEF NoStrandedSecret, q
    <3> QED
      BY <3>3, <3>4, <3>5, <3>6
  <2>3. CASE /\ kept' = kept \cup {l \in Labels : secrets[l].id = q.id}
             /\ UNCHANGED <<ddns, secrets>>
    <3>1. DdnsTypes' /\ NumbersNew' /\ RequestsOwn'
      BY <1>4, <2>1, <2>3 DEF DdnsTypes, NumbersNew
    <3>2. NoStrandedSecret'
      BY <1>r, <2>1, <2>3 DEF NoStrandedSecret, q
    <3> QED
      BY <3>1, <3>2
  <2> QED
    BY <1>6, <2>2, <2>3 DEF DeleteSecret, q
<1>7. CASE DeleteDdns(c)
  <2> DEFINE d == q.domain
             gone == IF ddns[d].id = q.row THEN [ddns EXCEPT ![d] = NoEntry] ELSE ddns
  <2>1. /\ q.pc \in {"delete", "delete_secret"} /\ secrets' = secrets
        /\ q \in DdnsChanges /\ d \in Domains /\ q.row = q.id
    BY <1>2, <1>7 DEF DeleteDdns, DdnsTypes, q, Creations, DdnsChanges, RequestsOwn
  <2>2. CASE UNCHANGED <<ddns, kept>> /\ Reply(c)
    <3>1. DdnsTypes' /\ NumbersNew' /\ RequestsOwn'
      BY <1>4, <2>1, <2>2 DEF DdnsTypes, NumbersNew
    <3>2. NoStrandedSecret'
      BY <1>r, <2>1, <2>2 DEF NoStrandedSecret, q
    <3> QED
      BY <3>1, <3>2
  <2>3. CASE ddns' = gone
    <3>1. \A x \in Domains : ddns'[x] = ddns[x] \/ (ddns'[x] = NoEntry /\ ddns[x].id = q.id)
      BY <2>1, <2>3 DEF DdnsTypes
    <3>2. /\ ddns' \in [Domains -> Entries \cup {NoEntry}]
          /\ \A x \in Domains : ddns'[x] # NoEntry =>
                ddns'[x].id = ddns'[x].secret /\ ddns'[x].secret > ddnsEdits
      BY <2>3, <3>1 DEF DdnsTypes, NumbersNew
    <3>3. \/ Reply(c) /\ kept' = kept \cup {l \in Labels : secrets[l].id = q.id}
          \/ ddnsRequest' = [ddnsRequest EXCEPT ![c].pc = "undo"] /\ kept' = kept
          \/ UNCHANGED <<ddns, kept>> /\ Reply(c)
      BY <1>7 DEF DeleteDdns, q
    <3>4. DdnsTypes' /\ NumbersNew' /\ RequestsOwn'
      BY <1>4, <2>1, <3>2, <3>3
    \* The tokens of other numbers keep what they had.
    <3>5. ASSUME NEW l \in Labels \ kept, secrets[l] # NoSecret, secrets[l].id # q.id
          PROVE  \/ ddns'[l.domain] # NoEntry /\ ddns'[l.domain].secret = secrets[l].id
                 \/ \E x \in DdnsAdmins : /\ ddnsRequest'[x].pc \in {"insert", "undo"}
                                          /\ ddnsRequest'[x].id = secrets[l].id
      <4>1. CASE ddns[l.domain] # NoEntry /\ ddns[l.domain].secret = secrets[l].id
        <5>1. ddns[l.domain].id # q.id
          BY <1>3, <3>5, <4>1 DEF NumbersNew
        <5> QED
          BY <1>3, <3>1, <4>1, <5>1
      <4>2. CASE \E x \in DdnsAdmins : /\ ddnsRequest[x].pc \in {"insert", "undo"}
                                       /\ ddnsRequest[x].id = secrets[l].id
        BY <1>r, <1>u, <3>3, <3>5, <4>2 DEF q
      <4> QED
        BY <3>5, <4>1, <4>2 DEF NoStrandedSecret
    <3>6. NoStrandedSecret'
      <4>1. CASE kept' = kept \cup {l \in Labels : secrets[l].id = q.id}
        BY <2>1, <3>5, <4>1 DEF NoStrandedSecret
      <4>2. CASE ddnsRequest' = [ddnsRequest EXCEPT ![c].pc = "undo"] /\ kept' = kept
        BY <1>u, <2>1, <3>5, <4>2 DEF NoStrandedSecret
      <4>3. CASE UNCHANGED <<ddns, kept>> /\ Reply(c)
        BY <1>r, <2>1, <4>3 DEF NoStrandedSecret, q
      <4> QED
        BY <3>3, <4>1, <4>2, <4>3
    <3> QED
      BY <3>4, <3>6
  <2> QED
    BY <1>7, <2>2, <2>3 DEF DeleteDdns, q
<1>8. CASE RotateToken(c)
  <2>1. Reply(c) /\ UNCHANGED <<ddns, kept>> /\ q.pc = "rotate" /\ q \in DdnsChanges
    BY <1>2, <1>8 DEF RotateToken, DdnsTypes, q, Creations
  <2>2. CASE secrets' = secrets
    <3>1. DdnsTypes' /\ NumbersNew' /\ RequestsOwn'
      BY <1>4, <2>1, <2>2 DEF DdnsTypes, NumbersNew
    <3>2. NoStrandedSecret'
      BY <1>r, <2>1, <2>2 DEF NoStrandedSecret, q
    <3> QED
      BY <3>1, <3>2
  <2>3. CASE HasSecret(q.id)
    <3> DEFINE l == LabelOf(q.id)
               token == [id |-> q.id, good |-> q.good]
    <3>1. l \in Labels /\ secrets[l].id = q.id
      BY <2>3 DEF HasSecret, LabelOf
    <3>2. token \in Tokens /\ token.id = q.id /\ token # NoSecret
      BY <1>2, <1>n, <2>1 DEF Tokens, DdnsChanges, Numbers
    <3>3. secrets' = [secrets EXCEPT ![l] = token]
      BY <1>8, <2>3 DEF RotateToken, Restock, q
    <3>4. secrets[l] # NoSecret
      BY <1>2, <1>n, <3>1 DEF Numbers
    <3> HIDE DEF l, token
    <3>5. /\ secrets' \in [Labels -> Tokens \cup {NoSecret}]
          /\ \A m \in Labels : /\ secrets'[m].id = secrets[m].id
                               /\ secrets'[m] = NoSecret <=> secrets[m] = NoSecret
      BY <3>1, <3>2, <3>3, <3>4 DEF DdnsTypes
    <3>6. DdnsTypes'
      BY <1>1, <1>r, <2>1, <3>5 DEF DdnsTypes
    <3>7. NumbersNew'
      BY <1>1, <1>r, <2>1, <3>5 DEF NumbersNew
    <3>8. RequestsOwn'
      BY <1>n, <1>r, <2>1, <3>5 DEF RequestsOwn
    <3>9. NoStrandedSecret'
      BY <1>r, <2>1, <3>5 DEF NoStrandedSecret, q
    <3> QED
      BY <3>6, <3>7, <3>8, <3>9
  <2> QED
    BY <1>8, <2>2, <2>3 DEF RotateToken, q
<1> QED
  BY <1>5, <1>6, <1>7, <1>8 DEF DdnsHandler

-----------------------------------------------------------------------------

\* A crash keeps the tokens of the requests it ends, and no count of the breaker.
LEMMA CrashInv ==
  ASSUME DdnsInv, DdnsCrash
  PROVE  DdnsInv'
<1> USE DEF DdnsInv, TokensInv, DdnsPassInv
<1>1. DdnsTypes' /\ NumbersNew' /\ RequestsOwn'
  BY DEF DdnsCrash, DdnsTypes, NumbersNew, RequestsOwn, NoDdnsRequest
<1>2. NoStrandedSecret'
  BY DEF DdnsCrash, NoStrandedSecret
<1>3. PassTypes' /\ OperationsClose'
  BY DEF DdnsCrash, PassTypes, OperationsClose, DdnsIdle, DdnsTypes
<1>4. BreakerCounts'
  BY DdnsAssumption DEF DdnsCrash, BreakerCounts
<1> QED
  BY <1>1, <1>2, <1>3, <1>4

\* Every step keeps the invariant.
LEMMA NextDdnsInv == DdnsInv /\ [DdnsNext]_ddnsVars => DdnsInv'
<1> SUFFICES ASSUME DdnsInv, [DdnsNext]_ddnsVars PROVE DdnsInv'
  OBVIOUS
<1>1. ASSUME UNCHANGED <<openOps, breaker, ddnsPass, strayOps, burst>> PROVE DdnsPassInv'
  BY <1>1 DEF DdnsInv, DdnsPassInv, PassTypes, OperationsClose, BreakerCounts
<1>2. CASE DdnsReconcile
  <2>1. DdnsPassInv' /\ openOps' \in Int /\ strayOps' \in Int
    BY <1>2, PassOperations, BreakerMoves DEF DdnsInv, TokensInv, DdnsPassInv
  <2> QED
    BY <1>2, <2>1, PassLeaves, PassTokens DEF DdnsInv, DdnsPassInv
<1>3. CASE CooldownPasses \/ \E d \in Domains : IntervalPasses(d)
  <2>1. UNCHANGED <<openOps, ddnsPass, strayOps>>
    BY <1>3 DEF CooldownPasses, IntervalPasses, NotHandlers
  <2>2. BreakerCounts'
    <3>1. CASE CooldownPasses
      BY <3>1, BreakerMoves DEF DdnsInv, DdnsPassInv
    <3>2. CASE \E d \in Domains : IntervalPasses(d)
      BY <3>2 DEF IntervalPasses, NotHandlers, DdnsInv, DdnsPassInv, BreakerCounts
    <3> QED
      BY <1>3, <3>1, <3>2
  <2>3. DdnsPassInv'
    BY <2>1, <2>2 DEF DdnsInv, DdnsPassInv, PassTypes, OperationsClose
  <2>4. openOps' \in Int /\ strayOps' \in Int
    BY <2>1 DEF DdnsInv, TokensInv, DdnsTypes
  <2> QED
    BY <1>3, <2>3, <2>4, PassLeaves, PassTokens DEF DdnsInv, DdnsPassInv
<1>4. ASSUME NEW c \in DdnsAdmins, DdnsHandler(c) PROVE DdnsInv'
  <2>1. UNCHANGED <<openOps, breaker, ddnsPass, strayOps, burst>>
    BY <1>4 DEF DdnsHandler, CreateDdns, DeleteSecret, DeleteDdns, RotateToken, NotHandlers
  <2> QED
    BY <1>1, <1>4, <2>1, HandlerTokens DEF DdnsInv
<1>5. CASE \/ \E c \in DdnsAdmins : \E l \in Labels, auto, good \in BOOLEAN :
                CreateSecret(c, l, TRUE, auto, good)
           \/ \E c \in DdnsAdmins : \E d \in Domains, good \in BOOLEAN,
                                       what \in {"delete", "delete_secret", "rotate"} :
                GetDdns(c, d, what, good)
           \/ \E d \in Domains, on, auto \in BOOLEAN : UpdateDdnsConfig(d, on, auto)
  <2>1. UNCHANGED <<openOps, breaker, ddnsPass, strayOps, burst>>
    BY <1>5 DEF CreateSecret, GetDdns, UpdateDdnsConfig, NotHandlers
  <2> QED
    BY <1>1, <1>5, <2>1, BeginsTokens DEF DdnsInv
<1>6. CASE DdnsCrash
  BY <1>6, CrashInv
<1>7. CASE UNCHANGED ddnsVars
  <2>1. TokensInv'
    BY <1>7 DEF ddnsVars, DdnsInv, TokensInv, DdnsTypes, NumbersNew, RequestsOwn,
                NoStrandedSecret
  <2> QED
    BY <1>1, <1>7, <2>1 DEF ddnsVars, DdnsInv
<1>8. ASSUME NEW c \in DdnsAdmins, NEW d \in Domains, NEW what \in {"delete", "delete_secret"},
             GetDdns(c, d, what, TRUE)
      PROVE  DdnsInv'
  BY <1>5, <1>8
<1>9. ASSUME NEW c \in DdnsAdmins, NEW d \in Domains, NEW good \in BOOLEAN,
             GetDdns(c, d, "rotate", good)
      PROVE  DdnsInv'
  BY <1>5, <1>9
<1> QED
  BY <1>2, <1>3, <1>4, <1>5, <1>6, <1>7, <1>8, <1>9 DEF DdnsNext

\* No token is stranded, no operation left open and the provider not hammered,
\* unless a crash or a failing transaction came in between: for any domains,
\* administrators and threshold of the breaker.
THEOREM DdnsSound == DdnsSpec => []DdnsIsSound
<1>1. DdnsInv => DdnsIsSound
  BY DdnsAssumption
     DEF DdnsInv, TokensInv, DdnsPassInv, DdnsIsSound, BreakerCounts, NoHammering
<1> QED
  BY <1>1, InitDdnsInv, NextDdnsInv, PTL DEF DdnsSpec
=============================================================================
