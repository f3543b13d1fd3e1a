---------------------------- MODULE NetworkDdns ----------------------------
(***************************************************************************)
(* Dynamic DNS: the entries and their tokens in SQLite (network_repo.go,   *)
(* nimos_secrets.go), the administrators' requests (network_ddns_http.go), *)
(* the reconciler that calls the provider once a minute                    *)
(* (network_ddns_reconciler.go, network_ddns_duckdns.go) and the circuit   *)
(* breaker around that call (breaker.go).                                  *)
(*                                                                         *)
(* A token lives in another table than the entry that uses it and the two  *)
(* are written in separate transactions, so a handler is a sequence of     *)
(* steps.  A domain may be spelled with spaces around it: the label of its *)
(* token keeps the spelling of the request, the entry is trimmed.          *)
(***************************************************************************)
EXTENDS Integers, FiniteSets

CONSTANTS
  Domains,          \* trimmed domain names
  DdnsAdmins,       \* HTTP clients
  FailureThreshold, \* of the breaker (5 in the code)
  MaxDdnsEdits,     \* bound: requests
  MaxDdnsFaults     \* bound: failing transactions and calls, crashes

ASSUME DdnsAssumption ==
  FailureThreshold \in Nat \ {0} /\ MaxDdnsEdits \in Nat /\ MaxDdnsFaults \in Nat

Labels == [domain : Domains, spaced : BOOLEAN]
NoEntry == [id |-> 0]
NoSecret == [id |-> 0]
NoDdnsRequest == [pc |-> "none"]
DdnsIdle == [pc |-> "idle"]

VARIABLES
  ddns,        \* network_ddns: domain -> entry, or NoEntry
  secrets,     \* nimos_secrets of category ddns_token: label -> secret
  openOps,     \* how many network_operations are in_progress
  breaker,     \* the CircuitBreaker of the provider
  ddnsPass,    \* the local state of Reconcile
  ddnsRequest, \* the request each administrator has in flight
  ddnsEdits, ddnsFaults, \* what is left of the two bounds
  kept,        \* history: labels that a crash, a fault or a DELETE left behind
  strayOps,    \* history: operations whose closing transaction never happened
  burst        \* history: failing calls since the last success or cooldown

ddnsVars == <<ddns, secrets, openOps, breaker, ddnsPass, ddnsRequest,
              ddnsEdits, ddnsFaults, kept, strayOps, burst>>

DdnsInit ==
  /\ ddns = [d \in Domains |-> NoEntry]
  /\ secrets = [l \in Labels |-> NoSecret]
  /\ openOps = 0
  /\ breaker = [state |-> "closed", failures |-> 0, cooled |-> FALSE]
  /\ ddnsPass = DdnsIdle
  /\ ddnsRequest = [c \in DdnsAdmins |-> NoDdnsRequest]
  /\ ddnsEdits = MaxDdnsEdits
  /\ ddnsFaults = MaxDdnsFaults
  /\ kept = {}
  /\ strayOps = 0
  /\ burst = 0

Ask == ddnsEdits > 0 /\ ddnsEdits' = ddnsEdits - 1
Fails == ddnsFaults > 0 /\ ddnsFaults' = ddnsFaults - 1

LabelOf(id) == CHOOSE l \in Labels : secrets[l].id = id
HasSecret(id) == \E l \in Labels : secrets[l].id = id
Restock(label, secret) == [secrets EXCEPT ![label] = secret]

\* DeleteSecret: the entries of the secret go with it (ON DELETE CASCADE).
Cascade(id) ==
  [d \in Domains |-> IF ddns[d] # NoEntry /\ ddns[d].secret = id
                       THEN NoEntry ELSE ddns[d]]

---------------------------------------------------------------------------
(* Administrators.  The rest of the state a handler leaves alone: *)
NotHandlers == <<openOps, breaker, ddnsPass, strayOps, burst>>

Reply(c) == ddnsRequest' = [ddnsRequest EXCEPT ![c] = NoDdnsRequest]

\* ddnsCreateHTTP up to CreateSecret: (category, label) is UNIQUE, so a
\* label that is taken answers 409 before anything is written.
CreateSecret(c, l, on, auto, good) ==
  /\ Ask
  /\ ddnsRequest[c] = NoDdnsRequest
  /\ secrets[l] = NoSecret
  /\ secrets' = Restock(l, [id |-> ddnsEdits, good |-> good])
  /\ ddnsRequest' = [ddnsRequest EXCEPT ![c] =
       [pc |-> "insert", label |-> l, id |-> ddnsEdits, on |-> on, auto |-> auto]]
  /\ UNCHANGED <<ddns, kept, ddnsFaults, NotHandlers>>

NewEntry(q) ==
  [id |-> q.id, secret |-> q.id, on |-> q.on, auto |-> q.auto,
   desired |-> 1, applied |-> 0, run |-> "never"]

\* Mutant: the handler answers the error and leaves the token.
InsertOrLeave(c) ==
  /\ ddnsRequest[c].pc = "insert"
  /\ LET q == ddnsRequest[c] IN
       IF ddns[q.label.domain] = NoEntry
         THEN /\ ddns' = [ddns EXCEPT ![q.label.domain] = NewEntry(q)]
              /\ Reply(c)
         ELSE /\ Reply(c) /\ UNCHANGED ddns
  /\ UNCHANGED <<secrets, kept, ddnsEdits, ddnsFaults, NotHandlers>>

\* CreateDdns: the domain is UNIQUE.  Whatever goes wrong, the handler then
\* deletes the token it has just stored.
CreateDdns(c) ==
  /\ ddnsRequest[c].pc = "insert"
  /\ LET q == ddnsRequest[c]
         undo == ddnsRequest' = [ddnsRequest EXCEPT ![c].pc = "undo"] IN
       \/ /\ ddns[q.label.domain] = NoEntry
          /\ ddns' = [ddns EXCEPT ![q.label.domain] = NewEntry(q)]
          /\ Reply(c)
          /\ UNCHANGED ddnsFaults
       \/ ddns[q.label.domain] # NoEntry /\ undo /\ UNCHANGED <<ddns, ddnsFaults>>
       \/ Fails /\ undo /\ UNCHANGED ddns
  /\ UNCHANGED <<secrets, kept, ddnsEdits, NotHandlers>>

\* DeleteSecret, after a failed CreateDdns or for ?delete_secret=true; its
\* error is logged at most.
DeleteSecret(c) ==
  /\ ddnsRequest[c].pc = "undo"
  /\ LET id == ddnsRequest[c].id IN
       \/ /\ ddns' = Cascade(id)
          /\ secrets' = [l \in Labels |-> IF secrets[l].id = id THEN NoSecret ELSE secrets[l]]
          /\ UNCHANGED <<kept, ddnsFaults>>
       \/ /\ Fails
          /\ kept' = kept \cup {l \in Labels : secrets[l].id = id}
          /\ UNCHANGED <<ddns, secrets>>
  /\ Reply(c)
  /\ UNCHANGED <<ddnsEdits, NotHandlers>>

\* ddnsUpdateHTTP: one transaction, which bumps desired_generation.
UpdateDdnsConfig(d, on, auto) ==
  /\ Ask
  /\ ddns[d] # NoEntry
  /\ ddns' = [ddns EXCEPT ![d] =
       [ddns[d] EXCEPT !.on = on, !.auto = auto, !.desired = ddns[d].desired + 1]]
  /\ UNCHANGED <<secrets, ddnsRequest, kept, ddnsFaults, NotHandlers>>

\* ddnsDeleteHTTP and ddnsRotateTokenHTTP first read the entry, for the id
\* of its token.
GetDdns(c, d, what, good) ==
  /\ Ask
  /\ ddnsRequest[c] = NoDdnsRequest
  /\ ddns[d] # NoEntry
  /\ ddnsRequest' = [ddnsRequest EXCEPT ![c] =
       [pc |-> what, domain |-> d, row |-> ddns[d].id, id |-> ddns[d].secret, good |-> good]]
  /\ UNCHANGED <<ddns, secrets, kept, ddnsFaults, NotHandlers>>

\* DeleteDdns by id; the token stays unless the request asks for it too.
DeleteDdns(c) ==
  /\ ddnsRequest[c].pc \in {"delete", "delete_secret"}
  /\ LET q == ddnsRequest[c]
         gone == IF ddns[q.domain].id = q.row
                   THEN [ddns EXCEPT ![q.domain] = NoEntry] ELSE ddns IN
       \/ /\ ddns' = gone
          /\ UNCHANGED ddnsFaults
          /\ \/ /\ q.pc = "delete"
                /\ Reply(c)
                /\ kept' = kept \cup {l \in Labels : secrets[l].id = q.id}
             \/ /\ q.pc = "delete_secret"
                /\ ddnsRequest' = [ddnsRequest EXCEPT ![c].pc = "undo"]
                /\ UNCHANGED kept
       \/ Fails /\ Reply(c) /\ UNCHANGED <<ddns, kept>>
  /\ UNCHANGED <<secrets, ddnsEdits, NotHandlers>>

\* UpdateSecret keeps the id; the entry is not touched, so the next call of
\* the provider is when its interval or its pending state says.
RotateToken(c) ==
  /\ ddnsRequest[c].pc = "rotate"
  /\ LET q == ddnsRequest[c] IN
       secrets' = IF HasSecret(q.id)
         THEN Restock(LabelOf(q.id), [id |-> q.id, good |-> q.good]) ELSE secrets
  /\ Reply(c)
  /\ UNCHANGED <<ddns, kept, ddnsEdits, ddnsFaults, NotHandlers>>

---------------------------------------------------------------------------
(* The reconciler. *)
NotPass == <<secrets, ddnsRequest, ddnsEdits, kept>>

Unapplied(e) == e.applied < e.desired

\* Mutant: a one-shot entry is left alone even when its change is pending.
AutoOnly(e) == e.auto /\ (Unapplied(e) \/ e.run \in {"never", "due"})

\* needsUpdate.
NeedsUpdate(e) == Unapplied(e) \/ (e.auto /\ e.run \in {"never", "due"})

\* ListDdns: what processOne uses is the entry as listed.
ListDdns ==
  /\ ddnsPass.pc = "idle"
  /\ ddnsPass' = [pc |-> "next", todo |-> {[domain |-> d, row |-> ddns[d]] :
       d \in {x \in Domains : ddns[x] # NoEntry /\ ddns[x].on /\ NeedsUpdate(ddns[x])}}]
  /\ UNCHANGED <<ddns, openOps, breaker, ddnsFaults, strayOps, burst, NotPass>>

EndDdnsPass ==
  /\ ddnsPass.pc = "next" /\ ddnsPass.todo = {}
  /\ ddnsPass' = DdnsIdle
  /\ UNCHANGED <<ddns, openOps, breaker, ddnsFaults, strayOps, burst, NotPass>>

\* openOperation: without its row the entry is skipped in this pass.
OpenOperation ==
  /\ ddnsPass.pc = "next"
  /\ \E d \in ddnsPass.todo :
       \/ /\ openOps' = openOps + 1
          /\ ddnsPass' = [pc |-> "secret", todo |-> ddnsPass.todo \ {d}, at |-> d]
          /\ UNCHANGED ddnsFaults
       \/ /\ Fails
          /\ ddnsPass' = [ddnsPass EXCEPT !.todo = @ \ {d}]
          /\ UNCHANGED openOps
  /\ UNCHANGED <<ddns, breaker, strayOps, burst, NotPass>>

\* GetSecret: a token that is gone closes the operation as failed.
GetSecret ==
  /\ ddnsPass.pc = "secret"
  /\ LET id == ddnsPass.at.row.secret IN
       ddnsPass' = IF HasSecret(id)
         THEN [pc |-> "call", todo |-> ddnsPass.todo, at |-> ddnsPass.at,
               good |-> secrets[LabelOf(id)].good]
         ELSE [ddnsPass EXCEPT !.pc = "close"]
  /\ UNCHANGED <<ddns, openOps, breaker, ddnsFaults, strayOps, burst, NotPass>>

\* beforeCall: an open breaker whose cooldown is over tries once.
BeforeCall(b) ==
  IF b.state = "open" /\ b.cooled THEN [b EXCEPT !.state = "half_open", !.cooled = FALSE]
  ELSE b

\* recordFailureLocked, recordSuccessLocked.
AfterCall(b, ok) ==
  CASE ok -> [b EXCEPT !.state = "closed", !.failures = 0]
    [] ~ok /\ (b.state = "half_open" \/ b.failures + 1 >= FailureThreshold) ->
         [state |-> "open", failures |-> FailureThreshold, cooled |-> FALSE]
    [] OTHER -> [b EXCEPT !.failures = @ + 1]

\* provider.Update through the breaker.  "KO" and an unexpected body count
\* as a success for the breaker and as a failed run; a transport error, a
\* 5xx and a 4xx count as a failure; an open breaker makes no call at all.
ProviderUpdate ==
  /\ ddnsPass.pc = "call"
  /\ LET b == BeforeCall(breaker)
         done(result) == ddnsPass' = [ddnsPass EXCEPT !.pc = result] IN
       \/ b.state = "open" /\ done("failed") /\ UNCHANGED <<breaker, burst, ddnsFaults>>
       \/ /\ b.state # "open"
          /\ breaker' = AfterCall(b, TRUE)
          /\ burst' = 0
          /\ done(IF ddnsPass.good THEN "success" ELSE "failed")
          /\ UNCHANGED ddnsFaults
       \/ /\ b.state # "open"
          /\ Fails
          /\ breaker' = AfterCall(b, FALSE)
          /\ burst' = burst + 1
          /\ done("failed")
  /\ UNCHANGED <<ddns, openOps, strayOps, NotPass>>

\* RecordDdnsRun, and MarkDdnsApplied in the same transaction after a
\* success: of the entry as it is now, if it is still there.
RecordDdnsRun ==
  /\ ddnsPass.pc \in {"success", "failed"}
  /\ LET d == ddnsPass.at.domain
         there == ddns[d].id = ddnsPass.at.row.id
         success == ddnsPass.pc = "success" IN
       \/ /\ ddns' = IF there
               THEN [ddns EXCEPT ![d] = [ddns[d] EXCEPT !.run = "recent",
                       !.applied = IF success THEN ddns[d].desired ELSE ddns[d].applied]]
               ELSE ddns
          /\ UNCHANGED ddnsFaults
       \/ Fails /\ UNCHANGED ddns
  /\ ddnsPass' = [ddnsPass EXCEPT !.pc = "close"]
  /\ UNCHANGED <<openOps, breaker, strayOps, burst, NotPass>>

\* closeOperation: its error is dropped.
CloseOperation ==
  /\ ddnsPass.pc = "close"
  /\ \/ openOps' = openOps - 1 /\ UNCHANGED <<strayOps, ddnsFaults>>
     \/ Fails /\ strayOps' = strayOps + 1 /\ UNCHANGED openOps
  /\ ddnsPass' = [pc |-> "next", todo |-> ddnsPass.todo]
  /\ UNCHANGED <<ddns, breaker, burst, NotPass>>

---------------------------------------------------------------------------
(* Time and crashes. *)

\* The update_interval of an entry passes.
IntervalPasses(d) ==
  /\ ddns[d] # NoEntry /\ ddns[d].run = "recent"
  /\ ddns' = [ddns EXCEPT ![d].run = "due"]
  /\ UNCHANGED <<secrets, ddnsRequest, ddnsEdits, ddnsFaults, kept, NotHandlers>>

\* The five minutes of an open breaker pass.
CooldownPasses ==
  /\ breaker.state = "open" /\ ~breaker.cooled
  /\ breaker' = [breaker EXCEPT !.cooled = TRUE]
  /\ burst' = 0
  /\ UNCHANGED <<ddns, openOps, ddnsPass, ddnsFaults, strayOps, NotPass>>

\* The daemon dies: requests and pass are gone, the breaker starts closed
\* (its state is never persisted) and an open operation stays in_progress.
DdnsCrash ==
  /\ Fails
  /\ ddnsPass # DdnsIdle \/ \E c \in DdnsAdmins : ddnsRequest[c] # NoDdnsRequest
  /\ ddnsPass' = DdnsIdle
  /\ ddnsRequest' = [c \in DdnsAdmins |-> NoDdnsRequest]
  /\ strayOps' = openOps
  /\ kept' = kept \cup {l \in Labels : \E c \in DdnsAdmins :
       ddnsRequest[c].pc \in {"insert", "undo"} /\ secrets[l].id = ddnsRequest[c].id}
  /\ breaker' = [state |-> "closed", failures |-> 0, cooled |-> FALSE]
  /\ burst' = 0
  /\ UNCHANGED <<ddns, secrets, openOps, ddnsEdits>>

DdnsReconcile ==
  \/ ListDdns \/ OpenOperation \/ GetSecret \/ ProviderUpdate \/ RecordDdnsRun
  \/ CloseOperation \/ EndDdnsPass

DdnsHandler(c) == CreateDdns(c) \/ DeleteSecret(c) \/ DeleteDdns(c) \/ RotateToken(c)

DdnsNext ==
  \/ \E c \in DdnsAdmins :
       \/ \E l \in Labels, auto, good \in BOOLEAN : CreateSecret(c, l, TRUE, auto, good)
       \/ \E d \in Domains, what \in {"delete", "delete_secret"} : GetDdns(c, d, what, TRUE)
       \/ \E d \in Domains, good \in BOOLEAN : GetDdns(c, d, "rotate", good)
       \/ DdnsHandler(c)
  \/ \E d \in Domains, on, auto \in BOOLEAN : UpdateDdnsConfig(d, on, auto)
  \/ DdnsReconcile
  \/ \E d \in Domains : IntervalPasses(d)
  \/ CooldownPasses
  \/ DdnsCrash

(* The scheduler calls Reconcile every minute, the breaker cools down, and a *)
(* request that has begun goes on.                                           *)
DdnsFairness ==
  /\ WF_ddnsVars(DdnsReconcile) /\ WF_ddnsVars(CooldownPasses)
  /\ \A c \in DdnsAdmins : WF_ddnsVars(DdnsHandler(c))

DdnsSpec == DdnsInit /\ [][DdnsNext]_ddnsVars /\ DdnsFairness

---------------------------------------------------------------------------
(* A token never outlives its entry by accident: unless a DELETE kept it,  *)
(* a crash or a failing transaction came in between, every stored token    *)
(* belongs to an entry or to a request still running.  (One that did stay  *)
(* answers 409 to every later POST of its domain.)                         *)
NoStrandedSecret ==
  \A l \in Labels \ kept : secrets[l] # NoSecret =>
     \/ ddns[l.domain] # NoEntry /\ ddns[l.domain].secret = secrets[l].id
     \/ \E c \in DdnsAdmins : ddnsRequest[c].pc \in {"insert", "undo"}
                               /\ ddnsRequest[c].id = secrets[l].id

(* No operation stays in_progress but the one of the pass at work and those *)
(* whose closing transaction a crash or a failing database prevented.      *)
OperationsClose ==
  openOps = strayOps + (IF ddnsPass.pc \in {"idle", "next"} THEN 0 ELSE 1)

(* The provider is spared: at most FailureThreshold calls fail in a row    *)
(* before a full cooldown passes, whatever entries the calls were for.     *)
NoHammering == burst <= FailureThreshold

(* All three: what the requests and the passes leave behind, and the calls *)
(* they make.                                                              *)
DdnsIsSound == NoStrandedSecret /\ OperationsClose /\ NoHammering

(* Once requests and faults stop, every enabled entry whose token the      *)
(* provider accepts is applied: an open breaker, a deleted or a re-created *)
(* entry, a token rotated in the middle of a pass never block it.          *)
DdnsSettles ==
  <>[](\A d \in Domains :
         (ddns[d] # NoEntry /\ ddns[d].on /\ secrets[LabelOf(ddns[d].secret)].good)
           => ~Unapplied(ddns[d]))
=============================================================================
