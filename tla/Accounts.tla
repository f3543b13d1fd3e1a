------------------------------- MODULE Accounts -------------------------------
(***************************************************************************)
(* Accounts, sessions and the login of auth.go, with the tables of db.go   *)
(* and the Linux and Samba accounts that socket_api.go keeps beside them.  *)
(*                                                                         *)
(* Every handler runs in the goroutine of its request, and its statements  *)
(* are separate SQLite statements: a handler is modelled as one step per   *)
(* statement or command, between which the others run.  sessions.username  *)
(* is a foreign key of users ON DELETE CASCADE, which SQLite enforces on   *)
(* every connection of the pool (the _pragma of the DSN).                  *)
(*                                                                         *)
(* A process starts with openDB, which takes over the JSON files of the    *)
(* previous version in separate transactions and renames them at the end.  *)
(*                                                                         *)
(* A password is one of two values, a TOTP code is right or wrong, and     *)
(* time shows only as the quarter of an hour of the rate limiter and as    *)
(* the expiry of a session.                                                *)
(***************************************************************************)
EXTENDS Naturals, FiniteSets

CONSTANTS Accounts,            \* the user names that occur
          Founder,             \* the administrator of an installed system; the
                               \* others are users with a second factor
          GrantedApps,         \* applications that are granted to users
          AccountClients,      \* requests served at the same time
          MaxLoginAttempts,    \* failures that lock a key
          MaxAccountRequests,  \* bound on requests
          MaxAccountFaults     \* bound on restarts and failed commands

VARIABLES users,      \* table users
          sessions,   \* table sessions
          grants,     \* table user_app_access
          json,       \* the files of the previous version
          booting,    \* how far openDB is; "no" when the process serves
          linux,      \* accounts of /etc/passwd that NimOS manages
          samba,      \* the password Samba has for each
          limits,     \* rateLimits, in memory
          requests,   \* what each goroutine is doing
          served,     \* requests so far
          accountFaults

bootVars == <<json, booting>>
accountVars == <<users, sessions, grants, bootVars, linux, samba, limits, requests, served,
                 accountFaults>>

Passwords == {"first", "second"}
Roles == {"admin", "user"}
Codes == {"b1", "b2"}          \* generateBackupCodes makes eight
Address == "address"           \* the rate limiter's other key: one client address

NoAccount == [pass |-> "none", role |-> "none", secret |-> "none",
              enabled |-> FALSE, codes |-> {}]
NewAccount(p, r) == [NoAccount EXCEPT !.pass = p, !.role = r]
NoEntry == [count |-> 0, lock |-> "open", age |-> 0]
NoRequestYet == [pc |-> "none", kind |-> "none", user |-> "none", arg |-> "none",
                 role |-> "none", row |-> NoAccount]

Exists(u) == users[u] # NoAccount

AccountsInit ==
  /\ \E there \in {{}, Accounts} :
       /\ users = [u \in Accounts |->
                     IF there = {} THEN NoAccount
                     ELSE IF u = Founder THEN NewAccount("first", "admin")
                     ELSE [NewAccount("first", "user") EXCEPT
                             !.secret = "secret", !.enabled = TRUE, !.codes = Codes]]
       /\ sessions = {[id |-> <<"first", 0>>, user |-> u, role |-> users[u].role] : u \in there}
       /\ linux = there
       /\ samba = [u \in Accounts |-> IF u \in there THEN "first" ELSE "none"]
  /\ grants = {}
  /\ json \in {[there |-> FALSE, migrated |-> FALSE], [there |-> TRUE, migrated |-> FALSE]}
  /\ booting = "users"
  /\ limits = [k \in Accounts \cup {Address} |-> NoEntry]
  /\ requests = [c \in AccountClients |-> NoRequestYet]
  /\ served = 0 /\ accountFaults = 0

-------------------------------------------------------------------------------
(* The rate limiter: an entry is locked for a quarter of an hour from the  *)
(* failure that locked it; age counts the quarters since the last failure. *)

LockedOut(k) == limits[k].lock = "locked"

\* checkRateLimit of a key that is not locked: an entry whose lock is over goes.
Checked(l, k) == IF l[k].lock = "past" THEN [l EXCEPT ![k] = NoEntry] ELSE l

FailedOnce(e) ==
  LET count == IF e.age > 0 THEN 1 ELSE e.count + 1
  IN  [count |-> IF count > MaxLoginAttempts THEN MaxLoginAttempts ELSE count, age |-> 0,
       lock |-> IF count >= MaxLoginAttempts THEN "locked" ELSE e.lock]

RecordFailed(u) == limits' = [k \in DOMAIN limits |->
                                IF k \in {u, Address} THEN FailedOnce(limits[k]) ELSE limits[k]]

QuarterPasses ==
  /\ \E k \in DOMAIN limits : limits[k] # NoEntry /\ limits[k].age < 2
  /\ limits' = [k \in DOMAIN limits |->
                  IF limits[k] = NoEntry THEN NoEntry
                  ELSE [limits[k] EXCEPT !.age = IF @ < 2 THEN @ + 1 ELSE @,
                                         !.lock = IF @ = "locked" THEN "past" ELSE @]]
  /\ UNCHANGED <<users, sessions, linux, samba, requests, served, accountFaults, grants, bootVars>>

CleanupLimits ==
  /\ \E k \in DOMAIN limits : limits[k].age > 1
  /\ limits' = [k \in DOMAIN limits |-> IF limits[k].age > 1 THEN NoEntry ELSE limits[k]]
  /\ UNCHANGED <<users, sessions, linux, samba, requests, served, accountFaults, grants, bootVars>>

-------------------------------------------------------------------------------
(* What the statements do.                                                 *)

\* UPDATE users SET ... WHERE username: no row, no effect.
Updated(u, row) == IF Exists(u) THEN [users EXCEPT ![u] = row] ELSE users

\* Mutant: the INSERT without the foreign key.
OpenedAnyway(c, r) == sessions \cup {[id |-> <<c, served>>, user |-> r.user, role |-> r.role]}

\* INSERT INTO sessions: the foreign key refuses it when the account is gone.
\* The handler ignores the error and answers with the token all the same.
Opened(c, r) == IF Exists(r.user)
                THEN sessions \cup {[id |-> <<c, served>>, user |-> r.user, role |-> r.role]}
                ELSE sessions

\* DELETE FROM users, which takes the sessions and the grants of the account
\* with it.
Deleted(u) == /\ users' = [users EXCEPT ![u] = NoAccount]
              /\ sessions' = {s \in sessions : s.user # u}
              /\ grants' = {g \in grants : g.user # u}

Proceed(c, pc) == requests' = [requests EXCEPT ![c].pc = pc]
Answer(c) == requests' = [requests EXCEPT ![c] = NoRequestYet]
Doing(c, pc) == requests[c].pc = pc

Accept(c, r) == /\ booting = "no"
                /\ requests[c] = NoRequestYet /\ served < MaxAccountRequests
                /\ requests' = [requests EXCEPT ![c] = r]
                /\ served' = served + 1
                /\ UNCHANGED accountFaults

Job(kind, u, arg, pc) == [NoRequestYet EXCEPT !.kind = kind, !.user = u, !.arg = arg, !.pc = pc]

-------------------------------------------------------------------------------
(* The first part of each handler: its checks, up to its first write.      *)

\* requireAdmin: the role is the one the session was opened with.
Admin(s) == s.role = "admin"

\* POST /api/auth/setup: only while there is no account at all.
BeginSetup(c, u, p) ==
  /\ \A a \in Accounts : ~Exists(a)
  /\ Accept(c, [Job("setup", u, p, "insert") EXCEPT !.role = "admin"])
  /\ UNCHANGED <<users, sessions, linux, samba, limits, grants, bootVars>>

BeginLogin(c, u, p) ==
  /\ ~LockedOut(Address) /\ ~LockedOut(u)
  /\ Accept(c, Job("login", u, p, "password"))
  /\ limits' = Checked(Checked(limits, Address), u)
  /\ UNCHANGED <<users, sessions, linux, samba, grants, bootVars>>

Logout(s) ==
  /\ booting = "no"
  /\ sessions' = sessions \ {s}
  /\ served < MaxAccountRequests /\ served' = served + 1
  /\ UNCHANGED <<users, linux, samba, limits, requests, accountFaults, grants, bootVars>>

\* Only an admin changes the account that is named, anybody else one's own; the
\* current password is asked for when no other account is named.
BeginChangePassword(c, s, named, p, current) ==
  /\ named = s.user => Exists(s.user) /\ users[s.user].pass = current
  /\ Accept(c, Job("change", IF s.role = "admin" THEN named ELSE s.user, p, "update"))
  /\ UNCHANGED <<users, sessions, linux, samba, limits, grants, bootVars>>

BeginTotpSetup(c, s) ==
  /\ Accept(c, Job("totpSetup", s.user, "secret", "update"))
  /\ UNCHANGED <<users, sessions, linux, samba, limits, grants, bootVars>>

\* The code was computed from the secret the row has now.
BeginTotpVerify(c, s) ==
  /\ Exists(s.user) /\ users[s.user].secret # "none"
  /\ Accept(c, Job("totpVerify", s.user, "none", "update"))
  /\ UNCHANGED <<users, sessions, linux, samba, limits, grants, bootVars>>

BeginTotpDisable(c, s, p) ==
  /\ Exists(s.user) /\ users[s.user].pass = p
  /\ Accept(c, Job("totpDisable", s.user, p, "update"))
  /\ UNCHANGED <<users, sessions, linux, samba, limits, grants, bootVars>>

BeginCreate(c, s, u, p, role) ==
  /\ Admin(s) /\ ~Exists(u)
  /\ Accept(c, [Job("create", u, p, "insert") EXCEPT !.role = role])
  /\ UNCHANGED <<users, sessions, linux, samba, limits, grants, bootVars>>

BeginDelete(c, s, u) ==
  /\ Admin(s) /\ u # s.user /\ Exists(u)
  /\ Accept(c, Job("delete", u, "none", "delete"))
  /\ UNCHANGED <<users, sessions, linux, samba, limits, grants, bootVars>>

\* PUT /api/users/:name with a password and a role: Samba first, then the row.
BeginUpdate(c, s, u, p, role) ==
  /\ Admin(s) /\ Exists(u)
  /\ Accept(c, [Job("update", u, p, "samba") EXCEPT !.role = role])
  /\ UNCHANGED <<users, sessions, linux, samba, limits, grants, bootVars>>

\* POST /api/app-access: applications of administrators are not delegated.
AdminOnlyApps == {"storage", "network", "controlpanel"}

BeginGrant(c, s, u, app) ==
  /\ Admin(s) /\ Exists(u) /\ app \notin AdminOnlyApps
  /\ Accept(c, Job("grant", u, app, "grant"))
  /\ UNCHANGED <<users, sessions, linux, samba, limits, grants, bootVars>>

Revoke(s, g) ==
  /\ booting = "no" /\ Admin(s)
  /\ grants' = grants \ {g}
  /\ served < MaxAccountRequests /\ served' = served + 1
  /\ UNCHANGED <<users, sessions, linux, samba, limits, requests, accountFaults, bootVars>>

-------------------------------------------------------------------------------
(* The steps that follow.                                                  *)

VerifyLogin(c) ==
  LET u == requests[c].user IN
  /\ Doing(c, "password")
  /\ IF Exists(u) /\ users[u].pass = requests[c].arg
     THEN Proceed(c, "account") /\ UNCHANGED limits
     ELSE RecordFailed(u) /\ Answer(c)
  /\ UNCHANGED <<users, sessions, linux, samba, served, accountFaults, grants, bootVars>>

SecondFactor(row) == row.secret # "none" /\ row.enabled

\* The row is read a second time, for the role and the second factor; code is
\* what came with the request: nothing, a right or wrong TOTP code, a backup code.
ReadLoginAccount(c, code) ==
  LET u == requests[c].user  row == users[u] IN
  /\ Doing(c, "account")
  /\ IF ~Exists(u) \/ (SecondFactor(row) /\ code = "empty")
     THEN Answer(c) /\ UNCHANGED limits
     ELSE IF SecondFactor(row) /\ code # "right" /\ code \notin row.codes
     THEN RecordFailed(u) /\ Answer(c)
     ELSE /\ requests' = [requests EXCEPT ![c] =
               [@ EXCEPT !.role = row.role, !.row = row, !.arg = code,
                         !.pc = IF SecondFactor(row) /\ code \in row.codes
                                THEN "spend" ELSE "clear"]]
          /\ UNCHANGED limits
  /\ UNCHANGED <<users, sessions, linux, samba, served, accountFaults, grants, bootVars>>

\* The list that is written is the one read before, less the code.
SpendBackupCode(c) ==
  LET r == requests[c] IN
  /\ Doing(c, "spend") /\ Proceed(c, "clear")
  /\ users' = Updated(r.user, [users[r.user] EXCEPT !.codes = r.row.codes \ {r.arg}])
  /\ UNCHANGED <<sessions, linux, samba, limits, served, accountFaults, grants, bootVars>>

ClearFailed(c) ==
  /\ Doing(c, "clear") /\ Proceed(c, "session")
  /\ limits' = [k \in DOMAIN limits |->
                  IF k \in {Address, requests[c].user} THEN NoEntry ELSE limits[k]]
  /\ UNCHANGED <<users, sessions, linux, samba, served, accountFaults, grants, bootVars>>

CreateSession(c) ==
  /\ Doing(c, "session") /\ Answer(c)
  /\ sessions' = Opened(c, requests[c])
  /\ UNCHANGED <<users, linux, samba, limits, served, accountFaults, grants, bootVars>>

\* INSERT INTO users: the primary key refuses a name taken meanwhile.
InsertAccount(c) ==
  LET r == requests[c] IN
  /\ Doing(c, "insert")
  /\ IF Exists(r.user) THEN Answer(c) /\ UNCHANGED users
     ELSE /\ users' = [users EXCEPT ![r.user] = NewAccount(r.arg, r.role)]
          /\ Proceed(c, "linux")
  /\ UNCHANGED <<sessions, linux, samba, limits, served, accountFaults, grants, bootVars>>

\* INSERT OR REPLACE INTO user_app_access: the foreign key refuses a grant to an
\* account deleted meanwhile.
GrantAccess(c) ==
  LET r == requests[c] IN
  /\ Doing(c, "grant") /\ Answer(c)
  /\ grants' = IF Exists(r.user) THEN grants \cup {[user |-> r.user, app |-> r.arg]} ELSE grants
  /\ UNCHANGED <<users, sessions, linux, samba, limits, served, accountFaults, bootVars>>

DeleteAccount(c) ==
  /\ Doing(c, "delete") /\ Proceed(c, "unlinux")
  /\ Deleted(requests[c].user)
  /\ UNCHANGED <<linux, samba, limits, served, accountFaults, bootVars>>

NewContent(r, row) ==
  CASE r.kind = "change" -> [row EXCEPT !.pass = r.arg]
    [] r.kind = "update" -> [row EXCEPT !.pass = r.arg, !.role = r.role]
    [] r.kind = "totpSetup" -> [row EXCEPT !.secret = "secret", !.enabled = FALSE]
    [] r.kind = "totpVerify" -> [row EXCEPT !.enabled = TRUE, !.codes = Codes]
    [] r.kind = "totpDisable" -> [row EXCEPT !.secret = "none", !.enabled = FALSE]

UpdateAccount(c) ==
  LET r == requests[c] IN
  /\ Doing(c, "update")
  /\ users' = Updated(r.user, NewContent(r, users[r.user]))
  /\ IF r.kind = "change" THEN Proceed(c, "sessions") ELSE Answer(c)
  /\ UNCHANGED <<sessions, linux, samba, limits, served, accountFaults, grants, bootVars>>

DropSessions(c) ==
  /\ Doing(c, "sessions") /\ Proceed(c, "samba")
  /\ sessions' = {s \in sessions : s.user # requests[c].user}
  /\ UNCHANGED <<users, linux, samba, limits, served, accountFaults, grants, bootVars>>

\* user.create: useradd unless there is such an account.
CreateLinux(c) ==
  /\ Doing(c, "linux") /\ Proceed(c, "samba")
  /\ linux' = linux \cup {requests[c].user}
  /\ UNCHANGED <<users, sessions, samba, limits, served, accountFaults, grants, bootVars>>

\* user.set_smb_password makes the Linux account too.  Its answer is ignored:
\* smbpasswd may fail and the handler goes on.
SetSamba(c) ==
  LET r == requests[c] IN
  /\ Doing(c, "samba")
  /\ linux' = linux \cup {r.user}
  /\ \/ samba' = [samba EXCEPT ![r.user] = r.arg] /\ UNCHANGED accountFaults
     \/ /\ accountFaults < MaxAccountFaults /\ accountFaults' = accountFaults + 1
        /\ UNCHANGED samba
  /\ IF r.kind = "setup" THEN Proceed(c, "session")
     ELSE IF r.kind = "update" THEN Proceed(c, "update") ELSE Answer(c)
  /\ UNCHANGED <<users, sessions, limits, served, grants, bootVars>>

\* user.delete: smbpasswd -x and userdel.
DeleteLinux(c) ==
  LET u == requests[c].user IN
  /\ Doing(c, "unlinux") /\ Answer(c)
  /\ samba' = [samba EXCEPT ![u] = "none"]
  /\ linux' = linux \ {u}
  /\ UNCHANGED <<users, sessions, limits, served, accountFaults, grants, bootVars>>

\* A session not used for a day goes: dbSessionGet or the clean-up removes it.
SessionExpires(s) ==
  /\ sessions' = sessions \ {s}
  /\ UNCHANGED <<users, linux, samba, limits, requests, served, accountFaults, grants, bootVars>>

\* The daemon restarts, in the middle of a start too: requests and the limiter
\* are lost, the tables and the files stay.
AccountsRestart ==
  /\ accountFaults < MaxAccountFaults /\ accountFaults' = accountFaults + 1
  /\ booting' = "users" /\ json' = [json EXCEPT !.migrated = FALSE]
  /\ requests' = [c \in AccountClients |-> NoRequestYet]
  /\ limits' = [k \in DOMAIN limits |-> NoEntry]
  /\ UNCHANGED <<users, sessions, linux, samba, served, grants>>

-------------------------------------------------------------------------------
(* migrateFromJSON: users.json names the founder; sessions.json has a      *)
(* session of every account, of one that users.json no longer names too.   *)

MigrateUsers ==
  LET empty == \A u \in Accounts : ~Exists(u) IN
  /\ booting = "users" /\ booting' = "sessions"
  /\ IF json.there /\ empty
     THEN /\ users' = [users EXCEPT ![Founder] = NewAccount("first", "admin")]
          /\ json' = [json EXCEPT !.migrated = TRUE]
     ELSE UNCHANGED <<users, json>>
  /\ UNCHANGED <<sessions, linux, samba, limits, requests, served, accountFaults, grants>>

\* INSERT OR IGNORE, which the foreign key may still refuse.
MigrateSessions ==
  /\ booting = "sessions" /\ booting' = "rename"
  /\ IF json.there /\ sessions = {}
     THEN /\ sessions' = {[id |-> <<"json", 0>>, user |-> u, role |-> users[u].role] :
                            u \in {v \in Accounts : Exists(v)}}
          /\ json' = [json EXCEPT !.migrated = TRUE]
     ELSE UNCHANGED <<sessions, json>>
  /\ UNCHANGED <<users, linux, samba, limits, requests, served, accountFaults, grants>>

\* The files are renamed only by the start that took something from them.
RenameFiles ==
  /\ booting = "rename" /\ booting' = "no"
  /\ json' = [there |-> json.there /\ ~json.migrated, migrated |-> FALSE]
  /\ UNCHANGED <<users, sessions, linux, samba, limits, requests, served, accountFaults, grants>>

-------------------------------------------------------------------------------
AccountStep(c) ==
  \/ VerifyLogin(c) \/ (\E code \in Codes \cup {"empty", "right", "wrong"} : ReadLoginAccount(c, code))
  \/ SpendBackupCode(c) \/ ClearFailed(c) \/ CreateSession(c)
  \/ InsertAccount(c) \/ GrantAccess(c) \/ DeleteAccount(c) \/ UpdateAccount(c) \/ DropSessions(c)
  \/ CreateLinux(c) \/ SetSamba(c) \/ DeleteLinux(c)

AuthRequest(c) ==
  \E u \in Accounts, p \in Passwords :
    \/ BeginSetup(c, u, p) \/ BeginLogin(c, u, p)
    \/ \E s \in sessions :
         \/ \E current \in Passwords : BeginChangePassword(c, s, u, p, current)
         \/ BeginTotpSetup(c, s) \/ BeginTotpVerify(c, s) \/ BeginTotpDisable(c, s, p)

UsersRequest(c) ==
  \E u \in Accounts, p \in Passwords, role \in Roles, s \in sessions :
    \/ BeginCreate(c, s, u, p, role) \/ BeginUpdate(c, s, u, p, role) \/ BeginDelete(c, s, u)

AccessRequest(c) ==
  \E u \in Accounts, app \in GrantedApps, s \in sessions : BeginGrant(c, s, u, app)

AccountsNext ==
  \/ \E c \in AccountClients :
       AuthRequest(c) \/ UsersRequest(c) \/ AccessRequest(c) \/ AccountStep(c)
  \/ \E s \in sessions : \/ Logout(s) \/ SessionExpires(s)
                          \/ \E g \in grants : Revoke(s, g)
  \/ QuarterPasses \/ CleanupLimits \/ AccountsRestart
  \/ MigrateUsers \/ MigrateSessions \/ RenameFiles

AccountsSpec == AccountsInit /\ [][AccountsNext]_accountVars

-------------------------------------------------------------------------------
(* No session and no grant outlives its account: whatever a login, a setup, *)
(* a grant or another administrator had in progress when the account was    *)
(* deleted (usersDelete removes neither itself), and whatever the files of  *)
(* the previous version still name, every row of sessions and of           *)
(* user_app_access belongs to an account of the table.  A handler trusts   *)
(* the session's user name and role without reading users again, and an    *)
(* account created later under the same name starts without either.        *)
SessionsHaveAccounts ==
  /\ \A s \in sessions : Exists(s.user)
  /\ \A g \in grants : Exists(g.user)
===============================================================================
