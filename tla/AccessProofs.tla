---------------------------- MODULE AccessProofs ----------------------------
(* Theorems about who may come in: the tunnel, the accounts and the shield.   *)
EXTENDS WireGuard, Accounts, Shield, FiniteSetTheorems, WellFoundedInduction, NaturalsInduction,
        TLAPS

-----------------------------------------------------------------------------
(* The addresses of the tunnel stay distinct, for any remotes and any      *)
(* number of overlapping requests.  A copy that a request writes back may  *)
(* undo another's change, but it was consistent when it was read; what     *)
(* keeps it so is that every address handed out is below the counter of    *)
(* the same copy (Sound).                                                  *)

Calls == {"exchange", "pair", "remove", "setup", "up", "down"}
Steps == {"load", "init", "call", "assigned", "peer", "change", "conf", "link"}

PeerType == [key : Remotes, address : Nat, device : Remotes \cup {"pending"}]
FullState == [made : {TRUE}, key : Nat, local : {1, 2}, peers : SUBSET PeerType, next : Nat]
StateType == {NoState} \cup FullState
JobType == [id : 0..MaxWgJobs, what : Calls, remote : Remotes \cup {"none"},
            pc : Steps, copy : StateType]

\* The peers of a state are apart, and its counter is beyond their addresses.
Sound(s) ==
  s.made =>
    /\ \A p, q \in s.peers : p # q => p.address # q.address /\ p.key # q.key
    /\ \A p \in s.peers : p.address < s.next

\* A request that has read the state has a sound copy of it.
WgJobSound(j) ==
  /\ Sound(j.copy)
  /\ j.pc \notin {"load", "link"} => j.copy.made
  /\ j.what \in {"exchange", "pair", "remove"} => j.remote \in Remotes
  /\ j.pc \in {"call", "assigned", "peer"} => j.what = "pair"
  /\ j.pc = "change" => j.what \in {"exchange", "pair", "remove"}
  /\ j.what = "down" => j.pc = "link"

WgTypes ==
  /\ wgState \in StateType /\ wgConf \in StateType /\ wgLink \in StateType
  /\ wgJobs \subseteq JobType
  /\ nextKey \in Nat
  /\ wgJobsLeft \in 0..MaxWgJobs

WgInv ==
  /\ WgTypes
  /\ Sound(wgState) /\ Sound(wgConf) /\ Sound(wgLink)
  /\ \A j \in wgJobs : WgJobSound(j)

---------------------------------------------------------------------------
(* The changes of a copy. *)

LEMMA Extended ==
  ASSUME NEW s \in FullState, Sound(s), NEW kept \in SUBSET s.peers, NEW new \in PeerType,
         new.address = s.next, \A p \in kept : p.key # new.key,
         NEW t, t = [s EXCEPT !.peers = kept \cup {new}, !.next = s.next + 1]
  PROVE  t \in FullState /\ Sound(t)
<1>1. /\ s.peers \subseteq PeerType /\ s.next \in Nat /\ s.made
      /\ \A p \in s.peers : p.address \in Nat /\ p.address < s.next
      /\ \A p, q \in s.peers : p # q => p.address # q.address /\ p.key # q.key
  BY DEF Sound, FullState, PeerType
<1> DEFINE after == kept \cup {new}
<1>2. after \in SUBSET PeerType /\ s.next + 1 \in Nat
  BY <1>1
<1>3. \A p, q \in after : p # q => p.address # q.address /\ p.key # q.key
  BY <1>1
<1>4. \A p \in after : p.address < s.next + 1
  BY <1>1
<1> HIDE DEF after
<1>5. t = [s EXCEPT !.peers = after, !.next = s.next + 1]
  BY DEF after
<1>6. t \in FullState /\ t.peers = after /\ t.next = s.next + 1
  BY <1>2, <1>5 DEF FullState
<1> QED BY <1>3, <1>4, <1>6 DEF Sound

\* A remote that pairs again loses its address to a new one above all others.
LEMMA ExchangedSound ==
  ASSUME NEW j \in JobType, j.copy \in FullState, Sound(j.copy), j.remote \in Remotes
  PROVE  Exchanged(j) \in FullState /\ Sound(Exchanged(j))
<1> DEFINE known == {p \in j.copy.peers : p.key = j.remote}
           device == IF known = {} THEN "pending" ELSE (CHOOSE p \in known : TRUE).device
           new == Peer(j.remote, j.copy.next, device)
<1>1. device \in Remotes \cup {"pending"}
  <2>1. CASE known = {}
    BY <2>1
  <2>2. CASE known # {}
    <3>1. (CHOOSE p \in known : TRUE) \in known
      BY <2>2
    <3>2. (CHOOSE p \in known : TRUE) \in PeerType
      BY <3>1 DEF FullState
    <3> QED BY <3>2, <2>2 DEF PeerType
  <2> QED BY <2>1, <2>2
<1> HIDE DEF device
<1>2. new \in PeerType
  BY <1>1 DEF PeerType, Peer, FullState
<1>3. Exchanged(j) = [j.copy EXCEPT !.peers = (@ \ known) \cup {new}, !.next = j.copy.next + 1]
  BY DEF Exchanged, NextPeerIP, device
<1>4. new.address = j.copy.next /\ new.key = j.remote
  BY DEF Peer
<1> DEFINE kept == j.copy.peers \ known
<1>5. kept \in SUBSET j.copy.peers /\ \A p \in kept : p.key # j.remote
  OBVIOUS
<1>6. Exchanged(j) = [j.copy EXCEPT !.peers = kept \cup {new}, !.next = j.copy.next + 1]
  BY <1>3
<1> HIDE DEF new, kept
<1> DEFINE s == j.copy
           t == Exchanged(j)
<1>7. s \in FullState /\ Sound(s) /\ new.address = s.next
      /\ kept \in SUBSET s.peers /\ \A p \in kept : p.key # new.key
  BY <1>4, <1>5
<1>8. t = [s EXCEPT !.peers = kept \cup {new}, !.next = s.next + 1]
  BY <1>6
<1> HIDE DEF s, t
<1>9. t \in FullState /\ Sound(t)
  BY <1>2, <1>7, <1>8, Extended
<1> QED BY <1>9 DEF t

\* A remote that is known stays; a new one has the next address.
LEMMA PairedSound ==
  ASSUME NEW j \in JobType, j.copy \in FullState, Sound(j.copy), j.remote \in Remotes
  PROVE  Paired(j) \in FullState /\ Sound(Paired(j))
<1>1. CASE \E p \in j.copy.peers : p.key = j.remote
  BY <1>1 DEF Paired
<1>2. CASE ~\E p \in j.copy.peers : p.key = j.remote
  <2> DEFINE new == Peer(j.remote, j.copy.next, j.remote)
  <2>1. new \in PeerType /\ new.address = j.copy.next /\ new.key = j.remote
    BY DEF PeerType, Peer, FullState
  <2>2. Paired(j) = [j.copy EXCEPT !.peers = j.copy.peers \cup {new}, !.next = j.copy.next + 1]
    BY <1>2 DEF Paired, NextPeerIP
  <2> HIDE DEF new
  <2> DEFINE s == j.copy
             t == Paired(j)
  <2>3. s \in FullState /\ Sound(s) /\ new.address = s.next /\ \A p \in s.peers : p.key # new.key
    BY <1>2, <2>1
  <2>4. t = [s EXCEPT !.peers = s.peers \cup {new}, !.next = s.next + 1]
    BY <2>2
  <2> HIDE DEF s, t
  <2>5. t \in FullState /\ Sound(t)
    BY <2>1, <2>3, <2>4, Extended
  <2> QED BY <2>5 DEF t
<1> QED BY <1>1, <1>2

\* A removal takes peers away and leaves the counter.
LEMMA RemovedSound ==
  ASSUME NEW j \in JobType, j.copy \in FullState, Sound(j.copy)
  PROVE  Removed(j) \in FullState /\ Sound(Removed(j))
<1>1. Removed(j) \in FullState
  BY DEF Removed, FullState
<1>2. Removed(j).peers \subseteq j.copy.peers /\ Removed(j).next = j.copy.next
  BY DEF Removed, FullState
<1> QED BY <1>1, <1>2 DEF Sound, FullState

LEMMA ChangedSound ==
  ASSUME NEW j \in JobType, j.copy \in FullState, Sound(j.copy), j.remote \in Remotes,
         j.what \in {"exchange", "pair", "remove"}
  PROVE  Changed(j) \in FullState /\ Sound(Changed(j))
<1>1. CASE j.what = "exchange"
  BY <1>1, ExchangedSound DEF Changed
<1>2. CASE j.what = "pair"
  BY <1>2, PairedSound DEF Changed
<1>3. CASE j.what = "remove"
  BY <1>3, RemovedSound DEF Changed
<1> QED BY <1>1, <1>2, <1>3

\* A state that is made is a full one.
LEMMA MadeIsFull ==
  ASSUME NEW s \in StateType, s.made PROVE s \in FullState
<1>1. ~NoState.made
  BY DEF NoState
<1> QED BY <1>1 DEF StateType

---------------------------------------------------------------------------
(* The steps. *)

LEMMA WgInitInv == WgInit => WgInv
<1> SUFFICES ASSUME WgInit PROVE WgInv
  OBVIOUS
<1>1. \A r \in Remotes : LET s == [made |-> TRUE, key |-> 0, local |-> 1,
                                   peers |-> {Peer(r, 2, r)}, next |-> 3]
                         IN s \in FullState /\ Sound(s)
  BY DEF FullState, Sound, PeerType, Peer
<1>2. wgState \in StateType /\ Sound(wgState)
  BY <1>1 DEF WgInit, StateType, Sound, NoState
<1>3. wgConf = wgState /\ wgLink \in {NoState, wgState} /\ wgJobs = {}
  BY DEF WgInit
<1>4. NoState \in StateType /\ Sound(NoState)
  BY DEF StateType, Sound, NoState
<1>5. WgTypes
  BY <1>2, <1>3, <1>4, WgAssumption DEF WgInit, WgTypes
<1> QED BY <1>2, <1>3, <1>4, <1>5 DEF WgInv

\* A step that replaces one request by a sound one keeps the requests sound.
LEMMA ThenSound ==
  ASSUME WgInv, NEW j \in wgJobs, NEW to \in JobType, WgJobSound(to), Then(j, to)
  PROVE  wgJobs' \subseteq JobType /\ \A k \in wgJobs' : WgJobSound(k)
BY DEF WgInv, WgTypes, Then

LEMMA OverSound ==
  ASSUME WgInv, NEW j \in wgJobs, Over(j)
  PROVE  wgJobs' \subseteq JobType /\ \A k \in wgJobs' : WgJobSound(k)
BY DEF WgInv, WgTypes, Over


\* A copy of the state that is read, or generated, is sound.
LEMMA LoadInv ==
  ASSUME WgInv, NEW j \in wgJobs, Load(j)
  PROVE  WgInv'
<1> DEFINE pc == IF j.pc = "peer" THEN "change" ELSE AfterLoad(j)
<1> USE DEF WgInv, WgTypes
<1>1. j \in JobType /\ WgJobSound(j) /\ j.pc \in {"load", "peer"}
  BY DEF Load
<1>2. pc \in {"call", "conf", "change"}
  BY DEF AfterLoad
<1>3. /\ pc = "call" => j.what = "pair"
      /\ pc = "change" => j.what \in {"exchange", "pair", "remove"}
  BY <1>1 DEF AfterLoad, WgJobSound, JobType, Calls
<1>4. UNCHANGED <<wgState, wgConf, wgLink, wgJobsLeft>>
  BY DEF Load, Kept
<1>5. CASE wgState.made
  <2> DEFINE to == [j EXCEPT !.pc = pc, !.copy = wgState]
  <2> HIDE DEF pc
  <2>1. to \in JobType /\ WgJobSound(to)
    BY <1>1, <1>2, <1>3, <1>5 DEF JobType, WgJobSound, Steps
  <2>2. Then(j, to) /\ UNCHANGED nextKey
    BY <1>5 DEF Load, pc
  <2> QED BY <1>4, <2>1, <2>2, ThenSound
<1>6. CASE ~wgState.made /\ j.what \in {"remove", "up"}
  <2>1. Over(j) /\ UNCHANGED nextKey
    BY <1>6 DEF Load
  <2> QED BY <1>4, <2>1, OverSound
<1>7. CASE ~wgState.made /\ j.what \notin {"remove", "up"}
  <2> DEFINE to == [j EXCEPT !.pc = "init", !.copy = FreshState]
  <2>1. FreshState \in FullState /\ Sound(FreshState)
    BY DEF FreshState, FullState, Sound
  <2>2. FreshState.made
    BY DEF FreshState
  <2>3. to \in JobType /\ WgJobSound(to)
    BY <1>1, <2>1, <2>2 DEF JobType, WgJobSound, Steps, StateType
  <2>4. Then(j, to) /\ nextKey' = nextKey + 1
    BY <1>7 DEF Load
  <2> QED BY <1>4, <2>3, <2>4, ThenSound
<1> QED BY <1>5, <1>6, <1>7

\* What is written is the sound copy of the request.
LEMMA WritesInv ==
  ASSUME WgInv, NEW j \in wgJobs,
         SaveFresh(j) \/ Modify(j) \/ PairCall(j) \/ Assigned(j)
  PROVE  WgInv'
<1> USE DEF WgInv, WgTypes
<1>1. j \in JobType /\ WgJobSound(j)
  OBVIOUS
<1>2. j.pc \notin {"load", "link"}
  BY DEF SaveFresh, Modify, PairCall, Assigned
<1>3. j.copy \in FullState /\ Sound(j.copy) /\ j.copy \in StateType
  BY <1>1, <1>2, MadeIsFull DEF WgJobSound, JobType
<1>4. UNCHANGED <<wgLink, wgJobsLeft, nextKey>>
  BY DEF SaveFresh, Modify, PairCall, Assigned, Kept
<1>5. CASE SaveFresh(j)
  <2> DEFINE to == [j EXCEPT !.pc = AfterLoad(j)]
  <2>1. to \in JobType /\ WgJobSound(to)
    BY <1>1, <1>3, <1>5 DEF JobType, WgJobSound, AfterLoad, SaveFresh, Steps, Calls, FullState
  <2>2. Then(j, to) /\ wgState' = j.copy /\ UNCHANGED wgConf
    BY <1>5 DEF SaveFresh
  <2> QED BY <1>3, <1>4, <2>1, <2>2, ThenSound
<1>6. CASE Modify(j)
  <2>1. j.what \in {"exchange", "pair", "remove"} /\ j.remote \in Remotes
    BY <1>1, <1>6 DEF Modify, WgJobSound
  <2>2. Changed(j) \in FullState /\ Sound(Changed(j))
    BY <1>1, <1>3, <2>1, ChangedSound
  <2> DEFINE to == [j EXCEPT !.pc = "conf", !.copy = Changed(j)]
  <2>3. to \in JobType /\ WgJobSound(to)
    BY <1>1, <2>1, <2>2 DEF JobType, WgJobSound, Steps, StateType, FullState
  <2>4. \/ Then(j, to) /\ wgState' = Changed(j) /\ UNCHANGED wgConf
        \/ Over(j) /\ UNCHANGED <<wgState, wgConf>>
    BY <1>6 DEF Modify
  <2> QED BY <1>4, <2>2, <2>3, <2>4, ThenSound, OverSound DEF StateType
<1>7. CASE PairCall(j)
  <2>1. PICK address \in {1, 2} :
          Then(j, [j EXCEPT !.pc = "assigned", !.copy.local = address])
    BY <1>7 DEF PairCall
  <2> DEFINE copy == [j.copy EXCEPT !.local = address]
             to == [j EXCEPT !.pc = "assigned", !.copy = copy]
  <2>2. copy \in FullState /\ Sound(copy)
    BY <1>3 DEF FullState, Sound
  <2>3. to \in JobType /\ WgJobSound(to)
    BY <1>1, <1>7, <2>2 DEF JobType, WgJobSound, Steps, StateType, FullState, PairCall
  <2>4. Then(j, to) /\ UNCHANGED <<wgState, wgConf>>
    BY <2>1, <1>7 DEF PairCall
  <2> QED BY <1>4, <2>3, <2>4, ThenSound
<1>8. CASE Assigned(j)
  <2> DEFINE to == [j EXCEPT !.pc = "peer"]
  <2>1. to \in JobType /\ WgJobSound(to)
    BY <1>1, <1>3, <1>8 DEF JobType, WgJobSound, Assigned, Steps, FullState
  <2>2. Then(j, to) /\ wgState' = j.copy /\ wgConf' = j.copy
    BY <1>8 DEF Assigned
  <2> QED BY <1>3, <1>4, <2>1, <2>2, ThenSound
<1> QED BY <1>5, <1>6, <1>7, <1>8

\* The configuration is the copy, the interface is the configuration.
LEMMA LinksInv ==
  ASSUME WgInv, NEW j \in wgJobs, WriteConf(j) \/ Link(j) \/ JobFails(j)
  PROVE  WgInv'
<1> USE DEF WgInv, WgTypes
<1>1. j \in JobType /\ WgJobSound(j) /\ Sound(j.copy) /\ j.copy \in StateType
  BY DEF WgJobSound, JobType
<1>2. UNCHANGED <<wgState, nextKey, wgJobsLeft>>
  BY DEF WriteConf, Link, JobFails, Kept
<1>3. CASE WriteConf(j)
  <2> DEFINE to == [j EXCEPT !.pc = "link"]
  <2>1. to \in JobType /\ WgJobSound(to)
    BY <1>1 DEF JobType, WgJobSound, Steps
  <2>2. wgConf' = j.copy /\ (Over(j) \/ Then(j, to)) /\ UNCHANGED wgLink
    BY <1>3 DEF WriteConf
  <2> QED BY <1>1, <1>2, <2>1, <2>2, ThenSound, OverSound
<1>4. CASE Link(j)
  <2>1. wgLink' \in {NoState, wgConf} /\ Over(j) /\ UNCHANGED wgConf
    BY <1>4 DEF Link
  <2>2. NoState \in StateType /\ Sound(NoState)
    BY DEF StateType, Sound, NoState
  <2> QED BY <1>2, <2>1, <2>2, OverSound
<1>5. CASE JobFails(j)
  <2>1. Over(j) /\ UNCHANGED <<wgConf, wgLink>>
    BY <1>5 DEF JobFails
  <2> QED BY <1>2, <2>1, OverSound
<1> QED BY <1>3, <1>4, <1>5

LEMMA RequestInv == ASSUME WgInv, WgRequest PROVE WgInv'
<1> USE DEF WgInv, WgTypes
<1>1. PICK call \in {"exchange", "pair", "remove"} \X Remotes \cup {"setup", "up", "down"} \X {"none"} :
        wgJobs' = wgJobs \cup {[id |-> wgJobsLeft, what |-> call[1], remote |-> call[2],
                               pc |-> IF call[1] = "down" THEN "link" ELSE "load", copy |-> NoCopy]}
  BY DEF WgRequest
<1> DEFINE new == [id |-> wgJobsLeft, what |-> call[1], remote |-> call[2],
                   pc |-> IF call[1] = "down" THEN "link" ELSE "load", copy |-> NoCopy]
<1>2. NoCopy \in StateType /\ Sound(NoCopy)
  BY DEF NoCopy, NoState, StateType, Sound
<1>3. /\ call[1] \in Calls /\ call[2] \in Remotes \cup {"none"}
      /\ call[1] \in {"exchange", "pair", "remove"} => call[2] \in Remotes
  BY <1>1 DEF Calls
<1>4. new \in JobType /\ WgJobSound(new)
  BY <1>2, <1>3 DEF JobType, WgJobSound, Steps
<1>5. wgJobsLeft' \in 0..MaxWgJobs /\ UNCHANGED <<wgState, wgConf, wgLink, nextKey>>
  BY WgAssumption DEF WgRequest
<1> QED BY <1>1, <1>4, <1>5

LEMMA WgNextInv == ASSUME WgInv, [WgNext]_wgVars PROVE WgInv'
<1>1. CASE WgRequest
  BY <1>1, RequestInv
<1>2. ASSUME NEW j \in wgJobs, WgStep(j) PROVE WgInv'
  BY <1>2, LoadInv, WritesInv, LinksInv DEF WgStep
<1>3. CASE UNCHANGED wgVars
  BY <1>3 DEF wgVars, WgInv, WgTypes
<1> QED BY <1>1, <1>2, <1>3 DEF WgNext

\* However requests overlap (handleWGExchange, handleWGPair, handleWGRemove and the
\* others take no lock), the peers of wireguard-state.json, of wg0.conf and of the
\* interface have an address and a key each, for any remotes and number of requests.
THEOREM TunnelAddresses == WgSpec => []AddressesDistinct
<1>1. WgInv => AddressesDistinct
  BY DEF WgInv, AddressesDistinct, Sound
<1> QED BY WgInitInv, WgNextInv, <1>1, PTL DEF WgSpec
-----------------------------------------------------------------------------
(* No session and no grant without its account, for any accounts and any   *)
(* number of requests that interleave statement by statement.  The foreign *)
(* keys refuse what comes too late; what remains to be shown is that no    *)
(* statement makes an account disappear but the one that takes its         *)
(* sessions and grants with it: an UPDATE leaves a password, because every *)
(* request that writes one carries one (RequestSound).                     *)

Rows == [pass : Passwords \cup {"none"}, role : Roles \cup {"none"},
         secret : {"secret", "none"}, enabled : BOOLEAN, codes : SUBSET Codes]

Kinds == {"none", "setup", "login", "change", "totpSetup", "totpVerify", "totpDisable",
          "create", "delete", "update", "grant"}
Statements == {"none", "insert", "password", "account", "spend", "clear", "session", "update",
               "sessions", "samba", "linux", "delete", "unlinux", "grant"}
Arguments == Passwords \cup Codes \cup GrantedApps \cup {"none", "empty", "right", "wrong", "secret"}

Requests == [pc : Statements, kind : Kinds, user : Accounts \cup {"none"}, arg : Arguments,
             role : Roles \cup {"none"}, row : Rows]

\* What a request carries by the time of its statement.
RequestSound(r) ==
  /\ r.pc # "none" => r.user \in Accounts
  /\ r.kind \in {"setup", "create", "change", "update"} => r.arg \in Passwords
  /\ r.pc \in {"password", "account"} => r.kind = "login"
  /\ r.pc = "insert" => r.kind \in {"setup", "create"}
  /\ r.pc = "update" => r.kind \in {"change", "update", "totpSetup", "totpVerify", "totpDisable"}

RequestsSound ==
  /\ requests \in [AccountClients -> Requests]
  /\ \A c \in AccountClients : RequestSound(requests[c])

\* An account of the table has a password.
TableSound ==
  /\ users \in [Accounts -> Rows]
  /\ \A u \in Accounts : Exists(u) => users[u].pass \in Passwords

\* A session and a grant name an account that may exist.
NamesSound ==
  /\ \A s \in sessions : s.user \in Accounts
  /\ \A g \in grants : g.user \in Accounts

AccountsInv == RequestsSound /\ TableSound /\ NamesSound /\ SessionsHaveAccounts

-------------------------------------------------------------------------------
LEMMA NoAccountRow == NoAccount \in Rows /\ NoAccount.pass \notin Passwords
BY DEF NoAccount, Rows, Passwords

LEMMA NewAccountRow ==
  ASSUME NEW p \in Passwords, NEW r \in Roles \cup {"none"}
  PROVE  /\ NewAccount(p, r) \in Rows
         /\ NewAccount(p, r).pass = p
         /\ NewAccount(p, r) # NoAccount
BY DEF NewAccount, NoAccount, Rows, Passwords

LEMMA NoRequestSound == NoRequestYet \in Requests /\ RequestSound(NoRequestYet)
BY NoAccountRow DEF NoRequestYet, Requests, RequestSound, Kinds, Statements, Arguments

-------------------------------------------------------------------------------
(* The tables: a step that writes rows with passwords over accounts and    *)
(* adds sessions and grants of accounts only.                              *)

LEMMA RowsKept ==
  ASSUME AccountsInv, NEW u \in Accounts, NEW row \in Rows, row.pass \in Passwords,
         users' = [users EXCEPT ![u] = row] \/ users' = users,
         \A s \in sessions' : s \in sessions \/ (s.user \in Accounts /\ Exists(s.user)),
         \A g \in grants' : g \in grants \/ (g.user \in Accounts /\ Exists(g.user))
  PROVE  TableSound' /\ NamesSound' /\ SessionsHaveAccounts'
<1>1. row # NoAccount
  BY NoAccountRow
<1>2. TableSound'
  BY <1>1 DEF AccountsInv, TableSound, Exists
<1>3. \A a \in Accounts : Exists(a) => Exists(a)'
  BY <1>1 DEF AccountsInv, TableSound, Exists
<1>4. NamesSound'
  BY DEF AccountsInv, NamesSound
<1>5. SessionsHaveAccounts'
  <2>1. ASSUME NEW s \in sessions' PROVE Exists(s.user)'
    BY <1>3, <2>1 DEF AccountsInv, NamesSound, SessionsHaveAccounts
  <2>2. ASSUME NEW g \in grants' PROVE Exists(g.user)'
    BY <1>3, <2>2 DEF AccountsInv, NamesSound, SessionsHaveAccounts
  <2> QED BY <2>1, <2>2 DEF SessionsHaveAccounts
<1> QED BY <1>2, <1>4, <1>5

\* Rows stay, sessions and grants may go.
LEMMA TablesKept ==
  ASSUME AccountsInv, users' = users, sessions' \subseteq sessions, grants' \subseteq grants
  PROVE  TableSound' /\ NamesSound' /\ SessionsHaveAccounts'
BY DEF AccountsInv, TableSound, NamesSound, SessionsHaveAccounts, Exists

\* A request that is replaced by a sound one.
LEMMA RequestKept ==
  ASSUME AccountsInv, NEW c \in AccountClients, NEW r \in Requests, RequestSound(r),
         requests' = [requests EXCEPT ![c] = r]
  PROVE  RequestsSound'
BY DEF AccountsInv, RequestsSound

LEMMA AnswerKept ==
  ASSUME AccountsInv, NEW c \in AccountClients, Answer(c)
  PROVE  RequestsSound'
BY RequestKept, NoRequestSound DEF Answer

\* The pc moves on; only "insert" and "update" ask more of the request.
LEMMA ProceedKept ==
  ASSUME AccountsInv, NEW c \in AccountClients, NEW pc \in Statements,
         requests[c].pc # "none", pc \notin {"password", "insert"},
         pc = "account" => requests[c].kind = "login",
         pc = "update" => requests[c].kind = "update", Proceed(c, pc)
  PROVE  RequestsSound'
<1> DEFINE r == [requests[c] EXCEPT !.pc = pc]
<1>1. requests[c] \in Requests /\ RequestSound(requests[c])
  BY DEF AccountsInv, RequestsSound
<1>2. r \in Requests /\ RequestSound(r)
  BY <1>1 DEF Requests, RequestSound
<1>3. requests' = [requests EXCEPT ![c] = r]
  BY DEF Proceed
<1> QED BY <1>2, <1>3, RequestKept

-------------------------------------------------------------------------------
(* The first parts of the handlers.                                        *)

LEMMA AccountJobSound ==
  ASSUME NEW kind \in Kinds, NEW u \in Accounts, NEW arg \in Arguments, NEW pc \in Statements,
         kind \in {"setup", "create", "change", "update"} => arg \in Passwords,
         pc \in {"password", "account"} => kind = "login",
         pc = "insert" => kind \in {"setup", "create"},
         pc = "update" => kind \in {"change", "update", "totpSetup", "totpVerify", "totpDisable"}
  PROVE  /\ Job(kind, u, arg, pc) \in Requests /\ RequestSound(Job(kind, u, arg, pc))
         /\ \A role \in Roles \cup {"none"} :
              LET r == [Job(kind, u, arg, pc) EXCEPT !.role = role]
              IN r \in Requests /\ RequestSound(r)
<1>1. NoRequestYet \in Requests
  BY NoRequestSound
<1>2. Job(kind, u, arg, pc) \in Requests
  BY <1>1 DEF Job, Requests
<1>3. /\ Job(kind, u, arg, pc).kind = kind /\ Job(kind, u, arg, pc).user = u
      /\ Job(kind, u, arg, pc).arg = arg /\ Job(kind, u, arg, pc).pc = pc
  BY <1>1 DEF Job, Requests
<1> QED BY <1>2, <1>3 DEF RequestSound, Requests

LEMMA AcceptKept ==
  ASSUME AccountsInv, NEW c \in AccountClients, NEW r \in Requests, RequestSound(r), Accept(c, r)
  PROVE  RequestsSound'
BY RequestKept DEF Accept

LEMMA AuthRequestInv ==
  ASSUME AccountsInv, NEW c \in AccountClients, AuthRequest(c)
  PROVE  AccountsInv'
<1>1. PICK u \in Accounts, p \in Passwords :
        \/ BeginSetup(c, u, p) \/ BeginLogin(c, u, p)
        \/ \E s \in sessions :
             \/ \E current \in Passwords : BeginChangePassword(c, s, u, p, current)
             \/ BeginTotpSetup(c, s) \/ BeginTotpVerify(c, s) \/ BeginTotpDisable(c, s, p)
  BY DEF AuthRequest
<1>2. p \in Arguments /\ "none" \in Arguments /\ "secret" \in Arguments
  BY DEF Arguments
<1>3. users' = users /\ sessions' = sessions /\ grants' = grants
  BY <1>1 DEF BeginSetup, BeginLogin, BeginChangePassword, BeginTotpSetup, BeginTotpVerify,
              BeginTotpDisable
<1>4. RequestsSound'
  <2>1. CASE BeginSetup(c, u, p)
    <3> DEFINE r == [Job("setup", u, p, "insert") EXCEPT !.role = "admin"]
    <3>1. r \in Requests /\ RequestSound(r)
      BY <1>2, AccountJobSound DEF Kinds, Statements, Roles
    <3>2. Accept(c, r)
      BY <2>1 DEF BeginSetup
    <3> HIDE DEF r
    <3> QED BY <3>1, <3>2, AcceptKept
  <2>2. CASE BeginLogin(c, u, p)
    BY <1>2, <2>2, AccountJobSound, AcceptKept DEF BeginLogin, Kinds, Statements
  <2>3. ASSUME NEW s \in sessions, NEW current \in Passwords, BeginChangePassword(c, s, u, p, current)
        PROVE  RequestsSound'
    <3>1. s.user \in Accounts
      BY DEF AccountsInv, NamesSound
    <3> DEFINE who == IF s.role = "admin" THEN u ELSE s.user
    <3>2. who \in Accounts /\ Accept(c, Job("change", who, p, "update"))
      BY <2>3, <3>1 DEF BeginChangePassword
    <3> HIDE DEF who
    <3> QED BY <1>2, <3>2, AccountJobSound, AcceptKept DEF Kinds, Statements
  <2>4. ASSUME NEW s \in sessions,
               BeginTotpSetup(c, s) \/ BeginTotpVerify(c, s) \/ BeginTotpDisable(c, s, p)
        PROVE  RequestsSound'
    <3>1. s.user \in Accounts
      BY DEF AccountsInv, NamesSound
    <3> QED BY <1>2, <2>4, <3>1, AccountJobSound, AcceptKept
            DEF BeginTotpSetup, BeginTotpVerify, BeginTotpDisable, Kinds, Statements
  <2> QED BY <1>1, <2>1, <2>2, <2>3, <2>4
<1> QED BY <1>3, <1>4, TablesKept DEF AccountsInv

LEMMA UsersRequestInv ==
  ASSUME AccountsInv, NEW c \in AccountClients, UsersRequest(c)
  PROVE  AccountsInv'
<1>1. PICK u \in Accounts, p \in Passwords, role \in Roles, s \in sessions :
        BeginCreate(c, s, u, p, role) \/ BeginUpdate(c, s, u, p, role) \/ BeginDelete(c, s, u)
  BY DEF UsersRequest
<1>2. p \in Arguments /\ "none" \in Arguments /\ role \in Roles \cup {"none"}
  BY DEF Arguments
<1>3. users' = users /\ sessions' = sessions /\ grants' = grants
  BY <1>1 DEF BeginCreate, BeginUpdate, BeginDelete
<1>4. RequestsSound'
  BY <1>1, <1>2, AccountJobSound, AcceptKept DEF BeginCreate, BeginUpdate, BeginDelete, Kinds, Statements
<1> QED BY <1>3, <1>4, TablesKept DEF AccountsInv

LEMMA AccessRequestInv ==
  ASSUME AccountsInv, NEW c \in AccountClients, AccessRequest(c)
  PROVE  AccountsInv'
<1>1. PICK u \in Accounts, app \in GrantedApps, s \in sessions : BeginGrant(c, s, u, app)
  BY DEF AccessRequest
<1>2. users' = users /\ sessions' = sessions /\ grants' = grants
  BY <1>1 DEF BeginGrant
<1>3. app \in Arguments
  BY DEF Arguments
<1>4. RequestsSound'
  BY <1>1, <1>3, AccountJobSound, AcceptKept DEF BeginGrant, Kinds, Statements
<1> QED BY <1>2, <1>4, TablesKept DEF AccountsInv

-------------------------------------------------------------------------------
(* The statements that follow.                                             *)

\* Steps that leave the tables, or take sessions away.
LEMMA QuietStepInv ==
  ASSUME AccountsInv, NEW c \in AccountClients,
         VerifyLogin(c) \/ ClearFailed(c) \/ DropSessions(c) \/ CreateLinux(c) \/ SetSamba(c)
           \/ DeleteLinux(c)
  PROVE  AccountsInv'
<1>1. users' = users /\ sessions' \subseteq sessions /\ grants' = grants
  BY DEF VerifyLogin, ClearFailed, DropSessions, CreateLinux, SetSamba, DeleteLinux
<1>2. RequestsSound'
  <2>1. CASE VerifyLogin(c)
    <3>1. requests[c].pc = "password" /\ requests[c].kind = "login"
      BY <2>1 DEF VerifyLogin, Doing, AccountsInv, RequestsSound, RequestSound
    <3>2. Proceed(c, "account") \/ Answer(c)
      BY <2>1 DEF VerifyLogin
    <3> QED BY <3>1, <3>2, ProceedKept, AnswerKept DEF Statements
  <2>2. CASE ClearFailed(c) \/ DropSessions(c) \/ CreateLinux(c)
    BY <2>2, ProceedKept DEF ClearFailed, DropSessions, CreateLinux, Doing, Statements
  <2>3. CASE SetSamba(c)
    BY <2>3, ProceedKept, AnswerKept DEF SetSamba, Doing, Statements
  <2>4. CASE DeleteLinux(c)
    BY <2>4, AnswerKept DEF DeleteLinux
  <2> QED BY <2>1, <2>2, <2>3, <2>4
<1> QED BY <1>1, <1>2, TablesKept DEF AccountsInv

LEMMA ReadAccountInv ==
  ASSUME AccountsInv, NEW c \in AccountClients,
         NEW code \in Codes \cup {"empty", "right", "wrong"}, ReadLoginAccount(c, code)
  PROVE  AccountsInv'
<1> DEFINE u == requests[c].user
           pc == IF SecondFactor(users[u]) /\ code \in users[u].codes THEN "spend" ELSE "clear"
           r == [requests[c] EXCEPT !.role = users[u].role, !.row = users[u], !.arg = code,
                                    !.pc = pc]
<1>1. users' = users /\ sessions' = sessions /\ grants' = grants
  BY DEF ReadLoginAccount
<1>2. requests[c] \in Requests /\ RequestSound(requests[c]) /\ requests[c].pc = "account"
  BY DEF AccountsInv, RequestsSound, ReadLoginAccount, Doing
<1>3. Answer(c) \/ requests' = [requests EXCEPT ![c] = r]
  BY DEF ReadLoginAccount
<1>4. r \in Requests /\ RequestSound(r)
  <2>1. requests[c].user \in Accounts /\ requests[c].kind = "login"
    BY <1>2 DEF RequestSound
  <2>2. users[u] \in Rows /\ users[u].role \in Roles \cup {"none"}
    BY <2>1 DEF AccountsInv, TableSound, Rows
  <2>3. code \in Arguments /\ pc \in {"spend", "clear"}
    BY DEF Arguments
  <2> HIDE DEF pc
  <2> QED BY <1>2, <2>1, <2>2, <2>3 DEF Requests, RequestSound, Statements
<1> HIDE DEF r
<1>5. RequestsSound'
  BY <1>3, <1>4, AnswerKept, RequestKept
<1> QED BY <1>1, <1>5, TablesKept DEF AccountsInv

\* The statements on the tables, each with its foreign key.
LEMMA OpenInv ==
  ASSUME AccountsInv, NEW c \in AccountClients,
         CreateSession(c) \/ GrantAccess(c)
  PROVE  AccountsInv'
<1> DEFINE r == requests[c]
<1>1. r \in Requests /\ r.user \in Accounts
  BY DEF AccountsInv, RequestsSound, RequestSound, CreateSession, GrantAccess, Doing
<1>2. RequestsSound'
  BY AnswerKept DEF CreateSession, GrantAccess
<1>3. users' = users
  BY DEF CreateSession, GrantAccess
<1>4. CASE ~Exists(r.user)
  <2>1. sessions' = sessions /\ grants' = grants
    BY <1>4 DEF CreateSession, GrantAccess, Opened
  <2> QED BY <1>2, <1>3, <2>1, TablesKept DEF AccountsInv
<1>5. CASE Exists(r.user)
  <2>1. users[r.user] \in Rows /\ users[r.user].pass \in Passwords
    BY <1>1, <1>5 DEF AccountsInv, TableSound
  <2>2. /\ \A s \in sessions' : s \in sessions \/ s.user = r.user
        /\ \A g \in grants' : g \in grants \/ g.user = r.user
    BY <1>5 DEF CreateSession, GrantAccess, Opened
  <2> QED BY <1>1, <1>2, <1>3, <1>5, <2>1, <2>2, RowsKept DEF AccountsInv
<1> QED BY <1>4, <1>5

LEMMA InsertInv ==
  ASSUME AccountsInv, NEW c \in AccountClients, InsertAccount(c)
  PROVE  AccountsInv'
<1> DEFINE r == requests[c]
           row == NewAccount(r.arg, r.role)
<1>1. /\ r \in Requests /\ RequestSound(r) /\ r.pc = "insert"
      /\ r.user \in Accounts /\ r.arg \in Passwords /\ r.role \in Roles \cup {"none"}
  BY DEF AccountsInv, RequestsSound, RequestSound, InsertAccount, Doing, Requests
<1>2. row \in Rows /\ row.pass \in Passwords
  BY <1>1, NewAccountRow
<1>3. RequestsSound'
  BY <1>1, AnswerKept, ProceedKept DEF InsertAccount, Statements
<1>4. users' = users \/ users' = [users EXCEPT ![r.user] = row]
  BY DEF InsertAccount
<1>5. sessions' = sessions /\ grants' = grants
  BY DEF InsertAccount
<1> HIDE DEF row
<1> QED BY <1>1, <1>2, <1>3, <1>4, <1>5, RowsKept DEF AccountsInv

LEMMA DeleteInv ==
  ASSUME AccountsInv, NEW c \in AccountClients, DeleteAccount(c)
  PROVE  AccountsInv'
<1> DEFINE u == requests[c].user
<1>1. RequestsSound'
  BY ProceedKept DEF DeleteAccount, Doing, Statements
<1>2. /\ users' = [users EXCEPT ![u] = NoAccount]
      /\ sessions' = {s \in sessions : s.user # u}
      /\ grants' = {g \in grants : g.user # u}
  BY DEF DeleteAccount, Deleted
<1>3. TableSound'
  BY <1>2, NoAccountRow DEF AccountsInv, TableSound, Exists
<1>4. \A a \in Accounts : a # u /\ Exists(a) => Exists(a)'
  BY <1>2 DEF AccountsInv, TableSound, Exists
<1>5. NamesSound' /\ SessionsHaveAccounts'
  <2>1. ASSUME NEW s \in sessions' PROVE s.user \in Accounts /\ Exists(s.user)'
    BY <1>2, <1>4, <2>1 DEF AccountsInv, NamesSound, SessionsHaveAccounts
  <2>2. ASSUME NEW g \in grants' PROVE g.user \in Accounts /\ Exists(g.user)'
    BY <1>2, <1>4, <2>2 DEF AccountsInv, NamesSound, SessionsHaveAccounts
  <2> QED BY <2>1, <2>2 DEF NamesSound, SessionsHaveAccounts
<1> QED BY <1>1, <1>3, <1>5 DEF AccountsInv

\* An UPDATE leaves a password.
LEMMA UpdateInv ==
  ASSUME AccountsInv, NEW c \in AccountClients, UpdateAccount(c) \/ SpendBackupCode(c)
  PROVE  AccountsInv'
<1> DEFINE r == requests[c]
           old == users[r.user]
<1>1. r \in Requests /\ RequestSound(r) /\ r.user \in Accounts
  BY DEF AccountsInv, RequestsSound, RequestSound, UpdateAccount, SpendBackupCode, Doing
<1>2. sessions' = sessions /\ grants' = grants
  BY DEF UpdateAccount, SpendBackupCode
<1>3. RequestsSound'
  BY AnswerKept, ProceedKept DEF UpdateAccount, SpendBackupCode, Doing, Statements
<1>4. CASE ~Exists(r.user)
  <2>1. users' = users
    BY <1>4 DEF UpdateAccount, SpendBackupCode, Updated
  <2> QED BY <1>2, <1>3, <2>1, TablesKept DEF AccountsInv
<1>5. CASE Exists(r.user)
  <2>1. old \in Rows /\ old.pass \in Passwords
    BY <1>1, <1>5 DEF AccountsInv, TableSound
  <2>2. PICK row \in Rows : row.pass \in Passwords /\ users' = [users EXCEPT ![r.user] = row]
    <3>1. CASE SpendBackupCode(c)
      <4> DEFINE row == [old EXCEPT !.codes = r.row.codes \ {r.arg}]
      <4>1. r.row.codes \ {r.arg} \in SUBSET Codes
        BY <1>1 DEF Requests, Rows
      <4>2. row \in Rows /\ row.pass \in Passwords
        BY <2>1, <4>1 DEF Rows
      <4>3. users' = [users EXCEPT ![r.user] = row]
        BY <1>5, <3>1 DEF SpendBackupCode, Updated
      <4> QED BY <4>2, <4>3
    <3>2. CASE UpdateAccount(c)
      <4> DEFINE row == NewContent(r, old)
      <4>1. r.kind \in {"change", "update", "totpSetup", "totpVerify", "totpDisable"}
        BY <1>1, <3>2 DEF UpdateAccount, Doing, RequestSound
      <4>2. r.role \in Roles \cup {"none"}
            /\ (r.kind \in {"change", "update"} => r.arg \in Passwords)
        BY <1>1 DEF RequestSound, Requests
      <4>3. row \in Rows /\ row.pass \in Passwords
        <5>1. CASE r.kind = "change"
          BY <2>1, <4>2, <5>1 DEF NewContent, Rows
        <5>2. CASE r.kind = "update"
          BY <2>1, <4>2, <5>2 DEF NewContent, Rows
        <5>3. CASE r.kind \in {"totpSetup", "totpVerify", "totpDisable"}
          BY <2>1, <5>3 DEF NewContent, Rows
        <5> QED BY <4>1, <5>1, <5>2, <5>3
      <4>4. users' = [users EXCEPT ![r.user] = row]
        BY <1>5, <3>2 DEF UpdateAccount, Updated
      <4> QED BY <4>3, <4>4
    <3> QED BY <3>1, <3>2
  <2> QED BY <1>1, <1>2, <1>3, <2>2, RowsKept DEF AccountsInv
<1> QED BY <1>4, <1>5

-------------------------------------------------------------------------------
(* The rest of the behaviour: the end of sessions, the limiter, a restart and *)
(* the files of the previous version.                                      *)

LEMMA EndInv ==
  ASSUME AccountsInv,
         \/ \E s \in sessions : Logout(s) \/ SessionExpires(s) \/ (\E g \in grants : Revoke(s, g))
         \/ QuarterPasses \/ CleanupLimits \/ AccountsRestart \/ RenameFiles
  PROVE  AccountsInv'
<1>1. users' = users /\ sessions' \subseteq sessions /\ grants' \subseteq grants
  BY DEF Logout, SessionExpires, Revoke, QuarterPasses, CleanupLimits, AccountsRestart, RenameFiles
<1>2. requests' = requests \/ requests' = [c \in AccountClients |-> NoRequestYet]
  BY DEF Logout, SessionExpires, Revoke, QuarterPasses, CleanupLimits, AccountsRestart, RenameFiles
<1>3. RequestsSound'
  BY <1>2, NoRequestSound DEF AccountsInv, RequestsSound
<1> QED BY <1>1, <1>3, TablesKept DEF AccountsInv

LEMMA MigrationInv ==
  ASSUME AccountsInv, MigrateUsers \/ MigrateSessions
  PROVE  AccountsInv'
<1>1. requests' = requests /\ grants' = grants
  BY DEF MigrateUsers, MigrateSessions
<1>2. RequestsSound'
  BY <1>1 DEF AccountsInv, RequestsSound
<1>3. CASE MigrateUsers
  <2>1. sessions' = sessions
    BY <1>3 DEF MigrateUsers
  <2>2. CASE Founder \in Accounts
    <3>1. NewAccount("first", "admin") \in Rows /\ NewAccount("first", "admin").pass \in Passwords
      BY NewAccountRow DEF Passwords, Roles
    <3> QED BY <1>1, <1>2, <1>3, <2>1, <2>2, <3>1, RowsKept DEF MigrateUsers, AccountsInv
  <2>3. CASE Founder \notin Accounts
    <3>1. users' = users
      BY <1>3, <2>3 DEF MigrateUsers, AccountsInv, TableSound
    <3> QED BY <1>1, <1>2, <2>1, <3>1, TablesKept DEF AccountsInv
  <2> QED BY <2>2, <2>3
<1>4. CASE MigrateSessions
  <2>1. users' = users
    BY <1>4 DEF MigrateSessions
  <2>2. \A s \in sessions' : s \in sessions \/ (s.user \in Accounts /\ Exists(s.user))
    BY <1>4 DEF MigrateSessions
  <2>3. TableSound' /\ \A a \in Accounts : Exists(a)' <=> Exists(a)
    BY <2>1 DEF AccountsInv, TableSound, Exists
  <2>4. NamesSound' /\ SessionsHaveAccounts'
    BY <1>1, <2>2, <2>3 DEF AccountsInv, NamesSound, SessionsHaveAccounts
  <2> QED BY <1>2, <2>3, <2>4 DEF AccountsInv
<1> QED BY <1>3, <1>4

-------------------------------------------------------------------------------
LEMMA AccountsInitInv == AccountsInit => AccountsInv
<1> SUFFICES ASSUME AccountsInit PROVE AccountsInv
  OBVIOUS
<1>1. RequestsSound
  BY NoRequestSound DEF AccountsInit, RequestsSound
<1>2. PICK there \in {{}, Accounts} :
        /\ users = [u \in Accounts |->
                      IF there = {} THEN NoAccount
                      ELSE IF u = Founder THEN NewAccount("first", "admin")
                      ELSE [NewAccount("first", "user") EXCEPT
                              !.secret = "secret", !.enabled = TRUE, !.codes = Codes]]
        /\ sessions = {[id |-> <<"first", 0>>, user |-> u, role |-> users[u].role] : u \in there}
  BY DEF AccountsInit
<1> DEFINE second == [NewAccount("first", "user") EXCEPT
                        !.secret = "secret", !.enabled = TRUE, !.codes = Codes]
<1>3. NewAccount("first", "admin") \in Rows /\ NewAccount("first", "admin").pass \in Passwords
  BY NewAccountRow DEF Passwords, Roles
<1>4. second \in Rows /\ second.pass \in Passwords
  <2>1. NewAccount("first", "user") \in Rows /\ NewAccount("first", "user").pass \in Passwords
    BY NewAccountRow DEF Passwords, Roles
  <2> QED BY <2>1 DEF Rows
<1> HIDE DEF second
<1>5. \A u \in Accounts : users[u] \in {NoAccount, NewAccount("first", "admin"), second}
  BY <1>2 DEF second
<1>6. TableSound
  BY <1>2, <1>3, <1>4, <1>5, NoAccountRow DEF TableSound, Exists
<1>7. \A u \in there : u \in Accounts /\ Exists(u)
  <2> SUFFICES ASSUME NEW u \in there PROVE u \in Accounts /\ Exists(u)
    OBVIOUS
  <2>1. there = Accounts /\ there # {}
    OBVIOUS
  <2>2. users[u] \in {NewAccount("first", "admin"), second}
    BY <1>2, <2>1 DEF second
  <2> QED BY <1>3, <1>4, <2>1, <2>2, NoAccountRow DEF Exists
<1>8. \A s \in sessions : s.user \in there
  <2>1. sessions = {[id |-> <<"first", 0>>, user |-> u, role |-> users[u].role] : u \in there}
    BY <1>2
  <2> QED BY <2>1
<1>9. grants = {}
  BY DEF AccountsInit
<1> QED BY <1>1, <1>6, <1>7, <1>8, <1>9 DEF AccountsInv, NamesSound, SessionsHaveAccounts

LEMMA AccountsNextInv == ASSUME AccountsInv, [AccountsNext]_accountVars PROVE AccountsInv'
<1>1. ASSUME NEW c \in AccountClients, AccountStep(c) PROVE AccountsInv'
  BY <1>1, QuietStepInv, ReadAccountInv, OpenInv, InsertInv, DeleteInv, UpdateInv DEF AccountStep
<1>2. ASSUME NEW c \in AccountClients, AuthRequest(c) \/ UsersRequest(c) \/ AccessRequest(c)
      PROVE  AccountsInv'
  BY <1>2, AuthRequestInv, UsersRequestInv, AccessRequestInv
<1>3. CASE \/ \E s \in sessions : Logout(s) \/ SessionExpires(s) \/ (\E g \in grants : Revoke(s, g))
           \/ QuarterPasses \/ CleanupLimits \/ AccountsRestart \/ RenameFiles
  BY <1>3, EndInv
<1>4. CASE MigrateUsers \/ MigrateSessions
  BY <1>4, MigrationInv
<1>5. CASE UNCHANGED accountVars
  BY <1>5 DEF accountVars, AccountsInv, RequestsSound, TableSound, NamesSound,
              SessionsHaveAccounts, Exists
<1> QED BY <1>1, <1>2, <1>3, <1>4, <1>5 DEF AccountsNext

\* Whatever statements of logins, setups, grants, deletions and the migration of the
\* JSON files interleave, and however often the daemon restarts, every row of
\* sessions and of user_app_access has its account (the foreign keys of db.go).
THEOREM NoOrphans == AccountsSpec => []SessionsHaveAccounts
<1>1. AccountsInv => SessionsHaveAccounts
  BY DEF AccountsInv
<1> QED BY AccountsInitInv, AccountsNextInv, <1>1, PTL DEF AccountsSpec
-----------------------------------------------------------------------------

-----------------------------------------------------------------------------
(* An address is only blocked for failures of its own, for any addresses,     *)
(* policies and handlers.  An event that waits, or that is being judged, has  *)
(* its failure behind it, and so has each count that a judgement is made by:  *)
(* none of them, with the events that are still to come, is beyond the        *)
(* failures there were (Counted).                                             *)

GoodPolicies == {Sanitized(p) : p \in Policies \cup {DefaultPolicy}}
Rules == {"none", "instant", "probes", "AUTH-001", "AUTH-002"}
Auth == {"AUTH-001", "AUTH-002"}
BlockTypes == [until : Nat, rule : Rules]
CounterTypes == [at : Nat, n : Nat]
WindowTypes == [fails : CounterTypes, probes : CounterTypes, names : [LoginNames -> CounterTypes]]
EventTypes == [from : Addresses, kind : {"fail", "probe", "instant"},
               name : LoginNames \cup {"none"}]
StandingTypes == [ok : Nat, streak : Nat, blocks : Nat, last : Nat]
TableTypes == [blocks : [Addresses -> BlockTypes], trusted : SUBSET Addresses, on : BOOLEAN,
               policy : GoodPolicies]
NoAddress == {"none", "on", "off", "keepOn", "keepOff", "policy"}
OfAddress == {"block", "drop", "save", "erase", "unblock", "trust", "distrust",
              "fail", "record", "probe", "instant"}
WorkTypes == [pc : NoAddress \cup OfAddress, a : Addresses \cup {"none"}, rule : Rules, ticks : Nat,
              name : LoginNames \cup {"none"}, streak : Nat, ok : Nat, policy : GoodPolicies]

ShieldTypes ==
  /\ clock \in Nat /\ shieldOn \in BOOLEAN
  /\ blocklist \in [Addresses -> BlockTypes] /\ trusted \subseteq Addresses
  /\ policy \in GoodPolicies
  /\ windows \in [Addresses -> WindowTypes]
  /\ queue \in Seq(EventTypes)
  /\ \A i \in DOMAIN queue : queue[i].kind = "fail" => queue[i].name \in LoginNames
  /\ shieldTables \in TableTypes
  /\ reputation \in [Addresses -> StandingTypes]
  /\ work \in [Workers -> WorkTypes]
  /\ failures \in [Addresses -> Nat]

\* A goroutine that is about to block for logins has the failures behind it;
\* only the event loop judges.
WorkSound(j) ==
  /\ j.pc \in OfAddress => j.a \in Addresses
  /\ j.pc = "fail" => j.name \in LoginNames
  /\ j.pc = "record" => failures[j.a] >= Fewest
  /\ j.pc \in {"block", "drop", "save"} /\ j.rule \in Auth => failures[j.a] >= Fewest
WorkInv ==
  /\ \A w \in Workers : WorkSound(work[w])
  /\ \A h \in LoginHandlers : work[h].pc \notin {"fail", "record", "probe"}

\* The failures of an address that wait in a queue, the one that is being
\* judged, and the names that the address has tried.
Waiting(q, a) == Cardinality({i \in DOMAIN q : q[i].kind = "fail" /\ q[i].from = a})
Judging(a) == work["engine"].pc = "fail" /\ work["engine"].a = a
ToJudge(a) == Waiting(queue, a) + (IF Judging(a) THEN 1 ELSE 0)
Tried(w) == {m \in LoginNames : w.names[m].n > 0}

Counted ==
  \A a \in Addresses :
    /\ windows[a].fails.n + ToJudge(a) <= failures[a]
    /\ Cardinality(Tried(windows[a])) + ToJudge(a) <= failures[a]
    /\ reputation[a].streak + ToJudge(a) <= failures[a]
    /\ Judging(a) => work["engine"].streak + Waiting(queue, a) <= failures[a]

ShieldInv == ShieldTypes /\ WorkInv /\ Counted /\ BlocksAreEarned

-----------------------------------------------------------------------------
(* Policies and thresholds *)

\* The policy of the daemon is as sanitised as any.
LEMMA DefaultIsGood == DefaultPolicy \in GoodPolicies
<1>1. DefaultPolicy \in PolicyTypes /\ DefaultPolicy.distrust >= 2
  BY ShieldAssumption
<1>2. Sanitized(DefaultPolicy) = DefaultPolicy
  BY <1>1 DEF Sanitized, PolicyTypes
<1> QED
  BY <1>2 DEF GoodPolicies

\* Fewest is the least of the thresholds.
LEMMA FewestIsLeast ==
  /\ Fewest \in Nat /\ Fewest <= StuffLimit
  /\ \A p \in GoodPolicies :
       /\ p \in PolicyTypes
       /\ Fewest <= p.unknown /\ Fewest <= p.known /\ Fewest <= p.habitual
       /\ Fewest <= p.distrust
<1> DEFINE T == Thresholds \cup {StuffLimit}
           R == OpToRel(<, Nat)
<1>1. \A p \in GoodPolicies : p \in PolicyTypes
  <2> SUFFICES ASSUME NEW p \in Policies \cup {DefaultPolicy} PROVE Sanitized(p) \in PolicyTypes
    BY DEF GoodPolicies
  <2>1. p \in PolicyTypes /\ DefaultPolicy \in PolicyTypes
    BY ShieldAssumption
  <2> QED
    BY <2>1 DEF Sanitized, PolicyTypes
<1>2. ASSUME NEW p \in GoodPolicies, NEW f \in {"unknown", "known", "habitual", "distrust"}
      PROVE  p[f] \in Thresholds /\ p[f] \in Nat
  <2>1. PICK s \in Policies \cup {DefaultPolicy} : p = Sanitized(s)
    BY DEF GoodPolicies
  <2>2. s \in PolicyTypes /\ p \in PolicyTypes
    BY <1>1, ShieldAssumption
  <2>3. f \in DOMAIN s
    BY <2>2 DEF PolicyTypes
  <2>4. p[f] \in Thresholds
    BY <2>1, <2>3 DEF Thresholds
  <2> QED
    BY <2>2, <2>4 DEF PolicyTypes
<1>3. Thresholds \subseteq Nat
  <2> SUFFICES ASSUME NEW p \in Policies \cup {DefaultPolicy}, NEW f \in DOMAIN p
               PROVE  Sanitized(p)[f] \in Nat
    BY DEF Thresholds
  <2>1. p \in PolicyTypes /\ Sanitized(p) \in GoodPolicies
    BY ShieldAssumption DEF GoodPolicies
  <2>2. f \in {"unknown", "known", "habitual", "distrust"}
    BY <2>1 DEF PolicyTypes
  <2> QED
    BY <1>2, <2>1, <2>2
<1>4. T \subseteq Nat /\ T # {}
  BY <1>3, ShieldAssumption
<1>5. PICK m \in T : \A n \in T : <<n, m>> \notin R
  <2> HIDE DEF T
  <2> QED
    BY <1>4, NatLessThanWellFounded, WFMin
<1>6. ASSUME NEW n \in T PROVE m <= n
  <2>1. <<n, m>> \notin R
    BY <1>5
  <2>2. m \in Nat /\ n \in Nat
    BY <1>4
  <2>3. ~(n < m)
    <3> HIDE DEF T
    <3> QED
      BY <2>1, <2>2 DEF OpToRel
  <2> HIDE DEF T, R
  <2> QED
    BY <2>2, <2>3
<1>7. Fewest \in T /\ \A n \in T : Fewest <= n
  BY <1>6 DEF Fewest
<1>8. Fewest \in Nat /\ Fewest <= StuffLimit
  BY <1>4, <1>7
<1>9. ASSUME NEW p \in GoodPolicies
      PROVE  /\ Fewest <= p["unknown"] /\ Fewest <= p["known"]
             /\ Fewest <= p["habitual"] /\ Fewest <= p["distrust"]
  BY <1>2, <1>7
<1> QED
  BY <1>1, <1>8, <1>9

\* Every length of a block is one.
LEMMA LengthsOfBlocks ==
  /\ \A n \in Nat : Escalated(n) \in Nat
  /\ \A i \in 1 .. 4 : BlockTicks[i] \in Nat
<1>1. \A i \in 1 .. 4 : BlockTicks[i] \in Nat
  BY ShieldAssumption
<1>2. ASSUME NEW n \in Nat PROVE Min2(n, 3) + 1 \in 1 .. 4
  BY DEF Min2
<1> QED
  BY <1>1, <1>2 DEF Escalated

\* A judgement that blocks has as many failures as some threshold asks for.
LEMMA BlocksOnEnough ==
  ASSUME NEW p \in GoodPolicies, NEW ok \in Nat, NEW streak \in Nat, NEW count \in Nat,
         ShouldBlock(p, ok, streak, count)
  PROVE  streak >= Fewest \/ count >= Fewest
<1>1. /\ p \in PolicyTypes /\ Fewest \in Nat
      /\ Fewest <= p.unknown /\ Fewest <= p.known /\ Fewest <= p.habitual
      /\ Fewest <= p.distrust
  BY FewestIsLeast
<1> QED
  BY <1>1 DEF ShouldBlock, Distrusts, Tolerated, PolicyTypes

-----------------------------------------------------------------------------
(* Counting what waits *)

\* The failures in a queue are finitely many.
LEMMA WaitingType ==
  ASSUME NEW S, NEW q \in Seq(S), NEW a
  PROVE  /\ IsFiniteSet({i \in DOMAIN q : q[i].kind = "fail" /\ q[i].from = a})
         /\ Waiting(q, a) \in Nat
<1> DEFINE W == {i \in DOMAIN q : q[i].kind = "fail" /\ q[i].from = a}
<1>1. DOMAIN q = 1 .. Len(q) /\ Len(q) \in Nat
  OBVIOUS
<1>2. IsFiniteSet(DOMAIN q)
  BY <1>1, FS_Interval
<1>3. W \in SUBSET DOMAIN q
  OBVIOUS
<1> HIDE DEF W
<1>4. IsFiniteSet(W)
  BY <1>2, <1>3, FS_Subset
<1>5. Cardinality(W) \in Nat
  BY <1>4, FS_CardinalityType
<1> QED
  BY <1>4, <1>5 DEF W, Waiting

\* An event that joins the queue adds itself, if it is a failure.
LEMMA WaitingMore ==
  ASSUME NEW S, NEW q \in Seq(S), NEW e \in S, NEW a
  PROVE  Waiting(Append(q, e), a) <=
           Waiting(q, a) + IF e.kind = "fail" /\ e.from = a THEN 1 ELSE 0
<1> DEFINE W(s) == {i \in DOMAIN s : s[i].kind = "fail" /\ s[i].from = a}
           more == IF e.kind = "fail" /\ e.from = a THEN {Len(q) + 1} ELSE {}
           both == W(q) \cup more
<1>1. IsFiniteSet(W(q)) /\ Cardinality(W(q)) \in Nat
  BY WaitingType DEF Waiting
<1>2. W(Append(q, e)) \in SUBSET both
  OBVIOUS
<1>3. /\ IsFiniteSet(both)
      /\ Cardinality(both) <= Cardinality(W(q)) +
           (IF e.kind = "fail" /\ e.from = a THEN 1 ELSE 0)
  <2> DEFINE V == W(q)
  <2>1. IsFiniteSet(V) /\ Cardinality(V) \in Nat
    BY <1>1
  <2> HIDE DEF V
  <2> DEFINE x == Len(q) + 1
  <2>2. IsFiniteSet(V \cup {x}) /\ Cardinality(V \cup {x}) <= Cardinality(V) + 1
    <3> HIDE DEF x
    <3>1. /\ IsFiniteSet(V \cup {x})
          /\ Cardinality(V \cup {x}) = IF x \in V THEN Cardinality(V) ELSE Cardinality(V) + 1
      BY <2>1, FS_AddElement
    <3> QED
      BY <2>1, <3>1
  <2>3. both = V \cup more /\ V = W(q)
    BY DEF V
  <2> HIDE DEF both, W
  <2>4. IF e.kind = "fail" /\ e.from = a THEN more = {x} ELSE more = {}
    OBVIOUS
  <2> HIDE DEF more, x
  <2>5. CASE e.kind = "fail" /\ e.from = a
    BY <2>1, <2>2, <2>3, <2>4, <2>5
  <2>6. CASE ~(e.kind = "fail" /\ e.from = a)
    <3>1. both = V
      BY <2>3, <2>4, <2>6
    <3>2. (IF e.kind = "fail" /\ e.from = a THEN 1 ELSE 0) = 0
      BY <2>6
    <3>3. Cardinality(V) <= Cardinality(V) + 0
      BY <2>1
    <3> QED
      BY <2>1, <2>3, <3>1, <3>2, <3>3
  <2> QED
    BY <2>5, <2>6
<1>4. Cardinality(W(Append(q, e))) <= Cardinality(both) /\ IsFiniteSet(W(Append(q, e)))
  <2> HIDE DEF both, W
  <2> QED
    BY <1>2, <1>3, FS_Subset
<1>5. Cardinality(W(Append(q, e))) \in Nat /\ Cardinality(both) \in Nat
  <2> HIDE DEF both, W
  <2> QED
    BY <1>3, <1>4, FS_CardinalityType
<1>6. Waiting(Append(q, e), a) = Cardinality(W(Append(q, e))) /\ Waiting(q, a) = Cardinality(W(q))
  BY DEF Waiting
<1> HIDE DEF both, W
<1> QED
  BY <1>1, <1>3, <1>4, <1>5, <1>6

\* The event that leaves it takes itself away, if it is one.
LEMMA WaitingLess ==
  ASSUME NEW S, NEW q \in Seq(S), q # <<>>, NEW a
  PROVE  Waiting(Tail(q), a) +
           (IF Head(q).kind = "fail" /\ Head(q).from = a THEN 1 ELSE 0) <= Waiting(q, a)
<1> DEFINE t == Tail(q)
           W(s) == {i \in DOMAIN s : s[i].kind = "fail" /\ s[i].from = a}
           f == [i \in W(t) |-> i + 1]
           first == Head(q).kind = "fail" /\ Head(q).from = a
           rest == W(q) \ {1}
<1>1. /\ IsFiniteSet(W(q)) /\ IsFiniteSet(W(t))
      /\ Cardinality(W(q)) \in Nat /\ Cardinality(W(t)) \in Nat
  <2>1. t \in Seq(S)
    OBVIOUS
  <2> HIDE DEF t
  <2> QED
    BY <2>1, WaitingType DEF Waiting
<1>2. f \in Injection(W(t), rest)
  <2>1. \A i \in W(t) : i \in Nat /\ i + 1 \in rest
    OBVIOUS
  <2> QED
    BY <2>1 DEF Injection, IsInjective
<1>3. first => 1 \in W(q)
  OBVIOUS
<1>4. Waiting(t, a) = Cardinality(W(t)) /\ Waiting(q, a) = Cardinality(W(q))
  BY DEF Waiting
<1> HIDE DEF W, f, first, rest
<1>5. /\ IsFiniteSet(rest)
      /\ Cardinality(rest) = IF 1 \in W(q) THEN Cardinality(W(q)) - 1 ELSE Cardinality(W(q))
  BY <1>1, FS_RemoveElement DEF rest
<1>6. Cardinality(W(t)) <= Cardinality(rest)
  BY <1>2, <1>5, FS_Injection
<1>7. Waiting(t, a) + (IF first THEN 1 ELSE 0) <= Waiting(q, a)
  BY <1>1, <1>3, <1>4, <1>5, <1>6
<1> QED
  BY <1>7 DEF first

-----------------------------------------------------------------------------
(* One goroutine moves *)

\* A goroutine at rest has no business.
LEMMA AtEaseSound == AtEase \in WorkTypes /\ WorkSound(AtEase)
<1>1. AtEase \in WorkTypes
  BY DefaultIsGood DEF AtEase, WorkTypes, Rules, NoAddress
<1>2. WorkSound(AtEase)
  BY DEF AtEase, WorkSound, OfAddress
<1> QED
  BY <1>1, <1>2

\* One goroutine takes up what it is fit for; the others keep what they do.
LEMMA OneWorks ==
  ASSUME ShieldTypes, WorkInv, NEW w \in Workers, NEW j \in WorkTypes,
         work' = [work EXCEPT ![w] = j], failures' = failures,
         WorkSound(j), w # "engine" => j.pc \notin {"fail", "record", "probe"}
  PROVE  /\ work' \in [Workers -> WorkTypes] /\ WorkInv'
         /\ w = "engine" => work'["engine"] = j
         /\ w # "engine" => work'["engine"] = work["engine"]
<1>1. work' \in [Workers -> WorkTypes] /\ \A v \in Workers : work'[v] = IF v = w THEN j ELSE work[v]
  BY DEF ShieldTypes
<1>2. ASSUME NEW v \in Workers PROVE WorkSound(work[v])'
  <2>1. WorkSound(work'[v])
    BY <1>1 DEF WorkInv
  <2> QED
    BY <2>1 DEF WorkSound
<1>3. \A h \in LoginHandlers : work'[h].pc \notin {"fail", "record", "probe"}
  BY <1>1, ShieldAssumption DEF WorkInv, Workers
<1>4. WorkInv'
  BY <1>2, <1>3 DEF WorkInv
<1> QED
  BY <1>1, <1>4 DEF Workers

\* A sum whose parts do not grow stays within its bound.
LEMMA LessIsLess ==
  ASSUME NEW m \in Nat, NEW n \in Nat, NEW less \in Nat, NEW more \in Nat, NEW most \in Nat,
         m <= n, less <= more, n + more <= most
  PROVE  m + less <= most
OBVIOUS

\* What waits and what was counted stays within the failures when nothing joins
\* it and the event loop takes up no failure.
LEMMA CountedKept ==
  ASSUME ShieldTypes, Counted, UNCHANGED <<windows, failures>>,
         queue' \in Seq(EventTypes), reputation' \in [Addresses -> StandingTypes],
         \A a \in Addresses : Waiting(queue', a) <= Waiting(queue, a),
         \A a \in Addresses : reputation'[a].streak <= reputation[a].streak,
         work'["engine"].pc = "fail" => work'["engine"] = work["engine"]
  PROVE  Counted'
<1> SUFFICES ASSUME NEW a \in Addresses
             PROVE  /\ windows'[a].fails.n + ToJudge(a)' <= failures'[a]
                    /\ Cardinality(Tried(windows'[a])) + ToJudge(a)' <= failures'[a]
                    /\ reputation'[a].streak + ToJudge(a)' <= failures'[a]
                    /\ Judging(a)' => work'["engine"].streak + Waiting(queue', a) <= failures'[a]
  BY DEF Counted
<1>1. Waiting(queue, a) \in Nat /\ Waiting(queue', a) \in Nat
  BY WaitingType DEF ShieldTypes
<1>2. Judging(a)' => Judging(a) /\ work'["engine"] = work["engine"]
  BY DEF Judging
<1>3. /\ windows[a].fails.n \in Nat /\ reputation[a].streak \in Nat /\ failures[a] \in Nat
      /\ reputation'[a].streak \in Nat
  BY DEF ShieldTypes, WindowTypes, CounterTypes, StandingTypes
<1>4. Cardinality(Tried(windows[a])) \in Nat
  <2>1. Tried(windows[a]) \in SUBSET LoginNames
    BY DEF Tried
  <2> QED
    BY <2>1, ShieldAssumption, FS_Subset, FS_CardinalityType
<1>5. work["engine"].streak \in Nat
  BY DEF ShieldTypes, Workers, WorkTypes
<1>6. ToJudge(a)' <= ToJudge(a) /\ ToJudge(a) \in Nat /\ ToJudge(a)' \in Nat
  BY <1>1, <1>2 DEF ToJudge
<1>7. /\ windows[a].fails.n + ToJudge(a) <= failures[a]
      /\ Cardinality(Tried(windows[a])) + ToJudge(a) <= failures[a]
      /\ reputation[a].streak + ToJudge(a) <= failures[a]
      /\ Judging(a) => work["engine"].streak + Waiting(queue, a) <= failures[a]
  BY DEF Counted
<1>8. windows'[a] = windows[a] /\ failures'[a] = failures[a]
  OBVIOUS
<1>9. /\ windows'[a].fails.n + ToJudge(a)' <= failures'[a]
      /\ Cardinality(Tried(windows'[a])) + ToJudge(a)' <= failures'[a]
      /\ reputation'[a].streak + ToJudge(a)' <= failures'[a]
  <2> DEFINE after == ToJudge(a)'
             names == Cardinality(Tried(windows[a]))
  <2>1. after \in Nat /\ after <= ToJudge(a) /\ ToJudge(a) \in Nat /\ names \in Nat
    BY <1>4, <1>6
  <2>2. Cardinality(Tried(windows'[a])) = names
    BY <1>8
  <2>3. reputation'[a].streak <= reputation[a].streak
    OBVIOUS
  <2> HIDE DEF after, names
  <2>4. windows[a].fails.n + after <= failures[a] /\ reputation'[a].streak + after <= failures[a]
    <3>1. windows[a].fails.n + ToJudge(a) <= failures[a]
      BY <1>7
    <3>2. reputation[a].streak + ToJudge(a) <= failures[a]
      BY <1>7
    <3>3. windows[a].fails.n + after <= failures[a]
      BY <1>3, <2>1, <3>1, LessIsLess
    <3>4. reputation'[a].streak + after <= failures[a]
      BY <1>3, <2>1, <2>3, <3>2, LessIsLess
    <3> QED
      BY <3>3, <3>4
  <2>5. names + after <= failures[a]
    BY <1>3, <1>7, <2>1 DEF names
  <2> QED
    BY <1>8, <2>2, <2>4, <2>5 DEF after
<1>10. ASSUME Judging(a)' PROVE work'["engine"].streak + Waiting(queue', a) <= failures'[a]
  BY <1>1, <1>2, <1>3, <1>5, <1>7, <1>10
<1> QED
  BY <1>9, <1>10

\* A new installation has judged nobody.
LEMMA InitShieldInv == ShieldInit => ShieldInv
<1> SUFFICES ASSUME ShieldInit PROVE ShieldInv
  OBVIOUS
<1> USE DEF ShieldInit
<1>1. NoBlock \in BlockTypes /\ NoBlock.rule \notin Auth
  BY DEF NoBlock, BlockTypes, Rules, Auth
<1>2. windows \in [Addresses -> WindowTypes] /\ \A a \in Addresses : windows[a].fails.n = 0
  BY DEF NoWindows, NoEvents, WindowTypes, CounterTypes
<1>3. Unknown \in StandingTypes /\ Unknown.streak = 0
  BY DEF Unknown, StandingTypes
<1>4. ShieldTypes
  BY <1>1, <1>2, <1>3, DefaultIsGood, AtEaseSound DEF ShieldTypes, TableTypes
<1>5. WorkInv
  BY AtEaseSound DEF WorkInv, Workers, AtEase
<1>6. Counted
  <2> SUFFICES ASSUME NEW a \in Addresses
               PROVE  /\ windows[a].fails.n + ToJudge(a) <= failures[a]
                      /\ Cardinality(Tried(windows[a])) + ToJudge(a) <= failures[a]
                      /\ reputation[a].streak + ToJudge(a) <= failures[a]
                      /\ ~Judging(a)
    BY DEF Counted
  <2>1. ~Judging(a)
    BY DEF Judging, AtEase, Workers
  <2>2. {i \in DOMAIN queue : queue[i].kind = "fail" /\ queue[i].from = a} = {}
    OBVIOUS
  <2>3. Waiting(queue, a) = 0
    BY <2>2, FS_EmptySet DEF Waiting
  <2>4. Tried(windows[a]) = {}
    BY DEF Tried, NoWindows, NoEvents
  <2>5. Cardinality(Tried(windows[a])) = 0
    BY <2>4, FS_EmptySet
  <2> QED
    BY <1>2, <1>3, <2>1, <2>3, <2>5 DEF ToJudge
<1>7. BlocksAreEarned
  BY <1>1 DEF BlocksAreEarned, ForLogins, Auth
<1> QED
  BY <1>4, <1>5, <1>6, <1>7 DEF ShieldInv

\* A goroutine goes on with what it does.
LEMMA GoesOn ==
  ASSUME ShieldTypes, WorkInv, NEW w \in Workers, NEW pc \in NoAddress \cup OfAddress,
         Goto(w, pc), failures' = failures,
         pc \in OfAddress => work[w].pc \in OfAddress,
         pc \in {"drop", "save"} => work[w].pc \in {"block", "drop", "save"},
         pc \notin {"fail", "record", "probe", "block"}
  PROVE  /\ work' \in [Workers -> WorkTypes] /\ WorkInv'
         /\ work'["engine"].pc = "fail" => work'["engine"] = work["engine"]
<1> DEFINE j == [work[w] EXCEPT !.pc = pc]
<1>1. work[w] \in WorkTypes /\ WorkSound(work[w])
  BY DEF ShieldTypes, WorkInv
<1>2. /\ j \in WorkTypes /\ j.pc = pc /\ j.a = work[w].a /\ j.rule = work[w].rule
      /\ j.name = work[w].name
  BY <1>1 DEF WorkTypes
<1>3. work' = [work EXCEPT ![w] = j]
  BY DEF Goto
<1> HIDE DEF j
<1>4. WorkSound(j)
  BY <1>1, <1>2 DEF WorkSound
<1>5. /\ work' \in [Workers -> WorkTypes] /\ WorkInv'
      /\ w = "engine" => work'["engine"] = j
      /\ w # "engine" => work'["engine"] = work["engine"]
  BY <1>2, <1>3, <1>4, OneWorks
<1> QED
  BY <1>2, <1>5

\* A goroutine comes to rest.
LEMMA ComesToRest ==
  ASSUME ShieldTypes, WorkInv, NEW w \in Workers, Rest(w), failures' = failures
  PROVE  /\ work' \in [Workers -> WorkTypes] /\ WorkInv'
         /\ work'["engine"].pc = "fail" => work'["engine"] = work["engine"]
<1>1. AtEase \in WorkTypes /\ WorkSound(AtEase) /\ AtEase.pc = "none"
  BY AtEaseSound DEF AtEase
<1>2. work' = [work EXCEPT ![w] = AtEase]
  BY DEF Rest
<1> QED
  BY <1>1, <1>2, OneWorks

\* A goroutine sets out to block an address, which has earned it.
LEMMA SetsOut ==
  ASSUME ShieldTypes, WorkInv, NEW w \in Workers, NEW a \in Addresses, NEW rule \in Rules,
         NEW ticks \in Nat, Blocking(w, a, rule, ticks), failures' = failures,
         rule \in Auth => failures[a] >= Fewest
  PROVE  /\ work' \in [Workers -> WorkTypes] /\ WorkInv'
         /\ work'["engine"].pc = "fail" => work'["engine"] = work["engine"]
<1> DEFINE j == [AtEase EXCEPT !.pc = "block", !.a = a, !.rule = rule, !.ticks = ticks]
<1>1. AtEase \in WorkTypes
  BY AtEaseSound
<1>2. j \in WorkTypes /\ j.pc = "block" /\ j.a = a /\ j.rule = rule
  BY <1>1 DEF WorkTypes, OfAddress
<1>3. work' = [work EXCEPT ![w] = j]
  BY DEF Blocking
<1> HIDE DEF j
<1>4. WorkSound(j)
  BY <1>2 DEF WorkSound
<1> QED
  BY <1>2, <1>3, <1>4, OneWorks

\* A step that neither counts nor judges keeps the counts.
LEMMA Uncounted ==
  ASSUME ShieldInv, UNCHANGED <<windows, failures, queue, reputation>>,
         work'["engine"].pc = "fail" => work'["engine"] = work["engine"]
  PROVE  Counted'
<1>1. ShieldTypes /\ Counted /\ queue' = queue /\ reputation' = reputation
  BY DEF ShieldInv
<1>2. /\ queue' \in Seq(EventTypes) /\ reputation' \in [Addresses -> StandingTypes]
      /\ \A a \in Addresses : reputation'[a].streak \in Nat
  BY <1>1 DEF ShieldTypes, StandingTypes
<1>3. \A a \in Addresses : Waiting(queue', a) \in Nat
  BY <1>2, WaitingType
<1>4. \A a \in Addresses : /\ Waiting(queue', a) <= Waiting(queue, a)
                           /\ reputation'[a].streak <= reputation[a].streak
  BY <1>1, <1>2, <1>3
<1> QED
  BY <1>1, <1>2, <1>4, CountedKept

\* A block is put up or taken down in memory, and then in the table.
LEMMA BlocksMoveInv ==
  ASSUME ShieldInv, NEW w \in Workers,
         BlockInMemory(w) \/ DropRow(w) \/ SaveRow(w) \/ UnblockInMemory(w)
  PROVE  ShieldInv'
<1>t. ShieldTypes /\ WorkInv /\ BlocksAreEarned
  BY DEF ShieldInv
<1>w. work[w] \in WorkTypes /\ WorkSound(work[w])
  BY <1>t DEF ShieldTypes, WorkInv
<1>n. NoBlock \in BlockTypes /\ NoBlock.rule \notin Auth
  BY DEF NoBlock, BlockTypes, Rules, Auth
<1>1. CASE BlockInMemory(w)
  <2> DEFINE b == [until |-> Until(work[w].ticks), rule |-> work[w].rule]
  <2>1. work[w].pc = "block" /\ Goto(w, "drop") /\ work[w].a \in Addresses
    BY <1>1, <1>w DEF BlockInMemory, At, WorkSound, OfAddress
  <2>2. /\ work' \in [Workers -> WorkTypes] /\ WorkInv'
        /\ work'["engine"].pc = "fail" => work'["engine"] = work["engine"]
    BY <1>1, <1>t, <2>1, GoesOn DEF BlockInMemory, OfAddress
  <2>3. b \in BlockTypes /\ (b.rule \in Auth => failures[work[w].a] >= Fewest)
    BY <1>t, <1>w, <2>1 DEF WorkSound, WorkTypes, BlockTypes, Until, ShieldTypes
  <2>4. blocklist' = [blocklist EXCEPT ![work[w].a] = b]
    BY <1>1 DEF BlockInMemory
  <2> HIDE DEF b
  <2>5. BlocksAreEarned'
    BY <1>1, <1>t, <2>1, <2>3, <2>4
       DEF BlockInMemory, BlocksAreEarned, ForLogins, Auth, ShieldTypes
  <2>6. ShieldTypes'
    BY <1>1, <1>t, <2>1, <2>2, <2>3, <2>4 DEF BlockInMemory, ShieldTypes
  <2>7. Counted'
    BY <1>1, <2>2, Uncounted DEF BlockInMemory
  <2> QED
    BY <2>2, <2>5, <2>6, <2>7 DEF ShieldInv
<1>2. CASE UnblockInMemory(w)
  <2>1. work[w].pc = "unblock" /\ Goto(w, "erase")
    BY <1>2 DEF UnblockInMemory, At
  <2>2. /\ work' \in [Workers -> WorkTypes] /\ WorkInv'
        /\ work'["engine"].pc = "fail" => work'["engine"] = work["engine"]
    BY <1>2, <1>t, <2>1, GoesOn DEF UnblockInMemory, OfAddress
  <2>3. blocklist' = [blocklist EXCEPT ![work[w].a] = NoBlock]
    BY <1>2 DEF UnblockInMemory
  <2>4. BlocksAreEarned'
    BY <1>2, <1>t, <1>n, <2>3 DEF UnblockInMemory, BlocksAreEarned, ForLogins, Auth, ShieldTypes
  <2>5. ShieldTypes'
    BY <1>2, <1>t, <1>n, <2>2, <2>3 DEF UnblockInMemory, ShieldTypes
  <2>6. Counted'
    BY <1>2, <2>2, Uncounted DEF UnblockInMemory
  <2> QED
    BY <2>2, <2>4, <2>5, <2>6 DEF ShieldInv
<1>3. ASSUME NEW b \in BlockTypes, shieldTables' = [shieldTables EXCEPT !.blocks[work[w].a] = b],
             b.rule \in Auth => failures[work[w].a] >= Fewest,
             work' \in [Workers -> WorkTypes] /\ WorkInv',
             work'["engine"].pc = "fail" => work'["engine"] = work["engine"],
             work[w].a \in Addresses,
             UNCHANGED <<clock, shieldOn, running, blocklist, trusted, policy, windows, queue,
                         reputation, failures>>
      PROVE  ShieldInv'
  <2>1. shieldTables'.blocks = [shieldTables.blocks EXCEPT ![work[w].a] = b]
        /\ shieldTables' \in TableTypes
    BY <1>t, <1>3 DEF ShieldTypes, TableTypes
  <2>2. ShieldTypes'
    BY <1>t, <1>3, <2>1 DEF ShieldTypes
  <2>3. BlocksAreEarned'
    <3>1. shieldTables.blocks \in [Addresses -> BlockTypes]
      BY <1>t DEF ShieldTypes, TableTypes
    <3> QED
      BY <1>t, <1>3, <2>1, <3>1 DEF BlocksAreEarned, ForLogins, Auth
  <2>4. Counted'
    BY <1>3, Uncounted
  <2> QED
    BY <1>3, <2>2, <2>3, <2>4 DEF ShieldInv
<1>4. CASE SaveRow(w)
  <2> DEFINE b == [until |-> Until(work[w].ticks), rule |-> work[w].rule]
  <2>1. work[w].pc = "save" /\ Rest(w) /\ work[w].a \in Addresses
    BY <1>4, <1>w DEF SaveRow, At, WorkSound, OfAddress
  <2>2. /\ work' \in [Workers -> WorkTypes] /\ WorkInv'
        /\ work'["engine"].pc = "fail" => work'["engine"] = work["engine"]
    BY <1>4, <1>t, <2>1, ComesToRest DEF SaveRow
  <2>3. b \in BlockTypes /\ (b.rule \in Auth => failures[work[w].a] >= Fewest)
    BY <1>t, <1>w, <2>1 DEF WorkSound, WorkTypes, BlockTypes, Until, ShieldTypes
  <2>4. shieldTables' = [shieldTables EXCEPT !.blocks[work[w].a] = b]
    BY <1>4 DEF SaveRow
  <2> HIDE DEF b
  <2> QED
    BY <1>3, <1>4, <2>1, <2>2, <2>3, <2>4 DEF SaveRow
<1>5. CASE DropRow(w)
  <2>1. /\ work[w].pc \in {"drop", "erase"} /\ work[w].a \in Addresses
        /\ (work[w].pc = "drop" /\ Goto(w, "save")) \/ Rest(w)
    BY <1>5, <1>w DEF DropRow, At, WorkSound, OfAddress
  <2>2. /\ work' \in [Workers -> WorkTypes] /\ WorkInv'
        /\ work'["engine"].pc = "fail" => work'["engine"] = work["engine"]
    <3>1. CASE work[w].pc = "drop" /\ Goto(w, "save")
      BY <1>5, <1>t, <3>1, GoesOn DEF DropRow, OfAddress
    <3>2. CASE Rest(w)
      BY <1>5, <1>t, <3>2, ComesToRest DEF DropRow
    <3> QED
      BY <2>1, <3>1, <3>2
  <2>3. shieldTables' = [shieldTables EXCEPT !.blocks[work[w].a] = NoBlock]
    BY <1>5 DEF DropRow
  <2> QED
    BY <1>3, <1>5, <1>n, <2>1, <2>2, <2>3 DEF DropRow
<1> QED
  BY <1>1, <1>2, <1>4, <1>5

-----------------------------------------------------------------------------
(* Requests *)

\* A request arrives with a business that asks for no block, or for one that
\* has nothing to do with logins.
LEMMA Arrives ==
  ASSUME ShieldTypes, WorkInv, NEW h \in LoginHandlers, NEW j \in WorkTypes, Arrive(h, j),
         failures' = failures, WorkSound(j), j.pc \notin {"fail", "record", "probe"}
  PROVE  /\ work' \in [Workers -> WorkTypes] /\ WorkInv'
         /\ work'["engine"] = work["engine"]
<1>1. h \in Workers /\ h # "engine"
  BY ShieldAssumption DEF Workers
<1>2. work' = [work EXCEPT ![h] = j]
  BY DEF Arrive
<1> QED
  BY <1>1, <1>2, OneWorks

\* What a request of an address may be.
LEMMA Business ==
  ASSUME NEW pc \in {"unblock", "trust", "distrust"}, NEW a \in Addresses
  PROVE  /\ [AtEase EXCEPT !.pc = pc, !.a = a] \in WorkTypes
         /\ WorkSound([AtEase EXCEPT !.pc = pc, !.a = a])
         /\ [AtEase EXCEPT !.pc = pc, !.a = a].pc = pc
<1> DEFINE j == [AtEase EXCEPT !.pc = pc, !.a = a]
<1>1. j \in WorkTypes /\ j.pc = pc /\ j.a = a
  BY AtEaseSound DEF WorkTypes, OfAddress
<1> HIDE DEF j
<1>2. WorkSound(j)
  BY <1>1 DEF WorkSound
<1> QED
  BY <1>1, <1>2 DEF j

\* A request that arrives changes neither the blocks nor the counts.
LEMMA ShieldRequestInv ==
  ASSUME ShieldInv, NEW h \in LoginHandlers, ShieldRequest(h)
  PROVE  ShieldInv'
<1>t. ShieldTypes /\ WorkInv /\ BlocksAreEarned
  BY DEF ShieldInv
<1>1. ASSUME NEW j \in WorkTypes, Arrive(h, j), WorkSound(j),
             j.pc \notin {"fail", "record", "probe"},
             UNCHANGED <<clock, shieldOn, running, blocklist, trusted, policy, windows,
                         reputation, failures>>,
             shieldTables' \in TableTypes, shieldTables'.blocks = shieldTables.blocks,
             queue' = queue
      PROVE  ShieldInv'
  <2>1. work' \in [Workers -> WorkTypes] /\ WorkInv' /\ work'["engine"] = work["engine"]
    BY <1>t, <1>1, Arrives
  <2>2. Counted'
    BY <1>1, <2>1, Uncounted
  <2>3. ShieldTypes'
    BY <1>t, <1>1, <2>1 DEF ShieldTypes
  <2>4. BlocksAreEarned'
    BY <1>t, <1>1 DEF BlocksAreEarned
  <2> QED
    BY <2>1, <2>2, <2>3, <2>4 DEF ShieldInv
<1>2. CASE BeginToggle(h)
  <2> DEFINE j == [AtEase EXCEPT !.pc = IF shieldOn THEN "off" ELSE "on"]
  <2>1. j \in WorkTypes /\ j.pc \in {"off", "on"}
    BY AtEaseSound DEF WorkTypes, NoAddress
  <2>2. Arrive(h, j)
    BY <1>2 DEF BeginToggle
  <2> HIDE DEF j
  <2>3. WorkSound(j)
    BY <2>1 DEF WorkSound, OfAddress
  <2> QED
    BY <1>t, <1>1, <1>2, <2>1, <2>2, <2>3 DEF BeginToggle, ShieldTypes
<1>3. ASSUME NEW p \in Policies, SavePolicy(h, p) PROVE ShieldInv'
  <2> DEFINE j == [AtEase EXCEPT !.pc = "policy", !.policy = Sanitized(p)]
  <2>1. Sanitized(p) \in GoodPolicies
    BY DEF GoodPolicies
  <2>2. j \in WorkTypes /\ j.pc = "policy"
    BY <2>1, AtEaseSound DEF WorkTypes, NoAddress
  <2>3. Arrive(h, j)
    BY <1>3 DEF SavePolicy
  <2> HIDE DEF j
  <2>4. WorkSound(j)
    BY <2>2 DEF WorkSound, OfAddress
  <2>5. shieldTables' \in TableTypes /\ shieldTables'.blocks = shieldTables.blocks
    BY <1>t, <1>3, <2>1 DEF SavePolicy, ShieldTypes, TableTypes
  <2> QED
    BY <1>1, <1>3, <2>2, <2>3, <2>4, <2>5 DEF SavePolicy
<1>4. ASSUME NEW a \in Addresses, SeeExpired(h, a) \/ Unblock(h, a) PROVE ShieldInv'
  <2>1. Arrive(h, [AtEase EXCEPT !.pc = "unblock", !.a = a])
    BY <1>4 DEF SeeExpired, Unblock
  <2>2. /\ [AtEase EXCEPT !.pc = "unblock", !.a = a] \in WorkTypes
        /\ WorkSound([AtEase EXCEPT !.pc = "unblock", !.a = a])
        /\ [AtEase EXCEPT !.pc = "unblock", !.a = a].pc = "unblock"
    BY Business
  <2> QED
    BY <1>t, <1>1, <1>4, <2>1, <2>2 DEF SeeExpired, Unblock, ShieldTypes
<1>5. ASSUME NEW a \in Addresses, NEW pc \in {"trust", "distrust"},
             (pc = "trust" /\ Trust(h, a)) \/ (pc = "distrust" /\ Distrust(h, a))
      PROVE  ShieldInv'
  <2> DEFINE j == [AtEase EXCEPT !.pc = pc, !.a = a]
  <2>1. j \in WorkTypes /\ WorkSound(j) /\ j.pc = pc
    BY Business
  <2>2. Arrive(h, j)
    BY <1>5 DEF Trust, Distrust
  <2> HIDE DEF j
  <2>3. shieldTables' \in TableTypes /\ shieldTables'.blocks = shieldTables.blocks
    <3>1. shieldTables \in TableTypes
      BY <1>t DEF ShieldTypes
    <3>2. shieldTables.trusted \in SUBSET Addresses
      BY <3>1 DEF TableTypes
    <3>3. \/ shieldTables' = [shieldTables EXCEPT !.trusted = shieldTables.trusted \cup {a}]
          \/ shieldTables' = [shieldTables EXCEPT !.trusted = shieldTables.trusted \ {a}]
      BY <1>5 DEF Trust, Distrust
    <3>4. PICK all \in SUBSET Addresses :
            shieldTables' = [shieldTables EXCEPT !.trusted = all]
      BY <3>2, <3>3
    <3> QED
      BY <3>1, <3>4 DEF TableTypes
  <2> QED
    BY <1>1, <1>5, <2>1, <2>2, <2>3 DEF Trust, Distrust
<1>6. ASSUME NEW a \in Addresses, BlockAtOnce(h, a) PROVE ShieldInv'
  <2> DEFINE j == [AtEase EXCEPT !.pc = "block", !.a = a, !.rule = "instant",
                                 !.ticks = BlockTicks[4]]
             e == [from |-> a, kind |-> "instant", name |-> "none"]
  <2>0. BlockTicks[4] \in Nat
    BY LengthsOfBlocks
  <2>1. j \in WorkTypes /\ j.pc = "block" /\ j.a = a /\ j.rule = "instant"
    <3>1. AtEase \in WorkTypes
      BY AtEaseSound
    <3> QED
      BY <2>0, <3>1 DEF WorkTypes, OfAddress, Rules
  <2>2. Arrive(h, j)
    BY <1>6 DEF BlockAtOnce
  <2> HIDE DEF j
  <2>3. WorkSound(j)
    BY <2>1 DEF WorkSound, Auth
  <2>4. work' \in [Workers -> WorkTypes] /\ WorkInv' /\ work'["engine"] = work["engine"]
    BY <1>6, <1>t, <2>1, <2>2, <2>3, Arrives DEF BlockAtOnce
  <2>5. e \in EventTypes /\ e.kind = "instant"
    BY DEF EventTypes
  <2>6. queue' = Emitted(e)
    BY <1>6 DEF BlockAtOnce
  <2> HIDE DEF e
  <2>7. /\ queue' \in Seq(EventTypes)
        /\ \A i \in DOMAIN queue' : queue'[i].kind = "fail" => queue'[i].name \in LoginNames
    BY <1>t, <2>5, <2>6 DEF Emitted, ShieldTypes
  <2>8. ASSUME NEW a2 \in Addresses PROVE Waiting(queue', a2) <= Waiting(queue, a2)
    <3>1. queue \in Seq(EventTypes)
      BY <1>t DEF ShieldTypes
    <3>2. Waiting(queue, a2) \in Nat
      BY <3>1, WaitingType
    <3>3. CASE queue' = Append(queue, e)
      <4>1. Waiting(queue', a2) <= Waiting(queue, a2) + 0
        BY <2>5, <3>1, <3>3, WaitingMore
      <4> QED
        BY <3>2, <4>1
    <3>4. CASE queue' = queue
      BY <3>2, <3>4
    <3> QED
      BY <2>6, <3>3, <3>4 DEF Emitted
  <2>9. Counted'
    <3>1. Counted /\ reputation' = reputation /\ UNCHANGED <<windows, failures>>
      BY <1>6 DEF BlockAtOnce, ShieldInv
    <3>2. /\ reputation' \in [Addresses -> StandingTypes]
          /\ \A a2 \in Addresses : reputation'[a2].streak <= reputation[a2].streak
      BY <1>t, <3>1 DEF ShieldTypes, StandingTypes
    <3> QED
      BY <1>t, <2>4, <2>7, <2>8, <3>1, <3>2, CountedKept
  <2>10. ShieldTypes'
    BY <1>t, <1>6, <2>4, <2>7 DEF BlockAtOnce, ShieldTypes
  <2>11. BlocksAreEarned'
    BY <1>t, <1>6 DEF BlockAtOnce, BlocksAreEarned
  <2> QED
    BY <2>4, <2>9, <2>10, <2>11 DEF ShieldInv
<1> QED
  BY <1>2, <1>3, <1>4, <1>5, <1>6 DEF ShieldRequest

\* Nor does the handler that goes on with it.
LEMMA WorkingInv ==
  ASSUME ShieldInv, NEW h \in LoginHandlers, ShieldWork(h)
  PROVE  ShieldInv'
<1>t. ShieldTypes /\ WorkInv /\ BlocksAreEarned /\ h \in Workers /\ WorkSound(work[h])
  BY DEF ShieldInv, WorkInv, Workers
<1>w. work[h] \in WorkTypes
  BY <1>t DEF ShieldTypes
<1>1. /\ UNCHANGED <<clock, running, blocklist, windows, queue, reputation, failures>>
      /\ shieldTables'.blocks = shieldTables.blocks
  BY <1>t DEF ShieldWork, ChangeTrust, StoreToggle, KeepToggle, CachePolicy, ShieldTypes, TableTypes
<1>2. /\ work' \in [Workers -> WorkTypes] /\ WorkInv'
      /\ work'["engine"].pc = "fail" => work'["engine"] = work["engine"]
  <2>1. CASE Rest(h)
    BY <1>1, <1>t, <2>1, ComesToRest
  <2>2. CASE At(h, "trust") /\ Goto(h, "unblock")
    BY <1>1, <1>t, <2>2, GoesOn DEF At, OfAddress
  <2>3. ASSUME NEW pc \in {"keepOn", "keepOff"}, Goto(h, pc)
        PROVE  /\ work' \in [Workers -> WorkTypes] /\ WorkInv'
               /\ work'["engine"].pc = "fail" => work'["engine"] = work["engine"]
    BY <1>1, <1>t, <2>3, GoesOn DEF OfAddress, NoAddress
  <2> QED
    BY <2>1, <2>2, <2>3 DEF ShieldWork, ChangeTrust, StoreToggle, KeepToggle, CachePolicy
<1>3. trusted' \subseteq Addresses
  BY <1>t, <1>w DEF ShieldWork, ChangeTrust, StoreToggle, KeepToggle, CachePolicy, ShieldTypes,
                    WorkSound, At, OfAddress
<1>4. shieldOn' \in BOOLEAN /\ policy' \in GoodPolicies /\ shieldTables' \in TableTypes
  BY <1>t, <1>w DEF ShieldWork, ChangeTrust, StoreToggle, KeepToggle, CachePolicy, ShieldTypes,
                    TableTypes, WorkTypes, At
<1>5. ShieldTypes'
  BY <1>1, <1>2, <1>3, <1>4, <1>t DEF ShieldTypes
<1>6. Counted'
  BY <1>1, <1>2, Uncounted
<1>7. BlocksAreEarned'
  BY <1>t, <1>1 DEF BlocksAreEarned
<1> QED
  BY <1>2, <1>5, <1>6, <1>7 DEF ShieldInv

-----------------------------------------------------------------------------
(* What is counted                                                           *)

\* The counts of an address are numbers, and what is to be judged of it too.
LEMMA CountsAreNumbers ==
  ASSUME ShieldTypes, NEW a \in Addresses
  PROVE  /\ windows[a] \in WindowTypes /\ windows[a].fails.n \in Nat
         /\ reputation[a].streak \in Nat /\ failures[a] \in Nat
         /\ Waiting(queue, a) \in Nat /\ ToJudge(a) \in Nat
         /\ ToJudge(a) = IF Judging(a) THEN Waiting(queue, a) + 1 ELSE Waiting(queue, a)
         /\ IsFiniteSet(Tried(windows[a])) /\ Cardinality(Tried(windows[a])) \in Nat
<1>1. Waiting(queue, a) \in Nat
  BY WaitingType DEF ShieldTypes
<1>2. windows[a] \in WindowTypes /\ reputation[a] \in StandingTypes /\ failures[a] \in Nat
  BY DEF ShieldTypes
<1>3. windows[a].fails.n \in Nat /\ reputation[a].streak \in Nat
  BY <1>2 DEF WindowTypes, CounterTypes, StandingTypes
<1>4. IsFiniteSet(Tried(windows[a])) /\ Cardinality(Tried(windows[a])) \in Nat
  <2>1. Tried(windows[a]) \in SUBSET LoginNames
    BY DEF Tried
  <2> QED
    BY <2>1, ShieldAssumption, FS_Subset, FS_CardinalityType
<1>5. ToJudge(a) = IF Judging(a) THEN Waiting(queue, a) + 1 ELSE Waiting(queue, a)
  BY <1>1 DEF ToJudge
<1> QED
  BY <1>1, <1>2, <1>3, <1>4, <1>5

\* A harmless event joins the queue and adds nothing that waits.
LEMMA ProbeInv ==
  ASSUME ShieldInv, NEW a \in Addresses, ProbeServed(a)
  PROVE  ShieldInv'
<1>t. ShieldTypes /\ WorkInv /\ BlocksAreEarned /\ Counted
  BY DEF ShieldInv
<1> DEFINE e == [from |-> a, kind |-> "probe", name |-> "none"]
<1>1. e \in EventTypes /\ e.kind = "probe" /\ queue' = Emitted(e)
  BY DEF EventTypes, ProbeServed
<1> HIDE DEF e
<1>2. /\ queue' \in Seq(EventTypes)
      /\ \A i \in DOMAIN queue' : queue'[i].kind = "fail" => queue'[i].name \in LoginNames
  BY <1>t, <1>1 DEF Emitted, ShieldTypes
<1>3. ASSUME NEW b \in Addresses PROVE Waiting(queue', b) <= Waiting(queue, b)
  <2>1. queue \in Seq(EventTypes) /\ Waiting(queue, b) \in Nat
    BY <1>t, CountsAreNumbers DEF ShieldTypes
  <2>2. CASE queue' = Append(queue, e)
    <3>1. Waiting(queue', b) <= Waiting(queue, b) + 0
      BY <1>1, <2>1, <2>2, WaitingMore
    <3> QED
      BY <2>1, <3>1
  <2>3. CASE queue' = queue
    BY <2>1, <2>3
  <2> QED
    BY <1>1, <2>2, <2>3 DEF Emitted
<1>4. /\ UNCHANGED <<clock, shieldOn, running, blocklist, trusted, policy, windows,
                     shieldTables, reputation, work, failures>>
      /\ reputation' \in [Addresses -> StandingTypes]
      /\ \A b \in Addresses : reputation'[b].streak <= reputation[b].streak
  BY <1>t DEF ProbeServed, ShieldTypes, StandingTypes
<1>5. Counted'
  BY <1>t, <1>2, <1>3, <1>4, CountedKept
<1>6. ShieldTypes'
  BY <1>t, <1>2, <1>4 DEF ShieldTypes
<1>7. WorkInv' /\ BlocksAreEarned'
  BY <1>t, <1>4 DEF WorkInv, WorkSound, BlocksAreEarned
<1> QED
  BY <1>5, <1>6, <1>7 DEF ShieldInv

\* A login that fails is one failure more, and at most one more that waits.
LEMMA FailsInv ==
  ASSUME ShieldInv, NEW a \in Addresses, NEW name \in LoginNames, LoginFails(a, name)
  PROVE  ShieldInv'
<1>t. ShieldTypes /\ WorkInv /\ BlocksAreEarned /\ Counted
  BY DEF ShieldInv
<1> DEFINE e == [from |-> a, kind |-> "fail", name |-> name]
<1>1. e \in EventTypes /\ e.from = a /\ e.name \in LoginNames /\ queue' = Emitted(e)
  BY DEF EventTypes, LoginFails
<1> HIDE DEF e
<1>2. /\ queue' \in Seq(EventTypes)
      /\ \A i \in DOMAIN queue' : queue'[i].kind = "fail" => queue'[i].name \in LoginNames
  BY <1>t, <1>1 DEF Emitted, ShieldTypes
<1>3. /\ UNCHANGED <<clock, shieldOn, running, blocklist, trusted, policy, windows,
                     shieldTables, reputation, work>>
      /\ failures' = [failures EXCEPT ![a] = @ + 1]
  BY DEF LoginFails
<1>4. /\ failures' \in [Addresses -> Nat]
      /\ \A b \in Addresses : /\ failures[b] \in Nat
                              /\ failures'[b] = IF b = a THEN failures[b] + 1 ELSE failures[b]
  BY <1>t, <1>3 DEF ShieldTypes
<1>5. \A b \in Addresses : failures'[b] >= failures[b]
  BY <1>4
<1>6. ShieldTypes'
  BY <1>t, <1>2, <1>3, <1>4 DEF ShieldTypes
<1>7. ASSUME NEW b \in Addresses, failures[b] >= Fewest PROVE failures'[b] >= Fewest
  BY <1>4, <1>5, <1>7, FewestIsLeast
<1>8. WorkInv'
  <2>1. ASSUME NEW w \in Workers PROVE WorkSound(work[w])'
    <3>1. WorkSound(work[w]) /\ work'[w] = work[w]
      BY <1>t, <1>3 DEF WorkInv
    <3>2. work[w].pc \in {"record", "block", "drop", "save"} => work[w].a \in Addresses
      BY <3>1 DEF WorkSound, OfAddress
    <3> QED
      BY <1>7, <3>1, <3>2 DEF WorkSound
  <2> QED
    BY <1>t, <1>3, <2>1 DEF WorkInv
<1>9. BlocksAreEarned'
  BY <1>t, <1>3, <1>7 DEF BlocksAreEarned
<1>10. ASSUME NEW b \in Addresses
       PROVE  Waiting(queue', b) \in Nat
              /\ Waiting(queue', b) + failures[b] <= Waiting(queue, b) + failures'[b]
  <2>1. queue \in Seq(EventTypes) /\ Waiting(queue, b) \in Nat /\ Waiting(queue', b) \in Nat
    BY <1>t, <1>2, WaitingType DEF ShieldTypes
  <2>2. CASE queue' = Append(queue, e)
    <3>1. Waiting(queue', b) <= Waiting(queue, b) + IF e.kind = "fail" /\ e.from = b THEN 1 ELSE 0
      BY <1>1, <2>1, <2>2, WaitingMore
    <3>2. CASE b = a
      <4>1. Waiting(queue', b) <= Waiting(queue, b) + 1
        BY <2>1, <3>1
      <4> QED
        BY <1>4, <2>1, <3>2, <4>1
    <3>3. CASE b # a
      <4>1. Waiting(queue', b) <= Waiting(queue, b) + 0
        BY <1>1, <2>1, <3>1, <3>3
      <4> QED
        BY <1>4, <2>1, <3>3, <4>1
    <3> QED
      BY <3>2, <3>3
  <2>3. CASE queue' = queue
    BY <1>4, <1>5, <2>1, <2>3
  <2> QED
    BY <1>1, <2>1, <2>2, <2>3 DEF Emitted
<1>11. Counted'
  <2> SUFFICES ASSUME NEW b \in Addresses
               PROVE  /\ windows'[b].fails.n + ToJudge(b)' <= failures'[b]
                      /\ Cardinality(Tried(windows'[b])) + ToJudge(b)' <= failures'[b]
                      /\ reputation'[b].streak + ToJudge(b)' <= failures'[b]
                      /\ Judging(b)' => work'["engine"].streak + Waiting(queue', b) <= failures'[b]
    BY DEF Counted
  <2> DEFINE names == Cardinality(Tried(windows[b]))
             before == ToJudge(b)
             after == ToJudge(b)'
  <2>1. /\ windows[b].fails.n \in Nat /\ reputation[b].streak \in Nat /\ names \in Nat
        /\ Waiting(queue, b) \in Nat /\ before \in Nat
        /\ before = IF Judging(b) THEN Waiting(queue, b) + 1 ELSE Waiting(queue, b)
    BY <1>t, CountsAreNumbers
  <2>2. Judging(b)' = Judging(b) /\ work'["engine"] = work["engine"]
    BY <1>3 DEF Judging
  <2>3. after = IF Judging(b) THEN Waiting(queue', b) + 1 ELSE Waiting(queue', b)
    BY <1>10, <2>2 DEF ToJudge
  <2>4. /\ windows[b].fails.n + before <= failures[b]
        /\ names + before <= failures[b]
        /\ reputation[b].streak + before <= failures[b]
        /\ Judging(b) => work["engine"].streak + Waiting(queue, b) <= failures[b]
    BY <1>t DEF Counted
  <2>5. work["engine"].streak \in Nat
    BY <1>t DEF ShieldTypes, Workers, WorkTypes
  <2>6. /\ Cardinality(Tried(windows'[b])) = names
        /\ windows'[b] = windows[b] /\ reputation'[b] = reputation[b]
    BY <1>3
  <2> HIDE DEF names, before, after
  <2>7. failures[b] \in Nat /\ failures'[b] \in Nat
    BY <1>4
  <2>8. after \in Nat /\ after + failures[b] <= before + failures'[b]
    BY <1>10, <2>1, <2>3, <2>7
  <2>9. windows[b].fails.n + after <= failures'[b] /\ reputation[b].streak + after <= failures'[b]
    BY <2>1, <2>4, <2>7, <2>8
  <2>10. names + after <= failures'[b]
    BY <2>1, <2>4, <2>7, <2>8
  <2>11. Judging(b) => work["engine"].streak + Waiting(queue', b) <= failures'[b]
    BY <1>10, <2>1, <2>4, <2>5, <2>7
  <2>12. after = ToJudge(b)'
    BY DEF after
  <2> QED
    BY <2>2, <2>6, <2>9, <2>10, <2>11, <2>12
<1> QED
  BY <1>6, <1>8, <1>9, <1>11 DEF ShieldInv

\* A login that succeeds ends the streak, and an address forgotten has none.
LEMMA StandingInv ==
  ASSUME ShieldInv, NEW a \in Addresses, LoginSucceeds(a) \/ Forget(a)
  PROVE  ShieldInv'
<1>t. ShieldTypes /\ WorkInv /\ BlocksAreEarned /\ Counted
  BY DEF ShieldInv
<1>1. UNCHANGED <<clock, shieldOn, running, blocklist, trusted, policy, windows, queue,
                  shieldTables, work, failures>>
  BY DEF LoginSucceeds, Forget
<1>2. ASSUME NEW r \in StandingTypes, r.streak = 0, reputation' = [reputation EXCEPT ![a] = r]
      PROVE  ShieldInv'
  <2>1. reputation' \in [Addresses -> StandingTypes]
    BY <1>t, <1>2 DEF ShieldTypes
  <2>2. \A b \in Addresses : reputation[b].streak \in Nat
    BY <1>t DEF ShieldTypes, StandingTypes
  <2>3. \A b \in Addresses : reputation'[b].streak <= reputation[b].streak
    BY <1>t, <1>2, <2>2 DEF ShieldTypes
  <2>4. \A b \in Addresses : Waiting(queue', b) <= Waiting(queue, b)
    BY <1>t, <1>1, CountsAreNumbers
  <2>5. Counted'
    BY <1>t, <1>1, <2>1, <2>3, <2>4, CountedKept DEF ShieldTypes
  <2>6. ShieldTypes'
    BY <1>t, <1>1, <2>1 DEF ShieldTypes
  <2>7. WorkInv' /\ BlocksAreEarned'
    BY <1>t, <1>1 DEF WorkInv, WorkSound, BlocksAreEarned
  <2> QED
    BY <2>5, <2>6, <2>7 DEF ShieldInv
<1>3. CASE Forget(a)
  <2>1. Unknown \in StandingTypes /\ Unknown.streak = 0
    BY DEF Unknown, StandingTypes
  <2> QED
    BY <1>2, <1>3, <2>1 DEF Forget
<1>4. CASE LoginSucceeds(a)
  <2> DEFINE r == [reputation[a] EXCEPT !.ok = Min2(reputation[a].ok + 1, HabitualAt), !.streak = 0]
  <2>1. reputation[a] \in StandingTypes
    BY <1>t DEF ShieldTypes
  <2>2. Min2(reputation[a].ok + 1, HabitualAt) \in Nat
    BY <2>1, ShieldAssumption DEF Min2, StandingTypes
  <2>3. r \in StandingTypes /\ r.streak = 0
    BY <2>1, <2>2 DEF StandingTypes
  <2>4. reputation' = [reputation EXCEPT ![a] = r]
    BY <1>4, <1>t DEF LoginSucceeds, ShieldTypes
  <2> HIDE DEF r
  <2> QED
    BY <1>2, <2>3, <2>4
<1> QED
  BY <1>3, <1>4

-----------------------------------------------------------------------------
(* The event loop                                                            *)

\* What a step of the event loop leaves alone of blocks, clock and policy.
LEMMA EngineKeeps ==
  ASSUME ShieldInv,
         UNCHANGED <<clock, shieldOn, running, blocklist, trusted, policy, shieldTables, failures>>,
         work' \in [Workers -> WorkTypes], WorkInv',
         windows' \in [Addresses -> WindowTypes], reputation' \in [Addresses -> StandingTypes],
         queue' \in Seq(EventTypes),
         \A i \in DOMAIN queue' : queue'[i].kind = "fail" => queue'[i].name \in LoginNames,
         Counted'
  PROVE  ShieldInv'
<1>1. ShieldTypes /\ BlocksAreEarned
  BY DEF ShieldInv
<1>2. ShieldTypes'
  BY <1>1 DEF ShieldTypes
<1>3. BlocksAreEarned'
  BY <1>1 DEF BlocksAreEarned
<1> QED
  BY <1>2, <1>3 DEF ShieldInv

\* The event loop takes the next event: what waited is now to be judged.
LEMMA TakeInv ==
  ASSUME ShieldInv, TakeEvent
  PROVE  ShieldInv'
<1>t. ShieldTypes /\ WorkInv /\ BlocksAreEarned /\ Counted
  BY DEF ShieldInv
<1> DEFINE e == Head(queue)
           r == reputation[e.from]
<1>1. /\ queue \in Seq(EventTypes) /\ queue # <<>> /\ queue' = Tail(queue)
      /\ work["engine"] = AtEase
      /\ UNCHANGED <<clock, shieldOn, running, blocklist, trusted, policy, windows, shieldTables,
                     reputation, failures>>
  BY <1>t DEF TakeEvent, ShieldTypes
<1>2. e \in EventTypes /\ (e.kind = "fail" => e.name \in LoginNames) /\ 1 \in DOMAIN queue
  BY <1>t, <1>1 DEF ShieldTypes
<1>3. /\ e.from \in Addresses /\ r \in StandingTypes
      /\ e.kind \in {"fail", "probe", "instant"} /\ e.name \in LoginNames \cup {"none"}
  BY <1>t, <1>2 DEF ShieldTypes, EventTypes
<1>4. /\ queue' \in Seq(EventTypes)
      /\ \A i \in DOMAIN queue' : queue'[i].kind = "fail" => queue'[i].name \in LoginNames
  <2>1. queue' \in Seq(EventTypes) /\ \A i \in DOMAIN queue' : i + 1 \in DOMAIN queue
                                                              /\ queue'[i] = queue[i + 1]
    BY <1>1
  <2> QED
    BY <1>t, <2>1 DEF ShieldTypes
<1>5. StreakAfter(r) \in Nat /\ StreakAfter(r) <= r.streak + 1
  BY <1>3 DEF StreakAfter, StandingTypes
<1>6. \A b \in Addresses : ~Judging(b)
  BY <1>1 DEF Judging, AtEase
<1>7. ASSUME NEW b \in Addresses
      PROVE  /\ Waiting(queue', b) \in Nat
             /\ Waiting(queue', b) +
                  (IF e.kind = "fail" /\ e.from = b THEN 1 ELSE 0) <= Waiting(queue, b)
  BY <1>1, <1>4, WaitingType, WaitingLess
<1>8. CASE UNCHANGED work
  <2>1. \A b \in Addresses : Waiting(queue', b) <= Waiting(queue, b)
    <3> SUFFICES ASSUME NEW b \in Addresses PROVE Waiting(queue', b) <= Waiting(queue, b)
      OBVIOUS
    <3>1. Waiting(queue, b) \in Nat
      BY <1>t, CountsAreNumbers
    <3> HIDE DEF e
    <3> QED
      BY <1>7, <3>1
  <2>2. \A b \in Addresses : reputation'[b].streak <= reputation[b].streak
    BY <1>t, <1>1 DEF ShieldTypes, StandingTypes
  <2>3. reputation' \in [Addresses -> StandingTypes]
    BY <1>t, <1>1 DEF ShieldTypes
  <2>4. Counted'
    BY <1>t, <1>1, <1>4, <1>8, <2>1, <2>2, <2>3, CountedKept
  <2>5. WorkInv' /\ work' \in [Workers -> WorkTypes] /\ windows' \in [Addresses -> WindowTypes]
    BY <1>t, <1>1, <1>8 DEF WorkInv, WorkSound, ShieldTypes
  <2> QED
    BY <1>1, <1>4, <2>3, <2>4, <2>5, EngineKeeps
<1> DEFINE j == [AtEase EXCEPT !.pc = e.kind, !.a = e.from, !.name = e.name, !.ok = r.ok,
                               !.streak = StreakAfter(r)]
<1>9. CASE e.kind # "instant" /\ work' = [work EXCEPT !["engine"] = j]
  <2>1. j \in WorkTypes
    <3>1. AtEase \in WorkTypes /\ r.ok \in Nat
      BY <1>3, AtEaseSound DEF StandingTypes
    <3>2. e.kind \in NoAddress \cup OfAddress
      BY <1>3 DEF OfAddress
    <3> HIDE DEF e, r
    <3> QED
      BY <1>3, <1>5, <3>1, <3>2 DEF WorkTypes
  <2>2. /\ j.pc = e.kind /\ j.a = e.from /\ j.name = e.name /\ j.streak = StreakAfter(r)
        /\ j.rule = "none"
    BY DEF AtEase
  <2> HIDE DEF j
  <2>3. WorkSound(j)
    BY <1>2, <1>3, <2>2 DEF WorkSound
  <2>4. work' \in [Workers -> WorkTypes] /\ WorkInv' /\ work'["engine"] = j
    BY <1>t, <1>1, <1>9, <2>1, <2>3, OneWorks DEF Workers
  <2>5. Counted'
    <3> SUFFICES ASSUME NEW b \in Addresses
                 PROVE  /\ windows'[b].fails.n + ToJudge(b)' <= failures'[b]
                        /\ Cardinality(Tried(windows'[b])) + ToJudge(b)' <= failures'[b]
                        /\ reputation'[b].streak + ToJudge(b)' <= failures'[b]
                        /\ Judging(b)' => work'["engine"].streak + Waiting(queue', b) <= failures'[b]
      BY DEF Counted
    <3> DEFINE names == Cardinality(Tried(windows[b]))
               before == ToJudge(b)
               after == ToJudge(b)'
    <3>1. /\ windows[b].fails.n \in Nat /\ reputation[b].streak \in Nat /\ names \in Nat
          /\ Waiting(queue, b) \in Nat /\ before \in Nat /\ before = Waiting(queue, b)
          /\ failures[b] \in Nat
      BY <1>t, <1>6, CountsAreNumbers
    <3>2. Judging(b)' <=> e.kind = "fail" /\ e.from = b
      BY <2>2, <2>4 DEF Judging
    <3>3. after = IF e.kind = "fail" /\ e.from = b THEN Waiting(queue', b) + 1
                                                   ELSE Waiting(queue', b)
      BY <1>7, <3>2 DEF ToJudge
    <3>4. after \in Nat /\ after <= before
      <4> HIDE DEF after, before, e
      <4>1. CASE e.kind = "fail" /\ e.from = b
        BY <1>7, <3>1, <3>3, <4>1
      <4>2. CASE ~(e.kind = "fail" /\ e.from = b)
        BY <1>7, <3>1, <3>3, <4>2
      <4> QED
        BY <4>1, <4>2
    <3>5. /\ windows[b].fails.n + before <= failures[b]
          /\ names + before <= failures[b]
          /\ reputation[b].streak + before <= failures[b]
      BY <1>t DEF Counted
    <3>6. Judging(b)' => work'["engine"].streak <= reputation[b].streak + 1
      BY <1>5, <2>2, <2>4, <3>2
    <3>7. Judging(b)' => Waiting(queue', b) + 1 <= Waiting(queue, b)
      BY <1>7, <3>2
    <3>8. work'["engine"].streak \in Nat
      BY <1>5, <2>2, <2>4
    <3>9. UNCHANGED <<windows, reputation, failures>>
      BY <1>1
    <3>10. Cardinality(Tried(windows'[b])) = names
      BY <3>9
    <3>11. after = ToJudge(b)'
      OBVIOUS
    <3>12. Waiting(queue', b) \in Nat
      BY <1>7
    <3> HIDE DEF names, before, after, e, r
    <3>13. /\ windows[b].fails.n + after <= failures[b]
           /\ reputation[b].streak + after <= failures[b]
      BY <3>1, <3>4, <3>5
    <3>14. names + after <= failures[b]
      BY <3>1, <3>4, <3>5
    <3>15. Judging(b)' => work'["engine"].streak + Waiting(queue', b) <= failures[b]
      BY <3>1, <3>5, <3>6, <3>7, <3>8, <3>12
    <3> QED
      BY <3>9, <3>10, <3>11, <3>13, <3>14, <3>15
  <2>6. reputation' \in [Addresses -> StandingTypes] /\ windows' \in [Addresses -> WindowTypes]
    BY <1>t, <1>1 DEF ShieldTypes
  <2> QED
    BY <1>1, <1>4, <2>4, <2>5, <2>6, EngineKeeps
<1> QED
  BY <1>8, <1>9 DEF TakeEvent

\* A probe is counted apart from the failures.
LEMMA CountProbeInv ==
  ASSUME ShieldInv, CountProbe
  PROVE  ShieldInv'
<1>t. ShieldTypes /\ WorkInv /\ BlocksAreEarned /\ Counted /\ "engine" \in Workers
  BY DEF ShieldInv, Workers
<1> DEFINE a == work["engine"].a
           w == [windows[a] EXCEPT !.probes = Added(windows[a].probes)]
<1>1. /\ work["engine"].pc = "probe" /\ a \in Addresses
      /\ UNCHANGED <<clock, shieldOn, running, blocklist, trusted, policy, queue, shieldTables,
                     reputation, failures>>
  BY <1>t DEF CountProbe, At, WorkInv, WorkSound, OfAddress
<1>2. /\ work' \in [Workers -> WorkTypes] /\ WorkInv'
      /\ work'["engine"].pc = "fail" => work'["engine"] = work["engine"]
  <2>1. CASE Rest("engine")
    BY <1>t, <1>1, <2>1, ComesToRest
  <2>2. CASE Blocking("engine", a, "probes", BlockTicks[2])
    <3>1. BlockTicks[2] \in Nat /\ "probes" \in Rules /\ "probes" \notin Auth
      BY LengthsOfBlocks DEF Rules, Auth
    <3> HIDE DEF a
    <3> QED
      BY <1>t, <1>1, <2>2, <3>1, SetsOut
  <2> QED
    BY <2>1, <2>2 DEF CountProbe
<1>3. windows[a] \in WindowTypes
  BY <1>t, <1>1 DEF ShieldTypes
<1>4. Added(windows[a].probes) \in CounterTypes
  BY <1>t, <1>3 DEF Added, Fresh, WindowTypes, CounterTypes, ShieldTypes
<1>5. w \in WindowTypes /\ w.fails = windows[a].fails /\ w.names = windows[a].names
  BY <1>3, <1>4 DEF WindowTypes
<1>6. windows' = [windows EXCEPT ![a] = w]
  BY <1>t DEF CountProbe, ShieldTypes
<1> HIDE DEF w, a
<1>7. /\ windows' \in [Addresses -> WindowTypes]
      /\ \A b \in Addresses : /\ windows'[b].fails = windows[b].fails
                              /\ windows'[b].names = windows[b].names
  BY <1>t, <1>1, <1>5, <1>6 DEF ShieldTypes
<1>8. Counted'
  <2> SUFFICES ASSUME NEW b \in Addresses
               PROVE  /\ windows'[b].fails.n + ToJudge(b)' <= failures'[b]
                      /\ Cardinality(Tried(windows'[b])) + ToJudge(b)' <= failures'[b]
                      /\ reputation'[b].streak + ToJudge(b)' <= failures'[b]
                      /\ ~Judging(b)'
    BY DEF Counted
  <2>1. ~Judging(b) /\ ~Judging(b)'
    BY <1>1, <1>2 DEF Judging
  <2>2. ToJudge(b)' = ToJudge(b)
    BY <1>1, <2>1 DEF ToJudge
  <2>3. Tried(windows'[b]) = Tried(windows[b])
    BY <1>7 DEF Tried
  <2> QED
    BY <1>t, <1>1, <1>7, <2>1, <2>2, <2>3 DEF Counted
<1>9. reputation' \in [Addresses -> StandingTypes] /\ queue' \in Seq(EventTypes)
      /\ \A i \in DOMAIN queue' : queue'[i].kind = "fail" => queue'[i].name \in LoginNames
  BY <1>t, <1>1 DEF ShieldTypes
<1> QED
  BY <1>1, <1>2, <1>7, <1>8, <1>9, EngineKeeps

\* The block of a judgement is set out for, with the failures it was judged by.
LEMMA RecordInv ==
  ASSUME ShieldInv, RecordBlock
  PROVE  ShieldInv'
<1>t. ShieldTypes /\ WorkInv /\ BlocksAreEarned /\ Counted /\ "engine" \in Workers
  BY DEF ShieldInv, Workers
<1> DEFINE a == work["engine"].a
           r == [reputation[a] EXCEPT !.blocks = Min2(reputation[a].blocks + 1, 3)]
<1>1. /\ work["engine"].pc = "record" /\ a \in Addresses /\ failures[a] >= Fewest
      /\ UNCHANGED <<clock, shieldOn, running, blocklist, trusted, policy, windows, queue,
                     shieldTables, failures>>
  BY <1>t DEF RecordBlock, At, WorkInv, WorkSound, OfAddress
<1>2. reputation[a] \in StandingTypes /\ reputation[a].blocks \in Nat
  BY <1>t, <1>1 DEF ShieldTypes, StandingTypes
<1>3. r \in StandingTypes /\ r.streak = reputation[a].streak
  <2>1. Min2(reputation[a].blocks + 1, 3) \in Nat
    BY <1>2 DEF Min2
  <2> QED
    BY <1>2, <2>1 DEF StandingTypes
<1>4. reputation' = [reputation EXCEPT ![a] = r]
  BY <1>t DEF RecordBlock, ShieldTypes
<1>5. Blocking("engine", a, "AUTH-001", Escalated(reputation[a].blocks))
  BY DEF RecordBlock
<1> HIDE DEF a, r
<1>6. /\ work' \in [Workers -> WorkTypes] /\ WorkInv'
      /\ work'["engine"].pc = "fail" => work'["engine"] = work["engine"]
  <2>1. Escalated(reputation[a].blocks) \in Nat /\ "AUTH-001" \in Rules
    BY <1>2, LengthsOfBlocks DEF Rules
  <2> QED
    BY <1>t, <1>1, <1>5, <2>1, SetsOut
<1>7. /\ reputation' \in [Addresses -> StandingTypes]
      /\ \A b \in Addresses : reputation'[b].streak = reputation[b].streak
                              /\ reputation[b].streak \in Nat
  BY <1>t, <1>1, <1>3, <1>4 DEF ShieldTypes, StandingTypes
<1>8. queue \in Seq(EventTypes)
      /\ \A b \in Addresses : Waiting(queue', b) <= Waiting(queue, b)
  BY <1>t, <1>1, CountsAreNumbers DEF ShieldTypes
<1>9. \A b \in Addresses : reputation'[b].streak <= reputation[b].streak
  BY <1>7
<1>10. Counted'
  BY <1>t, <1>1, <1>6, <1>7, <1>8, <1>9, CountedKept
<1>11. windows' \in [Addresses -> WindowTypes] /\ queue' \in Seq(EventTypes)
      /\ \A i \in DOMAIN queue' : queue'[i].kind = "fail" => queue'[i].name \in LoginNames
  BY <1>t, <1>1 DEF ShieldTypes
<1> QED
  BY <1>1, <1>6, <1>7, <1>10, <1>11, EngineKeeps

\* A judgement counts the failure at hand, which waits no more, and blocks for no
\* more failures than there were.
LEMMA JudgeInv ==
  ASSUME ShieldInv, JudgeFailure
  PROVE  ShieldInv'
<1>t. ShieldTypes /\ WorkInv /\ BlocksAreEarned /\ Counted /\ "engine" \in Workers
  BY DEF ShieldInv, Workers
<1> DEFINE j == work["engine"]
           a == j.a
           n == FailCount(a)
           names == NamesTried(a, j.name)
           blocks == ShouldBlock(policy, j.ok, j.streak, n)
           r == [reputation[a] EXCEPT !.streak = j.streak, !.last = clock]
           after == [windows[a].names EXCEPT ![j.name] =
                       IF blocks THEN windows[a].names[j.name]
                                 ELSE Added(windows[a].names[j.name])]
           w == [windows[a] EXCEPT !.fails = Added(windows[a].fails), !.names = after]
<1>1. /\ j.pc = "fail" /\ a \in Addresses /\ j.name \in LoginNames
      /\ UNCHANGED <<clock, shieldOn, running, blocklist, trusted, policy, queue, shieldTables,
                     failures>>
  BY <1>t DEF JudgeFailure, At, WorkInv, WorkSound, OfAddress
<1>2. /\ j \in WorkTypes /\ j.streak \in Nat /\ j.ok \in Nat
      /\ clock \in Nat /\ policy \in GoodPolicies
  BY <1>t DEF ShieldTypes, WorkTypes
<1>3. /\ reputation[a] \in StandingTypes /\ windows[a] \in WindowTypes
      /\ windows[a].fails \in CounterTypes /\ windows[a].names \in [LoginNames -> CounterTypes]
  BY <1>t, <1>1 DEF ShieldTypes, WindowTypes
<1>4. r \in StandingTypes /\ r.streak = j.streak
  BY <1>2, <1>3 DEF StandingTypes
<1>5. \A c \in CounterTypes : /\ Fresh(c) \in Nat /\ Fresh(c) <= c.n
                              /\ Added(c) \in CounterTypes /\ Added(c).n = Fresh(c) + 1
  BY <1>2 DEF Fresh, Added, CounterTypes
<1>6. after \in [LoginNames -> CounterTypes]
  BY <1>3, <1>5
<1>7. w \in WindowTypes /\ w.fails = Added(windows[a].fails) /\ w.names = after
  <2> HIDE DEF after
  <2> QED
    BY <1>3, <1>5, <1>6 DEF WindowTypes
<1>8. reputation' = [reputation EXCEPT ![a] = r] /\ windows' = [windows EXCEPT ![a] = w]
  BY <1>t, <1>3 DEF JudgeFailure, ShieldTypes, WindowTypes
<1>9. \/ blocks /\ Goto("engine", "record")
      \/ names >= StuffLimit /\ Blocking("engine", a, "AUTH-002", BlockTicks[3])
      \/ Rest("engine")
  BY DEF JudgeFailure
<1>10. /\ ToJudge(a) = Waiting(queue, a) + 1 /\ Waiting(queue, a) \in Nat /\ failures[a] \in Nat
       /\ windows[a].fails.n \in Nat
       /\ IsFiniteSet(Tried(windows[a])) /\ Cardinality(Tried(windows[a])) \in Nat
  BY <1>t, <1>1, CountsAreNumbers DEF Judging
<1>11. /\ windows[a].fails.n + ToJudge(a) <= failures[a]
       /\ Cardinality(Tried(windows[a])) + ToJudge(a) <= failures[a]
       /\ j.streak + Waiting(queue, a) <= failures[a]
  BY <1>t, <1>1 DEF Counted, Judging
\* The names that the address has tried, the one at hand included
<1>12. ASSUME NEW S \in SUBSET (Tried(windows[a]) \cup {j.name})
       PROVE  IsFiniteSet(S) /\ Cardinality(S) \in Nat
              /\ Cardinality(S) <= Cardinality(Tried(windows[a])) + 1
  <2> DEFINE T == Tried(windows[a])
             x == j.name
  <2>1. IsFiniteSet(T) /\ Cardinality(T) \in Nat
    BY <1>10
  <2> HIDE DEF T, x
  <2>2. /\ IsFiniteSet(T \cup {x})
        /\ Cardinality(T \cup {x}) = IF x \in T THEN Cardinality(T) ELSE Cardinality(T) + 1
    BY <2>1, FS_AddElement
  <2>3. S \in SUBSET (T \cup {x})
    BY <1>12 DEF T, x
  <2>4. IsFiniteSet(S) /\ Cardinality(S) <= Cardinality(T \cup {x})
    BY <2>2, <2>3, FS_Subset
  <2>5. Cardinality(S) \in Nat
    BY <2>4, FS_CardinalityType
  <2>6. Cardinality(S) <= Cardinality(T) + 1
    BY <2>1, <2>2, <2>4, <2>5
  <2> QED
    BY <2>4, <2>5, <2>6 DEF T
<1>13. names \in Nat /\ names <= Cardinality(Tried(windows[a])) + 1
  <2> DEFINE S == {m \in LoginNames : m = j.name \/ Fresh(windows[a].names[m]) > 0}
  <2>1. ASSUME NEW m \in LoginNames, Fresh(windows[a].names[m]) > 0
        PROVE  windows[a].names[m].n > 0
    <3> DEFINE c == windows[a].names[m]
    <3>1. c \in CounterTypes
      BY <1>3
    <3>2. c.n \in Nat /\ Fresh(c) \in Nat /\ Fresh(c) <= c.n
      BY <1>5, <3>1 DEF CounterTypes
    <3> QED
      BY <2>1, <3>2
  <2>2. S \in SUBSET (Tried(windows[a]) \cup {j.name})
    BY <2>1 DEF Tried
  <2>3. names = Cardinality(S)
    BY DEF NamesTried
  <2> HIDE DEF S, names
  <2> QED
    BY <1>12, <2>2, <2>3
<1>14. n \in Nat /\ n <= windows[a].fails.n + 1
  BY <1>3, <1>5, <1>10 DEF FailCount
<1>15. blocks => failures[a] >= Fewest
  <2>1. blocks => j.streak >= Fewest \/ n >= Fewest
    <3> HIDE DEF j, n
    <3> QED
      BY <1>2, <1>14, BlocksOnEnough
  <2>2. j.streak <= failures[a]
    BY <1>2, <1>10, <1>11
  <2>3. n <= failures[a]
    <3> HIDE DEF n
    <3> QED
      BY <1>10, <1>11, <1>14
  <2>4. Fewest \in Nat
    BY FewestIsLeast
  <2> HIDE DEF n, j, blocks
  <2> QED
    BY <1>2, <1>10, <1>14, <2>1, <2>2, <2>3, <2>4
<1>16. names >= StuffLimit => failures[a] >= Fewest
  <2> DEFINE tried == Cardinality(Tried(windows[a]))
  <2>1. tried \in Nat /\ names <= tried + 1 /\ tried + Waiting(queue, a) + 1 <= failures[a]
    <3>1. tried \in Nat /\ tried + ToJudge(a) <= failures[a]
      BY <1>10, <1>11
    <3> HIDE DEF tried
    <3> QED
      BY <1>10, <1>13, <3>1 DEF tried
  <2>2. Fewest \in Nat /\ Fewest <= StuffLimit /\ StuffLimit \in Nat
    BY FewestIsLeast, ShieldAssumption
  <2> HIDE DEF tried, names, a, j
  <2> QED
    BY <1>10, <1>13, <2>1, <2>2
<1>17. /\ work' \in [Workers -> WorkTypes] /\ WorkInv' /\ work'["engine"].pc # "fail"
  <2>1. CASE blocks /\ Goto("engine", "record")
    <3> DEFINE k == [j EXCEPT !.pc = "record"]
    <3>1. k \in WorkTypes /\ k.pc = "record" /\ k.a = a
      BY <1>2 DEF WorkTypes, OfAddress
    <3>2. work' = [work EXCEPT !["engine"] = k]
      BY <2>1 DEF Goto
    <3> HIDE DEF k
    <3>3. WorkSound(k)
      BY <1>1, <1>15, <2>1, <3>1 DEF WorkSound
    <3>4. work'["engine"] = k /\ work' \in [Workers -> WorkTypes] /\ WorkInv'
      BY <1>t, <1>1, <3>1, <3>2, <3>3, OneWorks
    <3> QED
      BY <3>1, <3>4
  <2>2. CASE names >= StuffLimit /\ Blocking("engine", a, "AUTH-002", BlockTicks[3])
    <3>1. BlockTicks[3] \in Nat /\ "AUTH-002" \in Rules
      BY LengthsOfBlocks DEF Rules
    <3>2. /\ work' \in [Workers -> WorkTypes] /\ WorkInv'
      BY <1>t, <1>1, <1>16, <2>2, <3>1, SetsOut
    <3>3. work'["engine"].pc = "block"
      BY <1>t, <2>2 DEF Blocking, AtEase, ShieldTypes
    <3> QED
      BY <3>2, <3>3
  <2>3. CASE Rest("engine")
    <3>1. work' \in [Workers -> WorkTypes] /\ WorkInv'
      BY <1>t, <1>1, <2>3, ComesToRest
    <3>2. work'["engine"].pc = "none"
      BY <1>t, <2>3 DEF Rest, AtEase, ShieldTypes
    <3> QED
      BY <3>1, <3>2
  <2> QED
    BY <1>9, <2>1, <2>2, <2>3
<1>18. /\ reputation' \in [Addresses -> StandingTypes] /\ windows' \in [Addresses -> WindowTypes]
       /\ reputation'[a] = r /\ windows'[a] = w
       /\ \A b \in Addresses \ {a} : reputation'[b] = reputation[b] /\ windows'[b] = windows[b]
  <2> HIDE DEF r, w, a
  <2> QED
    BY <1>t, <1>1, <1>4, <1>7, <1>8 DEF ShieldTypes
<1>19. Counted'
  <2> SUFFICES ASSUME NEW b \in Addresses
               PROVE  /\ windows'[b].fails.n + ToJudge(b)' <= failures'[b]
                      /\ Cardinality(Tried(windows'[b])) + ToJudge(b)' <= failures'[b]
                      /\ reputation'[b].streak + ToJudge(b)' <= failures'[b]
                      /\ ~Judging(b)'
    BY DEF Counted
  <2>1. ~Judging(b)'
    BY <1>17 DEF Judging
  <2>2. ToJudge(b)' = Waiting(queue, b) /\ Waiting(queue, b) \in Nat
    BY <1>t, <1>1, <2>1, CountsAreNumbers DEF ToJudge
  <2>3. CASE b # a
    <3>1. ~Judging(b)
      BY <2>3 DEF Judging
    <3>2. ToJudge(b)' = ToJudge(b)
      BY <1>t, <2>2, <3>1, CountsAreNumbers
    <3>3. reputation'[b] = reputation[b] /\ windows'[b] = windows[b] /\ failures'[b] = failures[b]
      BY <1>1, <1>18, <2>3
    <3> QED
      BY <1>t, <2>1, <3>2, <3>3 DEF Counted
  <2>4. CASE b = a
    <3> DEFINE tried == Cardinality(Tried(windows[a]))
               now == Cardinality(Tried(windows'[b]))
    <3>1. windows'[b].fails.n <= windows[a].fails.n + 1 /\ windows'[b].fails.n \in Nat
      <4>1. windows'[b].fails = Added(windows[a].fails)
        BY <1>7, <1>18, <2>4
      <4> QED
        BY <1>3, <1>5, <1>10, <4>1
    <3>2. now \in Nat /\ now <= tried + 1
      <4>1. windows'[b].names = after
        BY <1>7, <1>18, <2>4
      <4>2. \A m \in LoginNames : m # j.name => after[m] = windows[a].names[m]
        BY <1>3
      <4>3. Tried(windows'[b]) \in SUBSET (Tried(windows[a]) \cup {j.name})
        <5> HIDE DEF after
        <5> QED
          BY <4>1, <4>2 DEF Tried
      <4> HIDE DEF after, a, j, tried
      <4> QED
        BY <1>12, <4>3 DEF tried
    <3>3. reputation'[b].streak = j.streak
      BY <1>4, <1>18, <2>4
    <3>4. tried \in Nat /\ tried + ToJudge(a) <= failures[a] /\ failures'[b] = failures[a]
      BY <1>1, <1>10, <1>11, <2>4
    <3>5. ToJudge(b)' = Waiting(queue, a)
      BY <2>2, <2>4
    <3> HIDE DEF tried, now, a, j
    <3>6. now + Waiting(queue, a) <= failures[a]
      BY <1>10, <3>2, <3>4
    <3>7. windows'[b].fails.n + Waiting(queue, a) <= failures[a]
      BY <1>10, <1>11, <3>1
    <3> QED
      BY <1>11, <2>1, <3>3, <3>4, <3>5, <3>6, <3>7 DEF now
  <2> QED
    BY <2>3, <2>4
<1>20. queue' \in Seq(EventTypes)
       /\ \A i \in DOMAIN queue' : queue'[i].kind = "fail" => queue'[i].name \in LoginNames
  BY <1>t, <1>1 DEF ShieldTypes
<1> QED
  BY <1>1, <1>17, <1>18, <1>19, <1>20, EngineKeeps

-----------------------------------------------------------------------------
(* Time, the clean-up and the restart                                        *)

\* The clock, and the clean-up of blocks that are over.
LEMMA PassingInv ==
  ASSUME ShieldInv, ShieldTick \/ CleanBlocks
  PROVE  ShieldInv'
<1>t. ShieldTypes /\ WorkInv /\ BlocksAreEarned
  BY DEF ShieldInv
<1>1. UNCHANGED <<shieldOn, running, trusted, policy, windows, queue, shieldTables,
                  reputation, work, failures>>
  BY DEF ShieldTick, CleanBlocks
<1>2. NoBlock \in BlockTypes /\ NoBlock.rule \notin Auth
  BY DEF NoBlock, BlockTypes, Rules, Auth
<1>3. clock' \in Nat
  BY <1>t DEF ShieldTick, CleanBlocks, ShieldTypes
<1>4. /\ blocklist' \in [Addresses -> BlockTypes]
      /\ \A a \in Addresses : blocklist'[a] \in {blocklist[a], NoBlock}
  BY <1>t, <1>2 DEF ShieldTick, CleanBlocks, ShieldTypes
<1>5. ShieldTypes'
  BY <1>t, <1>1, <1>3, <1>4 DEF ShieldTypes
<1>6. WorkInv' /\ Counted'
  BY <1>t, <1>1, Uncounted DEF WorkInv, WorkSound
<1>7. BlocksAreEarned'
  BY <1>t, <1>1, <1>2, <1>4 DEF BlocksAreEarned, ForLogins, Auth
<1> QED
  BY <1>5, <1>6, <1>7 DEF ShieldInv

\* The next process counts from nothing and takes its blocks from the table.
LEMMA RestartInv ==
  ASSUME ShieldInv, RestartShield
  PROVE  ShieldInv'
<1>t. ShieldTypes /\ WorkInv /\ BlocksAreEarned /\ Counted
  BY DEF ShieldInv
<1>1. /\ UNCHANGED <<clock, shieldTables, reputation, failures>>
      /\ windows' = NoWindows /\ queue' = <<>> /\ work' = [w \in Workers |-> AtEase]
      /\ blocklist' = LoadedBlocks /\ trusted' = LoadedTrust
      /\ shieldOn' = shieldTables.on /\ policy' = shieldTables.policy
  BY DEF RestartShield
<1>2. NoBlock \in BlockTypes /\ NoBlock.rule \notin Auth
  BY DEF NoBlock, BlockTypes, Rules, Auth
<1>3. shieldTables \in TableTypes /\ shieldTables.blocks \in [Addresses -> BlockTypes]
  BY <1>t DEF ShieldTypes, TableTypes
<1>4. /\ blocklist' \in [Addresses -> BlockTypes]
      /\ \A a \in Addresses : blocklist'[a] \in {shieldTables.blocks[a], NoBlock}
  BY <1>1, <1>2, <1>3 DEF LoadedBlocks
<1>5. trusted' \subseteq Addresses /\ shieldOn' \in BOOLEAN /\ policy' \in GoodPolicies
  BY <1>1, <1>3 DEF LoadedTrust, TableTypes
<1>6. AtEase \in WorkTypes /\ WorkSound(AtEase)
  BY AtEaseSound
<1>7. work' \in [Workers -> WorkTypes] /\ \A w \in Workers : work'[w] = AtEase
  BY <1>1, <1>6
<1>8. windows' \in [Addresses -> WindowTypes] /\ \A a \in Addresses : windows'[a].fails.n = 0
  BY <1>1 DEF NoWindows, NoEvents, WindowTypes, CounterTypes
<1>9. ShieldTypes'
  BY <1>t, <1>1, <1>4, <1>5, <1>7, <1>8 DEF ShieldTypes
<1>10. WorkInv'
  BY <1>7 DEF WorkInv, WorkSound, AtEase, OfAddress, Workers
<1>11. BlocksAreEarned'
  BY <1>t, <1>1, <1>2, <1>4 DEF BlocksAreEarned, ForLogins, Auth
<1>12. Counted'
  <2> SUFFICES ASSUME NEW a \in Addresses
               PROVE  /\ windows'[a].fails.n + ToJudge(a)' <= failures'[a]
                      /\ Cardinality(Tried(windows'[a])) + ToJudge(a)' <= failures'[a]
                      /\ reputation'[a].streak + ToJudge(a)' <= failures'[a]
                      /\ ~Judging(a)'
    BY DEF Counted
  <2>1. ~Judging(a)'
    BY <1>7 DEF Judging, AtEase, Workers
  <2>2. {i \in DOMAIN queue' : queue'[i].kind = "fail" /\ queue'[i].from = a} = {}
    BY <1>1
  <2>3. Waiting(queue', a) = 0
    BY <2>2, FS_EmptySet DEF Waiting
  <2>4. ToJudge(a)' = 0
    BY <2>1, <2>3 DEF ToJudge
  <2>5. Tried(windows'[a]) = {}
    BY <1>1 DEF Tried, NoWindows, NoEvents
  <2>6. Cardinality(Tried(windows'[a])) = 0
    BY <2>5, FS_EmptySet
  <2>7. /\ reputation[a].streak \in Nat /\ failures[a] \in Nat /\ ToJudge(a) \in Nat
        /\ reputation[a].streak + ToJudge(a) <= failures[a]
    BY <1>t, CountsAreNumbers DEF Counted
  <2>8. reputation[a].streak + 0 <= failures[a]
    BY <2>7
  <2> QED
    BY <1>1, <1>8, <2>1, <2>4, <2>6, <2>7, <2>8
<1> QED
  BY <1>9, <1>10, <1>11, <1>12 DEF ShieldInv

-----------------------------------------------------------------------------
(* The theorem                                                               *)

\* Every step of the shield keeps the invariant.
LEMMA ShieldStepInv == ShieldInv /\ [ShieldNext]_shieldVars => ShieldInv'
<1> SUFFICES ASSUME ShieldInv, [ShieldNext]_shieldVars PROVE ShieldInv'
  OBVIOUS
<1>1. ASSUME NEW h \in LoginHandlers, ShieldRequest(h) PROVE ShieldInv'
  BY <1>1, ShieldRequestInv
<1>2. ASSUME NEW h \in LoginHandlers, ShieldWork(h) PROVE ShieldInv'
  BY <1>2, WorkingInv
<1>3. ASSUME NEW w \in Workers,
             BlockInMemory(w) \/ DropRow(w) \/ SaveRow(w) \/ UnblockInMemory(w)
      PROVE  ShieldInv'
  BY <1>3, BlocksMoveInv
<1>4. CASE TakeEvent
  BY <1>4, TakeInv
<1>5. CASE JudgeFailure
  BY <1>5, JudgeInv
<1>6. CASE RecordBlock
  BY <1>6, RecordInv
<1>7. CASE CountProbe
  BY <1>7, CountProbeInv
<1>8. ASSUME NEW a \in Addresses, ProbeServed(a) PROVE ShieldInv'
  BY <1>8, ProbeInv
<1>9. ASSUME NEW a \in Addresses, LoginSucceeds(a) \/ Forget(a) PROVE ShieldInv'
  BY <1>9, StandingInv
<1>10. ASSUME NEW a \in Addresses, NEW n \in LoginNames, LoginFails(a, n) PROVE ShieldInv'
  BY <1>10, FailsInv
<1>11. CASE ShieldTick \/ CleanBlocks
  BY <1>11, PassingInv
<1>12. CASE RestartShield
  BY <1>12, RestartInv
<1>13. CASE UNCHANGED shieldVars
  <2>1. ShieldTypes' /\ WorkInv' /\ BlocksAreEarned'
    BY <1>13 DEF shieldVars, ShieldInv, ShieldTypes, WorkInv, WorkSound, BlocksAreEarned
  <2>2. Counted'
    BY <1>13, Uncounted DEF shieldVars
  <2> QED
    BY <2>1, <2>2 DEF ShieldInv
<1> QED
  BY <1>1, <1>2, <1>3, <1>4, <1>5, <1>6, <1>7, <1>8, <1>9, <1>10, <1>11, <1>12, <1>13
     DEF ShieldNext

\* No address is blocked for login failures that were not its own, in memory or
\* in the table, for any addresses, names, policies, handlers and lengths of the
\* queue, through changes of the policy, lost events and restarts
\* (shieldAuthDecision, countDistinctUsers, shieldBlockIP).
THEOREM BlocksEarned == ShieldSpec => []BlocksAreEarned
<1>1. ShieldInv => BlocksAreEarned
  BY DEF ShieldInv
<1> QED
  BY <1>1, InitShieldInv, ShieldStepInv, PTL DEF ShieldSpec
=============================================================================
