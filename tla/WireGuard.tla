------------------------------ MODULE WireGuard ------------------------------
(***************************************************************************)
(* The tunnel of NimBackup (wireguard.go) on one NAS: the requests that    *)
(* read wireguard-state.json, change the copy and write it back, write     *)
(* wg0.conf from the copy and bring the interface up.  Nothing orders      *)
(* them.  An address is the last byte of a tunnel address; the NAS has .1  *)
(* until a remote assigns it another.                                      *)
(***************************************************************************)
EXTENDS Integers, FiniteSets, TLC

CONSTANTS
  Remotes,     \* the other NAS; as device ids and as public keys
  MaxWgJobs,   \* bound: requests
  MaxWgFaults  \* bound: commands, writes and calls that fail

ASSUME WgAssumption == MaxWgJobs \in Nat

NoState == [made |-> FALSE]
NoCopy == [made |-> FALSE]

VARIABLES
  wgState,  \* wireguard-state.json: [made, key, local, peers, next], or NoState
  wgConf,   \* wg0.conf: the local address and the peers
  wgLink,   \* the interface: what it was configured with, or NoState
  wgJobs,   \* requests in flight: a set of records with their copy of the state
  nextKey,  \* generateWGKeyPair: the next key
  wgJobsLeft, wgFaults  \* what is left of the bounds

wgVars == <<wgState, wgConf, wgLink, wgJobs, nextKey, wgJobsLeft, wgFaults>>

Peer(r, address, device) == [key |-> r, address |-> address, device |-> device]

\* What the requests before this run of the daemon left: nothing, or a peer.
WgInit ==
  /\ wgState \in {NoState} \cup
       {[made |-> TRUE, key |-> 0, local |-> 1, peers |-> {Peer(r, 2, r)}, next |-> 3] : r \in Remotes}
  /\ wgConf = wgState /\ wgLink \in {NoState, wgConf}
  /\ wgJobs = {}
  /\ nextKey = 1
  /\ wgJobsLeft = MaxWgJobs
  /\ wgFaults = MaxWgFaults

Then(j, to) == wgJobs' = (wgJobs \ {j}) \cup {to}
Over(j) == wgJobs' = wgJobs \ {j}

\* handleWGRoutes.
WgRequest ==
  /\ wgJobsLeft > 0 /\ wgJobsLeft' = wgJobsLeft - 1
  /\ \E call \in {"exchange", "pair", "remove"} \X Remotes \cup {"setup", "up", "down"} \X {"none"} :
       wgJobs' = wgJobs \cup {[id |-> wgJobsLeft, what |-> call[1], remote |-> call[2],
                               pc |-> IF call[1] = "down" THEN "link" ELSE "load", copy |-> NoCopy]}
  /\ UNCHANGED <<wgState, wgConf, wgLink, nextKey, wgFaults>>

Kept == UNCHANGED <<wgJobsLeft, wgFaults>>

---------------------------------------------------------------------------
(* Reading the state. *)

FreshState == [made |-> TRUE, key |-> nextKey, local |-> 1, peers |-> {}, next |-> 2]

\* What comes after the read.
AfterLoad(j) == CASE j.what = "pair" -> "call" [] j.what \in {"setup", "up"} -> "conf"
                  [] OTHER -> "change"

\* initWGState: a first state is generated and saved in two steps.
Load(j) ==
  /\ j.pc \in {"load", "peer"}
  /\ LET pc == IF j.pc = "peer" THEN "change" ELSE AfterLoad(j)
     IN IF wgState.made
          THEN Then(j, [j EXCEPT !.pc = pc, !.copy = wgState]) /\ UNCHANGED nextKey
          ELSE IF j.what \in {"remove", "up"}
                 THEN Over(j) /\ UNCHANGED nextKey
                 ELSE /\ Then(j, [j EXCEPT !.pc = "init", !.copy = FreshState])
                      /\ nextKey' = nextKey + 1
  /\ Kept /\ UNCHANGED <<wgState, wgConf, wgLink>>

SaveFresh(j) ==
  /\ j.pc = "init"
  /\ wgState' = j.copy
  /\ Then(j, [j EXCEPT !.pc = AfterLoad(j)])
  /\ Kept /\ UNCHANGED <<wgConf, wgLink, nextKey>>

---------------------------------------------------------------------------
(* Changes of the copy. *)

\* Mutant: the counter is left alone.
SameNext(copy) == copy.next

\* NextPeerIP++.
NextPeerIP(copy) == copy.next + 1

\* handleWGExchange, the responder: a remote that pairs again has another
\* address; a new one a device that is only pending.
Exchanged(j) ==
  LET known == {p \in j.copy.peers : p.key = j.remote}
      device == IF known = {} THEN "pending" ELSE (CHOOSE p \in known : TRUE).device
  IN [j.copy EXCEPT !.peers = (@ \ known) \cup {Peer(j.remote, j.copy.next, device)},
                    !.next = NextPeerIP(j.copy)]

\* addWGPeer, the initiator: a remote that is known stays as it is (its
\* endpoint is written to a loop copy).
Paired(j) ==
  IF \E p \in j.copy.peers : p.key = j.remote THEN j.copy
  ELSE [j.copy EXCEPT !.peers = @ \cup {Peer(j.remote, j.copy.next, j.remote)},
                      !.next = NextPeerIP(j.copy)]

\* removeWGPeer finds peers by device.
Removed(j) == [j.copy EXCEPT !.peers = {p \in @ : p.device # j.remote}]

Changed(j) == CASE j.what = "exchange" -> Exchanged(j) [] j.what = "pair" -> Paired(j)
                [] j.what = "remove" -> Removed(j)

\* The change is saved; without one, removeWGPeer fails and addWGPeer returns,
\* or it saves the copy for the endpoint's sake.
Modify(j) ==
  /\ j.pc = "change"
  /\ \/ /\ Changed(j) # j.copy \/ j.what = "pair"
        /\ wgState' = Changed(j)
        /\ Then(j, [j EXCEPT !.pc = "conf", !.copy = Changed(j)])
     \/ Changed(j) = j.copy /\ Over(j) /\ UNCHANGED wgState
  /\ Kept /\ UNCHANGED <<wgConf, wgLink, nextKey>>

\* The call of initiateWGPairing to the remote, which says what address this
\* NAS has; the copy read before the call is saved, and the configuration.
PairCall(j) ==
  /\ j.pc = "call"
  /\ \E address \in {1, 2} : Then(j, [j EXCEPT !.pc = "assigned", !.copy.local = address])
  /\ Kept /\ UNCHANGED <<wgState, wgConf, wgLink, nextKey>>

Assigned(j) ==
  /\ j.pc = "assigned"
  /\ wgState' = j.copy /\ wgConf' = j.copy
  /\ Then(j, [j EXCEPT !.pc = "peer"])
  /\ Kept /\ UNCHANGED <<wgLink, nextKey>>

---------------------------------------------------------------------------
(* writeWGConfig, then wgUp or wgDown. *)

WriteConf(j) ==
  /\ j.pc = "conf"
  /\ wgConf' = j.copy
  /\ IF j.what = "setup" THEN Over(j) ELSE Then(j, [j EXCEPT !.pc = "link"])
  /\ Kept /\ UNCHANGED <<wgState, wgLink, nextKey>>

Link(j) ==
  /\ j.pc = "link"
  /\ wgLink' = IF j.what = "down" \/ (j.what = "remove" /\ j.copy.peers = {})
               THEN NoState ELSE wgConf
  /\ Over(j)
  /\ Kept /\ UNCHANGED <<wgState, wgConf, nextKey>>

\* A write, wg-quick or the remote fails: the request ends there.
JobFails(j) ==
  /\ wgFaults > 0 /\ wgFaults' = wgFaults - 1
  /\ j.pc \in {"init", "call", "conf", "link"}
  /\ Over(j)
  /\ UNCHANGED <<wgState, wgConf, wgLink, nextKey, wgJobsLeft>>

WgStep(j) ==
  \/ Load(j) \/ SaveFresh(j) \/ Modify(j) \/ PairCall(j) \/ Assigned(j)
  \/ WriteConf(j) \/ Link(j) \/ JobFails(j)

WgNext == WgRequest \/ \E j \in wgJobs : WgStep(j)

WgSpec == WgInit /\ [][WgNext]_wgVars

---------------------------------------------------------------------------
\* However the requests overlap, and whatever they undo of each other, the
\* peers of the state, of wg0.conf and of the interface have an address and a
\* key each, so that WireGuard routes an address to one remote.
AddressesDistinct ==
  \A s \in {wgState, wgConf, wgLink} :
    s.made => \A p, q \in s.peers : p # q => p.address # q.address /\ p.key # q.key
=============================================================================
