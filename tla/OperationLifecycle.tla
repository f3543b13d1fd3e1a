------------------------- MODULE OperationLifecycle -------------------------
(* What the storage_operations table promises, whoever writes it: a row opens *)
(* in_progress, is settled at most once, and at any moment at most one open   *)
(* row holds a given pool (index INV-1 of storage_schema.sql, transition maps *)
(* of storage_policy.go).                                                     *)
CONSTANTS Pools, Ops, NoPool

VARIABLES status, pool

vars == <<status, pool>>

Active == "in_progress"

\* o is open and holds p.
Holds(o, p) == status[o] = Active /\ pool[o] = p

Init ==
  /\ status = [o \in Ops |-> "absent"]
  /\ pool = [o \in Ops |-> NoPool]

\* An operation opens; one that creates a pool holds none yet.
Open(o, p) ==
  /\ status[o] = "absent"
  /\ p \in Pools => \A r \in Ops : ~Holds(r, p)
  /\ status' = [status EXCEPT ![o] = Active]
  /\ pool' = [pool EXCEPT ![o] = p]

\* An open operation ends; one that created a pool is linked to it.
Settle(o, s, p) ==
  /\ status[o] = Active
  /\ s \in {"completed", "failed"}
  /\ p = pool[o] \/ pool[o] = NoPool
  /\ status' = [status EXCEPT ![o] = s]
  /\ pool' = [pool EXCEPT ![o] = p]

\* A pool is deleted and the operations on it lose it; the deletion may settle
\* the operation that asked for it.
Delete(p, settled) ==
  /\ settled = {} \/ \E o \in Ops : settled = {o} /\ Holds(o, p)
  /\ status' = [o \in Ops |-> IF o \in settled THEN "completed" ELSE status[o]]
  /\ pool' = [o \in Ops |-> IF pool[o] = p THEN NoPool ELSE pool[o]]

Next ==
  \/ \E o \in Ops, p \in Pools \cup {NoPool} :
       \/ Open(o, p)
       \/ \E s \in {"completed", "failed"} : Settle(o, s, p)
  \/ \E p \in Pools, settled \in SUBSET Ops : Delete(p, settled)

Spec == Init /\ [][Next]_vars
=============================================================================
