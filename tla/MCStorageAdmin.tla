-------------------------- MODULE MCStorageAdmin --------------------------
(* Small instances of StorageAdmin for TLC. *)
EXTENDS StorageAdminProperties, TLC

CONSTANTS p1, p2, d1, d2, o1, o2, single

MCMinDisks  == single :> 1
MCKernelMin == single :> 1
MCDfRank    == single :> 4

Symmetric == Permutations(Pools) \cup Permutations(Disks) \cup Permutations(Ops)
=============================================================================
