-------------------------- MODULE MCStorageLayout --------------------------
(* Small instances of StorageLayout for TLC. *)
EXTENDS StorageLayoutProperties, TLC

CONSTANTS p1, p2, d1, d2, d3, o1, o2, o3, single, raid1

\* single and raid1 of Profile.MinDisks (storage_types.go), the kernel's own
\* limits, and the order of `btrfs filesystem df`, which lists RAID1 first.
MCMinDisks  == (single :> 1) @@ (raid1 :> 2)
MCKernelMin == (single :> 1) @@ (raid1 :> 2)
MCDfRank    == (single :> 4) @@ (raid1 :> 1)

Symmetric == Permutations(Pools) \cup Permutations(Disks) \cup Permutations(Ops)
=============================================================================
