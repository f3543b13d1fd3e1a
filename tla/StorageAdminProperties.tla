---------------------- MODULE StorageAdminProperties ----------------------
(* What the handlers of StorageAdmin are meant to guarantee.                  *)
EXTENDS StorageAdmin, StorageLayoutProperties

\* What a scan can say of the disks and the pools.
Scans ==
  [on : [Disks -> Pools \cup {NoPool}], mounted : SUBSET Pools,
   df : [Pools -> Profiles \cup {NoProfile}], managed : SUBSET Pools,
   taken : BOOLEAN, generation : 0 .. MaxScans]

\* Every variable this module adds stays in its domain.
AdminTypeOK ==
  /\ primary \in Pools \cup {NoPool}
  /\ probe \in Scans /\ snap \in Scans
  /\ imports \subseteq [pool : Pools, on : SUBSET Disks, mounted : BOOLEAN,
                         df : Profiles \cup {NoProfile}]
  /\ call.step \in {"idle", "validated", "run", "wipe", "persist", "failing",
                    "unmount", "unmounted", "wipeAll", "forget", "adopt",
                    "addFstab"}

-----------------------------------------------------------------------------
\* storage_metadata.primary_pool names a pool of the table or none at all
\* (post-condition of removePoolFromDB), as long as pools go by name: the
\* DestroyPool of the service does not look at it.
PrimaryExists == primary \in rows \cup {NoPool}

\* Imports judge by a snapshot taken before storageMu, and nothing checks that
\* their disks are free. TrueSpec is the system as long as what an import saw
\* still holds when it writes the assignments.
ImportsTrue ==
  call.step = "adopt" => call.ins = {d \in Disks : disk[d] = call.pool}

TrueSpec == AdminInit /\ [][AdminNext /\ ImportsTrue]_adminVars

\* Then DeviceExclusive holds with every handler at work; and no call, the
\* `wipefs -af` of destroyPoolBtrfs included, changes a disk assigned to
\* another pool than its own.
CallsSpareOthers ==
  [][call' # call => \A d \in Disks : disk'[d] # disk[d] =>
                      members[d] \subseteq {call.pool}]_adminVars

\* The wipe of one disk, judged by a snapshot that is up to date, leaves the
\* filesystem of every pool of the table as it is.
FreshWipeSpares ==
  [][call = Idle /\ call' = Idle /\ snap.on = disk /\ snap.managed = rows
     /\ copying = {}
     => \A d \in Disks : disk[d] \in rows => disk'[d] = disk[d]]_adminVars

-----------------------------------------------------------------------------
(* What the documentation promises *)

\* wipeDiskForce (storage_wipe.go) "always blocks" if the disk belongs to a
\* managed pool.
WipeSparesManaged ==
  [][call = Idle /\ call' = Idle
     => \A d \in Disks : disk[d] \in rows /\ Managed(disk[d]) => disk'[d] = disk[d]]_adminVars
=============================================================================
