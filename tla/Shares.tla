------------------------------- MODULE Shares -------------------------------
(***************************************************************************)
(* Shared folders (shares_service.go, db.go, the share.* operations of     *)
(* socket_api.go) and the managed folders inside them                      *)
(* (managed_folders_*.go): Btrfs subvolumes, Linux groups and ACLs on one  *)
(* side, rows of SQLite on the other, and nothing that locks the two       *)
(* together.                                                               *)
(*                                                                         *)
(* One ordinary user stands for all of them.  getSharePath reads           *)
(* shares.json, which migrateFromJSON renames away and nothing writes      *)
(* again: it fails, and share.add_user_ro and share.remove_user with it.   *)
(***************************************************************************)
EXTENDS Integers, FiniteSets

CONSTANTS
  ShareNames,      \* names of shares
  SharePools,      \* pools that exist at first
  Prefixed,        \* pairs <<p, q>>: the mount point of p is a prefix of q's
  FolderNames,     \* names of managed folders
  ShareAdmins,     \* concurrent requests of administrators
  MaxShareCalls,   \* bound: requests
  MaxShareFaults   \* bound: crashes, and commands or rows that fail

ASSUME SharesAssumption ==
  /\ ShareNames # {} /\ IsFiniteSet(FolderNames)
  /\ "none" \notin SharePools
  /\ MaxShareCalls \in Nat /\ MaxShareFaults \in Nat

VARIABLES
  poolsHere,   \* pools whose filesystem is mounted and has a row
  place,       \* <pool>/shares/<share>: "none", "subvol" or "plain" (mkdir)
  nested,      \* subvolumes of managed folders: <<pool, share, folder>> -> ACL
  filled,      \* those of them that hold files
  shareRows,   \* shares and share_permissions: share -> [pool, perm] or NoShare
  groups,      \* shares whose Linux group exists
  joined,     \* groups the user belongs to
  folderRows,  \* managed_folders: a set of [id, share, folder, state, perm]
  nextFolder,  \* the next id (a UUID)
  calls,       \* requests at work: admin -> record, or NoCall
  taken,       \* history: requests that create a folder, while another request
               \* deleted that very folder, or its share, after they had made it
  unreconciled,\* the daemon has started and reconcile has not run yet
  shareCalls, shareFaults  \* what is left of the bounds

shareVars == <<poolsHere, place, nested, filled, shareRows, groups, joined, folderRows,
               nextFolder, calls, taken, unreconciled, shareCalls, shareFaults>>
dirs == <<poolsHere, place, nested, filled>>
accounts == <<groups, joined>>
shareTables == <<shareRows, folderRows, nextFolder>>

Perms == {"none", "ro", "rw"}
NoShare == [pool |-> "none"]
NoCall == [pc |-> "none"]
HasShare(s) == shareRows[s] # NoShare
FolderAt(r) == <<shareRows[r.share].pool, r.share, r.folder>>
RowOf(id) == {r \in folderRows : r.id = id}
\* UPDATE managed_folders ... WHERE id = ?
SetFolder(id, field, value) ==
  folderRows' = {IF r.id = id THEN [r EXCEPT ![field] = value] ELSE r : r \in folderRows}
WithoutFolders(names) == {t \in DOMAIN nested : t \notin names}
Keeping(names) == [t \in names |-> nested[t]]

SharesInit ==
  /\ poolsHere = SharePools
  /\ \E home \in SharePools, kept \in SUBSET FolderNames :
       LET s == CHOOSE n \in ShareNames : TRUE
           at == {<<home, s, f>> : f \in kept}
       IN /\ place = [p \in SharePools |-> [n \in ShareNames |->
                        IF p = home /\ n = s THEN "subvol" ELSE "none"]]
          /\ nested = [t \in at |-> "none"]
          /\ shareRows = [n \in ShareNames |->
                            IF n = s THEN [pool |-> home, perm |-> "none"] ELSE NoShare]
          /\ groups = {s}
          /\ folderRows = {[id |-> 1, share |-> s, folder |-> f, state |-> "active",
                            perm |-> "none"] : f \in kept}
  /\ Cardinality(folderRows) <= 1
  /\ filled = {} /\ joined = {}
  /\ nextFolder = 2
  /\ calls = [c \in ShareAdmins |-> NoCall] /\ taken = {}
  /\ unreconciled = FALSE
  /\ shareCalls = MaxShareCalls /\ shareFaults = MaxShareFaults

\* A request arrives, moves to its next step, or answers.
Arrives(c, call) ==
  /\ calls[c] = NoCall /\ shareCalls > 0
  /\ calls' = [calls EXCEPT ![c] = call] /\ taken' = taken \ {c}
  /\ shareCalls' = shareCalls - 1
  /\ UNCHANGED <<unreconciled, shareFaults>>
Proceeds(c, pc) ==
  calls' = [calls EXCEPT ![c].pc = pc] /\ UNCHANGED <<unreconciled, shareCalls>>
Answers(c) == calls' = [calls EXCEPT ![c] = NoCall] /\ UNCHANGED <<unreconciled, shareCalls>>
Well == UNCHANGED shareFaults
ShareFault == shareFaults > 0 /\ shareFaults' = shareFaults - 1

\* The requests that have made a managed folder of a share and not recorded it.
Makers(s) ==
  {e \in ShareAdmins : calls[e].pc \in {"acl", "persist"} /\ calls[e].share = s}

\* Those of them whose folder the next step of c, or its share's row, is to take:
\* DestroyFolder and RollBack by the path, ForgetShare by the name of the share.
Robbed(c) ==
  {e \in ShareAdmins \ {c} :
     \/ calls[c].pc = "unrow" /\ e \in Makers(calls[c].share)
     \/ /\ calls[c].pc \in {"delsub", "rollback"}
        /\ e \in Makers(calls[c].share) /\ calls[e].folder = calls[c].folder}

-----------------------------------------------------------------------------
(* CreateShare: the check, the subvolume, the permissions, the row. *)

BeginCreateShare(c) ==
  \E s \in ShareNames, p \in poolsHere :
    /\ ~HasShare(s)
    /\ Arrives(c, [pc |-> "subvol", share |-> s, pool |-> p])
    /\ UNCHANGED <<dirs, accounts, shareTables>>

\* createBtrfsSubvolIfMissing: a subvolume that is there is kept; a plain
\* directory or an unmounted pool make the command fail.
MakeSubvolume(c) ==
  LET k == calls[c] IN
  /\ k.pc = "subvol"
  /\ \/ /\ k.pool \in poolsHere /\ place[k.pool][k.share] = "subvol"
        /\ Proceeds(c, "group") /\ Well /\ UNCHANGED place
     \/ /\ k.pool \in poolsHere /\ place[k.pool][k.share] = "none"
        /\ place' = [place EXCEPT ![k.pool][k.share] = "subvol"]
        /\ Proceeds(c, "group") /\ Well
     \/ /\ k.pool \notin poolsHere \/ place[k.pool][k.share] = "plain"
        /\ Answers(c) /\ Well /\ UNCHANGED place
     \/ Answers(c) /\ ShareFault /\ UNCHANGED place
  /\ UNCHANGED <<poolsHere, nested, filled, accounts, shareTables>>

\* share.create: groupadd -f, and MkdirAll of a directory that may be gone.
MakeShareGroup(c) ==
  LET k == calls[c] IN
  /\ k.pc = "group"
  /\ groups' = groups \cup {k.share}
  /\ place' = [place EXCEPT ![k.pool][k.share] =
                 IF @ = "none" /\ k.pool \in poolsHere THEN "plain" ELSE @]
  /\ Proceeds(c, "row") /\ Well
  /\ UNCHANGED <<poolsHere, nested, filled, joined, shareTables>>

\* INSERT INTO shares: the name is the key.  The creator's own permission is
\* not the user's.
RecordShare(c) ==
  LET k == calls[c] IN
  /\ k.pc = "row"
  /\ shareRows' = [shareRows EXCEPT ![k.share] =
                     IF @ = NoShare THEN [pool |-> k.pool, perm |-> "none"] ELSE @]
  /\ Answers(c) /\ Well
  /\ UNCHANGED <<dirs, accounts, folderRows, nextFolder>>

-----------------------------------------------------------------------------
(* UpdateShare: one changed permission, on the system and then in the row. *)

BeginUpdateShare(c) ==
  \E s \in ShareNames, perm \in Perms :
    /\ HasShare(s) /\ shareRows[s].perm # perm
    /\ Arrives(c, [pc |-> "usermod", share |-> s, perm |-> perm])
    /\ UNCHANGED <<dirs, accounts, shareTables>>

\* share.add_user_rw needs the group; the other two stop at getSharePath.
ApplyPermission(c) ==
  LET k == calls[c] IN
  /\ k.pc = "usermod"
  /\ joined' = IF k.perm = "rw" /\ k.share \in groups
                THEN joined \cup {k.share} ELSE joined
  /\ Proceeds(c, "setperm") /\ Well
  /\ UNCHANGED <<dirs, groups, shareTables>>

\* dbShareSetPermission, under the foreign key to shares.
RecordPermission(c) ==
  LET k == calls[c] IN
  /\ k.pc = "setperm"
  /\ shareRows' = [shareRows EXCEPT ![k.share] =
                     IF @ = NoShare THEN @ ELSE [@ EXCEPT !.perm = k.perm]]
  /\ Answers(c) /\ Well
  /\ UNCHANGED <<dirs, accounts, folderRows, nextFolder>>

-----------------------------------------------------------------------------
(* DeleteShare: groupdel, the subvolume if it can be, the row in any case. *)

BeginDeleteShare(c) ==
  \E s \in ShareNames :
    /\ HasShare(s)
    /\ Arrives(c, [pc |-> "groupdel", share |-> s, pool |-> shareRows[s].pool])
    /\ UNCHANGED <<dirs, accounts, shareTables>>

DeleteShareGroup(c) ==
  /\ calls[c].pc = "groupdel"
  /\ groups' = groups \ {calls[c].share}
  /\ joined' = joined \ {calls[c].share}
  /\ Proceeds(c, "unsubvol") /\ Well
  /\ UNCHANGED <<dirs, shareTables>>

\* destroyBtrfsSubvolIfExists, best effort: Btrfs refuses to delete a
\* subvolume that holds another, that is, a share with managed folders.
DestroySubvolume(c) ==
  LET k == calls[c]
      holds == \E t \in DOMAIN nested : t[1] = k.pool /\ t[2] = k.share
      can == k.pool \in poolsHere /\ place[k.pool][k.share] = "subvol" /\ ~holds
  IN
  /\ k.pc = "unsubvol"
  /\ \/ /\ can /\ Well
        /\ place' = [place EXCEPT ![k.pool][k.share] = "none"]
     \/ ~can /\ Well /\ UNCHANGED place
     \/ ShareFault /\ UNCHANGED place
  /\ Proceeds(c, "unrow")
  /\ UNCHANGED <<poolsHere, nested, filled, accounts, shareTables>>

\* DELETE FROM shares cascades to the managed folders; the request answers all
\* the same when it fails.
ForgetShare(c) ==
  LET s == calls[c].share IN
  /\ calls[c].pc = "unrow"
  /\ \/ /\ shareRows' = [shareRows EXCEPT ![s] = NoShare]
        /\ folderRows' = {r \in folderRows : r.share # s}
        /\ Well
     \/ ShareFault /\ UNCHANGED <<shareRows, folderRows>>
  /\ Answers(c)
  /\ UNCHANGED <<dirs, accounts, nextFolder>>

-----------------------------------------------------------------------------
(* CreateManagedFolder: the filesystem first, the row last, and a rollback *)
(* in between.                                                             *)

BeginCreateFolder(c) ==
  \E s \in ShareNames, f \in FolderNames, perm \in {"none", "rw"} :
    /\ ~ \E r \in folderRows : r.share = s /\ r.folder = f
    /\ HasShare(s)
    /\ Arrives(c, [pc |-> "mksub", share |-> s, folder |-> f, perm |-> perm])
    /\ UNCHANGED <<dirs, accounts, shareTables>>

\* The path of the folder as getManagedSharePath resolves it now.
Resolved(k) == <<shareRows[k.share].pool, k.share, k.folder>>
CanMake(k) ==
  /\ HasShare(k.share)
  /\ shareRows[k.share].pool \in poolsHere
  /\ place[shareRows[k.share].pool][k.share] # "none"
  /\ Resolved(k) \notin DOMAIN nested

\* mutant: createRes.Ok is not looked at
MakeFolderUnchecked(c) ==
  LET k == calls[c] IN
  /\ k.pc = "mksub"
  /\ Proceeds(c, "persist") /\ ShareFault
  /\ UNCHANGED <<dirs, accounts, shareTables>>

MakeFolder(c) ==
  LET k == calls[c] IN
  /\ k.pc = "mksub"
  /\ \/ /\ CanMake(k)
        /\ nested' = [t \in DOMAIN nested \cup {Resolved(k)} |->
                        IF t = Resolved(k) THEN "none" ELSE nested[t]]
        /\ Proceeds(c, IF k.perm = "none" THEN "persist" ELSE "acl") /\ Well
     \/ ~CanMake(k) /\ Answers(c) /\ Well /\ UNCHANGED nested
     \/ Answers(c) /\ ShareFault /\ UNCHANGED nested
  /\ UNCHANGED <<poolsHere, place, filled, accounts, shareTables>>

\* setfacl, whose failure nobody sees.
WithAcl(k) == [t \in DOMAIN nested |-> IF t = Resolved(k) THEN k.perm ELSE nested[t]]

SetFolderPermission(c) ==
  LET k == calls[c] IN
  /\ k.pc = "acl"
  /\ nested' = IF HasShare(k.share) THEN WithAcl(k) ELSE nested
  /\ Proceeds(c, IF HasShare(k.share) THEN "persist" ELSE "rollback") /\ Well
  /\ UNCHANGED <<poolsHere, place, filled, accounts, shareTables>>

\* The INSERT fails on the foreign key, or on UNIQUE(share_name, rel_path). The
\* permission is recorded after it, as well as it can be.
CanPersist(k) ==
  HasShare(k.share) /\ ~ \E r \in folderRows : r.share = k.share /\ r.folder = k.folder

PersistFolder(c) ==
  LET k == calls[c] IN
  /\ k.pc = "persist"
  /\ \/ /\ CanPersist(k)
        /\ folderRows' = folderRows \cup
             {[id |-> nextFolder, share |-> k.share, folder |-> k.folder,
               state |-> "active", perm |-> "none"]}
        /\ nextFolder' = nextFolder + 1 /\ Well
        /\ IF k.perm = "none" THEN Answers(c)
           ELSE /\ calls' = [calls EXCEPT ![c] =
                     [pc |-> "reperm", id |-> nextFolder, share |-> k.share,
                      folder |-> k.folder, perm |-> k.perm]]
                /\ UNCHANGED <<unreconciled, shareCalls>>
     \/ /\ ~CanPersist(k)
        /\ Proceeds(c, "rollback") /\ Well /\ UNCHANGED <<folderRows, nextFolder>>
     \/ Proceeds(c, "rollback") /\ ShareFault /\ UNCHANGED <<folderRows, nextFolder>>
  /\ UNCHANGED <<dirs, accounts, shareRows>>

\* folder.delete takes the folder of a share that has a row, if it is empty.
CanRemove(k) ==
  HasShare(k.share) /\ Resolved(k) \in DOMAIN nested /\ Resolved(k) \notin filled

RollBack(c) ==
  LET k == calls[c] IN
  /\ k.pc = "rollback"
  /\ nested' = IF CanRemove(k) THEN Keeping(WithoutFolders({Resolved(k)})) ELSE nested
  /\ Answers(c) /\ Well
  /\ UNCHANGED <<poolsHere, place, filled, accounts, shareTables>>

-----------------------------------------------------------------------------
(* UpdateManagedFolder and DeleteManagedFolder find the folder by its id   *)
(* and then work on its path.                                              *)

BeginUpdateFolder(c) ==
  \E r \in folderRows, perm \in Perms :
    /\ Arrives(c, [pc |-> "refacl", id |-> r.id, share |-> r.share, folder |-> r.folder,
                   perm |-> perm])
    /\ UNCHANGED <<dirs, accounts, shareTables>>

ApplyFolderPermission(c) ==
  LET k == calls[c] IN
  /\ k.pc = "refacl"
  /\ nested' = IF HasShare(k.share) THEN WithAcl(k) ELSE nested
  /\ IF HasShare(k.share) THEN Proceeds(c, "reperm") ELSE Answers(c)
  /\ Well
  /\ UNCHANGED <<poolsHere, place, filled, accounts, shareTables>>

RecordFolderPermission(c) ==
  LET k == calls[c] IN
  /\ k.pc = "reperm"
  /\ \/ SetFolder(k.id, "perm", k.perm) /\ Well
     \/ ShareFault /\ UNCHANGED folderRows
  /\ Answers(c)
  /\ UNCHANGED <<dirs, accounts, shareRows, nextFolder>>

BeginDeleteFolder(c) ==
  \E r \in folderRows :
    /\ Arrives(c, [pc |-> "mark", id |-> r.id, share |-> r.share, folder |-> r.folder])
    /\ UNCHANGED <<dirs, accounts, shareTables>>

\* dbManagedFolderSetState.
SetState(id, state) == SetFolder(id, "state", state)

MarkDeleting(c) ==
  /\ calls[c].pc = "mark"
  /\ SetState(calls[c].id, "deleting")
  /\ Proceeds(c, "isempty") /\ Well
  /\ UNCHANGED <<dirs, accounts, shareRows, nextFolder>>

CheckEmpty(c) ==
  /\ calls[c].pc = "isempty"
  /\ Proceeds(c, IF CanRemove(calls[c]) THEN "delsub" ELSE "unmark") /\ Well
  /\ UNCHANGED <<dirs, accounts, shareTables>>

\* btrfs subvolume delete takes the files written since the check with it.
DestroyFolder(c) ==
  LET k == calls[c]
      can == HasShare(k.share) /\ Resolved(k) \in DOMAIN nested
  IN
  /\ k.pc = "delsub"
  /\ \/ /\ can /\ Well
        /\ nested' = Keeping(WithoutFolders({Resolved(k)}))
        /\ filled' = filled \ {Resolved(k)}
        /\ Proceeds(c, "delrow")
     \/ ~can /\ Well /\ Proceeds(c, "unmark") /\ UNCHANGED <<nested, filled>>
     \/ ShareFault /\ Proceeds(c, "unmark") /\ UNCHANGED <<nested, filled>>
  /\ UNCHANGED <<poolsHere, place, accounts, shareTables>>

MarkActive(c) ==
  /\ calls[c].pc = "unmark"
  /\ SetState(calls[c].id, "active")
  /\ Answers(c) /\ Well
  /\ UNCHANGED <<dirs, accounts, shareRows, nextFolder>>

ForgetFolder(c) ==
  /\ calls[c].pc = "delrow"
  /\ folderRows' = folderRows \ RowOf(calls[c].id)
  /\ Answers(c) /\ Well
  /\ UNCHANGED <<dirs, accounts, shareRows, nextFolder>>

-----------------------------------------------------------------------------
(* The rest of the daemon, and the user. *)

\* deleteSharesForPool: by pool, or by a path that begins with the mount point.
OfPool(p) ==
  {s \in ShareNames : HasShare(s) /\ (shareRows[s].pool = p \/ <<p, shareRows[s].pool>> \in Prefixed)}

\* destroyPoolBtrfs, as far as shares see it.
DestroySharePool(p) ==
  LET gone == OfPool(p) IN
  /\ p \in poolsHere /\ shareCalls > 0
  /\ shareCalls' = shareCalls - 1
  /\ poolsHere' = poolsHere \ {p}
  /\ place' = [place EXCEPT ![p] = [s \in ShareNames |-> "none"]]
  /\ nested' = Keeping({t \in DOMAIN nested : t[1] # p})
  /\ filled' = {t \in filled : t[1] # p}
  /\ groups' = groups \ gone /\ joined' = joined \ gone
  /\ shareRows' = [s \in ShareNames |-> IF s \in gone THEN NoShare ELSE shareRows[s]]
  /\ folderRows' = {r \in folderRows : r.share \notin gone}
  /\ taken' = taken \cup UNION {Makers(s) : s \in gone}
  /\ UNCHANGED <<nextFolder, calls, unreconciled, shareFaults>>

UserWrites(t) ==
  /\ t \in DOMAIN nested \ filled
  /\ filled' = filled \cup {t}
  /\ UNCHANGED <<poolsHere, place, nested, accounts, shareTables, calls, taken,
                 unreconciled, shareCalls, shareFaults>>

ShareCrash ==
  /\ ShareFault
  /\ calls' = [c \in ShareAdmins |-> NoCall]
  /\ unreconciled' = TRUE
  /\ UNCHANGED <<dirs, accounts, shareTables, taken, shareCalls>>

\* reconcile, once per start: groups and members are made to follow the rows.
ReconcileShares ==
  LET known == {s \in ShareNames : HasShare(s)} IN
  /\ unreconciled
  /\ unreconciled' = FALSE
  /\ groups' = groups \cup known
  /\ joined' = (joined \cup {s \in known : shareRows[s].perm = "rw"})
                  \ {s \in known : shareRows[s].perm = "ro"}
  /\ UNCHANGED <<dirs, shareTables, calls, taken, shareCalls, shareFaults>>

\* The next step of a request.
CallStep(c) ==
  /\ \/ MakeSubvolume(c) \/ MakeShareGroup(c) \/ RecordShare(c)
     \/ ApplyPermission(c) \/ RecordPermission(c)
     \/ DeleteShareGroup(c) \/ DestroySubvolume(c) \/ ForgetShare(c)
     \/ MakeFolder(c) \/ SetFolderPermission(c) \/ PersistFolder(c) \/ RollBack(c)
     \/ ApplyFolderPermission(c) \/ RecordFolderPermission(c)
     \/ MarkDeleting(c) \/ CheckEmpty(c) \/ DestroyFolder(c) \/ MarkActive(c)
     \/ ForgetFolder(c)
  /\ taken' = taken \cup Robbed(c)

SharesNext ==
  \/ \E c \in ShareAdmins :
       \/ BeginCreateShare(c) \/ BeginUpdateShare(c) \/ BeginDeleteShare(c)
       \/ BeginCreateFolder(c) \/ BeginUpdateFolder(c) \/ BeginDeleteFolder(c)
       \/ CallStep(c)
  \/ \E p \in SharePools : DestroySharePool(p)
  \/ \E t \in DOMAIN nested : UserWrites(t)
  \/ ShareCrash \/ ReconcileShares

SharesSpec == SharesInit /\ [][SharesNext]_shareVars

-----------------------------------------------------------------------------
\* A managed folder enters the database with its subvolume there, whichever
\* step fails and whatever else is deleted, created or crashes meanwhile. It
\* may be missing when another request deletes that very folder, or its share
\* or pool, between the making and the recording: nothing keeps the two apart,
\* and then half a folder is recorded, of which managed_folders_service.go says
\* that it never is ("NUNCA se persiste en DB un estado a medias").
FoldersBornWhole ==
  [][\A r \in folderRows' : RowOf(r.id) = {} =>
       \/ FolderAt(r)' \in DOMAIN nested'
       \/ \E c \in taken : /\ calls[c].pc = "persist"
                           /\ calls[c].share = r.share /\ calls[c].folder = r.folder]_shareVars

=============================================================================
