----------------------------- MODULE PoolProofs -----------------------------
(* Theorems about what a pool shows and holds: its health, the managed        *)
(* folders of its shares, and where it is mounted.                            *)
EXTENDS PoolHealth, Shares, PoolMounts, FiniteSetTheorems, TLAPS

-----------------------------------------------------------------------------
(* The rules of ComputePoolHealth are monotone, for any disks: whatever is *)
(* found wrong besides never makes the status better.  The rules are a     *)
(* list in which the first that applies wins, so that it is not enough to  *)
(* look at each: a rule that begins to apply must be at least as grave as  *)
(* the one that applied before (VerdictMonotone, by cases on the latter).  *)

MissingIn(found) == {x \in found : x[1] = "disk_missing"}

\* More diagnostics, more missing disks.
LEMMA MissingMonotone ==
  ASSUME NEW full, IsFiniteSet(full), NEW part \in SUBSET full
  PROVE  Missing(part) \in Nat /\ Missing(full) \in Nat /\ Missing(part) <= Missing(full)
<1>1. MissingIn(full) \subseteq full /\ MissingIn(part) \subseteq MissingIn(full)
  BY DEF MissingIn
<1>2. IsFiniteSet(MissingIn(full))
  BY <1>1, FS_Subset
<1>3. /\ IsFiniteSet(MissingIn(part))
      /\ Cardinality(MissingIn(part)) <= Cardinality(MissingIn(full))
  BY <1>1, <1>2, FS_Subset
<1>4. Cardinality(MissingIn(part)) \in Nat /\ Cardinality(MissingIn(full)) \in Nat
  BY <1>2, <1>3, FS_CardinalityType
<1> QED BY <1>3, <1>4 DEF Missing, MissingIn

LEMMA HasMonotone ==
  ASSUME NEW full, NEW part \in SUBSET full, NEW code, Has(part, code)
  PROVE  Has(full, code)
BY DEF Has

LEMMA CanLoseType == CanLose(VdevType(healthProfile)) \in {0, 1}
BY DEF CanLose

\* What the rules look at, apart from the codes.
Spare(found) == CanLose(VdevType(healthProfile)) - Missing(found)
Bare == CanLose(VdevType(healthProfile)) > 0
        /\ Cardinality(HealthDisks) <= CanLose(VdevType(healthProfile))

LEMMA StatusIs ==
  ASSUME NEW found
  PROVE  Status(found) =
    IF Has(found, "pool_readonly") THEN "critical"
    ELSE IF Spare(found) < 0 THEN "critical"
    ELSE IF Spare(found) = 0 /\ Has(found, "smart_critical") THEN "critical"
    ELSE IF Missing(found) > 0 THEN "degraded"
    ELSE IF Has(found, "smart_critical") THEN "degraded"
    ELSE IF Bare THEN "degraded"
    ELSE IF Has(found, "io_errors") THEN "unstable"
    ELSE IF Has(found, "smart_warning") THEN "at_risk"
    ELSE IF Has(found, "temp_high") THEN "at_risk"
    ELSE "healthy"
BY DEF Status, Verdict, Spare, Bare

\* One more problem never makes the verdict better.
LEMMA VerdictMonotone ==
  ASSUME NEW full, IsFiniteSet(full), NEW part \in SUBSET full
  PROVE  Severity(Status(part)) <= Severity(Status(full))
<1>1. Missing(part) \in Nat /\ Missing(full) \in Nat /\ Missing(part) <= Missing(full)
  BY MissingMonotone
<1>2. Spare(full) <= Spare(part) /\ Spare(part) \in Int /\ Spare(full) \in Int
  BY <1>1, CanLoseType DEF Spare
<1>3. \A code : Has(part, code) => Has(full, code)
  BY HasMonotone
<1>4. /\ Severity("healthy") = 0 /\ Severity("at_risk") = 1 /\ Severity("unstable") = 2
      /\ Severity("degraded") = 3 /\ Severity("critical") = 4
  BY DEF Severity
<1>5. Status(full) \in {"healthy", "at_risk", "unstable", "degraded", "critical"}
  BY StatusIs
<1>6. CASE Status(part) = "critical"
  <2>1. Status(full) = "critical" \/ Missing(full) > 0
    BY <1>1, <1>2, <1>3, <1>6, StatusIs DEF Spare
  <2> QED BY <1>1, <1>2, <1>3, <1>4, <1>6, <2>1, StatusIs
<1>7. CASE Status(part) = "degraded"
  <2>1. Status(full) \in {"degraded", "critical"}
    BY <1>1, <1>2, <1>3, <1>7, StatusIs
  <2> QED BY <1>4, <1>7, <2>1
<1>8. CASE Status(part) = "unstable"
  <2>1. Status(full) \in {"unstable", "degraded", "critical"}
    BY <1>1, <1>2, <1>3, <1>8, StatusIs
  <2> QED BY <1>4, <1>8, <2>1
<1>9. CASE Status(part) = "at_risk"
  <2>1. Status(full) # "healthy"
    BY <1>1, <1>2, <1>3, <1>9, StatusIs
  <2> QED BY <1>4, <1>5, <1>9, <2>1
<1>10. CASE Status(part) = "healthy"
  BY <1>4, <1>5, <1>10
<1> QED BY <1>6, <1>7, <1>8, <1>9, <1>10, StatusIs

Codes == {"disk_missing", "io_errors", "smart_critical", "smart_warning", "temp_high",
          "pool_readonly"}

LEMMA DiagnosticsFinite == IsFiniteSet(Diagnostics)
<1>1. IsFiniteSet(HealthDisks \cup {"pool"})
  BY HealthAssumption, FS_AddElement
<1>2. IsFiniteSet(Codes)
  <2>1. IsFiniteSet({"disk_missing"})
    BY FS_Singleton
  <2>2. IsFiniteSet({"disk_missing"} \cup {"io_errors"})
    BY <2>1, FS_AddElement
  <2>3. IsFiniteSet(({"disk_missing"} \cup {"io_errors"}) \cup {"smart_critical"})
    BY <2>2, FS_AddElement
  <2> DEFINE first == ({"disk_missing"} \cup {"io_errors"}) \cup {"smart_critical"}
  <2>4. IsFiniteSet(first \cup {"smart_warning"})
    BY <2>3, FS_AddElement
  <2>5. IsFiniteSet((first \cup {"smart_warning"}) \cup {"temp_high"})
    BY <2>4, FS_AddElement
  <2>6. IsFiniteSet(((first \cup {"smart_warning"}) \cup {"temp_high"}) \cup {"pool_readonly"})
    BY <2>5, FS_AddElement
  <2>7. Codes = ((first \cup {"smart_warning"}) \cup {"temp_high"}) \cup {"pool_readonly"}
    BY DEF Codes
  <2> QED BY <2>6, <2>7
<1>3. IsFiniteSet(Codes \X (HealthDisks \cup {"pool"}))
  BY <1>1, <1>2, FS_Product
<1>4. \A d \in HealthDisks : DiskDiagnostics(d) \subseteq Codes \X (HealthDisks \cup {"pool"})
  BY DEF DiskDiagnostics, Coded, Codes
<1>5. Diagnostics \subseteq Codes \X (HealthDisks \cup {"pool"})
  <2>1. UNION {DiskDiagnostics(d) : d \in HealthDisks} \subseteq Codes \X (HealthDisks \cup {"pool"})
    <3> SUFFICES ASSUME NEW x \in UNION {DiskDiagnostics(d) : d \in HealthDisks}
                 PROVE  x \in Codes \X (HealthDisks \cup {"pool"})
      OBVIOUS
    <3>1. PICK d \in HealthDisks : x \in DiskDiagnostics(d)
      OBVIOUS
    <3> QED BY <1>4, <3>1
  <2>2. Coded("pool_readonly", "pool", readonly) \subseteq Codes \X (HealthDisks \cup {"pool"})
    BY DEF Coded, Codes
  <2> QED BY <2>1, <2>2 DEF Diagnostics
<1> QED BY <1>3, <1>5, FS_Subset

\* ComputePoolHealth, for any disks, profile and diagnostics: the status that is
\* shown and told is at least as grave as any part of what was found.
THEOREM StatusIsMonotone == HealthSpec => []DamageNeverHelps
<1>1. DamageNeverHelps
  BY DiagnosticsFinite, VerdictMonotone DEF DamageNeverHelps
<1> QED BY <1>1, PTL

-----------------------------------------------------------------------------
(* A managed folder is born whole, for any shares, pools, requests and      *)
(* faults: what a request has made is there until it is recorded, or the    *)
(* request is one of those whose folder another request took (taken).       *)

ShareRowTypes == {NoShare} \cup [pool : SharePools, perm : Perms]
FolderRowTypes == [id : Nat, share : ShareNames, folder : FolderNames,
                   state : {"active", "deleting"}, perm : Perms]

OnShare == {"groupdel", "unsubvol", "unrow"}
OnFolder == {"mark", "isempty", "delsub", "unmark", "delrow"}
InCreation == {"mksub", "acl", "persist", "rollback"}
\* The subvolume has been made, and not recorded.
Made == {"acl", "persist"}

ShareCalls == [pc : {"subvol", "group", "row"} \cup OnShare, share : ShareNames,
               pool : SharePools]
PermCalls == [pc : {"usermod", "setperm"}, share : ShareNames, perm : Perms]
MakeCalls == [pc : InCreation, share : ShareNames, folder : FolderNames, perm : Perms]
AclCalls == [pc : {"refacl", "reperm"}, id : Nat, share : ShareNames, folder : FolderNames,
             perm : Perms]
DropCalls == [pc : OnFolder, id : Nat, share : ShareNames, folder : FolderNames]
CallTypes == {NoCall} \cup ShareCalls \cup PermCalls \cup MakeCalls \cup AclCalls \cup DropCalls

SharesTyped ==
  /\ poolsHere \subseteq SharePools
  /\ shareRows \in [ShareNames -> ShareRowTypes]
  /\ folderRows \subseteq FolderRowTypes
  /\ nextFolder \in Nat
  /\ calls \in [ShareAdmins -> CallTypes]

\* The subvolume a request has made is there, and its share has a row, unless
\* another request has taken it.
MadeIsThere ==
  \A c \in ShareAdmins : calls[c].pc \in Made /\ c \notin taken =>
    HasShare(calls[c].share) /\ Resolved(calls[c]) \in DOMAIN nested

SharesInv == SharesTyped /\ MadeIsThere

\* A request is of the kind that its step belongs to.
LEMMA KindOfCall ==
  ASSUME NEW k \in CallTypes
  PROVE  /\ k.pc \in InCreation => k \in MakeCalls
         /\ k.pc \in OnFolder => k \in DropCalls
         /\ k.pc \in {"subvol", "group", "row"} \cup OnShare => k \in ShareCalls
         /\ k.pc \in {"usermod", "setperm"} => k \in PermCalls
         /\ k.pc \in {"refacl", "reperm"} => k \in AclCalls
         /\ k.pc = "none" => k = NoCall
  BY DEF CallTypes, NoCall, ShareCalls, PermCalls, MakeCalls, AclCalls, DropCalls,
         InCreation, OnFolder, OnShare

\* What a request keeps as it moves to its next step.
LEMMA CallMoves ==
  ASSUME NEW k \in CallTypes, NEW pc,
         \/ k.pc \in InCreation /\ pc \in InCreation
         \/ k.pc \in OnFolder /\ pc \in OnFolder
         \/ k.pc \in {"subvol", "group", "row"} /\ pc \in {"subvol", "group", "row"}
         \/ k.pc \in OnShare /\ pc \in OnShare
         \/ k.pc \in {"usermod", "setperm"} /\ pc \in {"usermod", "setperm"}
         \/ k.pc \in {"refacl", "reperm"} /\ pc \in {"refacl", "reperm"}
  PROVE  LET m == [k EXCEPT !.pc = pc] IN
         /\ m \in CallTypes /\ m.pc = pc
         /\ k.pc # "none" => m.share = k.share
         /\ k.pc \in InCreation \cup OnFolder => m.folder = k.folder
<1> DEFINE m == [k EXCEPT !.pc = pc]
<1>1. CASE k.pc \in InCreation
  BY <1>1, KindOfCall DEF MakeCalls, CallTypes, InCreation, OnFolder, OnShare
<1>2. CASE k.pc \in OnFolder
  BY <1>2, KindOfCall DEF DropCalls, CallTypes, InCreation, OnFolder, OnShare
<1>3. CASE k.pc \in {"subvol", "group", "row"} \cup OnShare
  BY <1>3, KindOfCall DEF ShareCalls, CallTypes, InCreation, OnFolder, OnShare
<1>4. CASE k.pc \in {"usermod", "setperm"}
  BY <1>4, KindOfCall DEF PermCalls, CallTypes, InCreation, OnFolder, OnShare
<1>5. CASE k.pc \in {"refacl", "reperm"}
  BY <1>5, KindOfCall DEF AclCalls, CallTypes, InCreation, OnFolder, OnShare
<1> QED
  BY <1>1, <1>2, <1>3, <1>4, <1>5

\* A row of a managed folder may change, but keeps its id.
LEMMA SetFolderKept ==
  ASSUME SharesTyped, NEW id, NEW field \in {"state", "perm"}, NEW value,
         field = "state" => value \in {"active", "deleting"},
         field = "perm" => value \in Perms,
         SetFolder(id, field, value)
  PROVE  /\ folderRows' \subseteq FolderRowTypes
         /\ \A r \in folderRows' : RowOf(r.id) # {}
<1> SUFFICES ASSUME NEW r \in folderRows'
             PROVE  r \in FolderRowTypes /\ RowOf(r.id) # {}
  OBVIOUS
<1>1. PICK q \in folderRows : r = IF q.id = id THEN [q EXCEPT ![field] = value] ELSE q
  BY DEF SetFolder
<1>2. q \in FolderRowTypes
  BY DEF SharesTyped
<1>3. r \in FolderRowTypes /\ r.id = q.id
  <2>1. CASE field = "state"
    <3>1. r = IF q.id = id THEN [q EXCEPT !.state = value] ELSE q
      BY <1>1, <2>1
    <3> QED
      BY <1>2, <2>1, <3>1 DEF FolderRowTypes
  <2>2. CASE field = "perm"
    <3>1. r = IF q.id = id THEN [q EXCEPT !.perm = value] ELSE q
      BY <1>1, <2>2
    <3> QED
      BY <1>2, <2>2, <3>1 DEF FolderRowTypes
  <2> QED
    BY <2>1, <2>2
<1> QED
  BY <1>3 DEF RowOf

-----------------------------------------------------------------------------
(* What a step keeps.                                                       *)

\* What a request had made before the step is all that it has made after.
Follows(c) ==
  calls'[c].pc \in Made /\ c \notin taken' =>
    /\ calls[c].pc \in Made /\ c \notin taken
    /\ calls'[c].share = calls[c].share /\ calls'[c].folder = calls[c].folder

\* What a request has made is not touched.
Untouched(c) ==
  calls'[c].pc \in Made /\ c \notin taken' =>
    /\ shareRows'[calls[c].share] # NoShare
    /\ shareRows'[calls[c].share].pool = shareRows[calls[c].share].pool
    /\ Resolved(calls[c]) \in DOMAIN nested'

\* A step in which every request follows and what was made is untouched keeps
\* the invariant.
LEMMA FollowedKept ==
  ASSUME SharesInv, SharesTyped',
         \A c \in ShareAdmins : Follows(c) /\ Untouched(c)
  PROVE  SharesInv'
<1>1. MadeIsThere'
  <2> SUFFICES ASSUME NEW c \in ShareAdmins, calls'[c].pc \in Made, c \notin taken'
               PROVE  /\ shareRows'[calls'[c].share] # NoShare
                      /\ <<shareRows'[calls'[c].share].pool, calls'[c].share,
                           calls'[c].folder>> \in DOMAIN nested'
    BY DEF MadeIsThere, HasShare, Resolved
  <2>1. calls'[c].share = calls[c].share /\ calls'[c].folder = calls[c].folder
    BY DEF Follows
  <2> QED
    BY <2>1 DEF Untouched, Resolved
<1> QED
  BY <1>1 DEF SharesInv

\* A request moves on within its kind.
LEMMA ProceedFollows ==
  ASSUME SharesTyped, NEW c \in ShareAdmins, NEW pc, Proceeds(c, pc),
         taken' = taken \cup Robbed(c),
         \/ /\ calls[c].pc \in InCreation /\ pc \in InCreation
            /\ pc \in Made => calls[c].pc \in Made
         \/ calls[c].pc \in OnFolder /\ pc \in OnFolder
         \/ calls[c].pc \in {"subvol", "group", "row"} /\ pc \in {"subvol", "group", "row"}
         \/ calls[c].pc \in OnShare /\ pc \in OnShare
         \/ calls[c].pc \in {"usermod", "setperm"} /\ pc \in {"usermod", "setperm"}
         \/ calls[c].pc \in {"refacl", "reperm"} /\ pc \in {"refacl", "reperm"}
  PROVE  /\ calls' \in [ShareAdmins -> CallTypes]
         /\ \A e \in ShareAdmins : Follows(e)
<1> DEFINE m == [calls[c] EXCEPT !.pc = pc]
<1>1. calls \in [ShareAdmins -> CallTypes] /\ calls[c] \in CallTypes
  BY DEF SharesTyped
<1>2. /\ m \in CallTypes /\ m.pc = pc
      /\ calls[c].pc # "none" => m.share = calls[c].share
      /\ calls[c].pc \in InCreation \cup OnFolder => m.folder = calls[c].folder
  BY <1>1, CallMoves DEF Made, InCreation
<1>3. calls' = [calls EXCEPT ![c] = m]
  BY <1>1 DEF Proceeds
<1> HIDE DEF m
<1>4. calls'[c] = m /\ \A e \in ShareAdmins : e # c => calls'[e] = calls[e]
  BY <1>1, <1>3
<1>5. Follows(c)
  <2>1. CASE pc \in Made
    <3>1. calls[c].pc \in Made
      BY <2>1 DEF Made, OnFolder, OnShare
    <3> QED
      BY <1>2, <1>4, <3>1 DEF Follows, Made, InCreation
  <2>2. CASE pc \notin Made
    BY <1>2, <1>4, <2>2 DEF Follows
  <2> QED
    BY <2>1, <2>2
<1>6. \A e \in ShareAdmins : e # c => Follows(e)
  BY <1>4 DEF Follows
<1> QED
  BY <1>1, <1>2, <1>3, <1>5, <1>6

\* A request answers.
LEMMA AnswerFollows ==
  ASSUME SharesTyped, NEW c \in ShareAdmins, Answers(c), taken' = taken \cup Robbed(c)
  PROVE  /\ calls' \in [ShareAdmins -> CallTypes]
         /\ calls'[c].pc = "none"
         /\ \A e \in ShareAdmins : Follows(e)
<1>1. calls \in [ShareAdmins -> CallTypes] /\ NoCall \in CallTypes
  BY DEF SharesTyped, CallTypes
<1>2. calls' = [calls EXCEPT ![c] = NoCall]
  BY DEF Answers
<1>3. calls'[c] = NoCall /\ \A e \in ShareAdmins : e # c => calls'[e] = calls[e]
  BY <1>1, <1>2
<1>4. calls'[c].pc = "none"
  BY <1>3 DEF NoCall
<1>5. \A e \in ShareAdmins : Follows(e)
  BY <1>3, <1>4 DEF Follows, Made
<1> QED
  BY <1>1, <1>2, <1>4, <1>5

\* A request arrives: it has made nothing yet.
LEMMA ArrivesKept ==
  ASSUME SharesTyped, NEW c \in ShareAdmins, NEW k \in CallTypes, Arrives(c, k),
         k.pc \notin Made
  PROVE  /\ calls' \in [ShareAdmins -> CallTypes]
         /\ \A e \in ShareAdmins : Follows(e)
<1>1. calls \in [ShareAdmins -> CallTypes]
  BY DEF SharesTyped
<1>2. calls' = [calls EXCEPT ![c] = k] /\ taken' = taken \ {c}
  BY DEF Arrives
<1>3. calls'[c] = k /\ \A e \in ShareAdmins : e # c => calls'[e] = calls[e]
  BY <1>1, <1>2
<1>4. \A e \in ShareAdmins : Follows(e)
  BY <1>2, <1>3 DEF Follows
<1> QED
  BY <1>1, <1>2, <1>4

\* A step that only adds subvolumes and rows touches nothing that was made.
LEMMA AddingUntouched ==
  ASSUME SharesInv, NEW e \in ShareAdmins, Follows(e),
         DOMAIN nested \subseteq DOMAIN nested',
         \A s \in ShareNames : shareRows[s] # NoShare =>
           shareRows'[s] # NoShare /\ shareRows'[s].pool = shareRows[s].pool
  PROVE  Untouched(e)
<1> SUFFICES ASSUME calls'[e].pc \in Made, e \notin taken'
             PROVE  /\ shareRows'[calls[e].share] # NoShare
                    /\ shareRows'[calls[e].share].pool = shareRows[calls[e].share].pool
                    /\ Resolved(calls[e]) \in DOMAIN nested'
  BY DEF Untouched
<1>1. calls[e].pc \in Made /\ e \notin taken /\ calls[e] \in MakeCalls
  BY KindOfCall DEF Follows, SharesInv, SharesTyped, Made, InCreation
<1>2. shareRows[calls[e].share] # NoShare /\ Resolved(calls[e]) \in DOMAIN nested
  BY <1>1 DEF SharesInv, MadeIsThere, HasShare
<1>3. calls[e].share \in ShareNames
  BY <1>1 DEF MakeCalls
<1> QED
  BY <1>2, <1>3

\* A step of one request that touches neither subvolumes nor rows.
LEMMA QuietKept ==
  ASSUME SharesInv, SharesTyped', \A e \in ShareAdmins : Follows(e),
         nested' = nested, shareRows' = shareRows
  PROVE  SharesInv'
  BY AddingUntouched, FollowedKept

-----------------------------------------------------------------------------
(* The actions.                                                             *)

LEMMA BeginCreateShareInv ==
  ASSUME SharesInv, NEW c \in ShareAdmins, BeginCreateShare(c)
  PROVE  SharesInv'
<1>1. PICK s \in ShareNames, p \in poolsHere :
        /\ Arrives(c, [pc |-> "subvol", share |-> s, pool |-> p])
        /\ UNCHANGED <<dirs, accounts, shareTables>>
  BY DEF BeginCreateShare
<1> DEFINE k == [pc |-> "subvol", share |-> s, pool |-> p]
<1>2. k \in CallTypes /\ k.pc \notin Made
  BY <1>1 DEF CallTypes, ShareCalls, Made, SharesInv, SharesTyped
<1>3. SharesTyped
  BY DEF SharesInv
<1> HIDE DEF k
<1>4. Arrives(c, k)
  BY <1>1 DEF k
<1>5. calls' \in [ShareAdmins -> CallTypes] /\ \A e \in ShareAdmins : Follows(e)
  BY <1>2, <1>3, <1>4, ArrivesKept
<1> QED
  BY <1>1, <1>3, <1>5, QuietKept DEF SharesTyped, dirs, shareTables

LEMMA BeginUpdateShareInv ==
  ASSUME SharesInv, NEW c \in ShareAdmins, BeginUpdateShare(c)
  PROVE  SharesInv'
<1>1. PICK s \in ShareNames, perm \in Perms :
        /\ Arrives(c, [pc |-> "usermod", share |-> s, perm |-> perm])
        /\ UNCHANGED <<dirs, accounts, shareTables>>
  BY DEF BeginUpdateShare
<1> DEFINE k == [pc |-> "usermod", share |-> s, perm |-> perm]
<1>2. k \in CallTypes /\ k.pc \notin Made
  BY <1>1 DEF CallTypes, PermCalls, Made
<1>3. SharesTyped
  BY DEF SharesInv
<1> HIDE DEF k
<1>4. Arrives(c, k)
  BY <1>1 DEF k
<1>5. calls' \in [ShareAdmins -> CallTypes] /\ \A e \in ShareAdmins : Follows(e)
  BY <1>2, <1>3, <1>4, ArrivesKept
<1> QED
  BY <1>1, <1>3, <1>5, QuietKept DEF SharesTyped, dirs, shareTables

LEMMA BeginDeleteShareInv ==
  ASSUME SharesInv, NEW c \in ShareAdmins, BeginDeleteShare(c)
  PROVE  SharesInv'
<1>1. PICK s \in ShareNames :
        /\ HasShare(s)
        /\ Arrives(c, [pc |-> "groupdel", share |-> s, pool |-> shareRows[s].pool])
        /\ UNCHANGED <<dirs, accounts, shareTables>>
  BY DEF BeginDeleteShare
<1> DEFINE k == [pc |-> "groupdel", share |-> s, pool |-> shareRows[s].pool]
<1>2. shareRows[s].pool \in SharePools
  BY <1>1 DEF SharesInv, SharesTyped, HasShare, ShareRowTypes
<1>3. k \in CallTypes /\ k.pc \notin Made
  BY <1>2 DEF CallTypes, ShareCalls, Made, OnShare
<1>6. SharesTyped
  BY DEF SharesInv
<1> HIDE DEF k
<1>4. Arrives(c, k)
  BY <1>1 DEF k
<1>5. calls' \in [ShareAdmins -> CallTypes] /\ \A e \in ShareAdmins : Follows(e)
  BY <1>3, <1>4, <1>6, ArrivesKept
<1> QED
  BY <1>1, <1>5, <1>6, QuietKept DEF SharesTyped, dirs, shareTables

LEMMA BeginCreateFolderInv ==
  ASSUME SharesInv, NEW c \in ShareAdmins, BeginCreateFolder(c)
  PROVE  SharesInv'
<1>1. PICK s \in ShareNames, f \in FolderNames, perm \in {"none", "rw"} :
        /\ Arrives(c, [pc |-> "mksub", share |-> s, folder |-> f, perm |-> perm])
        /\ UNCHANGED <<dirs, accounts, shareTables>>
  BY DEF BeginCreateFolder
<1> DEFINE k == [pc |-> "mksub", share |-> s, folder |-> f, perm |-> perm]
<1>2. k \in CallTypes /\ k.pc \notin Made
  BY <1>1 DEF CallTypes, MakeCalls, Made, InCreation, Perms
<1>3. SharesTyped
  BY DEF SharesInv
<1> HIDE DEF k
<1>4. Arrives(c, k)
  BY <1>1 DEF k
<1>5. calls' \in [ShareAdmins -> CallTypes] /\ \A e \in ShareAdmins : Follows(e)
  BY <1>2, <1>3, <1>4, ArrivesKept
<1> QED
  BY <1>1, <1>3, <1>5, QuietKept DEF SharesTyped, dirs, shareTables

LEMMA BeginUpdateFolderInv ==
  ASSUME SharesInv, NEW c \in ShareAdmins, BeginUpdateFolder(c)
  PROVE  SharesInv'
<1>1. PICK r \in folderRows, perm \in Perms :
        /\ Arrives(c, [pc |-> "refacl", id |-> r.id, share |-> r.share, folder |-> r.folder,
                       perm |-> perm])
        /\ UNCHANGED <<dirs, accounts, shareTables>>
  BY DEF BeginUpdateFolder
<1> DEFINE k == [pc |-> "refacl", id |-> r.id, share |-> r.share, folder |-> r.folder,
                 perm |-> perm]
<1>2. k \in CallTypes /\ k.pc \notin Made
  BY <1>1 DEF CallTypes, AclCalls, Made, SharesInv, SharesTyped,
         FolderRowTypes
<1>3. SharesTyped
  BY DEF SharesInv
<1> HIDE DEF k
<1>4. Arrives(c, k)
  BY <1>1 DEF k
<1>5. calls' \in [ShareAdmins -> CallTypes] /\ \A e \in ShareAdmins : Follows(e)
  BY <1>2, <1>3, <1>4, ArrivesKept
<1> QED
  BY <1>1, <1>3, <1>5, QuietKept DEF SharesTyped, dirs, shareTables

LEMMA BeginDeleteFolderInv ==
  ASSUME SharesInv, NEW c \in ShareAdmins, BeginDeleteFolder(c)
  PROVE  SharesInv'
<1>1. PICK r \in folderRows :
        /\ Arrives(c, [pc |-> "mark", id |-> r.id, share |-> r.share, folder |-> r.folder])
        /\ UNCHANGED <<dirs, accounts, shareTables>>
  BY DEF BeginDeleteFolder
<1> DEFINE k == [pc |-> "mark", id |-> r.id, share |-> r.share, folder |-> r.folder]
<1>2. k \in CallTypes /\ k.pc \notin Made
  BY <1>1 DEF CallTypes, DropCalls, Made, OnFolder, SharesInv,
         SharesTyped, FolderRowTypes
<1>3. SharesTyped
  BY DEF SharesInv
<1> HIDE DEF k
<1>4. Arrives(c, k)
  BY <1>1 DEF k
<1>5. calls' \in [ShareAdmins -> CallTypes] /\ \A e \in ShareAdmins : Follows(e)
  BY <1>2, <1>3, <1>4, ArrivesKept
<1> QED
  BY <1>1, <1>3, <1>5, QuietKept DEF SharesTyped, dirs, shareTables


\* Creation of a share: a row appears where there was none.
LEMMA CreateShareInv ==
  ASSUME SharesInv, NEW c \in ShareAdmins, taken' = taken \cup Robbed(c),
         MakeSubvolume(c) \/ MakeShareGroup(c) \/ RecordShare(c)
  PROVE  SharesInv'
<1>1. SharesTyped
  BY DEF SharesInv
<1>2. CASE MakeSubvolume(c)
  <2>1. \/ Proceeds(c, "group") /\ calls[c].pc = "subvol"
        \/ Answers(c)
    BY <1>2 DEF MakeSubvolume
  <2>2. calls' \in [ShareAdmins -> CallTypes] /\ \A e \in ShareAdmins : Follows(e)
    BY <1>1, <2>1, ProceedFollows, AnswerFollows
  <2>3. UNCHANGED <<poolsHere, nested, shareRows, folderRows, nextFolder>>
    BY <1>2 DEF MakeSubvolume, shareTables
  <2>4. SharesTyped'
    BY <1>1, <2>2, <2>3 DEF SharesTyped
  <2> QED
    BY <2>2, <2>3, <2>4, QuietKept
<1>3. CASE MakeShareGroup(c)
  <2>1. Proceeds(c, "row") /\ calls[c].pc = "group"
    BY <1>3 DEF MakeShareGroup
  <2>2. calls' \in [ShareAdmins -> CallTypes] /\ \A e \in ShareAdmins : Follows(e)
    BY <1>1, <2>1, ProceedFollows
  <2>3. UNCHANGED <<poolsHere, nested, shareRows, folderRows, nextFolder>>
    BY <1>3 DEF MakeShareGroup, shareTables
  <2>4. SharesTyped'
    BY <1>1, <2>2, <2>3 DEF SharesTyped
  <2> QED
    BY <2>2, <2>3, <2>4, QuietKept
<1>4. CASE RecordShare(c)
  <2> DEFINE k == calls[c]
             row == IF shareRows[k.share] = NoShare THEN [pool |-> k.pool, perm |-> "none"]
                    ELSE shareRows[k.share]
  <2>1. k \in ShareCalls
    BY <1>1, <1>4, KindOfCall DEF SharesTyped, RecordShare
  <2>2. k.share \in ShareNames /\ k.pool \in SharePools
    BY <2>1 DEF ShareCalls
  <2>3. row \in ShareRowTypes
    BY <1>1, <2>2 DEF SharesTyped, ShareRowTypes, Perms
  <2>4. shareRows' = [shareRows EXCEPT ![k.share] = row]
    BY <1>4 DEF RecordShare
  <2>5. shareRows[k.share] # NoShare => row = shareRows[k.share]
    OBVIOUS
  <2> HIDE DEF row
  <2>6. /\ shareRows' \in [ShareNames -> ShareRowTypes]
        /\ \A s \in ShareNames : shareRows[s] # NoShare => shareRows'[s] = shareRows[s]
    BY <1>1, <2>2, <2>3, <2>4, <2>5 DEF SharesTyped
  <2>7. calls' \in [ShareAdmins -> CallTypes] /\ \A e \in ShareAdmins : Follows(e)
    BY <1>1, <1>4, AnswerFollows DEF RecordShare
  <2>8. UNCHANGED <<poolsHere, nested, folderRows, nextFolder>>
    BY <1>4 DEF RecordShare, dirs
  <2>9. SharesTyped'
    BY <1>1, <2>6, <2>7, <2>8 DEF SharesTyped
  <2>10. \A e \in ShareAdmins : Untouched(e)
    BY <2>6, <2>7, <2>8, AddingUntouched
  <2> QED
    BY <2>7, <2>9, <2>10, FollowedKept
<1> QED
  BY <1>2, <1>3, <1>4

\* A changed permission leaves the pool of the share.
LEMMA UpdateShareInv ==
  ASSUME SharesInv, NEW c \in ShareAdmins, taken' = taken \cup Robbed(c),
         ApplyPermission(c) \/ RecordPermission(c)
  PROVE  SharesInv'
<1>1. SharesTyped
  BY DEF SharesInv
<1>2. CASE ApplyPermission(c)
  <2>1. Proceeds(c, "setperm") /\ calls[c].pc = "usermod"
    BY <1>2 DEF ApplyPermission
  <2>2. calls' \in [ShareAdmins -> CallTypes] /\ \A e \in ShareAdmins : Follows(e)
    BY <1>1, <2>1, ProceedFollows
  <2>3. UNCHANGED <<poolsHere, nested, shareRows, folderRows, nextFolder>>
    BY <1>2 DEF ApplyPermission, dirs, shareTables
  <2>4. SharesTyped'
    BY <1>1, <2>2, <2>3 DEF SharesTyped
  <2> QED
    BY <2>2, <2>3, <2>4, QuietKept
<1>3. CASE RecordPermission(c)
  <2> DEFINE k == calls[c]
             old == shareRows[k.share]
             row == IF old = NoShare THEN old ELSE [old EXCEPT !.perm = k.perm]
  <2>1. k \in PermCalls
    BY <1>1, <1>3, KindOfCall DEF SharesTyped, RecordPermission
  <2>2. k.share \in ShareNames /\ k.perm \in Perms /\ old \in ShareRowTypes
    BY <1>1, <2>1 DEF PermCalls, SharesTyped
  <2>3. row \in ShareRowTypes /\ (old # NoShare => row # NoShare /\ row.pool = old.pool)
    <3>1. CASE old = NoShare
      BY <2>2, <3>1
    <3>2. CASE old # NoShare
      <4>1. old \in [pool : SharePools, perm : Perms]
        BY <2>2, <3>2 DEF ShareRowTypes
      <4>2. row = [old EXCEPT !.perm = k.perm]
        BY <3>2
      <4>3. row \in [pool : SharePools, perm : Perms] /\ row.pool = old.pool
        BY <2>2, <4>1, <4>2
      <4>4. row.pool \in SharePools /\ NoShare.pool = "none"
        BY <4>3 DEF NoShare
      <4> QED
        BY <4>3, <4>4, SharesAssumption DEF ShareRowTypes
    <3> QED
      BY <3>1, <3>2
  <2>4. shareRows' = [shareRows EXCEPT ![k.share] = row]
    BY <1>3 DEF RecordPermission
  <2> HIDE DEF row
  <2>5. /\ shareRows' \in [ShareNames -> ShareRowTypes]
        /\ \A s \in ShareNames : shareRows[s] # NoShare =>
             shareRows'[s] # NoShare /\ shareRows'[s].pool = shareRows[s].pool
    BY <1>1, <2>2, <2>3, <2>4 DEF SharesTyped
  <2>6. calls' \in [ShareAdmins -> CallTypes] /\ \A e \in ShareAdmins : Follows(e)
    BY <1>1, <1>3, AnswerFollows DEF RecordPermission
  <2>7. UNCHANGED <<poolsHere, nested, folderRows, nextFolder>>
    BY <1>3 DEF RecordPermission, dirs
  <2>8. SharesTyped'
    BY <1>1, <2>5, <2>6, <2>7 DEF SharesTyped
  <2>9. \A e \in ShareAdmins : Untouched(e)
    BY <2>5, <2>6, <2>7, AddingUntouched
  <2> QED
    BY <2>6, <2>8, <2>9, FollowedKept
<1> QED
  BY <1>2, <1>3

\* Deletion of a share: who has made a folder in it is robbed with the row.
LEMMA DeleteShareInv ==
  ASSUME SharesInv, NEW c \in ShareAdmins, taken' = taken \cup Robbed(c),
         DeleteShareGroup(c) \/ DestroySubvolume(c) \/ ForgetShare(c)
  PROVE  SharesInv'
<1>1. SharesTyped
  BY DEF SharesInv
<1>2. CASE DeleteShareGroup(c) \/ DestroySubvolume(c)
  <2>1. \/ Proceeds(c, "unsubvol") /\ calls[c].pc = "groupdel"
        \/ Proceeds(c, "unrow") /\ calls[c].pc = "unsubvol"
    BY <1>2 DEF DeleteShareGroup, DestroySubvolume
  <2>2. calls' \in [ShareAdmins -> CallTypes] /\ \A e \in ShareAdmins : Follows(e)
    BY <1>1, <2>1, ProceedFollows DEF OnShare
  <2>3. UNCHANGED <<poolsHere, nested, shareRows, folderRows, nextFolder>>
    BY <1>2 DEF DeleteShareGroup, DestroySubvolume, dirs, shareTables
  <2>4. SharesTyped'
    BY <1>1, <2>2, <2>3 DEF SharesTyped
  <2> QED
    BY <2>2, <2>3, <2>4, QuietKept
<1>3. CASE ForgetShare(c)
  <2> DEFINE s == calls[c].share
  <2>1. calls[c].pc = "unrow" /\ calls[c] \in ShareCalls
    BY <1>1, <1>3, KindOfCall DEF SharesTyped, ForgetShare, OnShare
  <2>2. /\ shareRows' = [shareRows EXCEPT ![s] = NoShare] \/ shareRows' = shareRows
        /\ folderRows' \subseteq folderRows
        /\ UNCHANGED <<poolsHere, nested, nextFolder>>
    BY <1>3 DEF ForgetShare, dirs
  <2>3. /\ calls' \in [ShareAdmins -> CallTypes] /\ calls'[c].pc = "none"
        /\ \A e \in ShareAdmins : Follows(e)
    BY <1>1, <1>3, AnswerFollows DEF ForgetShare
  <2>4. SharesTyped'
    BY <1>1, <2>2, <2>3 DEF SharesTyped, ShareRowTypes
  <2>5. ASSUME NEW e \in ShareAdmins
        PROVE  Untouched(e)
    <3> SUFFICES ASSUME calls'[e].pc \in Made, e \notin taken'
                 PROVE  /\ shareRows'[calls[e].share] # NoShare
                        /\ shareRows'[calls[e].share].pool = shareRows[calls[e].share].pool
                        /\ Resolved(calls[e]) \in DOMAIN nested'
      BY DEF Untouched
    <3>1. /\ calls[e].pc \in Made /\ e \notin taken /\ e # c
          /\ calls[e].pc \in InCreation /\ calls[e] \in MakeCalls
      BY <1>1, <2>3, KindOfCall DEF Follows, SharesTyped, Made, InCreation
    <3>2. e \notin Robbed(c)
      OBVIOUS
    <3>3. calls[e].share # s
      BY <2>1, <3>1, <3>2 DEF Robbed, Makers, Made
    <3>4. calls[e].share \in ShareNames
      BY <3>1 DEF MakeCalls
    <3>5. shareRows'[calls[e].share] = shareRows[calls[e].share]
      BY <1>1, <2>2, <3>3, <3>4 DEF SharesTyped
    <3> QED
      BY <2>2, <3>1, <3>5 DEF SharesInv, MadeIsThere, HasShare
  <2> QED
    BY <2>3, <2>4, <2>5, FollowedKept
<1> QED
  BY <1>2, <1>3


\* Creation of a folder: its subvolume is there now.
LEMMA MakeFolderInv ==
  ASSUME SharesInv, NEW c \in ShareAdmins, taken' = taken \cup Robbed(c),
         MakeFolder(c)
  PROVE  SharesInv'
<1> DEFINE k == calls[c]
<1>1. SharesTyped /\ calls \in [ShareAdmins -> CallTypes]
  BY DEF SharesInv, SharesTyped
<1>2. k \in MakeCalls /\ k.pc = "mksub" /\ k \in CallTypes
  BY <1>1, KindOfCall DEF MakeFolder, InCreation
<1>3. UNCHANGED <<poolsHere, shareRows, folderRows, nextFolder>>
  BY DEF MakeFolder, shareTables
<1>4. CASE /\ CanMake(k)
           /\ nested' = [t \in DOMAIN nested \cup {Resolved(k)} |->
                           IF t = Resolved(k) THEN "none" ELSE nested[t]]
           /\ Proceeds(c, IF k.perm = "none" THEN "persist" ELSE "acl")
  <2>1. PICK pc \in {"persist", "acl"} : Proceeds(c, pc)
    BY <1>4
  <2> DEFINE m == [k EXCEPT !.pc = pc]
  <2>2. /\ m \in CallTypes /\ m.pc = pc /\ m.share = k.share /\ m.folder = k.folder
        /\ m.pc \in Made
    BY <1>2, CallMoves DEF InCreation, Made
  <2>3. calls' = [calls EXCEPT ![c] = m]
    BY <1>1, <2>1 DEF Proceeds
  <2> HIDE DEF m
  <2>4. calls'[c] = m /\ \A e \in ShareAdmins : e # c => calls'[e] = calls[e]
    BY <1>1, <2>3
  <2>5. SharesTyped'
    BY <1>1, <1>3, <2>2, <2>3 DEF SharesTyped
  <2>6. DOMAIN nested' = DOMAIN nested \cup {Resolved(k)} /\ Resolved(k) \notin DOMAIN nested
    BY <1>4 DEF CanMake
  <2>7. HasShare(k.share)
    BY <1>4 DEF CanMake
  <2>8. MadeIsThere'
    <3> SUFFICES ASSUME NEW e \in ShareAdmins, calls'[e].pc \in Made, e \notin taken'
                 PROVE  /\ shareRows[calls'[e].share] # NoShare
                        /\ <<shareRows[calls'[e].share].pool, calls'[e].share,
                             calls'[e].folder>> \in DOMAIN nested'
      BY <1>3 DEF MadeIsThere, HasShare, Resolved
    <3>1. CASE e = c
      BY <2>2, <2>4, <2>6, <2>7, <3>1 DEF HasShare, Resolved
    <3>2. CASE e # c
      BY <2>4, <2>6, <3>2 DEF SharesInv, MadeIsThere, HasShare, Resolved
    <3> QED
      BY <3>1, <3>2
  <2> QED
    BY <2>5, <2>8 DEF SharesInv
<1>5. CASE Answers(c) /\ UNCHANGED nested
  <2>1. calls' \in [ShareAdmins -> CallTypes] /\ \A e \in ShareAdmins : Follows(e)
    BY <1>1, <1>5, AnswerFollows
  <2>2. SharesTyped'
    BY <1>1, <1>3, <2>1 DEF SharesTyped
  <2> QED
    BY <1>3, <1>5, <2>1, <2>2, QuietKept
<1> QED
  BY <1>4, <1>5 DEF MakeFolder

\* setfacl changes what a subvolume holds, not which there are.
LEMMA AclInv ==
  ASSUME SharesInv, NEW c \in ShareAdmins, taken' = taken \cup Robbed(c),
         SetFolderPermission(c) \/ ApplyFolderPermission(c)
  PROVE  SharesInv'
<1>1. SharesTyped
  BY DEF SharesInv
<1>2. UNCHANGED <<poolsHere, shareRows, folderRows, nextFolder>>
  BY DEF SetFolderPermission, ApplyFolderPermission, shareTables
<1>3. nested' = WithAcl(calls[c]) \/ nested' = nested
  BY DEF SetFolderPermission, ApplyFolderPermission
<1>4. DOMAIN nested' = DOMAIN nested
  BY <1>3 DEF WithAcl
<1>5. calls' \in [ShareAdmins -> CallTypes] /\ \A e \in ShareAdmins : Follows(e)
  <2>1. CASE SetFolderPermission(c)
    <3>1. /\ Proceeds(c, "persist") \/ Proceeds(c, "rollback")
          /\ calls[c].pc \in Made /\ calls[c].pc \in InCreation
      BY <2>1 DEF SetFolderPermission, Made, InCreation
    <3> QED
      BY <1>1, <3>1, ProceedFollows DEF Made, InCreation
  <2>2. CASE ApplyFolderPermission(c)
    <3>1. \/ Proceeds(c, "reperm") /\ calls[c].pc = "refacl"
          \/ Answers(c)
      BY <2>2 DEF ApplyFolderPermission
    <3> QED
      BY <1>1, <3>1, ProceedFollows, AnswerFollows
  <2> QED
    BY <2>1, <2>2
<1>6. SharesTyped'
  BY <1>1, <1>2, <1>5 DEF SharesTyped
<1>7. \A e \in ShareAdmins : Untouched(e)
  BY <1>2, <1>4, <1>5, AddingUntouched
<1> QED
  BY <1>5, <1>6, <1>7, FollowedKept

\* The row comes last, and the permission after it.
LEMMA PersistFolderInv ==
  ASSUME SharesInv, NEW c \in ShareAdmins, taken' = taken \cup Robbed(c),
         PersistFolder(c)
  PROVE  SharesInv'
<1> DEFINE k == calls[c]
           next == [pc |-> "reperm", id |-> nextFolder, share |-> k.share,
                    folder |-> k.folder, perm |-> k.perm]
<1>1. SharesTyped /\ calls \in [ShareAdmins -> CallTypes]
  BY DEF SharesInv, SharesTyped
<1>2. k \in MakeCalls /\ k.pc = "persist"
  BY <1>1, KindOfCall DEF PersistFolder, InCreation
<1>3. UNCHANGED <<poolsHere, nested, shareRows>>
  BY DEF PersistFolder, dirs
<1>4. Answers(c) \/ Proceeds(c, "rollback") \/ calls' = [calls EXCEPT ![c] = next]
  BY DEF PersistFolder
<1>5. calls' \in [ShareAdmins -> CallTypes] /\ \A e \in ShareAdmins : Follows(e)
  <2>1. CASE Answers(c)
    BY <1>1, <2>1, AnswerFollows
  <2>2. CASE Proceeds(c, "rollback")
    BY <1>1, <1>2, <2>2, ProceedFollows DEF Made, InCreation
  <2>3. CASE calls' = [calls EXCEPT ![c] = next]
    <3>1. next \in CallTypes /\ next.pc \notin Made
      BY <1>1, <1>2 DEF CallTypes, AclCalls, MakeCalls, Made, SharesTyped
    <3> HIDE DEF next
    <3>2. calls'[c] = next /\ \A e \in ShareAdmins : e # c => calls'[e] = calls[e]
      BY <1>1, <2>3
    <3>3. \A e \in ShareAdmins : Follows(e)
      BY <3>1, <3>2 DEF Follows
    <3> QED
      BY <1>1, <2>3, <3>1, <3>3
  <2> QED
    BY <1>4, <2>1, <2>2, <2>3
<1>6. folderRows' \subseteq FolderRowTypes /\ nextFolder' \in Nat
  <2> DEFINE row == [id |-> nextFolder, share |-> k.share, folder |-> k.folder,
                     state |-> "active", perm |-> "none"]
  <2>1. row \in FolderRowTypes
    BY <1>1, <1>2 DEF FolderRowTypes, MakeCalls, SharesTyped, Perms
  <2>2. \/ folderRows' = folderRows \cup {row} /\ nextFolder' = nextFolder + 1
        \/ UNCHANGED <<folderRows, nextFolder>>
    BY DEF PersistFolder
  <2> HIDE DEF row
  <2> QED
    BY <1>1, <2>1, <2>2 DEF SharesTyped
<1>7. SharesTyped'
  BY <1>1, <1>3, <1>5, <1>6 DEF SharesTyped
<1> QED
  BY <1>3, <1>5, <1>7, QuietKept

\* Where another request has made its folder is not where this one's is.
LEMMA RemovedElsewhere ==
  ASSUME SharesInv, NEW e \in ShareAdmins, NEW k \in CallTypes, Follows(e),
         nested' = Keeping(WithoutFolders({Resolved(k)})) \/ nested' = nested,
         shareRows' = shareRows,
         calls'[e].pc \in Made /\ e \notin taken' =>
           calls[e].share # k.share \/ calls[e].folder # k.folder
  PROVE  Untouched(e)
<1> SUFFICES ASSUME calls'[e].pc \in Made, e \notin taken'
             PROVE  /\ shareRows'[calls[e].share] # NoShare
                    /\ shareRows'[calls[e].share].pool = shareRows[calls[e].share].pool
                    /\ Resolved(calls[e]) \in DOMAIN nested'
  BY DEF Untouched
<1>1. calls[e].pc \in Made /\ e \notin taken
  BY DEF Follows
<1>2. shareRows[calls[e].share] # NoShare /\ Resolved(calls[e]) \in DOMAIN nested
  BY <1>1 DEF SharesInv, MadeIsThere, HasShare
<1>3. Resolved(calls[e]) # Resolved(k)
  BY DEF Resolved
<1>4. Resolved(calls[e]) \in DOMAIN nested'
  BY <1>2, <1>3 DEF Keeping, WithoutFolders
<1> QED
  BY <1>2, <1>4

\* The rollback takes its own subvolume away, and robs whoever had made it too.
LEMMA RollBackInv ==
  ASSUME SharesInv, NEW c \in ShareAdmins, taken' = taken \cup Robbed(c),
         RollBack(c)
  PROVE  SharesInv'
<1>1. SharesTyped /\ calls \in [ShareAdmins -> CallTypes]
  BY DEF SharesInv, SharesTyped
<1>2. calls[c].pc = "rollback" /\ calls[c] \in CallTypes
  BY <1>1 DEF RollBack
<1>3. /\ UNCHANGED <<poolsHere, shareRows, folderRows, nextFolder>>
      /\ nested' = Keeping(WithoutFolders({Resolved(calls[c])})) \/ nested' = nested
  BY DEF RollBack, shareTables
<1>4. /\ calls' \in [ShareAdmins -> CallTypes] /\ calls'[c].pc = "none"
      /\ \A e \in ShareAdmins : Follows(e)
  BY <1>1, AnswerFollows DEF RollBack
<1>5. SharesTyped'
  BY <1>1, <1>3, <1>4 DEF SharesTyped
<1>6. ASSUME NEW e \in ShareAdmins
      PROVE  Untouched(e)
  <2>1. ASSUME calls'[e].pc \in Made, e \notin taken'
        PROVE  calls[e].share # calls[c].share \/ calls[e].folder # calls[c].folder
    <3>1. calls[e].pc \in Made /\ e # c /\ e \notin Robbed(c)
      BY <1>2, <1>4, <2>1 DEF Made, Follows
    <3> QED
      BY <1>2, <3>1 DEF Robbed, Makers, Made
  <2> QED
    BY <1>2, <1>3, <1>4, <2>1, RemovedElsewhere
<1> QED
  BY <1>4, <1>5, <1>6, FollowedKept

\* A row of a folder changes its state or its permission.
LEMMA RowStepInv ==
  ASSUME SharesInv, NEW c \in ShareAdmins, taken' = taken \cup Robbed(c),
         RecordFolderPermission(c) \/ MarkDeleting(c) \/ MarkActive(c)
  PROVE  SharesInv' /\ \A r \in folderRows' : RowOf(r.id) # {}
<1>1. SharesTyped /\ calls[c] \in CallTypes
  BY DEF SharesInv, SharesTyped
<1>2. UNCHANGED <<poolsHere, nested, shareRows, nextFolder>>
  BY DEF RecordFolderPermission, MarkDeleting, MarkActive, dirs
<1>3. calls' \in [ShareAdmins -> CallTypes] /\ \A e \in ShareAdmins : Follows(e)
  <2>1. Answers(c) \/ (calls[c].pc = "mark" /\ Proceeds(c, "isempty"))
    BY DEF RecordFolderPermission, MarkDeleting, MarkActive
  <2> QED
    BY <1>1, <2>1, ProceedFollows, AnswerFollows DEF OnFolder
<1>4. folderRows' \subseteq FolderRowTypes /\ \A r \in folderRows' : RowOf(r.id) # {}
  <2>1. CASE RecordFolderPermission(c)
    <3>1. calls[c].perm \in Perms
      BY <1>1, <2>1, KindOfCall DEF RecordFolderPermission, AclCalls
    <3>2. SetFolder(calls[c].id, "perm", calls[c].perm) \/ folderRows' = folderRows
      BY <2>1 DEF RecordFolderPermission
    <3>3. folderRows \subseteq FolderRowTypes /\ \A r \in folderRows : RowOf(r.id) # {}
      BY <1>1 DEF SharesTyped, RowOf
    <3> QED
      BY <1>1, <3>1, <3>2, <3>3, SetFolderKept
  <2>2. CASE MarkDeleting(c) \/ MarkActive(c)
    <3>1. PICK state \in {"active", "deleting"} : SetFolder(calls[c].id, "state", state)
      BY <2>2 DEF MarkDeleting, MarkActive, SetState
    <3> QED
      BY <1>1, <3>1, SetFolderKept
  <2> QED
    BY <2>1, <2>2
<1>5. SharesTyped'
  BY <1>1, <1>2, <1>3, <1>4 DEF SharesTyped
<1> QED
  BY <1>2, <1>3, <1>4, <1>5, QuietKept

\* Deletion of a folder: whoever had made the subvolume that goes is robbed.
LEMMA DeleteFolderInv ==
  ASSUME SharesInv, NEW c \in ShareAdmins, taken' = taken \cup Robbed(c),
         CheckEmpty(c) \/ DestroyFolder(c) \/ ForgetFolder(c)
  PROVE  SharesInv'
<1>1. SharesTyped /\ calls \in [ShareAdmins -> CallTypes] /\ calls[c] \in CallTypes
  BY DEF SharesInv, SharesTyped
<1>2. calls[c].pc \in OnFolder /\ calls[c] \in DropCalls
  BY <1>1, KindOfCall DEF CheckEmpty, DestroyFolder, ForgetFolder, OnFolder
<1>3. /\ UNCHANGED <<poolsHere, shareRows, nextFolder>>
      /\ folderRows' \subseteq folderRows
      /\ \/ /\ calls[c].pc = "delsub"
            /\ nested' = Keeping(WithoutFolders({Resolved(calls[c])}))
         \/ nested' = nested
  BY DEF CheckEmpty, DestroyFolder, ForgetFolder, dirs, shareTables
<1>4. calls' \in [ShareAdmins -> CallTypes] /\ \A e \in ShareAdmins : Follows(e)
  <2>1. Answers(c) \/ \E pc \in OnFolder : Proceeds(c, pc)
    BY DEF CheckEmpty, DestroyFolder, ForgetFolder, OnFolder
  <2> QED
    BY <1>1, <1>2, <2>1, ProceedFollows, AnswerFollows
<1>5. SharesTyped'
  BY <1>1, <1>3, <1>4 DEF SharesTyped
<1>6. CASE nested' = nested
  BY <1>3, <1>4, <1>5, <1>6, QuietKept
<1>7. CASE /\ calls[c].pc = "delsub"
           /\ nested' = Keeping(WithoutFolders({Resolved(calls[c])}))
  <2>1. ASSUME NEW e \in ShareAdmins
        PROVE  Untouched(e)
    <3>1. ASSUME calls'[e].pc \in Made, e \notin taken'
          PROVE  calls[e].share # calls[c].share \/ calls[e].folder # calls[c].folder
      <4>1. calls[e].pc \in Made /\ e \notin Robbed(c)
        BY <1>4, <3>1 DEF Follows
      <4> QED
        BY <1>7, <4>1 DEF Robbed, Makers, Made
    <3> QED
      BY <1>1, <1>3, <1>4, <1>7, <3>1, RemovedElsewhere
  <2> QED
    BY <1>4, <1>5, <2>1, FollowedKept
<1> QED
  BY <1>3, <1>6, <1>7


\* A pool that goes takes the shares that are on it, and robs whoever had made a
\* folder in one of those.
LEMMA DestroySharePoolInv ==
  ASSUME SharesInv, NEW p \in SharePools, DestroySharePool(p)
  PROVE  SharesInv'
<1> DEFINE gone == OfPool(p)
<1>1. SharesTyped /\ calls' = calls
  BY DEF SharesInv, DestroySharePool
<1>2. /\ poolsHere' \subseteq poolsHere /\ nextFolder' = nextFolder
      /\ shareRows' = [s \in ShareNames |-> IF s \in gone THEN NoShare ELSE shareRows[s]]
      /\ folderRows' \subseteq folderRows
      /\ DOMAIN nested' = {t \in DOMAIN nested : t[1] # p}
      /\ taken' = taken \cup UNION {Makers(s) : s \in gone}
  BY DEF DestroySharePool, Keeping
<1> HIDE DEF gone
<1>3. SharesTyped'
  BY <1>1, <1>2 DEF SharesTyped, ShareRowTypes
<1>4. \A e \in ShareAdmins : Follows(e)
  BY <1>1, <1>2 DEF Follows
<1>5. ASSUME NEW e \in ShareAdmins
      PROVE  Untouched(e)
  <2> SUFFICES ASSUME calls[e].pc \in Made, e \notin taken'
               PROVE  /\ shareRows'[calls[e].share] # NoShare
                      /\ shareRows'[calls[e].share].pool = shareRows[calls[e].share].pool
                      /\ Resolved(calls[e]) \in DOMAIN nested'
    BY <1>1 DEF Untouched
  <2>1. e \notin taken /\ calls[e] \in MakeCalls
    BY <1>1, <1>2, KindOfCall DEF SharesTyped, Made, InCreation
  <2>2. calls[e].share \in ShareNames
    BY <2>1 DEF MakeCalls
  <2>3. HasShare(calls[e].share) /\ Resolved(calls[e]) \in DOMAIN nested
    BY <2>1 DEF SharesInv, MadeIsThere
  <2>4. e \in Makers(calls[e].share)
    BY DEF Makers, Made
  <2>5. calls[e].share \notin gone
    BY <1>2, <2>4
  <2>6. shareRows[calls[e].share].pool # p
    BY <2>2, <2>3, <2>5 DEF gone, OfPool
  <2>7. Resolved(calls[e])[1] # p
    BY <2>6 DEF Resolved
  <2> QED
    BY <1>2, <2>2, <2>3, <2>5, <2>7 DEF HasShare
<1> QED
  BY <1>3, <1>4, <1>5, FollowedKept

\* The user, the crash and the reconciliation at boot.
LEMMA RestOfSharesInv ==
  ASSUME SharesInv,
         (\E t \in DOMAIN nested : UserWrites(t)) \/ ShareCrash \/ ReconcileShares
  PROVE  SharesInv'
<1>1. SharesTyped
  BY DEF SharesInv
<1>2. UNCHANGED <<poolsHere, nested, shareRows, folderRows, nextFolder, taken>>
  BY DEF UserWrites, ShareCrash, ReconcileShares, dirs, shareTables
<1>3. calls' = calls \/ calls' = [c \in ShareAdmins |-> NoCall]
  BY DEF UserWrites, ShareCrash, ReconcileShares
<1>4. calls' \in [ShareAdmins -> CallTypes] /\ \A e \in ShareAdmins : Follows(e)
  <2>1. CASE calls' = calls
    BY <1>1, <1>2, <2>1 DEF SharesTyped, Follows
  <2>2. CASE calls' = [c \in ShareAdmins |-> NoCall]
    <3>1. \A e \in ShareAdmins : calls'[e].pc = "none"
      BY <2>2 DEF NoCall
    <3> QED
      BY <2>2, <3>1 DEF Follows, CallTypes, Made
  <2> QED
    BY <1>3, <2>1, <2>2
<1>5. SharesTyped'
  BY <1>1, <1>2, <1>4 DEF SharesTyped
<1> QED
  BY <1>2, <1>4, <1>5, QuietKept

LEMMA SharesInitInv == SharesInit => SharesInv
<1> SUFFICES ASSUME SharesInit PROVE SharesInv
  OBVIOUS
<1>1. \A c \in ShareAdmins : calls[c] = NoCall /\ calls[c].pc = "none"
  BY DEF SharesInit, NoCall
<1>2. MadeIsThere
  BY <1>1 DEF MadeIsThere, Made
<1>3. calls \in [ShareAdmins -> CallTypes]
  BY DEF SharesInit, CallTypes
<1>4. PICK home \in SharePools, kept \in SUBSET FolderNames :
        LET s == CHOOSE n \in ShareNames : TRUE IN
          /\ shareRows = [n \in ShareNames |->
                            IF n = s THEN [pool |-> home, perm |-> "none"] ELSE NoShare]
          /\ folderRows = {[id |-> 1, share |-> s, folder |-> f, state |-> "active",
                            perm |-> "none"] : f \in kept}
  BY DEF SharesInit
<1> DEFINE s == CHOOSE n \in ShareNames : TRUE
<1>5. s \in ShareNames
  BY SharesAssumption
<1>6. shareRows \in [ShareNames -> ShareRowTypes]
  <2>1. [pool |-> home, perm |-> "none"] \in ShareRowTypes
    BY DEF ShareRowTypes, Perms
  <2>2. NoShare \in ShareRowTypes
    BY DEF ShareRowTypes
  <2> QED
    BY <1>4, <2>1, <2>2
<1>7. folderRows \subseteq FolderRowTypes
  BY <1>4, <1>5 DEF FolderRowTypes, Perms
<1> QED
  BY <1>2, <1>3, <1>6, <1>7 DEF SharesInv, SharesTyped, SharesInit

LEMMA SharesNextInv ==
  ASSUME SharesInv, [SharesNext]_shareVars
  PROVE  SharesInv'
<1>1. ASSUME NEW c \in ShareAdmins, CallStep(c)
      PROVE  SharesInv'
  BY <1>1, CreateShareInv, UpdateShareInv, DeleteShareInv, MakeFolderInv, AclInv,
     PersistFolderInv, RollBackInv, RowStepInv, DeleteFolderInv DEF CallStep
<1>2. ASSUME NEW c \in ShareAdmins,
             \/ BeginCreateShare(c) \/ BeginUpdateShare(c) \/ BeginDeleteShare(c)
             \/ BeginCreateFolder(c) \/ BeginUpdateFolder(c) \/ BeginDeleteFolder(c)
      PROVE  SharesInv'
  BY <1>2, BeginCreateShareInv, BeginUpdateShareInv, BeginDeleteShareInv,
     BeginCreateFolderInv, BeginUpdateFolderInv, BeginDeleteFolderInv
<1>3. CASE UNCHANGED shareVars
  BY <1>3 DEF shareVars, SharesInv, SharesTyped, MadeIsThere, HasShare, Resolved
<1> QED
  BY <1>1, <1>2, <1>3, DestroySharePoolInv, RestOfSharesInv DEF SharesNext

\* FoldersBornWhole, step by step: only PersistFolder adds a row, of a folder whose
\* subvolume the request has made; it is there, or somebody took it.
LEMMA BornWholeStep ==
  ASSUME SharesInv, SharesNext, NEW r \in folderRows', RowOf(r.id) = {}
  PROVE  \/ FolderAt(r)' \in DOMAIN nested'
         \/ \E c \in taken : /\ calls[c].pc = "persist"
                             /\ calls[c].share = r.share /\ calls[c].folder = r.folder
<1>1. r \notin folderRows
  BY DEF RowOf
<1>2. ~ \E c \in ShareAdmins :
          /\ RecordFolderPermission(c) \/ MarkDeleting(c) \/ MarkActive(c)
          /\ CallStep(c)
  BY RowStepInv DEF CallStep
<1>3. PICK c \in ShareAdmins : PersistFolder(c)
  <2>1. SUFFICES ASSUME ~ \E c \in ShareAdmins : PersistFolder(c)
                 PROVE  folderRows' \subseteq folderRows
    BY <1>1
  <2>2. ASSUME NEW c \in ShareAdmins, CallStep(c)
        PROVE  folderRows' \subseteq folderRows
    BY <1>2, <2>1, <2>2 DEF CallStep, MakeSubvolume, MakeShareGroup, RecordShare,
       ApplyPermission, RecordPermission, DeleteShareGroup, DestroySubvolume, ForgetShare,
       MakeFolder, SetFolderPermission, RollBack, ApplyFolderPermission, CheckEmpty,
       DestroyFolder, ForgetFolder, shareTables
  <2>3. ASSUME NEW c \in ShareAdmins,
               \/ BeginCreateShare(c) \/ BeginUpdateShare(c) \/ BeginDeleteShare(c)
               \/ BeginCreateFolder(c) \/ BeginUpdateFolder(c) \/ BeginDeleteFolder(c)
        PROVE  folderRows' = folderRows
    BY <2>3 DEF BeginCreateShare, BeginUpdateShare, BeginDeleteShare, BeginCreateFolder,
       BeginUpdateFolder, BeginDeleteFolder, shareTables
  <2>4. ASSUME \/ \E p \in SharePools : DestroySharePool(p)
               \/ \E t \in DOMAIN nested : UserWrites(t)
               \/ ShareCrash \/ ReconcileShares
        PROVE  folderRows' \subseteq folderRows
    BY <2>4 DEF DestroySharePool, UserWrites, ShareCrash, ReconcileShares, shareTables
  <2> QED
    BY <2>2, <2>3, <2>4 DEF SharesNext
<1>4. /\ r.share = calls[c].share /\ r.folder = calls[c].folder
      /\ UNCHANGED <<shareRows, nested>>
  BY <1>1, <1>3 DEF PersistFolder, dirs
<1>5. calls[c].pc = "persist"
  BY <1>3 DEF PersistFolder
<1>6. CASE c \in taken
  BY <1>4, <1>5, <1>6
<1>7. CASE c \notin taken
  <2>1. Resolved(calls[c]) \in DOMAIN nested
    BY <1>5, <1>7 DEF SharesInv, MadeIsThere, Made
  <2> QED
    BY <1>4, <2>1 DEF FolderAt, Resolved
<1> QED
  BY <1>6, <1>7

\* A managed folder enters the database with its subvolume there, for any number
\* of shares, folders, pools, overlapping requests, crashes and failing commands,
\* unless another request has deleted that folder, its share or its pool between
\* the making and the recording (managed_folders_service.go).
THEOREM WholeFolders == SharesSpec => FoldersBornWhole
<1>1. SharesInit => SharesInv
  BY SharesInitInv
<1>2. SharesInv /\ [SharesNext]_shareVars => SharesInv'
  BY SharesNextInv
<1>3. SharesInv /\ [SharesNext]_shareVars =>
        [\A r \in folderRows' : RowOf(r.id) = {} =>
           \/ FolderAt(r)' \in DOMAIN nested'
           \/ \E c \in taken : /\ calls[c].pc = "persist"
                               /\ calls[c].share = r.share /\ calls[c].folder = r.folder]_shareVars
  BY BornWholeStep
<1> QED
  BY <1>1, <1>2, <1>3, PTL DEF SharesSpec, FoldersBornWhole

-----------------------------------------------------------------------------
(* The lines of fstab, between two reboots, as long as no rename and no    *)
(* import, export or destroy work at the same time; the sweeps may work at *)
(* any time.  fstab has exactly the lines of the managed pools, except in  *)
(* the middle of an import, a removal or a rename, which each know what is *)
(* missing or moved.                                                       *)

LinesOf(at) == {Line(f, at[f]) : f \in {g \in Filesystems : at[g] \in MountPoints}}
Placements == [Filesystems -> MountPoints \cup {Nowhere}]
UnsharedIn(at) ==
  \A f, g \in Filesystems : at[f] \in MountPoints /\ at[f] = at[g] => f = g

Lines == [fs : Filesystems, mp : MountPoints]
WorkOf(ops, pcs) == [op : ops, fs : Filesystems, mp : MountPoints, pc : pcs]
Imports == WorkOf({"import"}, {"mount", "row", "append"})
Removals ==
  WorkOf({"export", "destroy"}, {"unmount", "erase", "unline", "unrow", "sweep"})
Renames == [op : {"rename"}, fs : Filesystems, old : MountPoints, new : MountPoints,
            pc : {"read", "rewrite", "unmount", "mount", "row"}, seen : SUBSET Lines]

MountTyped ==
  /\ poolAt \in Placements
  /\ locked \in {Free} \cup Imports \cup Removals
  /\ renaming \in {Free} \cup Renames

\* What only a reboot brings about.
Undisturbed ==
  /\ strays = {} /\ mountBoot = << >>
  /\ \A f \in Filesystems : device[f] = "up"
  /\ \A b \in Reconcilers : reconciles[b] = Free

\* Nothing in the code sees to it: a rename takes no lock.
Apart == locked = Free \/ renaming = Free

LockedLines ==
  locked # Free =>
    /\ poolAt[locked.fs] = IF locked.pc \in {"mount", "row", "sweep"} THEN Nowhere
                           ELSE locked.mp
    /\ fsTab.lines = IF locked.pc \in {"append", "unrow"}
                       THEN LinesOf(poolAt) \ {Line(locked.fs, locked.mp)}
                       ELSE LinesOf(poolAt)

RenameLines ==
  renaming # Free =>
    /\ poolAt[renaming.fs] = renaming.old
    /\ \A g \in Filesystems : poolAt[g] # renaming.new
    /\ renaming.pc # "read" => renaming.seen = LinesOf(poolAt)
    /\ fsTab.lines = IF renaming.pc \in {"read", "rewrite"} THEN LinesOf(poolAt)
                     ELSE Transformed(LinesOf(poolAt), renaming.old, renaming.new)

QuietLines == locked = Free /\ renaming = Free => fsTab.lines = LinesOf(poolAt)

Tidy ==
  /\ MountTyped /\ Undisturbed /\ Apart /\ UnsharedIn(poolAt)
  /\ LockedLines /\ RenameLines /\ QuietLines

\* The parts of Tidy that a step which moves no row and no line has to keep.
WhatLinesAre == <<poolAt, fsTab, strays, device, mountBoot, reconciles>>

-----------------------------------------------------------------------------
\* Two lines are the same when they are of the same pool and place.
LEMMA LineInj ==
  ASSUME NEW f, NEW g, NEW m, NEW n, Line(f, m) = Line(g, n)
  PROVE  f = g /\ m = n
<1>1. Line(f, m).fs = f /\ Line(f, m).mp = m /\ Line(g, n).fs = g /\ Line(g, n).mp = n
  BY DEF Line
<1> QED BY <1>1

\* What a line is made of.
LEMMA LineFields == ASSUME NEW f, NEW m PROVE Line(f, m).fs = f /\ Line(f, m).mp = m
BY DEF Line

\* A pool that is nowhere has no line.
LEMMA NowhereIsNot == Nowhere \notin MountPoints /\ Nowhere \notin Filesystems
BY MountAssumption

\* The line of a pool that is imported is the one that is missing.
LEMMA LinesOfImport ==
  ASSUME NEW at \in Placements, NEW f \in Filesystems, NEW m \in MountPoints,
         at[f] = Nowhere, \A g \in Filesystems : at[g] # m
  PROVE  LinesOf([at EXCEPT ![f] = m]) \ {Line(f, m)} = LinesOf(at)
<1> DEFINE to == [at EXCEPT ![f] = m]
<1>1. \A g \in Filesystems : to[g] = IF g = f THEN m ELSE at[g]
  BY DEF Placements
<1>2. LinesOf(to) \ {Line(f, m)} \subseteq LinesOf(at)
  <2>1. SUFFICES ASSUME NEW g \in Filesystems, to[g] \in MountPoints,
                        Line(g, to[g]) # Line(f, m)
                 PROVE  Line(g, to[g]) \in LinesOf(at)
    BY DEF LinesOf
  <2>2. g # f
    BY <2>1, <1>1
  <2> QED BY <2>1, <2>2, <1>1 DEF LinesOf
<1>3. LinesOf(at) \subseteq LinesOf(to) \ {Line(f, m)}
  <2>1. SUFFICES ASSUME NEW g \in Filesystems, at[g] \in MountPoints
                 PROVE  Line(g, at[g]) \in LinesOf(to) \ {Line(f, m)}
    BY DEF LinesOf
  <2>2. g # f
    BY <2>1, NowhereIsNot
  <2>3. Line(g, at[g]) # Line(f, m)
    BY <2>2, LineInj
  <2> QED BY <2>1, <2>2, <2>3, <1>1 DEF LinesOf
<1> QED BY <1>2, <1>3

\* No other line than the pool's has its mount point.
LEMMA OwnLine ==
  ASSUME NEW at \in Placements, UnsharedIn(at), NEW f \in Filesystems, NEW m \in MountPoints,
         at[f] = m
  PROVE  /\ Line(f, m) \in LinesOf(at)
         /\ \A l \in LinesOf(at) : l.mp = m <=> l = Line(f, m)
<1>1. Line(f, m) \in LinesOf(at)
  BY DEF LinesOf
<1>2. ASSUME NEW g \in Filesystems, at[g] \in MountPoints
      PROVE  Line(g, at[g]).mp = m <=> Line(g, at[g]) = Line(f, m)
  BY <1>2, LineFields, LineInj DEF UnsharedIn
<1> QED BY <1>1, <1>2 DEF LinesOf

\* The line of a pool that is removed is the one that goes.
LEMMA LinesOfRemoval ==
  ASSUME NEW at \in Placements, NEW f \in Filesystems, NEW m \in MountPoints, at[f] = m
  PROVE  LinesOf([at EXCEPT ![f] = Nowhere]) = LinesOf(at) \ {Line(f, m)}
<1> DEFINE to == [at EXCEPT ![f] = Nowhere]
<1>1. \A g \in Filesystems : to[g] = IF g = f THEN Nowhere ELSE at[g]
  BY DEF Placements
<1>2. LinesOf(to) \subseteq LinesOf(at) \ {Line(f, m)}
  <2>1. SUFFICES ASSUME NEW g \in Filesystems, to[g] \in MountPoints
                 PROVE  Line(g, to[g]) \in LinesOf(at) \ {Line(f, m)}
    BY DEF LinesOf
  <2>2. g # f
    BY <2>1, <1>1, NowhereIsNot
  <2>3. Line(g, to[g]) # Line(f, m)
    BY <2>2, LineInj
  <2> QED BY <2>1, <2>2, <2>3, <1>1 DEF LinesOf
<1>3. LinesOf(at) \ {Line(f, m)} \subseteq LinesOf(to)
  <2>1. SUFFICES ASSUME NEW g \in Filesystems, at[g] \in MountPoints,
                        Line(g, at[g]) # Line(f, m)
                 PROVE  Line(g, at[g]) \in LinesOf(to)
    BY DEF LinesOf
  <2>2. g # f
    BY <2>1
  <2> QED BY <2>1, <2>2, <1>1 DEF LinesOf
<1> QED BY <1>2, <1>3

\* What a rename writes is what the row with the new name asks for.
LEMMA LinesOfRename ==
  ASSUME NEW at \in Placements, UnsharedIn(at), NEW f \in Filesystems,
         NEW old \in MountPoints, NEW new \in MountPoints, at[f] = old
  PROVE  LinesOf([at EXCEPT ![f] = new]) = Transformed(LinesOf(at), old, new)
<1> DEFINE to == [at EXCEPT ![f] = new]
           moved(l) == IF l.mp = old THEN Line(l.fs, new) ELSE l
<1>1. \A g \in Filesystems : to[g] = IF g = f THEN new ELSE at[g]
  BY DEF Placements
<1>2. ASSUME NEW g \in Filesystems, at[g] \in MountPoints
      PROVE  moved(Line(g, at[g])) = Line(g, to[g])
  <2>1. CASE g = f
    BY <2>1, <1>1, LineFields
  <2>2. CASE g # f
    <3>1. at[g] # old
      BY <2>2, <1>2 DEF UnsharedIn
    <3> QED BY <3>1, <2>2, <1>1, LineFields
  <2> QED BY <2>1, <2>2
<1>3. \A g \in Filesystems : to[g] \in MountPoints <=> at[g] \in MountPoints
  BY <1>1
<1>4. LinesOf(to) \subseteq Transformed(LinesOf(at), old, new)
  <2>1. SUFFICES ASSUME NEW g \in Filesystems, to[g] \in MountPoints
                 PROVE  Line(g, to[g]) \in Transformed(LinesOf(at), old, new)
    BY DEF LinesOf
  <2>2. Line(g, at[g]) \in LinesOf(at)
    BY <2>1, <1>3 DEF LinesOf
  <2> QED BY <2>1, <2>2, <1>2, <1>3 DEF Transformed
<1>5. Transformed(LinesOf(at), old, new) \subseteq LinesOf(to)
  <2>1. SUFFICES ASSUME NEW l \in LinesOf(at)
                 PROVE  moved(l) \in LinesOf(to)
    BY DEF Transformed
  <2>2. PICK g \in Filesystems : at[g] \in MountPoints /\ l = Line(g, at[g])
    BY DEF LinesOf
  <2>3. moved(l) = Line(g, to[g])
    BY <2>2, <1>2
  <2> QED BY <2>2, <2>3, <1>3 DEF LinesOf
<1> QED BY <1>4, <1>5

\* The type of fstab.
LEMMA LinesAreLines == ASSUME NEW at PROVE LinesOf(at) \in SUBSET Lines
<1>1. ASSUME NEW g \in Filesystems, at[g] \in MountPoints PROVE Line(g, at[g]) \in Lines
  BY <1>1 DEF Line, Lines
<1> QED BY <1>1 DEF LinesOf

-----------------------------------------------------------------------------
\* A pool that moves to a free place shares it with nobody.
LEMMA UnsharedMove ==
  ASSUME NEW at \in Placements, UnsharedIn(at), NEW f \in Filesystems,
         NEW m \in MountPoints \cup {Nowhere},
         m # Nowhere => \A g \in Filesystems : at[g] # m
  PROVE  [at EXCEPT ![f] = m] \in Placements /\ UnsharedIn([at EXCEPT ![f] = m])
BY NowhereIsNot DEF Placements, UnsharedIn

\* Who is at work is never taken for nobody.
LEMMA RecordsAreNotFree == Free \notin Imports \cup Removals \cup Renames
<1>1. Free.op = "none"
  BY DEF Free
<1>2. \A r \in Imports \cup Removals \cup Renames : r.op # "none"
  BY DEF Imports, Removals, WorkOf, Renames
<1> QED BY <1>1, <1>2

\* An import begins, mounts, writes its row and then its line.
LEMMA ImportTidy ==
  ASSUME Tidy, Apart',
         \/ \E f \in Filesystems, m \in MountPoints : BeginMountImport(f, m)
         \/ MountImported \/ RecordImported \/ AppendFstab
  PROVE  Tidy'
<1> USE RecordsAreNotFree
<1>1. ASSUME NEW f \in Filesystems, NEW m \in MountPoints, BeginMountImport(f, m)
      PROVE  Tidy'
  <2>1. /\ locked = Free
        /\ locked' = [op |-> "import", fs |-> f, mp |-> m, pc |-> "mount"]
        /\ poolAt[f] = Nowhere
        /\ UNCHANGED <<WhatLinesAre, renaming>>
    BY <1>1 DEF BeginMountImport, Tidy, Undisturbed, WhatLinesAre
  <2>2. locked' \in Imports /\ locked'.fs = f /\ locked'.pc = "mount"
    BY <2>1 DEF Imports, WorkOf
  <2>3. renaming = Free
    BY <2>1, <2>2 DEF Apart
  <2>4. fsTab.lines = LinesOf(poolAt)
    BY <2>1, <2>3 DEF Tidy, QuietLines
  <2> QED BY <2>1, <2>2, <2>3, <2>4
          DEF Tidy, MountTyped, Undisturbed, Apart, UnsharedIn, LockedLines, RenameLines,
              QuietLines, WhatLinesAre
<1>2. ASSUME MountImported \/ RecordImported \/ AppendFstab
      PROVE  /\ locked \in Imports /\ locked # Free /\ renaming = Free
             /\ locked.fs \in Filesystems /\ locked.mp \in MountPoints
  <2>1. locked \in Imports /\ locked # Free
    BY <1>2 DEF MountImported, RecordImported, AppendFstab, Tidy, MountTyped, Removals, WorkOf,
                Working, Free
  <2> QED BY <2>1 DEF Tidy, Apart, Imports, WorkOf
<1>3. CASE MountImported
  <2>1. /\ locked.pc = "mount"
        /\ locked' = Free \/ locked' = [locked EXCEPT !.pc = "row"]
        /\ UNCHANGED <<WhatLinesAre, renaming>>
    BY <1>3 DEF MountImported, Working, To, Done, WhatLinesAre
  <2>2. \/ locked' = Free
        \/ locked' \in Imports /\ locked'.pc = "row" /\ locked'.fs = locked.fs
    BY <1>2, <1>3, <2>1 DEF Imports, WorkOf
  <2> QED BY <1>2, <1>3, <2>1, <2>2
          DEF Tidy, MountTyped, Undisturbed, Apart, UnsharedIn, LockedLines, RenameLines,
              QuietLines, WhatLinesAre
<1>4. CASE RecordImported
  <2>1. /\ locked.pc = "row" /\ poolAt[locked.fs] = Nowhere
        /\ fsTab.lines = LinesOf(poolAt)
        /\ UNCHANGED <<fsTab, strays, device, mountBoot, reconciles, renaming>>
    BY <1>2, <1>4 DEF RecordImported, Working, Tidy, LockedLines
  <2>2. CASE locked' = Free /\ poolAt' = poolAt
    BY <1>2, <1>4, <2>1, <2>2
    DEF Tidy, MountTyped, Undisturbed, Apart, UnsharedIn, LockedLines, RenameLines,
        QuietLines
  <2>3. CASE /\ \A f \in Filesystems : poolAt[f] # locked.mp
             /\ poolAt' = [poolAt EXCEPT ![locked.fs] = locked.mp]
             /\ locked' = [locked EXCEPT !.pc = "append"]
    <3>1. /\ locked' \in Imports /\ locked'.pc = "append"
          /\ locked'.fs = locked.fs /\ locked'.mp = locked.mp
      BY <1>2, <1>4, <2>3 DEF Imports, WorkOf
    <3>2. poolAt' \in Placements /\ UnsharedIn(poolAt') /\ poolAt'[locked.fs] = locked.mp
      BY <1>2, <1>4, <2>3, UnsharedMove DEF Tidy, MountTyped, Placements
    <3>3. fsTab.lines = LinesOf(poolAt') \ {Line(locked.fs, locked.mp)}
      BY <1>2, <1>4, <2>1, <2>3, LinesOfImport DEF Tidy, MountTyped
    <3> QED BY <1>2, <1>4, <2>1, <3>1, <3>2, <3>3
            DEF Tidy, MountTyped, Undisturbed, Apart, LockedLines, RenameLines, QuietLines
  <2> QED BY <1>4, <2>2, <2>3 DEF RecordImported, Done, To, Tidy, Undisturbed
<1>5. CASE AppendFstab
  <2>1. /\ locked.pc = "append" /\ locked' = Free /\ poolAt[locked.fs] = locked.mp
        /\ fsTab.lines = LinesOf(poolAt) \ {Line(locked.fs, locked.mp)}
        /\ UNCHANGED <<poolAt, strays, device, mountBoot, reconciles, renaming>>
    BY <1>2, <1>5 DEF AppendFstab, Working, Done, Tidy, LockedLines
  <2>2. /\ Line(locked.fs, locked.mp) \in LinesOf(poolAt)
        /\ ~HasMountpoint(fsTab.lines, locked.mp)
    BY <1>2, <1>5, <2>1, OwnLine DEF HasMountpoint, Tidy, MountTyped
  <2>3. fsTab'.lines = LinesOf(poolAt)
    BY <1>5, <2>1, <2>2 DEF AppendFstab, WriteFstab
  <2> QED BY <1>2, <1>5, <2>1, <2>3
          DEF Tidy, MountTyped, Undisturbed, Apart, UnsharedIn, LockedLines, RenameLines,
              QuietLines
<1> QED BY <1>1, <1>3, <1>4, <1>5

\* A removal begins, unmounts, deletes the files, the line and the row.
LEMMA RemovalTidy ==
  ASSUME Tidy, Apart',
         \/ \E op \in {"export", "destroy"}, f \in Filesystems : BeginMountRemoval(op, f)
         \/ UnmountStrict \/ EraseMountPoint \/ RemoveFstabEntry \/ RemoveRow
         \/ BeginDestroySweep
  PROVE  Tidy'
<1> USE RecordsAreNotFree
<1>1. ASSUME NEW op \in {"export", "destroy"}, NEW f \in Filesystems, BeginMountRemoval(op, f)
      PROVE  Tidy'
  <2>1. /\ locked = Free
        /\ locked' = [op |-> op, fs |-> f, mp |-> poolAt[f], pc |-> "unmount"]
        /\ poolAt[f] \in MountPoints
        /\ UNCHANGED <<WhatLinesAre, renaming>>
    BY <1>1 DEF BeginMountRemoval, onDisk, WhatLinesAre
  <2>2. /\ locked' \in Removals /\ locked'.fs = f /\ locked'.mp = poolAt[f]
        /\ locked'.pc = "unmount"
    BY <2>1 DEF Removals, WorkOf
  <2>3. renaming = Free
    BY <2>1, <2>2 DEF Apart
  <2>4. fsTab.lines = LinesOf(poolAt)
    BY <2>1, <2>3 DEF Tidy, QuietLines
  <2> QED BY <2>1, <2>2, <2>3, <2>4
          DEF Tidy, MountTyped, Undisturbed, Apart, UnsharedIn, LockedLines, RenameLines,
              QuietLines, WhatLinesAre
<1>2. ASSUME UnmountStrict \/ EraseMountPoint \/ RemoveFstabEntry \/ RemoveRow
                \/ BeginDestroySweep
      PROVE  /\ locked \in Removals /\ locked # Free /\ renaming = Free
             /\ locked.fs \in Filesystems /\ locked.mp \in MountPoints
  <2>1. locked \in Removals /\ locked # Free
    BY <1>2 DEF UnmountStrict, EraseMountPoint, RemoveFstabEntry, RemoveRow,
                BeginDestroySweep, Tidy, MountTyped, Imports, WorkOf, Working, Free
  <2> QED BY <2>1 DEF Tidy, Apart, Removals, WorkOf
<1>3. CASE UnmountStrict \/ EraseMountPoint
  <2>1. /\ locked.pc \in {"unmount", "erase"}
        /\ \/ locked' = Free
           \/ \E pc \in {"erase", "unline"} : locked' = [locked EXCEPT !.pc = pc]
        /\ UNCHANGED <<WhatLinesAre, renaming>>
    BY <1>3 DEF UnmountStrict, EraseMountPoint, Working, To, Done, WhatLinesAre
  <2>2. \/ locked' = Free
        \/ /\ locked' \in Removals /\ locked'.fs = locked.fs /\ locked'.mp = locked.mp
           /\ locked'.pc \in {"erase", "unline"}
    BY <1>2, <1>3, <2>1 DEF Removals, WorkOf
  <2> QED BY <1>2, <1>3, <2>1, <2>2
          DEF Tidy, MountTyped, Undisturbed, Apart, UnsharedIn, LockedLines, RenameLines,
              QuietLines, WhatLinesAre
<1>4. CASE RemoveFstabEntry
  <2>1. /\ locked.pc = "unline" /\ poolAt[locked.fs] = locked.mp
        /\ fsTab.lines = LinesOf(poolAt)
        /\ locked' = [locked EXCEPT !.pc = "unrow"]
        /\ UNCHANGED <<poolAt, strays, device, mountBoot, reconciles, renaming>>
    BY <1>2, <1>4 DEF RemoveFstabEntry, Working, To, Tidy, LockedLines
  <2>2. /\ locked' \in Removals /\ locked'.fs = locked.fs /\ locked'.mp = locked.mp
        /\ locked'.pc = "unrow"
    BY <1>2, <1>4, <2>1 DEF Removals, WorkOf
  <2>3. /\ Line(locked.fs, locked.mp) \in LinesOf(poolAt)
        /\ Line(locked.fs, locked.mp).mp = locked.mp
        /\ \A l \in LinesOf(poolAt) : l.mp = locked.mp <=> l = Line(locked.fs, locked.mp)
    BY <1>2, <1>4, <2>1, OwnLine, LineFields DEF Tidy, MountTyped
  <2>4. fsTab'.lines = Kept(LinesOf(poolAt), locked.mp)
    BY <1>4, <2>1, <2>3 DEF RemoveFstabEntry, HasMountpoint, WriteFstab
  <2>5. fsTab'.lines = LinesOf(poolAt) \ {Line(locked.fs, locked.mp)}
    BY <2>3, <2>4 DEF Kept
  <2> QED BY <1>2, <1>4, <2>1, <2>2, <2>5
          DEF Tidy, MountTyped, Undisturbed, Apart, UnsharedIn, LockedLines, RenameLines,
              QuietLines
<1>5. CASE RemoveRow
  <2>1. /\ locked.pc = "unrow" /\ poolAt[locked.fs] = locked.mp
        /\ fsTab.lines = LinesOf(poolAt) \ {Line(locked.fs, locked.mp)}
        /\ poolAt' = [poolAt EXCEPT ![locked.fs] = Nowhere]
        /\ locked' = Free \/ locked' = [locked EXCEPT !.pc = "sweep"]
        /\ UNCHANGED <<fsTab, strays, device, mountBoot, reconciles, renaming>>
    BY <1>2, <1>5 DEF RemoveRow, Working, To, Done, Tidy, LockedLines
  <2>2. \/ locked' = Free
        \/ locked' \in Removals /\ locked'.fs = locked.fs /\ locked'.pc = "sweep"
    BY <1>2, <1>5, <2>1 DEF Removals, WorkOf
  <2>3. poolAt \in Placements /\ UnsharedIn(poolAt)
    BY DEF Tidy, MountTyped
  <2>4. poolAt' \in Placements /\ UnsharedIn(poolAt') /\ poolAt'[locked.fs] = Nowhere
    BY <1>2, <1>5, <2>1, <2>3, UnsharedMove DEF Placements
  <2>5. fsTab.lines = LinesOf(poolAt')
    BY <1>2, <1>5, <2>1, <2>3, LinesOfRemoval
  <2> QED BY <1>2, <1>5, <2>1, <2>2, <2>4, <2>5
          DEF Tidy, MountTyped, Undisturbed, Apart, LockedLines, RenameLines, QuietLines
<1>6. CASE BeginDestroySweep
  <2>1. /\ locked.pc = "sweep" /\ locked' = Free /\ UNCHANGED <<WhatLinesAre, renaming>>
    BY <1>6 DEF BeginDestroySweep, Done, Working, onDisk, WhatLinesAre
  <2> QED BY <1>2, <1>6, <2>1
          DEF Tidy, MountTyped, Undisturbed, Apart, UnsharedIn, LockedLines, RenameLines,
              QuietLines, WhatLinesAre
<1> QED BY <1>1, <1>3, <1>4, <1>5, <1>6

\* A rename reads fstab, rewrites it, moves the mount and renames the row; or
\* gives up, and writes back what it had read.
LEMMA RenameTidy ==
  ASSUME Tidy, Apart',
         RenameStep \/ \E f \in Filesystems, m \in MountPoints : BeginRename(f, m)
  PROVE  Tidy'
<1> USE RecordsAreNotFree
<1>1. ASSUME NEW f \in Filesystems, NEW m \in MountPoints, BeginRename(f, m)
      PROVE  Tidy'
  <2>1. /\ renaming = Free
        /\ renaming' = [op |-> "rename", fs |-> f, old |-> poolAt[f], new |-> m,
                        pc |-> "read", seen |-> {}]
        /\ poolAt[f] \in MountPoints /\ \A g \in Filesystems : poolAt[g] # m
        /\ UNCHANGED <<WhatLinesAre, locked>>
    BY <1>1 DEF BeginRename, WhatLinesAre
  <2>2. /\ renaming' \in Renames /\ renaming'.fs = f /\ renaming'.old = poolAt[f]
        /\ renaming'.new = m /\ renaming'.pc = "read"
    BY <2>1 DEF Renames
  <2>3. locked = Free
    BY <2>1, <2>2 DEF Apart
  <2>4. fsTab.lines = LinesOf(poolAt)
    BY <2>1, <2>3 DEF Tidy, QuietLines
  <2> QED BY <2>1, <2>2, <2>3, <2>4
          DEF Tidy, MountTyped, Undisturbed, Apart, UnsharedIn, LockedLines, RenameLines,
              QuietLines, WhatLinesAre
<1>2. ASSUME RenameStep
      PROVE  /\ renaming \in Renames /\ renaming # Free /\ locked = Free
             /\ renaming.fs \in Filesystems /\ renaming.old \in MountPoints
             /\ renaming.new \in MountPoints /\ renaming.seen \in SUBSET Lines
             /\ poolAt[renaming.fs] = renaming.old
             /\ \A g \in Filesystems : poolAt[g] # renaming.new
  <2>1. renaming # Free
    BY <1>2 DEF RenameStep, ReadFstab, RewriteFstab, UnmountOld, MountNew, RecordRename,
                Renaming, Free
  <2> QED BY <2>1 DEF Tidy, MountTyped, Apart, RenameLines, Renames
<1>3. CASE ReadFstab
  <2> USE <1>3 DEF RenameStep
  <2>1. /\ renaming.pc = "read" /\ fsTab.lines = LinesOf(poolAt)
        /\ \/ renaming' = Free
           \/ renaming' = [renaming EXCEPT !.pc = "rewrite", !.seen = fsTab.lines]
        /\ UNCHANGED <<WhatLinesAre, locked>>
    BY <1>2 DEF ReadFstab, Renaming, Tidy, RenameLines, onDisk, WhatLinesAre
  <2>2. \/ renaming' = Free
        \/ /\ renaming' \in Renames /\ renaming'.fs = renaming.fs
           /\ renaming'.old = renaming.old /\ renaming'.new = renaming.new
           /\ renaming'.pc = "rewrite" /\ renaming'.seen = LinesOf(poolAt)
    <3>1. LinesOf(poolAt) \in SUBSET Lines
      BY LinesAreLines
    <3>2. CASE renaming' = [renaming EXCEPT !.pc = "rewrite", !.seen = LinesOf(poolAt)]
      <4> HIDE DEF LinesOf
      <4> QED BY <1>2, <3>1, <3>2 DEF Renames
    <3> QED BY <2>1, <3>2
  <2> QED BY <1>2, <2>1, <2>2
          DEF Tidy, MountTyped, Undisturbed, Apart, UnsharedIn, LockedLines, RenameLines,
              QuietLines, WhatLinesAre
<1>4. CASE RewriteFstab
  <2> USE <1>4 DEF RenameStep
  <2>1. /\ renaming.pc = "rewrite" /\ renaming.seen = LinesOf(poolAt)
        /\ renaming' = [renaming EXCEPT !.pc = "unmount"]
        /\ fsTab'.lines = Transformed(LinesOf(poolAt), renaming.old, renaming.new)
        /\ UNCHANGED <<poolAt, strays, device, mountBoot, reconciles, locked>>
    BY <1>2 DEF RewriteFstab, Renaming, RenameTo, WriteFstab, Tidy, RenameLines
  <2>2. /\ renaming' \in Renames /\ renaming'.fs = renaming.fs
        /\ renaming'.old = renaming.old /\ renaming'.new = renaming.new
        /\ renaming'.pc = "unmount" /\ renaming'.seen = LinesOf(poolAt)
    BY <1>2, <2>1 DEF Renames
  <2> QED BY <1>2, <2>1, <2>2
          DEF Tidy, MountTyped, Undisturbed, Apart, UnsharedIn, LockedLines, RenameLines,
              QuietLines
<1>5. CASE UnmountOld \/ MountNew
  <2> USE <1>5 DEF RenameStep
  <2>1. /\ renaming.pc \in {"unmount", "mount"} /\ renaming.seen = LinesOf(poolAt)
        /\ fsTab.lines = Transformed(LinesOf(poolAt), renaming.old, renaming.new)
        /\ UNCHANGED <<poolAt, strays, device, mountBoot, reconciles, locked>>
        /\ \/ /\ \E pc \in {"mount", "row"} : renaming' = [renaming EXCEPT !.pc = pc]
              /\ fsTab' = fsTab
           \/ renaming' = Free /\ fsTab'.lines = renaming.seen
    BY <1>2 DEF UnmountOld, MountNew, Renaming, RenameTo, WriteFstab, Tidy, RenameLines
  <2>2. \/ renaming' = Free /\ fsTab'.lines = LinesOf(poolAt)
        \/ /\ renaming' \in Renames /\ renaming'.fs = renaming.fs
           /\ renaming'.old = renaming.old /\ renaming'.new = renaming.new
           /\ renaming'.pc \in {"mount", "row"} /\ renaming'.seen = LinesOf(poolAt)
           /\ fsTab' = fsTab
    BY <1>2, <2>1 DEF Renames
  <2> QED BY <1>2, <2>1, <2>2
          DEF Tidy, MountTyped, Undisturbed, Apart, UnsharedIn, LockedLines, RenameLines,
              QuietLines
<1>6. CASE RecordRename
  <2> USE <1>6 DEF RenameStep
  <2>1. /\ renaming.pc = "row" /\ renaming' = Free
        /\ fsTab.lines = Transformed(LinesOf(poolAt), renaming.old, renaming.new)
        /\ UNCHANGED <<fsTab, strays, device, mountBoot, reconciles, locked>>
    BY <1>2 DEF RecordRename, Renaming, Tidy, RenameLines
  <2>2. poolAt \in Placements /\ UnsharedIn(poolAt)
    BY DEF Tidy, MountTyped
  <2>3. poolAt' = [poolAt EXCEPT ![renaming.fs] = renaming.new]
    BY <1>2, <2>2, NowhereIsNot DEF RecordRename, Placements
  <2>4. poolAt' \in Placements /\ UnsharedIn(poolAt')
    BY <1>2, <2>2, <2>3, UnsharedMove
  <2>5. fsTab.lines = LinesOf(poolAt')
    BY <1>2, <2>1, <2>2, <2>3, LinesOfRename
  <2> QED BY <1>2, <2>1, <2>4, <2>5
          DEF Tidy, MountTyped, Undisturbed, Apart, LockedLines, RenameLines, QuietLines
<1> QED BY <1>1, <1>3, <1>4, <1>5, <1>6 DEF RenameStep

-----------------------------------------------------------------------------
\* The system starts tidy.
LEMMA TidyInit == ASSUME MountInit PROVE Tidy
<1>1. \A f \in Filesystems : poolAt[f] = IF f = First THEN Home ELSE Nowhere
  BY DEF MountInit
<1>2. MountTyped
  BY MountAssumption DEF MountInit, MountTyped, Placements
<1>3. UnsharedIn(poolAt)
  BY <1>1, NowhereIsNot DEF UnsharedIn
<1>4. fsTab.lines = LinesOf(poolAt)
  <2>1. {g \in Filesystems : poolAt[g] \in MountPoints} = {First}
    BY <1>1, NowhereIsNot, MountAssumption
  <2>2. LinesOf(poolAt) = {Line(First, Home)}
    BY <1>1, <2>1, MountAssumption DEF LinesOf
  <2> QED BY <2>2 DEF MountInit
<1> QED BY <1>2, <1>3, <1>4
        DEF MountInit, Tidy, Undisturbed, Apart, LockedLines, RenameLines, QuietLines

\* Without a reboot the boot's steps, the reconciles and the return of a late
\* device have nothing to do, and a sweep moves no row and no line.
LEMMA TidyNext ==
  ASSUME Tidy, Apart', [MountNext]_mountVars, [~PowerCut]_mountVars
  PROVE  Tidy'
<1>1. CASE UNCHANGED <<WhatLinesAre, locked, renaming>>
  BY <1>1 DEF Tidy, MountTyped, Undisturbed, Apart, UnsharedIn, LockedLines, RenameLines,
              QuietLines, WhatLinesAre
<1>2. CASE MountNext /\ ~PowerCut
  <2>1. ~BootStep /\ \A b \in Reconcilers : ~ReconcileStep(b)
    BY DEF BootStep, RestoreFstabIfCorrupt, BootReconcile, BootSweep, ReconcileStep,
           LookAtPool, Unstack, MountFromFstab, LeaveMounted, Looked, Tidy, Undisturbed
  <2>2. /\ \A f \in Filesystems : ~DeviceComesUp(f) /\ ~NoticeMissing(f)
        /\ ~DevicesReappear
    BY DEF DeviceComesUp, NoticeMissing, DevicesReappear, Late, Tidy, Undisturbed
  <2>3. BeginMaintenanceSweep \/ (\E s \in Sweepers : SweepStep(s))
          => UNCHANGED <<WhatLinesAre, locked, renaming>>
    BY DEF BeginMaintenanceSweep, SweepStep, JudgeDir, RemoveDir, onDisk, WhatLinesAre
  <2> QED BY <1>1, <1>2, <2>1, <2>2, <2>3, ImportTidy, RemovalTidy, RenameTidy
          DEF MountNext, LockedStep
<1> QED BY <1>1, <1>2 DEF mountVars, WhatLinesAre

\* The number of faults that are left only falls, and a reboot is one.
LEMMA FaultsFall ==
  ASSUME mountFaults \in Int, mountFaults <= MaxMountFaults, [MountNext]_mountVars
  PROVE  /\ mountFaults' \in Int /\ mountFaults' <= mountFaults
         /\ PowerCut => mountFaults' < mountFaults
<1>1. mountFaults' = mountFaults \/ Fails
  <2> USE DEF onDisk, actors
  <2>1. CASE UNCHANGED mountVars
    BY <2>1 DEF mountVars
  <2>2. CASE BootStep
    BY <2>2 DEF BootStep, RestoreFstabIfCorrupt, BootReconcile, BootSweep
  <2>3. CASE LockedStep
    BY <2>3 DEF LockedStep, MountImported, RecordImported, AppendFstab, UnmountStrict,
                EraseMountPoint, RemoveFstabEntry, RemoveRow, BeginDestroySweep
  <2>4. CASE RenameStep
    BY <2>4 DEF RenameStep, ReadFstab, RewriteFstab, UnmountOld, MountNew, RecordRename
  <2>5. CASE \/ \E f \in Filesystems, m \in MountPoints :
                  BeginMountImport(f, m) \/ BeginRename(f, m)
             \/ \E op \in {"export", "destroy"}, f \in Filesystems : BeginMountRemoval(op, f)
             \/ BeginMaintenanceSweep
    BY <2>5 DEF BeginMountImport, BeginRename, BeginMountRemoval, BeginMaintenanceSweep
  <2>6. CASE \/ \E b \in Reconcilers : ReconcileStep(b)
             \/ \E s \in Sweepers : SweepStep(s)
             \/ \E f \in Filesystems : DeviceComesUp(f) \/ NoticeMissing(f)
             \/ DevicesReappear
    BY <2>6 DEF ReconcileStep, LookAtPool, Unstack, MountFromFstab, LeaveMounted, SweepStep,
                JudgeDir, RemoveDir, DeviceComesUp, NoticeMissing, DevicesReappear
  <2>7. CASE PowerCut
    BY <2>7 DEF PowerCut
  <2> QED BY <2>1, <2>2, <2>3, <2>4, <2>5, <2>6, <2>7 DEF MountNext
<1> QED BY <1>1 DEF Fails, PowerCut

\* Until the first fault the mounts are tidy.
TidyUntilFault ==
  /\ mountFaults \in Int /\ mountFaults <= MaxMountFaults
  /\ mountFaults = MaxMountFaults => Tidy

\* Between two requests a managed pool has its line in fstab, until the first
\* fault: for any pools and names, however often they are imported, renamed
\* and removed, and whatever the sweeps do meanwhile, as long as no rename and
\* no import, export or destroy work at the same time (appendFstab,
\* transformFstabMountPoint, removeFstabEntry).
THEOREM LinesFollowPools ==
  MountSpec /\ [](locked = Free \/ renaming = Free) => []PoolsKeepTheirLines
<1>1. ASSUME MountInit PROVE TidyUntilFault
  BY <1>1, TidyInit, MountAssumption DEF MountInit, TidyUntilFault
<1>2. ASSUME TidyUntilFault, Apart', [MountNext]_mountVars PROVE TidyUntilFault'
  <2>1. /\ mountFaults' \in Int /\ mountFaults' <= mountFaults
        /\ PowerCut => mountFaults' < mountFaults
    BY <1>2, FaultsFall DEF TidyUntilFault
  <2>2. ASSUME mountFaults' = MaxMountFaults PROVE Tidy'
    <3>1. mountFaults = MaxMountFaults /\ ~PowerCut
      BY <1>2, <2>1, <2>2, MountAssumption DEF TidyUntilFault
    <3> QED BY <1>2, <3>1, TidyNext DEF TidyUntilFault
  <2> QED BY <1>2, <2>1, <2>2, MountAssumption DEF TidyUntilFault
<1>3. ASSUME TidyUntilFault PROVE PoolsKeepTheirLines
  <2>1. SUFFICES ASSUME locked = Free, renaming = Free, Tidy,
                        NEW f \in Filesystems, poolAt[f] \in MountPoints
                 PROVE  Line(f, poolAt[f]) \in fsTab.lines
    BY <1>3 DEF PoolsKeepTheirLines, Quiet, TidyUntilFault
  <2> QED BY <2>1 DEF Tidy, QuietLines, LinesOf
<1>4. Apart <=> (locked = Free \/ renaming = Free)
  BY DEF Apart
<1> QED BY <1>1, <1>2, <1>3, <1>4, PTL DEF MountSpec
=============================================================================
