--------------------------- MODULE MCDaemonSafety ---------------------------
(* What the rest of the daemon must never do, in one run of TLC: the event   *)
(* log, the maintenance loop, WireGuard, the accounts, Shield, the files,    *)
(* the uploads and the shares. As in MCStorageDaemon, a behaviour moves the  *)
(* component that focus names.                                               *)
EXTENDS NetworkEvents, Maintenance, WireGuard, Accounts, Shield, FileMoves, Uploads, Shares

VARIABLE focus

\* Shield's policies: the one the daemon starts with, and one that blocks
\* sooner. A block lasts one tick, after the second offence.
MCDefault == [unknown |-> 3, known |-> 3, habitual |-> 3, distrust |-> 2]
MCPolicies == {[unknown |-> 0, known |-> 3, habitual |-> 3, distrust |-> 1]}
MCBlockTicks == <<0, 0, 1, 1>>

\* Shares: /nimos/pools/data is a prefix of /nimos/pools/data2.
MCPrefixed == {<<"data", "data2">>}

DaemonInit ==
  /\ focus \in {"events", "maintenance", "wireguard", "accounts", "shield",
               "files", "uploads", "shares"}
  /\ EventsInit /\ MaintenanceInit /\ WgInit /\ AccountsInit /\ ShieldInit
  /\ FilesInit /\ UploadsInit /\ SharesInit
  /\ focus # "files" => folders = {"A"} /\ whole = {}
  /\ focus # "maintenance" => taskConf = CHOOSE c \in [Tasks -> Schedules] : TRUE
  /\ focus # "shares" =>
       /\ folderRows = {}
       /\ place[CHOOSE p \in SharePools : TRUE][CHOOSE n \in ShareNames : TRUE] = "subvol"
  /\ focus # "wireguard" => wgState = NoState /\ wgLink = NoState
  /\ focus # "accounts" => linux = {} /\ ~json.there

DaemonNext ==
  /\ UNCHANGED focus
  /\ \/ /\ focus = "events" /\ EventsNext
        /\ UNCHANGED <<maintenanceVars, wgVars, accountVars, shieldVars,
                       fileVars, uploadVars, shareVars>>
     \/ /\ focus = "maintenance" /\ MaintenanceNext
        /\ UNCHANGED <<eventVars, wgVars, accountVars, shieldVars,
                       fileVars, uploadVars, shareVars>>
     \/ /\ focus = "wireguard" /\ WgNext
        /\ UNCHANGED <<eventVars, maintenanceVars, accountVars, shieldVars,
                       fileVars, uploadVars, shareVars>>
     \/ /\ focus = "accounts" /\ AccountsNext
        /\ UNCHANGED <<eventVars, maintenanceVars, wgVars, shieldVars,
                       fileVars, uploadVars, shareVars>>
     \/ /\ focus = "shield" /\ ShieldNext
        /\ UNCHANGED <<eventVars, maintenanceVars, wgVars, accountVars,
                       fileVars, uploadVars, shareVars>>
     \/ /\ focus = "files" /\ FilesNext
        /\ UNCHANGED <<eventVars, maintenanceVars, wgVars, accountVars,
                       shieldVars, uploadVars, shareVars>>
     \/ /\ focus = "uploads" /\ UploadsNext
        /\ UNCHANGED <<eventVars, maintenanceVars, wgVars, accountVars,
                       shieldVars, fileVars, shareVars>>
     \/ /\ focus = "shares" /\ SharesNext
        /\ UNCHANGED <<eventVars, maintenanceVars, wgVars, accountVars,
                       shieldVars, fileVars, uploadVars>>

DaemonSpec ==
  DaemonInit
    /\ [][DaemonNext]_<<focus, eventVars, maintenanceVars, wgVars, accountVars, shieldVars,
                        fileVars, uploadVars, shareVars>>
=============================================================================
