------------------------------ MODULE RoleBackup ------------------------------
(***************************************************************************)
(* The backup of a stopped role (state/maintenance*.go) next to the        *)
(* processes that write the role's files: a current runtime, which holds   *)
(* role-state.lock and activates its marker once it owns every writer's    *)
(* lock, and an older transport-only process, which knows nothing of the   *)
(* role lock and writes only the network state.  A file is a version       *)
(* number and a modification time, which is too coarse to tell every       *)
(* write.  Any process may die at any step.                                *)
(***************************************************************************)
EXTENDS Naturals, FiniteSets

CONSTANTS Network,      \* files of the network state
          MaxWrites,    \* bound on writes to the role's files
          MaxBegun,     \* bound on runtimes, old processes and backups begun
          Absent

Files == {"mesh.db"} \cup Network
Actors == {"runtime", "old", "backup"}

ASSUME BackupAssumption == "mesh.db" \notin Network /\ Absent \notin Actors

VARIABLES marker,       \* role-state.lock: Absent, "pending" or "active"
          holder,       \* who holds the lock of the role, database, network
          pc,           \* where each actor is
          files,        \* data and modification time of each file
          owned,        \* the runtime opened its own network, none borrowed
          tree,         \* what the backup's last walk has seen
          left,         \* files its current pass has still to read
          report,       \* the database its inspection has reported on
          copy,         \* state/ in the destination
          manifest,     \* manifest.json: the hashes and the report, or Absent
          complete,     \* COMPLETE: the manifest it vouches for, or Absent
          verdict,      \* the manifest a verification vouched for, or Absent
          past,         \* history: every content the role's files have had
          begun, writes

backupVars == <<marker, holder, pc, files, owned, tree, left, report, copy, manifest,
                complete, verdict, past, begun, writes>>
artifact == <<copy, manifest, complete>>
walk == <<tree, left, report>>
counts == <<begun, writes>>

Locks == {"role", "database", "network"}
Content == [f \in Files |-> files[f].data]
NoFiles == [f \in Files |-> Absent]

BackupInit ==
    /\ marker \in {Absent, "pending", "active"}
    /\ holder = [l \in Locks |-> Absent]
    /\ pc = [a \in Actors |-> "off"]
    /\ files = [f \in Files |-> [data |-> 0, time |-> 0]]
    /\ owned = FALSE
    /\ tree = NoFiles /\ left = {} /\ report = Absent
    /\ copy = NoFiles /\ manifest = Absent /\ complete = Absent
    /\ verdict = Absent /\ past = {[f \in Files |-> 0]}
    /\ begun = 0 /\ writes = 0

Free(l) == holder[l] = Absent
Take(a, l) == holder' = [holder EXCEPT ![l] = a]
ToPc(a, where) == pc' = [pc EXCEPT ![a] = where]
(* An actor ends: its handles are closed and its locks with them. *)
Quit(a) == /\ ToPc(a, "off")
           /\ holder' = [l \in Locks |-> IF holder[l] = a THEN Absent ELSE holder[l]]
Begins(a) == pc[a] = "off" /\ begun < MaxBegun /\ begun' = begun + 1

(* Every step of every actor may fail, or the process die. *)
Dies(a) ==
    /\ pc[a] # "off" /\ Quit(a)
    /\ UNCHANGED <<marker, files, owned, walk, artifact, verdict, past, counts>>

-----------------------------------------------------------------------------
(***************************************************************************)
(* A current runtime.                                                      *)
(***************************************************************************)
(* PrepareRoleState, AcquireRoleState: a new or interrupted marker is (or  *)
(* becomes again) pending.                                                 *)
AcquireRoleState ==
    /\ Begins("runtime") /\ Free("role") /\ Take("runtime", "role")
    /\ marker' = IF marker = "active" THEN "active" ELSE "pending"
    /\ owned' \in BOOLEAN
    /\ ToPc("runtime", "database")
    /\ UNCHANGED <<files, walk, artifact, verdict, past, writes>>

OpenDatabase ==
    /\ pc["runtime"] = "database" /\ Free("database") /\ Take("runtime", "database")
    /\ ToPc("runtime", IF owned THEN "network" ELSE "disable")
    /\ UNCHANGED <<marker, files, owned, walk, artifact, verdict, past, counts>>

OpenNetwork ==
    /\ pc["runtime"] = "network" /\ Free("network") /\ Take("runtime", "network")
    /\ ToPc("runtime", "activate")
    /\ UNCHANGED <<marker, files, owned, walk, artifact, verdict, past, counts>>

Activate ==
    /\ pc["runtime"] = "activate" /\ marker' = "active" /\ ToPc("runtime", "run")
    /\ UNCHANGED <<holder, files, owned, walk, artifact, verdict, past, counts>>

(* DisableFullRoleBackup: the network belongs to another directory. *)
DisableFullRoleBackup ==
    /\ pc["runtime"] = "disable" /\ marker' = "pending" /\ ToPc("runtime", "run")
    /\ UNCHANGED <<holder, files, owned, walk, artifact, verdict, past, counts>>

(* An older process owns the network state only. *)
StartOld ==
    /\ Begins("old") /\ Free("network") /\ Take("old", "network")
    /\ ToPc("old", "run")
    /\ UNCHANGED <<marker, files, owned, walk, artifact, verdict, past, writes>>

Writes(a) == IF a = "runtime" /\ owned THEN Files
             ELSE IF a = "runtime" THEN {"mesh.db"} ELSE Network
WriteFile(a, f) ==
    /\ pc[a] = "run" /\ f \in Writes(a)
    /\ writes < MaxWrites /\ writes' = writes + 1
    /\ \E tick \in {0, 1} :
         files' = [files EXCEPT ![f] = [data |-> @.data + 1, time |-> @.time + tick]]
    /\ past' = past \cup {[f2 \in Files |-> files'[f2].data]}
    /\ UNCHANGED <<marker, holder, pc, owned, walk, artifact, verdict, begun>>

-----------------------------------------------------------------------------
(***************************************************************************)
(* BackupMaintenance.                                                      *)
(***************************************************************************)
(* maintenanceOwn: the role's lock if there is one, the database's, and    *)
(* only then the demand for an activated marker.                           *)
OwnRole ==
    /\ Begins("backup") /\ (marker # Absent => Free("role"))
    /\ IF marker = Absent THEN UNCHANGED holder ELSE Take("backup", "role")
    /\ ToPc("backup", "own")
    /\ copy' = NoFiles /\ manifest' = Absent /\ complete' = Absent /\ verdict' = Absent
    /\ UNCHANGED <<marker, files, owned, walk, past, writes>>

MayCopy == marker = "active" /\ holder["role"] = "backup"
OwnDatabase(for) ==
    /\ pc["backup"] = "own" /\ Free("database") /\ (for = "backup" => MayCopy)
    /\ Take("backup", "database") /\ ToPc("backup", for)
    /\ UNCHANGED <<marker, files, owned, walk, artifact, verdict, past, counts>>

(* inspect: a read-only transaction over the database.  InspectMaintenance *)
(* prints its report and ends; a backup puts it in the manifest.           *)
Inspect ==
    /\ pc["backup"] \in {"inspection", "backup"}
    /\ report' = files["mesh.db"].data
    /\ IF pc["backup"] = "inspection" THEN Quit("backup")
       ELSE ToPc("backup", "tree") /\ UNCHANGED holder
    /\ UNCHANGED <<marker, files, owned, tree, left, artifact, verdict, past, counts>>

(* maintenanceTree, before each of the two passes. *)
Walk(pass, then) ==
    /\ pc["backup"] = pass /\ ToPc("backup", then)
    /\ tree' = [f \in Files |-> files[f].time] /\ left' = Files
    /\ UNCHANGED <<marker, holder, files, owned, report, artifact, verdict, past, counts>>

(* maintenanceReadEntry: the file must still be the one of the walk. *)
Unmoved(f) == files[f].time = tree[f]

CopyEntry(f) ==
    /\ pc["backup"] = "copy" /\ f \in left /\ Unmoved(f)
    /\ copy' = [copy EXCEPT ![f] = files[f].data]
    /\ left' = left \ {f}
    /\ ToPc("backup", IF left = {f} THEN "again" ELSE "copy")
    /\ UNCHANGED <<marker, holder, files, owned, tree, report, manifest, complete, verdict,
                   past, counts>>

(* Mutant of SameHash: sizes and times say enough. *)
Unchecked(f) == TRUE

(* The second pass reads everything again and compares the hashes. *)
SameHash(f) == files[f].data = copy[f]

RereadEntry(f) ==
    /\ pc["backup"] = "reread" /\ f \in left /\ Unmoved(f) /\ SameHash(f)
    /\ left' = left \ {f}
    /\ ToPc("backup", IF left = {f} THEN "manifest" ELSE "reread")
    /\ UNCHANGED <<marker, holder, files, owned, tree, report, artifact, verdict, past, counts>>

WriteManifest ==
    /\ pc["backup"] = "manifest" /\ ToPc("backup", "complete")
    /\ manifest' = [report |-> report, hashes |-> copy]
    /\ UNCHANGED <<marker, holder, files, owned, walk, copy, complete, verdict, past, counts>>

WriteComplete ==
    /\ pc["backup"] = "complete" /\ complete' = manifest /\ ToPc("backup", "verify")
    /\ UNCHANGED <<marker, holder, files, owned, walk, copy, manifest, verdict, past, counts>>

(* VerifyMaintenanceBackup: at the end of a backup, or at any later time. *)
VerifyMaintenanceBackup ==
    /\ pc["backup"] \in {"verify", "off"} /\ verdict = Absent
    /\ complete # Absent /\ complete = manifest /\ copy = manifest.hashes
    /\ verdict' = manifest
    /\ IF pc["backup"] = "verify" THEN Quit("backup") ELSE UNCHANGED <<pc, holder>>
    /\ UNCHANGED <<marker, files, owned, walk, artifact, past, counts>>

(* The artifact is damaged where it lies: a copied file, or the manifest. *)
Damage ==
    /\ pc["backup"] = "off" /\ copy # NoFiles
    /\ \/ \E f \in Files : copy' = [copy EXCEPT ![f] = Absent] /\ UNCHANGED manifest
       \/ manifest # Absent /\ manifest' = [manifest EXCEPT !.hashes = copy, !.report = Absent]
          /\ UNCHANGED copy
    /\ verdict' = Absent
    /\ UNCHANGED <<marker, holder, pc, files, owned, walk, complete, past, counts>>

BackupNext ==
    \/ AcquireRoleState \/ OpenDatabase \/ OpenNetwork \/ Activate
    \/ DisableFullRoleBackup \/ StartOld
    \/ \E a \in {"runtime", "old"}, f \in Files : WriteFile(a, f)
    \/ OwnRole \/ OwnDatabase("inspection") \/ OwnDatabase("backup") \/ Inspect
    \/ Walk("tree", "copy") \/ Walk("again", "reread")
    \/ \E f \in Files : CopyEntry(f) \/ RereadEntry(f)
    \/ WriteManifest \/ WriteComplete \/ VerifyMaintenanceBackup \/ Damage
    \/ \E a \in Actors : Dies(a)

BackupSpec == BackupInit /\ [][BackupNext]_backupVars

-----------------------------------------------------------------------------
(***************************************************************************)
(* A backup that a verification vouches for is what the whole role looked  *)
(* like at one moment, and its report describes the database it holds,     *)
(* although the files were read one after the other and a writer that      *)
(* ignores the role lock may have been at work (maintenance_backup.go:117).*)
(***************************************************************************)
BackupIsSnapshot ==
    verdict # Absent => /\ verdict.hashes \in past
                        /\ verdict.report = verdict.hashes["mesh.db"]

=============================================================================
