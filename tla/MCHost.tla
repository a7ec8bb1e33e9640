------------------------------- MODULE MCHost -------------------------------
(* One host, one question at a time: the commands and the daemon of an        *)
(* installation, the commands that only change the tailnet, processes that    *)
(* open the store at any time, two callers of an open store, or a             *)
(* backup.  What the question is not about stays as it is at the start.       *)
(* "confirmed" is "host" with every purge run to its end before anything else *)
(* moves: only a command that waits for its user overlaps another.            *)
EXTENDS ManagedHost, StoreOperations, RoleBackup, TLC

CONSTANTS c1, c2, s1, s2, i1, i2,
          Parts  \* the questions of the run

VARIABLE part

ASSUME PartsAssumption ==
    Parts \subseteq {"host", "confirmed", "tailnet", "openings", "callers", "backup"}

Init ==
    /\ part \in Parts
    /\ HostInit /\ PolicyInit /\ StoreInit /\ BackupInit
    /\ part # "tailnet" => acl = {}
    /\ part # "host" => coordinator
    /\ part \notin {"openings", "callers"} => db = Nil
    /\ part # "openings" =>
         /\ kind = "coordinator" /\ legacy = {} /\ idFile = 1
    /\ part = "callers" => db # Nil /\ db.version = 7
    /\ part # "backup" => marker = Absent

(* The bounds of each question, over those of the constants. *)
Commands ==
    CASE part = "host"      -> {"init", "start", "stop", "destroy"}
      [] part = "confirmed" -> {"init", "destroy"}
      [] part = "tailnet"   -> {"init", "setup", "cleanup"}

Purging(c) == c.op = "destroy" /\ c.pc \in Erasing \cup {"wipeRoot", "unlock"}
PurgeRuns == \A p \in Cli : Purging(cli[p]) => cli'[p] # cli[p]

Bounds ==
    CASE part = "host"      -> edits' = 0 /\ runs' <= 3
      [] part = "confirmed" -> edits' = 0 /\ crashes' = 0 /\ PurgeRuns
      [] part = "tailnet"   -> runs' <= 2 /\ launches' = 0
      [] part = "openings"  -> called' <= 1
      [] part = "callers"   -> started' <= 1 /\ proc'[2] = Off_
      [] part = "backup"    -> TRUE

Next ==
    \/ /\ part \in {"host", "confirmed", "tailnet"} /\ HostNext /\ Bounds
       /\ \A p \in Cli : cli'[p].op \in Commands \cup {None}
       /\ UNCHANGED <<part, storeVars, backupVars>>
    \/ /\ part \in {"openings", "callers"} /\ StoreNext /\ Bounds
       /\ UNCHANGED <<part, hostVars, raced, policyVars, backupVars>>
    \/ /\ part = "backup" /\ BackupNext /\ Bounds
       /\ UNCHANGED <<part, hostVars, raced, policyVars, storeVars>>

Spec == Init /\ [][Next]_<<part, hostVars, raced, policyVars, storeVars, backupVars>>

Interchangeable ==
    Permutations({c1, c2}) \cup Permutations({s1, s2}) \cup Permutations({i1, i2})
=============================================================================
