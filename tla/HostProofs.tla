------------------------------ MODULE HostProofs ------------------------------
(***************************************************************************)
(* The host's commands, its store and its backup, each on its own.         *)
(***************************************************************************)
EXTENDS ManagedHost, StoreOperations, RoleBackup, FiniteSetTheorems, TLAPS

-----------------------------------------------------------------------------
(***************************************************************************)
(* The backup (BackupInv).  A content is a version number, so it only      *)
(* rises: what the second pass finds as the first pass left it was there   *)
(* when the second pass began, whoever wrote in between.  The database's   *)
(* lock keeps the database still from the inspection on.                   *)
(***************************************************************************)
Contents == [Files -> Nat]

BackupPlaces == {"off", "database", "network", "activate", "disable", "run", "own",
           "inspection", "backup", "tree", "copy", "again", "reread", "manifest",
           "complete", "verify"}

BackupTypes ==
    /\ files \in [Files -> [data : Nat, time : Nat]]
    /\ past \subseteq Contents /\ Content \in past
    /\ pc \in [Actors -> BackupPlaces] /\ holder \in [Locks -> Actors \cup {Absent}]
    /\ copy \in [Files -> Nat \cup {Absent}] /\ left \subseteq Files

DatabaseLocked ==
    /\ pc["runtime"] \in {"network", "activate", "disable", "run"} => holder["database"] = "runtime"
    /\ pc["backup"] \in {"inspection", "backup", "tree", "copy", "again", "reread", "manifest", "complete", "verify"}
          => holder["database"] = "backup"

(* What the first pass has copied, and the content the second pass finds. *)
Copied(S) ==
    \A f \in S : copy[f] \in Nat /\ copy[f] <= files[f].data

Between(c) ==
    \A f \in Files : copy[f] \in Nat /\ copy[f] <= c[f] /\ c[f] <= files[f].data
                     /\ (f \notin left => c[f] = copy[f])

Snapshot(m) == m.hashes \in past /\ m.report = m.hashes["mesh.db"]

PassesOk ==
    /\ pc["backup"] \in {"tree", "copy", "again", "reread", "manifest"} => report = files["mesh.db"].data
    /\ pc["backup"] \in {"copy", "again", "reread", "manifest"} /\ "mesh.db" \notin left =>
          copy["mesh.db"] = report
    /\ pc["backup"] = "copy" => Copied(Files \ left)
    /\ pc["backup"] = "again" => Copied(Files) /\ left = {}
    /\ pc["backup"] = "reread" => (\E c \in past : Between(c)) /\ copy["mesh.db"] = report
    /\ pc["backup"] = "manifest" => copy \in past /\ left = {}

ArtifactOk ==
    /\ pc["backup"] = "complete" => Snapshot(manifest)
    /\ complete # Absent => Snapshot(complete)
    /\ BackupIsSnapshot

BackupInv == BackupTypes /\ DatabaseLocked /\ PassesOk /\ ArtifactOk

(* It holds at the start. *)
LEMMA BackupStarts == BackupInit => BackupInv
<1> SUFFICES ASSUME BackupInit PROVE BackupInv
    OBVIOUS
<1> USE BackupAssumption
<1>1. BackupTypes
  <2>1. Content = [f \in Files |-> 0] BY DEF BackupInit, Content
  <2>2. past \subseteq Contents /\ Content \in past
    <3>1. [f \in Files |-> 0] \in Contents BY DEF Contents
    <3>2. past = {[f \in Files |-> 0]} BY DEF BackupInit
    <3> QED BY <2>1, <3>1, <3>2
  <2>3. files \in [Files -> [data : Nat, time : Nat]]
    <3>1. [data |-> 0, time |-> 0] \in [data : Nat, time : Nat] OBVIOUS
    <3> QED BY <3>1 DEF BackupInit
  <2>4. pc \in [Actors -> BackupPlaces] /\ holder \in [Locks -> Actors \cup {Absent}]
      BY DEF BackupInit, BackupPlaces
  <2>5. copy \in [Files -> Nat \cup {Absent}] /\ left \subseteq Files BY DEF BackupInit, NoFiles
  <2> QED BY <2>2, <2>3, <2>4, <2>5 DEF BackupTypes
<1>2. DatabaseLocked /\ PassesOk
    BY DEF BackupInit, DatabaseLocked, PassesOk, Actors
<1>3. ArtifactOk
    BY DEF BackupInit, ArtifactOk, BackupIsSnapshot, Actors
<1> QED BY <1>1, <1>2, <1>3 DEF BackupInv

(* What a step that leaves the files and the backup's work alone keeps. *)
LEMMA WorkStays ==
    ASSUME BackupInv, UNCHANGED <<files, walk, artifact, past>>,
           pc' \in [Actors -> BackupPlaces], holder' \in [Locks -> Actors \cup {Absent}],
           pc["backup"]' = pc["backup"] \/ pc["backup"]' \in {"off", "own", "inspection", "backup"},
           verdict' = verdict \/ (verdict' = complete /\ complete # Absent),
           DatabaseLocked'
    PROVE  BackupInv'
<1> USE DEF walk, artifact
<1>1. BackupTypes'
    BY DEF BackupInv, BackupTypes, Content
<1>2. PassesOk'
  <2>1. /\ pc["backup"]' \in {"tree", "copy", "again", "reread", "manifest"} => pc["backup"]' = pc["backup"]
        /\ UNCHANGED <<files, tree, left, report, copy, past>>
      OBVIOUS
  <2> QED BY <2>1 DEF BackupInv, PassesOk, Copied, Between
<1>3. ArtifactOk'
    BY DEF BackupInv, ArtifactOk, BackupIsSnapshot, Snapshot
<1> QED BY <1>1, <1>2, <1>3 DEF BackupInv

(* The runtime and the older process, up to their writes, and every death. *)
LEMMA OpeningsKeep ==
    ASSUME BackupInv,
           \/ AcquireRoleState \/ OpenDatabase \/ OpenNetwork \/ Activate
           \/ DisableFullRoleBackup \/ StartOld \/ \E a \in Actors : Dies(a)
    PROVE  BackupInv'
<1> USE BackupAssumption DEF BackupInv, BackupTypes, Actors, Locks, BackupPlaces, Free, Take, ToPc, Quit, Begins, counts
<1>1. UNCHANGED <<files, walk, artifact, past>> /\ verdict' = verdict
    BY DEF AcquireRoleState, OpenDatabase, OpenNetwork, Activate, DisableFullRoleBackup, StartOld, Dies
<1>2. pc' \in [Actors -> BackupPlaces] /\ holder' \in [Locks -> Actors \cup {Absent}]
  <2>1. \/ UNCHANGED holder
        \/ \E a \in Actors, l \in Locks : holder' = [holder EXCEPT ![l] = a]
        \/ \E a \in Actors : holder' = [l \in Locks |-> IF holder[l] = a THEN Absent ELSE holder[l]]
      BY DEF AcquireRoleState, OpenDatabase, OpenNetwork, Activate, DisableFullRoleBackup, StartOld, Dies
  <2>2. \E a \in Actors, where \in BackupPlaces : pc' = [pc EXCEPT ![a] = where]
    <3>1. CASE AcquireRoleState BY <3>1 DEF AcquireRoleState
    <3>2. CASE OpenDatabase BY <3>2 DEF OpenDatabase
    <3>3. CASE OpenNetwork BY <3>3 DEF OpenNetwork
    <3>4. CASE Activate BY <3>4 DEF Activate
    <3>5. CASE DisableFullRoleBackup BY <3>5 DEF DisableFullRoleBackup
    <3>6. CASE StartOld BY <3>6 DEF StartOld
    <3>7. CASE \E a \in Actors : Dies(a) BY <3>7 DEF Dies
    <3> QED BY <3>1, <3>2, <3>3, <3>4, <3>5, <3>6, <3>7
  <2>3. pc' \in [Actors -> BackupPlaces] BY <2>2
  <2>4. holder' \in [Locks -> Actors \cup {Absent}] BY <2>1
  <2> QED BY <2>3, <2>4
<1>3. pc["backup"]' = pc["backup"] \/ pc["backup"]' = "off"
    BY DEF AcquireRoleState, OpenDatabase, OpenNetwork, Activate, DisableFullRoleBackup, StartOld, Dies
<1>4. DatabaseLocked'
  <2>1. CASE AcquireRoleState BY <2>1 DEF AcquireRoleState, DatabaseLocked
  <2>2. CASE OpenDatabase BY <2>2 DEF OpenDatabase, DatabaseLocked
  <2>3. CASE OpenNetwork BY <2>3 DEF OpenNetwork, DatabaseLocked
  <2>4. CASE Activate BY <2>4 DEF Activate, DatabaseLocked
  <2>5. CASE DisableFullRoleBackup BY <2>5 DEF DisableFullRoleBackup, DatabaseLocked
  <2>6. CASE StartOld BY <2>6 DEF StartOld, DatabaseLocked
  <2>7. CASE \E a \in Actors : Dies(a)
    <3> PICK a \in Actors : Dies(a) BY <2>7
    <3> QED BY DEF Dies, DatabaseLocked
  <2> QED BY <2>1, <2>2, <2>3, <2>4, <2>5, <2>6, <2>7
<1> HIDE DEF BackupInv
<1> QED BY <1>1, <1>2, <1>3, <1>4, WorkStays

(* A write: the data rises, and the database only under its lock. *)
LEMMA WriteKeeps ==
    ASSUME BackupInv, NEW a \in {"runtime", "old"}, NEW f \in Files, WriteFile(a, f)
    PROVE  BackupInv'
<1> USE BackupAssumption DEF BackupInv
<1>1. PICK tick \in {0, 1} :
        files' = [files EXCEPT ![f] = [data |-> @.data + 1, time |-> @.time + tick]]
    BY DEF WriteFile
<1>2. /\ UNCHANGED <<holder, pc, tree, left, report, copy, manifest, complete, verdict>>
      /\ past' = past \cup {Content'}
      /\ pc[a] = "run" /\ f \in Writes(a)
    BY DEF WriteFile, walk, artifact, Content
<1>3. /\ files[f].data \in Nat /\ files[f].time \in Nat
      /\ files' \in [Files -> [data : Nat, time : Nat]]
      /\ files'[f].data = files[f].data + 1
      /\ \A g \in Files : g # f => files'[g] = files[g]
  <2>1. files[f] \in [data : Nat, time : Nat] BY DEF BackupTypes
  <2>2. files[f].data + 1 \in Nat /\ files[f].time + tick \in Nat BY <2>1
  <2>3. PICK r : r = [data |-> files[f].data + 1, time |-> files[f].time + tick] OBVIOUS
  <2>4. r \in [data : Nat, time : Nat] /\ r.data = files[f].data + 1 BY <2>2, <2>3
  <2>5. files' = [files EXCEPT ![f] = r] BY <1>1, <2>3
  <2> QED BY <2>1, <2>4, <2>5 DEF BackupTypes
<1>4. \A g \in Files : /\ files[g].data \in Nat /\ files'[g].data \in Nat
                       /\ files[g].data <= files'[g].data
  <2> TAKE g \in Files
  <2>1. files[g].data \in Nat /\ files'[g].data \in Nat BY <1>3 DEF BackupTypes
  <2>2. CASE g = f BY <1>3, <2>1, <2>2
  <2>3. CASE g # f BY <1>3, <2>1, <2>3
  <2> QED BY <2>1, <2>2, <2>3
<1>5. BackupTypes'
  <2>1. Content' \in Contents BY <1>4 DEF Content, Contents
  <2> QED BY <1>2, <1>3, <2>1 DEF BackupTypes
<1>6. DatabaseLocked' BY <1>2 DEF DatabaseLocked
<1>7. pc["backup"] \in {"tree", "copy", "again", "reread", "manifest"} =>
        files'["mesh.db"].data = files["mesh.db"].data
  <2> SUFFICES ASSUME pc["backup"] \in {"tree", "copy", "again", "reread", "manifest"} PROVE f # "mesh.db"
      BY <1>3 DEF Files
  <2>1. a = "old" BY <1>2 DEF DatabaseLocked
  <2>2. Writes(a) = Network BY <2>1 DEF Writes
  <2> QED BY <1>2, <2>2
<1>8. PassesOk'
  <2>1. \A S \in SUBSET Files :
          Copied(S) => \A g \in S : copy'[g] \in Nat /\ copy'[g] <= files'[g].data
    <3> SUFFICES ASSUME NEW S \in SUBSET Files, Copied(S), NEW g \in S
                 PROVE  copy'[g] \in Nat /\ copy'[g] <= files'[g].data
        BY DEF Copied
    <3>1. copy[g] \in Nat /\ copy[g] <= files[g].data BY DEF Copied
    <3> QED BY <3>1, <1>4, <1>2
  <2>2. \A c \in past : Between(c) => Between(c)'
    <3> SUFFICES ASSUME NEW c \in past, Between(c), NEW g \in Files
                 PROVE  copy'[g] \in Nat /\ copy'[g] <= c[g] /\ c[g] <= files'[g].data
                        /\ (g \notin left' => c[g] = copy'[g])
        BY DEF Between
    <3>1. c[g] \in Nat BY DEF BackupTypes, Contents
    <3> QED BY <3>1, <1>4, <1>2 DEF Between
  <2>3. Files \ left \in SUBSET Files OBVIOUS
  <2>4. pc["backup"] = "copy" => Copied(Files \ left)' BY <2>1, <2>3, <1>2 DEF PassesOk, Copied
  <2>5. pc["backup"] = "again" => Copied(Files)' BY <2>1 DEF PassesOk, Copied
  <2>6. pc["backup"] = "reread" => \E c \in past' : Between(c)' BY <2>2, <1>2 DEF PassesOk
  <2> QED BY <1>2, <1>7, <2>4, <2>5, <2>6 DEF PassesOk, Copied
<1>9. ArtifactOk' BY <1>2 DEF ArtifactOk, Snapshot, BackupIsSnapshot
<1> QED BY <1>5, <1>6, <1>8, <1>9

(* The backup takes its locks, inspects and walks. *)
LEMMA OwningKeeps ==
    ASSUME BackupInv, OwnRole \/ OwnDatabase("inspection") \/ OwnDatabase("backup")
    PROVE  BackupInv'
<1> USE BackupAssumption DEF Actors, Locks, BackupPlaces, Free, Take, ToPc, Begins, counts
<1>1. /\ pc \in [Actors -> BackupPlaces] /\ holder \in [Locks -> Actors \cup {Absent}]
      /\ DatabaseLocked
    BY DEF BackupInv, BackupTypes
<1>2. CASE OwnRole
  <2>1. UNCHANGED <<files, tree, left, report, past>> /\ pc' = [pc EXCEPT !["backup"] = "own"]
      BY <1>2 DEF OwnRole, walk
  <2>2. /\ copy' = NoFiles /\ complete' = Absent /\ verdict' = Absent
        /\ holder' = holder \/ holder' = [holder EXCEPT !["role"] = "backup"]
      BY <1>2 DEF OwnRole
  <2>3. BackupTypes'
    <3>1. copy' \in [Files -> Nat \cup {Absent}] BY <2>2 DEF NoFiles
    <3> QED BY <2>1, <2>2, <3>1, <1>1 DEF BackupInv, BackupTypes, Content
  <2>4. DatabaseLocked' BY <1>1, <2>1, <2>2 DEF DatabaseLocked
  <2>5. PassesOk' /\ ArtifactOk'
      BY <1>1, <2>1, <2>2 DEF PassesOk, ArtifactOk, BackupIsSnapshot
  <2> QED BY <2>3, <2>4, <2>5 DEF BackupInv
<1>3. ASSUME NEW for \in {"inspection", "backup"}, OwnDatabase(for) PROVE BackupInv'
  <2>1. /\ UNCHANGED <<files, walk, artifact, past>> /\ verdict' = verdict
        /\ pc' = [pc EXCEPT !["backup"] = for]
        /\ holder["database"] = Absent /\ holder' = [holder EXCEPT !["database"] = "backup"]
      BY <1>3 DEF OwnDatabase
  <2>2. pc' \in [Actors -> BackupPlaces] /\ holder' \in [Locks -> Actors \cup {Absent}]
        /\ pc["backup"]' = for
      BY <1>1, <2>1
  <2>3. DatabaseLocked' BY <1>1, <2>1 DEF DatabaseLocked
  <2> QED BY <2>1, <2>2, <2>3, WorkStays
<1> QED BY <1>2, <1>3

(* The inspection: its report is the database the lock keeps still. *)
LEMMA InspectKeeps == ASSUME BackupInv, Inspect PROVE BackupInv'
<1> USE BackupAssumption
<1>1. /\ pc \in [Actors -> BackupPlaces] /\ holder \in [Locks -> Actors \cup {Absent}]
      /\ DatabaseLocked
    BY DEF BackupInv, BackupTypes
<1>2. /\ UNCHANGED <<files, tree, left, copy, manifest, complete, verdict, past>>
      /\ report' = files["mesh.db"].data
      /\ \/ /\ pc["backup"] = "inspection" /\ pc' = [pc EXCEPT !["backup"] = "off"]
            /\ holder' = [l \in Locks |-> IF holder[l] = "backup" THEN Absent ELSE holder[l]]
         \/ pc["backup"] = "backup" /\ pc' = [pc EXCEPT !["backup"] = "tree"] /\ holder' = holder
    BY DEF Inspect, Quit, ToPc, artifact
<1>3. BackupTypes'
  <2>1. pc' \in [Actors -> BackupPlaces] BY <1>1, <1>2 DEF Actors, BackupPlaces
  <2>2. holder' \in [Locks -> Actors \cup {Absent}] BY <1>1, <1>2
  <2> QED BY <1>2, <2>1, <2>2 DEF BackupInv, BackupTypes, Content
<1>4. DatabaseLocked' BY <1>1, <1>2 DEF DatabaseLocked, Actors, Locks
<1>5. PassesOk' BY <1>1, <1>2 DEF PassesOk, Actors
<1>6. ArtifactOk' BY <1>1, <1>2 DEF BackupInv, ArtifactOk, BackupIsSnapshot, Snapshot, Actors
<1> QED BY <1>3, <1>4, <1>5, <1>6 DEF BackupInv

(* A step of the passes that leaves the files and the locks alone. *)
LEMMA PassKeeps ==
    ASSUME BackupInv, UNCHANGED <<holder, files, report, complete, verdict, past>>,
           pc["backup"] \in {"tree", "copy", "again", "reread", "manifest", "complete"},
           NEW next \in {"copy", "again", "reread", "manifest", "complete", "verify"},
           pc' = [pc EXCEPT !["backup"] = next],
           left' \subseteq Files, copy' \in [Files -> Nat \cup {Absent}],
           PassesOk', next = "complete" => Snapshot(manifest'), complete' = complete
    PROVE  BackupInv'
<1>1. pc \in [Actors -> BackupPlaces] /\ DatabaseLocked
    BY DEF BackupInv, BackupTypes
<1>2. pc' \in [Actors -> BackupPlaces] BY <1>1 DEF Actors, BackupPlaces
<1>3. BackupTypes' BY <1>2 DEF BackupInv, BackupTypes, Content
<1>4. DatabaseLocked' BY <1>1 DEF DatabaseLocked, Actors
<1>5. ArtifactOk'
    BY <1>1 DEF BackupInv, ArtifactOk, BackupIsSnapshot, Snapshot, Actors
<1> QED BY <1>3, <1>4, <1>5 DEF BackupInv

(* A walk begins a pass: what the second one starts from is a content. *)
LEMMA WalkKeeps ==
    ASSUME BackupInv, Walk("tree", "copy") \/ Walk("again", "reread")
    PROVE  BackupInv'
<1>1. PICK next \in {"copy", "reread"} :
        /\ pc["backup"] = IF next = "copy" THEN "tree" ELSE "again"
        /\ pc' = [pc EXCEPT !["backup"] = next] /\ left' = Files
        /\ UNCHANGED <<holder, files, report, copy, manifest, complete, verdict, past>>
    BY DEF Walk, ToPc, artifact
<1>2. /\ pc \in [Actors -> BackupPlaces] /\ copy \in [Files -> Nat \cup {Absent}]
      /\ Content \in past /\ files \in [Files -> [data : Nat, time : Nat]]
    BY DEF BackupInv, BackupTypes
<1>3. pc["backup"]' = next BY <1>1, <1>2 DEF Actors
<1>4. "mesh.db" \in Files BY DEF Files
<1>5. CASE next = "copy"
  <2>1. PassesOk' BY <1>1, <1>3, <1>4, <1>5 DEF BackupInv, PassesOk, Copied
  <2> QED BY <1>1, <1>2, <1>5, <2>1, PassKeeps
<1>6. CASE next = "reread"
  <2>1. Copied(Files) /\ left = {} BY <1>1, <1>6 DEF BackupInv, PassesOk
  <2>2. copy["mesh.db"] = report /\ report = files["mesh.db"].data
      BY <1>1, <1>6, <2>1 DEF BackupInv, PassesOk
  <2>3. \A g \in Files : /\ copy'[g] \in Nat /\ copy'[g] <= Content[g]
                         /\ Content[g] <= files'[g].data /\ g \in left'
    <3> TAKE g \in Files
    <3>1. copy[g] \in Nat /\ copy[g] <= files[g].data BY <2>1 DEF Copied
    <3>2. files[g].data \in Nat BY <1>2
    <3> QED BY <3>1, <3>2, <1>1 DEF Content
  <2>4. PICK c : c = Content OBVIOUS
  <2>5. Between(c)' BY <2>3, <2>4 DEF Between
  <2>6. \E e \in past' : Between(e)' BY <2>4, <2>5, <1>1, <1>2
  <2>7. PassesOk' BY <1>1, <1>3, <1>6, <2>2, <2>6 DEF PassesOk
  <2> QED BY <1>1, <1>2, <1>6, <2>7, PassKeeps
<1> QED BY <1>5, <1>6

(* The first pass copies what is there now. *)
LEMMA CopyKeeps == ASSUME BackupInv, NEW f \in Files, CopyEntry(f) PROVE BackupInv'
<1>1. PICK next \in {"copy", "again"} :
        /\ next = IF left = {f} THEN "again" ELSE "copy"
        /\ pc["backup"] = "copy" /\ pc' = [pc EXCEPT !["backup"] = next]
        /\ f \in left /\ left' = left \ {f}
        /\ copy' = [copy EXCEPT ![f] = files[f].data]
        /\ UNCHANGED <<holder, files, report, manifest, complete, verdict, past>>
    BY DEF CopyEntry, ToPc
<1>2. /\ pc \in [Actors -> BackupPlaces] /\ copy \in [Files -> Nat \cup {Absent}]
      /\ left \subseteq Files /\ files \in [Files -> [data : Nat, time : Nat]]
    BY DEF BackupInv, BackupTypes
<1>3. /\ pc["backup"]' = next /\ files[f].data \in Nat
      /\ copy' \in [Files -> Nat \cup {Absent}] /\ copy'[f] = files[f].data
      /\ \A g \in Files : g # f => copy'[g] = copy[g]
  <2>1. files[f].data \in Nat BY <1>2
  <2>2. pc["backup"]' = next BY <1>1, <1>2 DEF Actors
  <2> QED BY <1>1, <1>2, <2>1, <2>2
<1>4. Copied(Files \ left) BY <1>1 DEF BackupInv, PassesOk
<1>5. Copied(Files \ left)'
  <2> SUFFICES ASSUME NEW g \in Files \ left' PROVE copy'[g] \in Nat /\ copy'[g] <= files'[g].data
      BY <1>1 DEF Copied
  <2>1. CASE g = f BY <1>1, <1>3, <2>1
  <2>2. CASE g # f BY <1>1, <1>3, <1>4, <2>2 DEF Copied
  <2> QED BY <2>1, <2>2
<1>6. "mesh.db" \notin left' => copy'["mesh.db"] = report
  <2>1. "mesh.db" \in Files BY DEF Files
  <2>2. CASE f = "mesh.db" BY <1>1, <1>3, <2>2 DEF BackupInv, PassesOk
  <2>3. CASE f # "mesh.db" BY <1>1, <1>3, <2>1, <2>3 DEF BackupInv, PassesOk
  <2> QED BY <2>2, <2>3
<1>7. PassesOk'
  <2>1. report' = files'["mesh.db"].data BY <1>1 DEF BackupInv, PassesOk
  <2>2. next = "copy" => Copied(Files \ left)'
      BY <1>1, <1>5 DEF Copied
  <2>3. next = "again" => left' = {} /\ Copied(Files)'
    <3> SUFFICES ASSUME next = "again" PROVE left' = {} /\ Copied(Files)'
        OBVIOUS
    <3>1. left' = {} BY <1>1
    <3> QED BY <3>1, <1>5 DEF Copied
  <2> QED BY <1>1, <1>3, <1>6, <2>1, <2>2, <2>3 DEF PassesOk
<1> QED BY <1>1, <1>2, <1>3, <1>7, PassKeeps

(* The second pass: with nothing left, the copy is what it started from. *)
LEMMA RereadKeeps == ASSUME BackupInv, NEW f \in Files, RereadEntry(f) PROVE BackupInv'
<1>1. PICK next \in {"reread", "manifest"} :
        /\ next = IF left = {f} THEN "manifest" ELSE "reread"
        /\ pc["backup"] = "reread" /\ pc' = [pc EXCEPT !["backup"] = next]
        /\ f \in left /\ left' = left \ {f} /\ files[f].data = copy[f]
        /\ UNCHANGED <<holder, files, report, copy, manifest, complete, verdict, past>>
    BY DEF RereadEntry, ToPc, SameHash, artifact
<1>2. /\ pc \in [Actors -> BackupPlaces] /\ copy \in [Files -> Nat \cup {Absent}]
      /\ left \subseteq Files /\ files \in [Files -> [data : Nat, time : Nat]]
      /\ past \subseteq Contents /\ "mesh.db" \in Files
    BY DEF BackupInv, BackupTypes, Files
<1>3. pc["backup"]' = next BY <1>1, <1>2 DEF Actors
<1>4. PICK c \in past : Between(c) BY <1>1 DEF BackupInv, PassesOk
<1>5. Between(c)'
  <2> SUFFICES ASSUME NEW g \in Files
               PROVE  copy'[g] \in Nat /\ copy'[g] <= c[g] /\ c[g] <= files'[g].data
                      /\ (g \notin left' => c[g] = copy'[g])
      BY DEF Between
  <2>1. /\ copy[g] \in Nat /\ copy[g] <= c[g] /\ c[g] <= files[g].data
        /\ (g \notin left => c[g] = copy[g])
      BY <1>4 DEF Between
  <2>2. c[g] \in Nat BY <1>2 DEF Contents
  <2>3. CASE g = f BY <1>1, <2>1, <2>2, <2>3
  <2>4. CASE g # f BY <1>1, <2>1, <2>4
  <2> QED BY <2>3, <2>4
<1>6. copy["mesh.db"] = report /\ report = files["mesh.db"].data
    BY <1>1 DEF BackupInv, PassesOk
<1>7. PassesOk'
  <2>1. next = "reread" => \E e \in past' : Between(e)' BY <1>1, <1>5
  <2>2. next = "manifest" => copy' \in past' /\ left' = {}
    <3> SUFFICES ASSUME next = "manifest" PROVE copy' \in past' /\ left' = {}
        OBVIOUS
    <3>1. left' = {} BY <1>1
    <3>2. \A g \in Files : copy'[g] = c[g] BY <3>1, <1>5 DEF Between
    <3>3. c \in [Files -> Nat] BY <1>2 DEF Contents
    <3>4. copy' = c BY <3>2, <3>3, <1>1, <1>2
    <3> QED BY <3>1, <3>4, <1>1
  <2> QED BY <1>1, <1>3, <1>6, <2>1, <2>2 DEF PassesOk
<1> QED BY <1>1, <1>2, <1>3, <1>7, PassKeeps

(* The manifest, COMPLETE, and what vouches for them or damages them. *)
LEMMA ManifestKeeps == ASSUME BackupInv, WriteManifest PROVE BackupInv'
<1>1. /\ pc["backup"] = "manifest" /\ pc' = [pc EXCEPT !["backup"] = "complete"]
      /\ manifest' = [report |-> report, hashes |-> copy]
      /\ UNCHANGED <<holder, files, tree, left, report, copy, complete, verdict, past>>
    BY DEF WriteManifest, ToPc, walk
<1>2. /\ pc \in [Actors -> BackupPlaces] /\ copy \in [Files -> Nat \cup {Absent}]
      /\ left \subseteq Files
    BY DEF BackupInv, BackupTypes
<1>3. pc["backup"]' = "complete" BY <1>1, <1>2 DEF Actors
<1>4. copy \in past /\ copy["mesh.db"] = report
    BY <1>1 DEF BackupInv, PassesOk
<1>5. Snapshot(manifest') BY <1>1, <1>4 DEF Snapshot
<1>7. PassesOk' BY <1>3 DEF PassesOk
<1> QED BY <1>1, <1>2, <1>5, <1>7, PassKeeps

LEMMA WriteCompleteKeeps == ASSUME BackupInv, WriteComplete PROVE BackupInv'
<1>1. /\ pc["backup"] = "complete" /\ pc' = [pc EXCEPT !["backup"] = "verify"]
      /\ complete' = manifest
      /\ UNCHANGED <<holder, files, tree, left, report, copy, manifest, verdict, past>>
    BY DEF WriteComplete, ToPc, walk
<1>2. /\ pc \in [Actors -> BackupPlaces] /\ DatabaseLocked BY DEF BackupInv, BackupTypes
<1>3. pc' \in [Actors -> BackupPlaces] /\ pc["backup"]' = "verify" BY <1>1, <1>2 DEF Actors, BackupPlaces
<1>4. BackupTypes' BY <1>1, <1>3 DEF BackupInv, BackupTypes, Content
<1>5. DatabaseLocked' BY <1>1, <1>2 DEF DatabaseLocked, Actors
<1>6. PassesOk' BY <1>3 DEF PassesOk
<1>7. ArtifactOk' BY <1>1, <1>3 DEF BackupInv, ArtifactOk, BackupIsSnapshot, Snapshot
<1> QED BY <1>4, <1>5, <1>6, <1>7 DEF BackupInv

LEMMA VerifyKeeps == ASSUME BackupInv, VerifyMaintenanceBackup PROVE BackupInv'
<1> USE BackupAssumption
<1>1. /\ UNCHANGED <<files, walk, artifact, past>>
      /\ complete # Absent /\ verdict' = complete
      /\ \/ /\ pc["backup"] = "verify" /\ pc' = [pc EXCEPT !["backup"] = "off"]
            /\ holder' = [l \in Locks |-> IF holder[l] = "backup" THEN Absent ELSE holder[l]]
         \/ pc' = pc /\ holder' = holder
    BY DEF VerifyMaintenanceBackup, Quit, ToPc
<1>2. /\ pc \in [Actors -> BackupPlaces] /\ holder \in [Locks -> Actors \cup {Absent}]
      /\ DatabaseLocked
    BY DEF BackupInv, BackupTypes
<1>3. pc' \in [Actors -> BackupPlaces] BY <1>1, <1>2 DEF Actors, BackupPlaces
<1>4. holder' \in [Locks -> Actors \cup {Absent}] BY <1>1, <1>2
<1>5. DatabaseLocked' BY <1>1, <1>2 DEF DatabaseLocked, Actors, Locks
<1>6. pc["backup"]' = pc["backup"] \/ pc["backup"]' = "off" BY <1>1, <1>2 DEF Actors
<1> QED BY <1>1, <1>3, <1>4, <1>5, <1>6, WorkStays

LEMMA DamageKeeps == ASSUME BackupInv, Damage PROVE BackupInv'
<1>1. /\ pc["backup"] = "off" /\ verdict' = Absent
      /\ \/ copy' = copy
         \/ \E f \in Files : copy' = [copy EXCEPT ![f] = Absent]
      /\ UNCHANGED <<holder, pc, files, tree, left, report, complete, past>>
    BY DEF Damage, walk
<1>2. copy' \in [Files -> Nat \cup {Absent}]
    BY <1>1 DEF BackupInv, BackupTypes
<1>3. BackupTypes' BY <1>1, <1>2 DEF BackupInv, BackupTypes, Content
<1>4. DatabaseLocked' BY <1>1 DEF BackupInv, DatabaseLocked
<1>5. PassesOk' /\ ArtifactOk'
    BY <1>1 DEF BackupInv, PassesOk, ArtifactOk, BackupIsSnapshot, Snapshot
<1> QED BY <1>3, <1>4, <1>5 DEF BackupInv

(* BackupInv is an invariant of the backup's specification. *)
LEMMA BackupInvariant == BackupSpec => []BackupInv
<1>1. BackupInv /\ [BackupNext]_backupVars => BackupInv'
  <2> SUFFICES ASSUME BackupInv, [BackupNext]_backupVars PROVE BackupInv'
      OBVIOUS
  <2>1. CASE \/ AcquireRoleState \/ OpenDatabase \/ OpenNetwork \/ Activate
             \/ DisableFullRoleBackup \/ StartOld \/ \E a \in Actors : Dies(a)
      BY <2>1, OpeningsKeep
  <2>2. CASE \E a \in {"runtime", "old"}, f \in Files : WriteFile(a, f)
      BY <2>2, WriteKeeps
  <2>3. CASE OwnRole \/ OwnDatabase("inspection") \/ OwnDatabase("backup")
      BY <2>3, OwningKeeps
  <2>4. CASE Inspect BY <2>4, InspectKeeps
  <2>5. CASE Walk("tree", "copy") \/ Walk("again", "reread") BY <2>5, WalkKeeps
  <2>6. CASE \E f \in Files : CopyEntry(f) \/ RereadEntry(f)
      BY <2>6, CopyKeeps, RereadKeeps
  <2>7. CASE WriteManifest BY <2>7, ManifestKeeps
  <2>8. CASE WriteComplete BY <2>8, WriteCompleteKeeps
  <2>9. CASE VerifyMaintenanceBackup BY <2>9, VerifyKeeps
  <2>10. CASE Damage BY <2>10, DamageKeeps
  <2>11. CASE UNCHANGED backupVars
    <3>1. /\ UNCHANGED <<files, walk, artifact, past>> /\ UNCHANGED <<pc, holder, verdict>>
        BY <2>11 DEF backupVars, walk, artifact
    <3>2. pc' \in [Actors -> BackupPlaces] /\ holder' \in [Locks -> Actors \cup {Absent}] /\ DatabaseLocked'
        BY <3>1 DEF BackupInv, BackupTypes, DatabaseLocked
    <3> QED BY <3>1, <3>2, WorkStays
  <2> QED BY <2>1, <2>2, <2>3, <2>4, <2>5, <2>6, <2>7, <2>8, <2>9, <2>10, <2>11 DEF BackupNext
<1> QED BY <1>1, BackupStarts, PTL DEF BackupSpec

(***************************************************************************)
(* A backup that a verification vouches for is what the whole role looked  *)
(* like at one moment, with the report of its own database                 *)
(* (maintenance_backup.go:117), for any files, writers and crashes.        *)
(***************************************************************************)
THEOREM BackupIsSnapshotAlways == BackupSpec => []BackupIsSnapshot
<1>1. BackupInv => BackupIsSnapshot BY DEF BackupInv, ArtifactOk
<1> QED BY <1>1, BackupInvariant, PTL

-----------------------------------------------------------------------------
(***************************************************************************)
(* The store (StoreInv).  A process that owns the lock is the only one to  *)
(* touch the database, and a caller that holds the gate the only one in    *)
(* it; so what a body computed is still right when it commits.             *)
(***************************************************************************)
Opening == {"create", "schema", "import", "load", "serve"}
ProcRec == [pc : {"off", "link", "lock", "closed"} \cup Opening, id : Nat, created : BOOLEAN]
InTx == {"begin", "body", "check", "commit", "rollback"}
CallRec ==
    [pc : {"idle", "enter", "returned"} \cup InTx, op : StoreOps \cup {Nil},
     proc : Proc \cup {0}, attempt : Nat, expired : BOOLEAN, tx : Databases \cup {Nil},
     attempted : BOOLEAN, err : {"none", "refused", "canceled", "failed"},
     result : {"none", "ok", "canceled", "failed"}, commits : Nat]

StoreTypes ==
    /\ kind \in {"coordinator", "node"} /\ idFile \in Nat /\ started \in Nat
    /\ db \in Databases \cup {Nil} /\ legacy \subseteq Stable \X Instance
    /\ owner \in Proc \cup {0} /\ gate \in Callers \cup {Nil}
    /\ proc \in [Proc -> ProcRec] /\ call \in [Callers -> CallRec]

(* A database whose bindings and nodes are what LoadFleet accepts. *)
FleetOk(d) ==
    /\ OneToOne(d.bindings)
    /\ IsFiniteSet(d.nodes) /\ Cardinality(d.nodes) <= MaxNodes /\ d.nodes \subseteq d.bindings

SchemaOk(d) ==
    IF d.version = 0 THEN d = Blank
    ELSE d.version <= MaxVersion[kind] /\ d.tables = Required(kind, d.version) /\ d.server = idFile

DatabaseOk ==
    /\ db = Nil => bound = {}
    /\ db # Nil => FleetOk(db) /\ SchemaOk(db) /\ bound = db.bindings /\ idFile # 0

(* What a transaction may turn d into. *)
Evolves(d, e) ==
    /\ e \in Databases /\ FleetOk(e) /\ d.bindings \subseteq e.bindings
    /\ e.version = d.version /\ e.tables = d.tables /\ e.server = d.server

ProcOk(p) ==
    /\ proc[p].pc \in Opening => owner = p
    /\ proc[p].pc \notin {"off", "link"} => proc[p].id = idFile /\ idFile # 0
    /\ proc[p].pc \in {"schema"} \cup PastSchema => db # Nil
    /\ proc[p].pc \in PastSchema => db.version = MaxVersion[kind]

GateOk == gate # Nil => /\ call[gate].pc \in InTx
                        /\ call[gate].proc \in Proc /\ proc[call[gate].proc].pc = "serve"

CallOk(c) ==
    /\ call[c].pc = "idle" => call[c].commits = 0 /\ call[c].result = "none"
    /\ call[c].pc \in InTx => gate = c
    /\ call[c].pc \notin {"idle"} => call[c].op \in StoreOps /\ call[c].proc \in Proc
    /\ call[c].pc \in {"enter", "begin", "body", "check", "commit"} =>
          call[c].commits = 0 /\ ~call[c].attempted /\ call[c].result = "none"
    /\ call[c].pc \in {"check", "commit"} => call[c].tx \in Databases /\ Evolves(db, call[c].tx)
    /\ call[c].pc = "rollback" =>
          /\ call[c].result = "none" /\ call[c].commits <= 1
          /\ call[c].err = "none" => call[c].commits = 1
          /\ ~call[c].attempted => call[c].commits = 0
    /\ call[c].commits <= 1
    /\ call[c].result = "ok" => call[c].commits = 1
    /\ call[c].result = "canceled" => call[c].commits = 0

StoreInv ==
    /\ StoreTypes /\ DatabaseOk /\ GateOk
    /\ (\A p \in Proc : ProcOk(p)) /\ \A c \in Callers : CallOk(c)

(* The migration of a database of any version that inspectSchema accepts. *)
LEMMA SchemaMigrates ==
    ASSUME NEW k \in {"coordinator", "node"}, NEW d \in Databases, NEW id \in Nat,
           \/ d.version = 0 /\ d.tables = {}
           \/ /\ d.version # 0 /\ d.version <= MaxVersion[k]
              /\ d.tables = Required(k, d.version) /\ d.server = id
    PROVE  LET e == initializeSchema(k, d, id)
           IN  /\ e \in Databases /\ e.version = MaxVersion[k] /\ e.server = id
               /\ e.tables = Required(k, e.version)
               /\ e.bindings = d.bindings /\ e.nodes = d.nodes
<1> DEFINE Due == {s \in Migrations(k) : d.version < s.version}
           Dropped == {t \in UNION {s.drops : s \in Due} :
                      \E s \in Due : t \in s.drops /\ \A u \in Due : t \in u.adds => u.version < s.version}
           Made == (d.tables \cup UNION {s.adds : s \in Due}) \ Dropped
<1>1. initializeSchema(k, d, id) =
        [d EXCEPT !.version = MaxVersion[k], !.tables = Made,
                  !.server = IF d.version = 0 THEN id ELSE d.server]
    BY DEF initializeSchema
<1>2. d.version \in Nat BY DEF Databases
<1>3. Made = Required(k, MaxVersion[k])
  <2>1. CASE k = "coordinator"
    <3>1. /\ \A s \in Migrations(k) :
               /\ s.version \in 1..7
               /\ \A t : t \in s.adds <=>
                    \/ s.version = 1 /\ t \in {"metadata", "bindings", "latest_nodes"}
                    \/ s.version = 2 /\ t = "commands"
                    \/ s.version = 6 /\ t = "projects"
                    \/ s.version = 7 /\ t = "lifecycle_commands"
               /\ \A t : t \in s.drops <=> s.version = 7 /\ t = "commands"
          /\ \A n \in {1, 2, 6, 7} : \E s \in Migrations(k) : s.version = n
      <4>1. Migrations(k) = { Step(1, {"metadata", "bindings", "latest_nodes"}, {}), Step(2, {"commands"}, {}),
                   Step(3, {}, {}), Step(4, {}, {}), Step(5, {}, {}), Step(6, {"projects"}, {}),
                   Step(7, {"lifecycle_commands"}, {"commands"}) }
          BY <2>1 DEF Migrations
      <4>2. \A n, a, x : Step(n, a, x).version = n /\ Step(n, a, x).adds = a /\ Step(n, a, x).drops = x
          BY DEF Step
      <4> QED BY <4>1, <4>2
    <3>2. \A t : t \in UNION {s.adds : s \in Due} <=>
             \/ d.version < 1 /\ t \in {"metadata", "bindings", "latest_nodes"}
             \/ d.version < 2 /\ t = "commands"
             \/ d.version < 6 /\ t = "projects"
             \/ d.version < 7 /\ t = "lifecycle_commands"
        BY <1>2, <3>1
    <3>3. \A t : t \in Dropped <=> d.version < 7 /\ t = "commands"
        BY <1>2, <3>1
    <3>4. MaxVersion[k] = 7 BY <2>1 DEF MaxVersion
    <3> HIDE DEF Dropped, Due
    <3>5. CASE d.version = 0 BY <2>1, <3>2, <3>3, <3>4, <3>5 DEF Required
    <3>6. CASE d.version # 0 BY <1>2, <2>1, <3>2, <3>3, <3>4, <3>6 DEF Required
    <3> QED BY <3>5, <3>6
  <2>2. CASE k = "node"
    <3>1. /\ \A s \in Migrations(k) :
               /\ s.version \in 1..6
               /\ \A t : t \in s.adds <=>
                    \/ s.version = 1 /\ t \in {"node_metadata", "node_commands"}
                    \/ s.version = 5 /\ t = "node_projects"
                    \/ /\ s.version = 6
                       /\ t \in {"lifecycle_node_commands", "node_lifecycle", "node_command_scopes"}
               /\ \A t : t \in s.drops <=> s.version = 6 /\ t = "node_commands"
          /\ \A n \in {1, 5, 6} : \E s \in Migrations(k) : s.version = n
      <4>1. Migrations(k) = { Step(1, {"node_metadata", "node_commands"}, {}), Step(2, {}, {}), Step(3, {}, {}),
                   Step(4, {}, {}), Step(5, {"node_projects"}, {}),
                   Step(6, {"lifecycle_node_commands", "node_lifecycle", "node_command_scopes"},
                           {"node_commands"}) }
          BY <2>2 DEF Migrations
      <4>2. \A n, a, x : Step(n, a, x).version = n /\ Step(n, a, x).adds = a /\ Step(n, a, x).drops = x
          BY DEF Step
      <4> QED BY <4>1, <4>2
    <3>2. \A t : t \in UNION {s.adds : s \in Due} <=>
             \/ d.version < 1 /\ t \in {"node_metadata", "node_commands"}
             \/ d.version < 5 /\ t = "node_projects"
             \/ /\ d.version < 6
                /\ t \in {"lifecycle_node_commands", "node_lifecycle", "node_command_scopes"}
        BY <1>2, <3>1
    <3>3. \A t : t \in Dropped <=> d.version < 6 /\ t = "node_commands"
        BY <1>2, <3>1
    <3>4. MaxVersion[k] = 6 BY <2>2 DEF MaxVersion
    <3> HIDE DEF Dropped, Due
    <3>5. CASE d.version = 0 BY <2>2, <3>2, <3>3, <3>4, <3>5 DEF Required
    <3>6. CASE d.version # 0 BY <1>2, <2>2, <3>2, <3>3, <3>4, <3>6 DEF Required
    <3> QED BY <3>5, <3>6
  <2> QED BY <2>1, <2>2
<1>4. Required(k, MaxVersion[k]) \subseteq Tables BY DEF Required, MaxVersion, Tables
<1>5. MaxVersion[k] \in Nat BY DEF MaxVersion
<1> HIDE DEF Made
<1>6. PICK e : e = initializeSchema(k, d, id) OBVIOUS
<1>7. /\ e \in Databases /\ e.version = MaxVersion[k] /\ e.tables = Made /\ e.server = id
      /\ e.bindings = d.bindings /\ e.nodes = d.nodes
    BY <1>1, <1>3, <1>4, <1>5, <1>6 DEF Databases
<1> QED BY <1>3, <1>6, <1>7

LEMMA ImportEvolves ==
    ASSUME NEW d \in Databases, FleetOk(d), NEW new \in SUBSET (Stable \X Instance),
           ImportInto(d, new) # Nil
    PROVE  Evolves(d, ImportInto(d, new))
<1>1. OneToOne(d.bindings \cup new) /\ ImportInto(d, new) = [d EXCEPT !.bindings = d.bindings \cup new]
    BY DEF ImportInto
<1>2. PICK e : e = ImportInto(d, new) OBVIOUS
<1>3. /\ e \in Databases /\ e.version = d.version /\ e.tables = d.tables /\ e.server = d.server
      /\ e.bindings = d.bindings \cup new /\ e.nodes = d.nodes
    BY <1>1, <1>2 DEF Databases
<1>4. FleetOk(e) BY <1>1, <1>3 DEF FleetOk
<1>5. Evolves(d, e) BY <1>3, <1>4 DEF Evolves
<1> QED BY <1>2, <1>5

LEMMA SaveEvolves ==
    ASSUME NEW d \in Databases, FleetOk(d), NEW s \in Stable, NEW i \in Instance,
           SaveInto(d, s, i) # Nil
    PROVE  Evolves(d, SaveInto(d, s, i))
<1> USE StoreAssumption
<1>1. /\ <<s, i>> \in d.bindings /\ ~(Cardinality(d.nodes) > MaxNodes)
      /\ ~(Cardinality(d.nodes) = MaxNodes /\ i \notin {n[2] : n \in d.nodes})
      /\ SaveInto(d, s, i) = [d EXCEPT !.nodes = {n \in d.nodes : n[2] # i} \cup {<<s, i>>}]
    BY DEF SaveInto
<1>2. PICK kept : kept = {n \in d.nodes : n[2] # i} OBVIOUS
<1>3. PICK nodes : nodes = kept \cup {<<s, i>>} OBVIOUS
<1>4. IsFiniteSet(d.nodes) /\ Cardinality(d.nodes) \in Nat /\ kept \subseteq d.nodes
    BY <1>2, FS_CardinalityType DEF FleetOk
<1>5. IsFiniteSet(kept) /\ Cardinality(kept) \in Nat /\ Cardinality(kept) <= Cardinality(d.nodes)
    BY <1>4, FS_Subset, FS_CardinalityType
<1>6. IsFiniteSet(nodes) /\ Cardinality(nodes) <= Cardinality(kept) + 1
  <2>1. PICK x : x = <<s, i>> OBVIOUS
  <2>2. IsFiniteSet(nodes) /\ Cardinality(nodes) = IF x \in kept THEN Cardinality(kept) ELSE Cardinality(kept) + 1
      BY <1>3, <1>5, <2>1, FS_AddElement
  <2> QED BY <1>5, <2>2
<1>7. Cardinality(nodes) <= MaxNodes
  <2>1. CASE Cardinality(d.nodes) < MaxNodes
    <3>1. Cardinality(nodes) \in Nat BY <1>6, FS_CardinalityType
    <3> QED BY <1>4, <1>5, <1>6, <2>1, <3>1
  <2>2. CASE Cardinality(d.nodes) = MaxNodes
    <3>1. PICK n \in d.nodes : n[2] = i BY <1>1, <2>2
    <3>2. n \notin kept BY <3>1, <1>2
    <3>3. kept # d.nodes BY <3>1, <3>2
    <3>4. Cardinality(kept) # Cardinality(d.nodes) BY <1>4, <3>3, FS_Subset
    <3>6. Cardinality(kept) < Cardinality(d.nodes) BY <1>4, <1>5, <3>4
    <3>5. Cardinality(nodes) \in Nat BY <1>6, FS_CardinalityType
    <3> QED BY <1>4, <1>5, <1>6, <2>2, <3>6, <3>5
  <2> QED BY <1>1, <1>4, <2>1, <2>2
<1>8. nodes \subseteq d.bindings BY <1>1, <1>3, <1>4 DEF FleetOk
<1>9. PICK e : e = SaveInto(d, s, i) OBVIOUS
<1>10. nodes \subseteq Stable \X Instance BY <1>8 DEF Databases
<1>11. /\ e \in Databases /\ e.version = d.version /\ e.tables = d.tables /\ e.server = d.server
       /\ e.bindings = d.bindings /\ e.nodes = nodes
    BY <1>1, <1>2, <1>3, <1>9, <1>10 DEF Databases
<1>12. FleetOk(e) BY <1>6, <1>7, <1>8, <1>11 DEF FleetOk
<1>13. Evolves(d, e) BY <1>11, <1>12 DEF Evolves
<1> QED BY <1>9, <1>13

(* A body that is not refused evolves the database it read. *)
LEMMA BodyEvolves ==
    ASSUME NEW d \in Databases, FleetOk(d), NEW op \in StoreOps, Body(d, op) # Nil
    PROVE  Body(d, op) \in Databases /\ Evolves(d, Body(d, op))
<1> SUFFICES Evolves(d, Body(d, op)) BY DEF Evolves
<1>1. CASE op \in [do : {"bind", "save"}, s : Stable, i : Instance]
  <2>1. CASE op.do = "bind"
    <3>1. Body(d, op) = ImportInto(d, {<<op.s, op.i>>}) BY <2>1 DEF Body
    <3>2. {<<op.s, op.i>>} \in SUBSET (Stable \X Instance) BY <1>1
    <3> QED BY <3>1, <3>2, ImportEvolves
  <2>2. CASE op.do = "save"
    <3>1. Body(d, op) = SaveInto(d, op.s, op.i) BY <2>2 DEF Body
    <3>2. op.s \in Stable /\ op.i \in Instance BY <1>1
    <3> QED BY <3>1, <3>2, SaveEvolves
  <2> QED BY <1>1, <2>1, <2>2
<1>2. CASE op \in [do : {"delete"}, i : Instance]
  <2>1. PICK kept : kept = {n \in d.nodes : n[2] # op.i} OBVIOUS
  <2>2. op.do = "delete" BY <1>2
  <2>3. Body(d, op) = [d EXCEPT !.nodes = kept] BY <2>1, <2>2 DEF Body
  <2>4. kept \subseteq d.nodes /\ IsFiniteSet(kept) /\ Cardinality(kept) <= MaxNodes
    <3>1. IsFiniteSet(d.nodes) /\ Cardinality(d.nodes) \in Nat /\ kept \subseteq d.nodes
        BY <2>1, FS_CardinalityType DEF FleetOk
    <3>2. IsFiniteSet(kept) /\ Cardinality(kept) \in Nat /\ Cardinality(kept) <= Cardinality(d.nodes)
        BY <3>1, FS_Subset, FS_CardinalityType
    <3> QED BY <3>1, <3>2, StoreAssumption DEF FleetOk
  <2>5. PICK e : e = Body(d, op) OBVIOUS
  <2>6. /\ e \in Databases /\ e.version = d.version /\ e.tables = d.tables /\ e.server = d.server
        /\ e.bindings = d.bindings /\ e.nodes = kept
      BY <2>3, <2>4, <2>5 DEF Databases
  <2>7. Evolves(d, e) BY <2>4, <2>6 DEF Evolves, FleetOk
  <2> QED BY <2>5, <2>7
<1>3. CASE op \in [do : {"load"}]
  <2>1. op.do = "load" BY <1>3
  <2>2. Body(d, op) = ReadFleet(d) BY <2>1 DEF Body
  <2>3. ReadFleet(d) = d BY <2>2 DEF ReadFleet
  <2> QED BY <2>2, <2>3 DEF Evolves
<1> QED BY <1>1, <1>2, <1>3 DEF StoreOps

(* It holds at the start. *)
LEMMA StoreStarts == StoreInit => StoreInv
<1> SUFFICES ASSUME StoreInit PROVE StoreInv
    OBVIOUS
<1> USE StoreAssumption
<1>1. kind \in {"coordinator", "node"} /\ idFile \in {0, 1} BY DEF StoreInit
<1>2. MaxVersion[kind] \in Nat /\ 1..MaxVersion[kind] \subseteq Nat \ {0} BY <1>1 DEF MaxVersion
<1>3. ASSUME db # Nil PROVE db \in Databases /\ FleetOk(db) /\ SchemaOk(db) /\ bound = db.bindings /\ idFile # 0
  <2>1. PICK v \in 1..MaxVersion[kind], s \in Stable, i \in Instance :
          db \in {OldDatabase(kind, v, {}, {}), OldDatabase(kind, v, {<<s, i>>}, {<<s, i>>})}
      BY <1>3 DEF StoreInit
  <2>2. idFile = 1 /\ bound = db.bindings BY <1>3 DEF StoreInit
  <2>3. PICK b \in {{}, {<<s, i>>}} : db = OldDatabase(kind, v, b, b) BY <2>1
  <2>4. Required(kind, v) \subseteq Tables BY <1>1 DEF Required, Tables
  <2>5. /\ db.version = v /\ db.tables = Required(kind, v) /\ db.server = 1
        /\ db.bindings = b /\ db.nodes = b
      BY <2>3 DEF OldDatabase
  <2>6. v \in Nat /\ v # 0 /\ v <= MaxVersion[kind] BY <1>2
  <2>7. db \in Databases BY <2>3, <2>4, <2>6 DEF OldDatabase, Databases
  <2>8. SchemaOk(db) BY <2>2, <2>5, <2>6 DEF SchemaOk
  <2>9. IsFiniteSet(b) /\ Cardinality(b) <= 1
    <3>1. CASE b = {} BY <3>1, FS_EmptySet
    <3>2. CASE b = {<<s, i>>}
      <4>1. PICK x : x = <<s, i>> OBVIOUS
      <4>2. b = {x} BY <3>2, <4>1
      <4>3. IsFiniteSet({x}) /\ Cardinality({x}) = 1 BY FS_Singleton
      <4> QED BY <4>2, <4>3
    <3> QED BY <3>1, <3>2
  <2>10. Cardinality(b) <= MaxNodes
    <3>1. Cardinality(b) \in Nat BY <2>9, FS_CardinalityType
    <3> QED BY <2>9, <3>1
  <2>11. OneToOne(b)
    <3>1. \A x, y \in b : x = y BY <2>3
    <3> QED BY <3>1 DEF OneToOne, Conflicts
  <2>12. FleetOk(db) BY <2>5, <2>9, <2>10, <2>11 DEF FleetOk
  <2> QED BY <2>2, <2>7, <2>8, <2>12
<1>4. StoreTypes
  <2>1. Off_ \in ProcRec BY DEF Off_, ProcRec
  <2>2. NoCall \in CallRec BY DEF NoCall, CallRec
  <2>3. proc \in [Proc -> ProcRec] /\ call \in [Callers -> CallRec] BY <2>1, <2>2 DEF StoreInit
  <2>4. legacy \subseteq Stable \X Instance BY DEF StoreInit
  <2> QED BY <1>1, <1>3, <2>3, <2>4 DEF StoreInit, StoreTypes
<1>5. DatabaseOk BY <1>3 DEF DatabaseOk, StoreInit
<1>6. GateOk BY DEF GateOk, StoreInit
<1>7. ASSUME NEW p \in Proc PROVE ProcOk(p)
  <2>1. proc[p].pc = "off" BY DEF StoreInit, Off_
  <2> QED BY <2>1 DEF ProcOk, PastSchema, Opening
<1>8. ASSUME NEW c \in Callers PROVE CallOk(c)
  <2>1. call[c].pc = "idle" /\ call[c].commits = 0 /\ call[c].result = "none"
      BY DEF StoreInit, NoCall
  <2> QED BY <2>1 DEF CallOk, InTx
<1> QED BY <1>4, <1>5, <1>6, <1>7, <1>8 DEF StoreInv

(* A step of one process, which becomes r. *)
ProcFrame(p, r) ==
    /\ r \in ProcRec /\ proc' = [proc EXCEPT ![p] = r]
    /\ UNCHANGED <<kind, legacy, gate, call>>
    /\ started' \in Nat /\ idFile' \in Nat /\ (idFile # 0 => idFile' = idFile)
    /\ db' \in Databases \cup {Nil}
    /\ db # Nil => db' # Nil
    /\ db # Nil /\ db.version = MaxVersion[kind] => db'.version = MaxVersion[kind]
    /\ owner' \in {owner, 0, p} /\ (owner' = p => owner \in {0, p})
    /\ owner' = 0 => owner = 0 \/ proc[p].pc \in Opening
    /\ db' = db \/ proc[p].pc \in {"create", "schema", "import", "load"}
    /\ proc[p].pc = "serve" => gate = Nil

LEMMA ProcFrameKeeps ==
    ASSUME StoreInv, NEW p \in Proc, NEW r \in ProcRec, ProcFrame(p, r), DatabaseOk',
           r.pc \in Opening => owner' = p,
           r.pc \notin {"off", "link"} => r.id = idFile' /\ idFile' # 0,
           r.pc \in {"schema"} \cup PastSchema => db' # Nil,
           r.pc \in PastSchema => db'.version = MaxVersion[kind]
    PROVE  StoreInv'
<1> USE StoreAssumption
<1>1. StoreTypes /\ DatabaseOk /\ GateOk /\ (\A q \in Proc : ProcOk(q)) /\ \A c \in Callers : CallOk(c)
    BY DEF StoreInv
<1>2. /\ proc' \in [Proc -> ProcRec] /\ proc'[p] = r /\ \A q \in Proc : q # p => proc'[q] = proc[q]
    BY <1>1 DEF ProcFrame, StoreTypes
<1>3. StoreTypes' BY <1>1, <1>2 DEF ProcFrame, StoreTypes
<1>4. GateOk'
  <2>1. gate # Nil => call[gate].proc # p BY <1>1 DEF ProcFrame, GateOk
  <2> QED BY <1>1, <1>2, <2>1 DEF ProcFrame, GateOk
<1>5. ASSUME NEW q \in Proc PROVE ProcOk(q)'
  <2>1. CASE q = p BY <1>2, <2>1 DEF ProcFrame, ProcOk, PastSchema
  <2>2. CASE q # p
    <3>1. proc'[q] = proc[q] /\ ProcOk(q) BY <1>1, <1>2, <2>2
    <3>2. proc[q].pc \in Opening => owner' = q /\ db' = db
      <4> SUFFICES ASSUME proc[q].pc \in Opening PROVE owner' = q /\ db' = db
          OBVIOUS
      <4>1. owner = q /\ q # 0 BY <3>1 DEF ProcOk, PastSchema
      <4>2. ProcOk(p) BY <1>1
      <4>3. proc[p].pc \notin Opening BY <4>1, <4>2, <2>2 DEF ProcOk, PastSchema
      <4> QED BY <4>1, <4>3, <2>2 DEF ProcFrame, Opening
    <3> QED BY <3>1, <3>2 DEF ProcOk, PastSchema, ProcFrame, Opening
  <2> QED BY <2>1, <2>2
<1>6. ASSUME NEW c \in Callers PROVE CallOk(c)'
  <2>1. call'[c] = call[c] /\ gate' = gate /\ CallOk(c) BY <1>1 DEF ProcFrame
  <2>2. call[c].pc \in {"check", "commit"} => db' = db
    <3> SUFFICES ASSUME call[c].pc \in {"check", "commit"} PROVE db' = db
        OBVIOUS
    <3>1. gate = c /\ c # Nil BY <2>1 DEF CallOk, InTx
    <3>2. PICK q \in Proc : proc[q].pc = "serve" BY <1>1, <3>1 DEF GateOk
    <3>3. owner = q BY <1>1, <3>2 DEF ProcOk, PastSchema, Opening
    <3>4. q # p BY <3>1, <3>2 DEF ProcFrame
    <3>5. proc[p].pc \notin Opening BY <1>1, <3>3, <3>4 DEF ProcOk, PastSchema
    <3> QED BY <3>5 DEF ProcFrame, Opening
  <2> QED BY <2>1, <2>2 DEF CallOk, Evolves
<1> QED BY <1>3, <1>4, <1>5, <1>6 DEF StoreInv

(* What the steps of one process do to its record. *)
LEMMA StartAndLockKeep ==
    ASSUME StoreInv, NEW p \in Proc, StartProc(p) \/ PublishIdentity(p) \/ TakeLock(p)
    PROVE  StoreInv'
<1> USE StoreAssumption
<1>1. /\ StoreTypes /\ DatabaseOk /\ ProcOk(p)
      /\ proc[p] \in ProcRec /\ proc \in [Proc -> ProcRec]
    BY DEF StoreInv, StoreTypes
<1>2. CASE StartProc(p)
  <2>1. PICK r : r = [Off_ EXCEPT !.pc = IF idFile # 0 THEN "lock" ELSE "link", !.id = idFile]
      OBVIOUS
  <2>2. r = [pc |-> IF idFile # 0 THEN "lock" ELSE "link", id |-> idFile, created |-> FALSE]
      BY <2>1 DEF Off_
  <2>3. r \in ProcRec /\ r.pc = (IF idFile # 0 THEN "lock" ELSE "link") /\ r.id = idFile
      BY <1>1, <2>2 DEF ProcRec, StoreTypes
  <2>4. proc[p].pc = "off" BY <1>2 DEF StartProc, Off_
  <2>5. UNCHANGED <<kind, legacy, gate, call, idFile, db, owner, bound>> /\ started' \in Nat
        /\ proc' = [proc EXCEPT ![p] = r]
      BY <1>1, <1>2, <2>1 DEF StartProc, StoreTypes
  <2>6. ProcFrame(p, r)
      BY <1>1, <2>3, <2>4, <2>5 DEF ProcFrame, StoreTypes
  <2>7. DatabaseOk' BY <1>1, <2>5 DEF DatabaseOk, SchemaOk
  <2> QED BY <2>3, <2>5, <2>6, <2>7, ProcFrameKeeps DEF Opening, PastSchema
<1>3. CASE PublishIdentity(p)
  <2>1. PICK mine : mine = started + 1 OBVIOUS
  <2>2. mine \in Nat /\ mine # 0 /\ idFile' = (IF idFile # 0 THEN idFile ELSE mine)
        /\ proc' = [proc EXCEPT ![p].pc = "lock", ![p].id = Published(mine)]
        /\ UNCHANGED <<kind, legacy, gate, call, db, owner, bound>> /\ started' \in Nat
        /\ proc[p].pc = "link"
      BY <1>1, <1>3, <2>1 DEF PublishIdentity, StoreTypes
  <2>3. Published(mine) = idFile' /\ idFile' \in Nat /\ idFile' # 0
        /\ (idFile # 0 => idFile' = idFile)
      BY <1>1, <2>2 DEF Published, StoreTypes
  <2>4. PICK r : r = [proc[p] EXCEPT !.pc = "lock", !.id = Published(mine)] OBVIOUS
  <2>5. r \in ProcRec /\ r.pc = "lock" /\ r.id = idFile'
      BY <1>1, <2>3, <2>4 DEF ProcRec
  <2>6. proc' = [proc EXCEPT ![p] = r] BY <2>2, <2>4
  <2>7. ProcFrame(p, r)
      BY <1>1, <2>2, <2>3, <2>5, <2>6 DEF ProcFrame, StoreTypes
  <2>8. DatabaseOk' BY <1>1, <2>2, <2>3 DEF DatabaseOk, SchemaOk
  <2> QED BY <2>3, <2>5, <2>7, <2>8, ProcFrameKeeps DEF Opening, PastSchema
<1>4. CASE TakeLock(p)
  <2>1. proc[p].pc = "lock" /\ UNCHANGED <<kind, db, idFile, legacy, gate, call, bound, started>>
      BY <1>4 DEF TakeLock
  <2>2. DatabaseOk' BY <1>1, <2>1 DEF DatabaseOk, SchemaOk
  <2>3. CASE owner # 0
    <3>1. proc' = [proc EXCEPT ![p] = Off_] /\ owner' = owner BY <1>4, <2>3 DEF TakeLock
    <3>2. Off_ \in ProcRec /\ Off_.pc = "off" BY DEF Off_, ProcRec
    <3>3. ProcFrame(p, Off_)
      <4>1. owner # p \/ owner \in {0, p} OBVIOUS
      <4> QED BY <1>1, <2>1, <3>1, <3>2, <4>1 DEF ProcFrame, StoreTypes
    <3> QED BY <2>2, <3>2, <3>3, ProcFrameKeeps DEF Opening, PastSchema
  <2>4. CASE owner = 0
    <3>1. PICK r : r = [proc[p] EXCEPT !.pc = "create"] OBVIOUS
    <3>2. r \in ProcRec /\ r.pc = "create" /\ r.id = proc[p].id
        BY <1>1, <3>1 DEF ProcRec, Opening
    <3>3. proc' = [proc EXCEPT ![p] = r] /\ owner' = p
        BY <1>4, <2>4, <3>1 DEF TakeLock, Goes
    <3>4. ProcFrame(p, r)
        BY <1>1, <2>1, <2>4, <3>2, <3>3 DEF ProcFrame, StoreTypes
    <3> QED BY <1>1, <2>1, <2>2, <3>2, <3>3, <3>4, ProcFrameKeeps DEF Opening, ProcOk, PastSchema
  <2> QED BY <2>3, <2>4
<1> QED BY <1>2, <1>3, <1>4

LEMMA BlankOk == Blank \in Databases /\ FleetOk(Blank) /\ SchemaOk(Blank) /\ Blank.bindings = {}
<1>1. /\ Blank \in Databases /\ Blank.version = 0 /\ Blank.bindings = {} /\ Blank.nodes = {}
    BY DEF Blank, Databases
<1>2. IsFiniteSet({}) /\ Cardinality({}) = 0 BY FS_EmptySet
<1>3. OneToOne({}) BY DEF OneToOne
<1> QED BY <1>1, <1>2, <1>3, StoreAssumption DEF FleetOk, SchemaOk

(* What a transaction leaves behind when it becomes durable. *)
LEMMA EvolvedOk ==
    ASSUME DatabaseOk, db # Nil, kind' = kind, idFile' = idFile, NEW d, d # Nil, Durable(d),
           Evolves(db, d), db.version # 0
    PROVE  DatabaseOk' /\ db' \in Databases /\ db'.version = db.version
<1>1. /\ db' = d /\ bound' = bound \cup d.bindings /\ FleetOk(d) /\ d \in Databases
      /\ d.version = db.version /\ d.tables = db.tables /\ d.server = db.server
      /\ db.bindings \subseteq d.bindings
    BY DEF Durable, Evolves
<1>2. bound' = db'.bindings BY <1>1 DEF DatabaseOk
<1>3. SchemaOk(db)' BY <1>1 DEF DatabaseOk, SchemaOk
<1>4. FleetOk(db)' BY <1>1 DEF FleetOk
<1> QED BY <1>1, <1>2, <1>3, <1>4 DEF DatabaseOk

(* Precreate and OpenSchema: the database comes to be, with its schema. *)
LEMMA CreateKeeps == ASSUME StoreInv, NEW p \in Proc, Precreate(p) PROVE StoreInv'
<1> USE StoreAssumption
<1>1. /\ StoreTypes /\ DatabaseOk /\ ProcOk(p)
      /\ proc[p] \in ProcRec /\ proc \in [Proc -> ProcRec]
    BY DEF StoreInv, StoreTypes
<1>2. /\ proc[p].pc = "create" /\ UNCHANGED <<kind, idFile, legacy, owner, gate, call, bound, started>>
      /\ db' = (IF db = Nil THEN Blank ELSE db)
    BY DEF Precreate
<1>3. PICK r : r = [proc[p] EXCEPT !.pc = "schema", !.created = (db = Nil)] OBVIOUS
<1>4. r \in ProcRec /\ r.pc = "schema" /\ r.id = proc[p].id
    BY <1>1, <1>3 DEF ProcRec, Opening
<1>5. proc' = [proc EXCEPT ![p] = r] BY <1>3 DEF Precreate
<1>6. owner = p /\ p # 0 /\ proc[p].id = idFile /\ idFile # 0 BY <1>1, <1>2 DEF ProcOk, PastSchema, Opening
<1>7. db' \in Databases /\ db' # Nil BY <1>1, <1>2, BlankOk DEF StoreTypes
<1>8. DatabaseOk'
  <2>1. CASE db = Nil
    <3>1. db' = Blank /\ bound' = {} BY <1>1, <1>2, <2>1 DEF DatabaseOk
    <3>2. SchemaOk(Blank)' BY DEF SchemaOk, Blank
    <3>3. FleetOk(db') /\ SchemaOk(db)' /\ bound' = db'.bindings
        BY <3>1, <3>2, BlankOk DEF SchemaOk
    <3> QED BY <1>2, <1>6, <1>7, <3>3 DEF DatabaseOk, FleetOk
  <2>2. CASE db # Nil BY <1>1, <1>2, <2>2 DEF DatabaseOk, SchemaOk
  <2> QED BY <2>1, <2>2
<1>9. ProcFrame(p, r) BY <1>1, <1>2, <1>4, <1>5, <1>7 DEF ProcFrame, StoreTypes
<1> QED BY <1>2, <1>4, <1>6, <1>7, <1>8, <1>9, ProcFrameKeeps DEF Opening, PastSchema

LEMMA SchemaKeeps == ASSUME StoreInv, NEW p \in Proc, OpenSchema(p) PROVE StoreInv'
<1> USE StoreAssumption
<1>1. /\ StoreTypes /\ DatabaseOk /\ ProcOk(p)
      /\ proc[p] \in ProcRec /\ proc \in [Proc -> ProcRec]
    BY DEF StoreInv, StoreTypes
<1>2. /\ proc[p].pc = "schema" /\ UNCHANGED <<kind, idFile, legacy, gate, call, started>>
      /\ \/ Closes(p) /\ UNCHANGED <<db, bound>>
         \/ /\ inspectSchema(kind, db, proc[p].id, proc[p].created)
            /\ Durable(initializeSchema(kind, db, proc[p].id))
            /\ \/ owner' = owner /\ Goes(p, IF kind = "node" THEN "serve" ELSE "import")
               \/ Closes(p)
    BY DEF OpenSchema
<1>3. owner = p /\ p # 0 /\ proc[p].id = idFile /\ idFile # 0 /\ db # Nil
    BY <1>1, <1>2 DEF ProcOk, PastSchema, Opening
<1>4. db \in Databases /\ FleetOk(db) /\ SchemaOk(db) /\ bound = db.bindings
      /\ kind \in {"coordinator", "node"} /\ idFile \in Nat
    BY <1>1, <1>3 DEF DatabaseOk, StoreTypes
<1>5. ASSUME inspectSchema(kind, db, idFile, proc[p].created),
             Durable(initializeSchema(kind, db, idFile))
      PROVE  /\ db' \in Databases /\ FleetOk(db') /\ db'.version = MaxVersion[kind]
             /\ db'.server = idFile /\ db'.tables = Required(kind, db'.version)
             /\ bound' = db'.bindings
  <2>1. \/ db.version = 0 /\ db.tables = {}
        \/ /\ db.version # 0 /\ db.version <= MaxVersion[kind]
           /\ db.tables = Required(kind, db.version) /\ db.server = idFile
      BY <1>4 DEF SchemaOk, Blank
  <2>2. db' = initializeSchema(kind, db, idFile) /\ bound' = bound \cup db'.bindings
      BY <1>5 DEF Durable
  <2>3. /\ db' \in Databases /\ db'.version = MaxVersion[kind] /\ db'.server = idFile
        /\ db'.tables = Required(kind, db'.version)
        /\ db'.bindings = db.bindings /\ db'.nodes = db.nodes
      BY <1>4, <2>1, <2>2, SchemaMigrates
  <2> QED BY <1>4, <2>2, <2>3 DEF FleetOk
<1>6. /\ db' \in Databases /\ DatabaseOk'
  <2>1. CASE UNCHANGED <<db, bound>> BY <1>1, <1>2, <1>4, <2>1 DEF DatabaseOk, SchemaOk
  <2>2. CASE Durable(initializeSchema(kind, db, proc[p].id))
             /\ inspectSchema(kind, db, proc[p].id, proc[p].created)
    <3>1. /\ db' \in Databases /\ FleetOk(db') /\ db'.version = MaxVersion[kind]
          /\ db'.server = idFile /\ db'.tables = Required(kind, db'.version)
          /\ bound' = db'.bindings
        BY <1>3, <1>5, <2>2
    <3>2. MaxVersion[kind] # 0 /\ MaxVersion[kind] <= MaxVersion[kind] BY <1>4 DEF MaxVersion
    <3>3. SchemaOk(db)' BY <1>2, <3>1, <3>2 DEF SchemaOk
    <3> QED BY <1>2, <1>3, <3>1, <3>3 DEF DatabaseOk, FleetOk
  <2> QED BY <1>2, <2>1, <2>2
<1>a. db' # Nil /\ (db.version = MaxVersion[kind] => db'.version = MaxVersion[kind])
    BY <1>2, <1>3, <1>5, <1>6
<1>7. CASE Closes(p)
  <2>1. proc' = [proc EXCEPT ![p] = Off_] /\ owner' = 0 BY <1>7 DEF Closes
  <2>2. Off_ \in ProcRec /\ Off_.pc = "off" BY DEF Off_, ProcRec
  <2>3. ProcFrame(p, Off_)
      BY <1>1, <1>2, <1>3, <1>6, <1>a, <2>1, <2>2 DEF ProcFrame, StoreTypes, Opening, PastSchema
  <2> QED BY <1>6, <2>2, <2>3, ProcFrameKeeps DEF Opening, PastSchema
<1>8. CASE ~Closes(p)
  <2>1. /\ owner' = owner /\ Goes(p, IF kind = "node" THEN "serve" ELSE "import")
        /\ db'.version = MaxVersion[kind]
      BY <1>2, <1>3, <1>5, <1>8
  <2>2. PICK r : r = [proc[p] EXCEPT !.pc = IF kind = "node" THEN "serve" ELSE "import"] OBVIOUS
  <2>3. r \in ProcRec /\ r.pc \in {"serve", "import"} /\ r.id = proc[p].id
      BY <1>1, <2>2 DEF ProcRec, Opening
  <2>4. proc' = [proc EXCEPT ![p] = r] BY <2>1, <2>2 DEF Goes
  <2>5. ProcFrame(p, r)
      BY <1>1, <1>2, <1>3, <1>6, <1>a, <2>1, <2>3, <2>4 DEF ProcFrame, StoreTypes
  <2>6. db' # Nil BY <1>6
  <2> QED BY <1>2, <1>3, <1>6, <2>1, <2>3, <2>5, <2>6, ProcFrameKeeps DEF Opening, PastSchema
<1> QED BY <1>7, <1>8

LEMMA ImportKeeps == ASSUME StoreInv, NEW p \in Proc, ImportLegacy(p) PROVE StoreInv'
<1> USE StoreAssumption
<1>1. /\ StoreTypes /\ DatabaseOk /\ ProcOk(p)
      /\ proc[p] \in ProcRec /\ proc \in [Proc -> ProcRec]
    BY DEF StoreInv, StoreTypes
<1>2. PICK d : d = ImportInto(db, legacy) OBVIOUS
<1>3. /\ proc[p].pc = "import" /\ UNCHANGED <<kind, idFile, legacy, gate, call, started>>
      /\ \/ d # Nil /\ Durable(d) /\ Goes(p, "load") /\ owner' = owner
         \/ d # Nil /\ Durable(d) /\ Closes(p)
         \/ Closes(p) /\ UNCHANGED <<db, bound>>
    BY <1>2 DEF ImportLegacy
<1>4. /\ owner = p /\ p # 0 /\ proc[p].id = idFile /\ idFile # 0 /\ db # Nil
      /\ db.version = MaxVersion[kind]
    BY <1>1, <1>3 DEF ProcOk, PastSchema, Opening
<1>5. db \in Databases /\ FleetOk(db) /\ SchemaOk(db) /\ bound = db.bindings
      /\ kind \in {"coordinator", "node"} /\ legacy \in SUBSET (Stable \X Instance)
    BY <1>1, <1>4 DEF DatabaseOk, StoreTypes
<1>6. d # Nil => Evolves(db, d) BY <1>2, <1>5, ImportEvolves
<1>7. db' \in Databases /\ DatabaseOk' /\ db'.version = MaxVersion[kind]
  <2>1. CASE UNCHANGED <<db, bound>> BY <1>1, <1>3, <1>4, <1>5, <2>1 DEF DatabaseOk, SchemaOk
  <2>2. CASE d # Nil /\ Durable(d)
    <3>1. db.version # 0 BY <1>4, <1>5 DEF MaxVersion
    <3> QED BY <1>1, <1>3, <1>4, <1>6, <2>2, <3>1, EvolvedOk
  <2> QED BY <1>3, <2>1, <2>2
<1>8. CASE Closes(p)
  <2>1. proc' = [proc EXCEPT ![p] = Off_] /\ owner' = 0 BY <1>8 DEF Closes
  <2>2. Off_ \in ProcRec /\ Off_.pc = "off" BY DEF Off_, ProcRec
  <2>3. ProcFrame(p, Off_)
      BY <1>1, <1>3, <1>4, <1>7, <2>1, <2>2 DEF ProcFrame, StoreTypes, Opening, PastSchema
  <2> QED BY <1>7, <2>2, <2>3, ProcFrameKeeps DEF Opening, PastSchema
<1>9. CASE ~Closes(p)
  <2>1. owner' = owner /\ Goes(p, "load") BY <1>3, <1>9
  <2>2. PICK r : r = [proc[p] EXCEPT !.pc = "load"] OBVIOUS
  <2>3. r \in ProcRec /\ r.pc = "load" /\ r.id = proc[p].id
      BY <1>1, <2>2 DEF ProcRec, Opening
  <2>4. proc' = [proc EXCEPT ![p] = r] BY <2>1, <2>2 DEF Goes
  <2>5. ProcFrame(p, r)
      BY <1>1, <1>3, <1>4, <1>7, <2>1, <2>3, <2>4 DEF ProcFrame, StoreTypes
  <2>6. db' # Nil BY <1>7
  <2> QED BY <1>3, <1>4, <1>7, <2>1, <2>3, <2>5, <2>6, ProcFrameKeeps DEF Opening, PastSchema
<1> QED BY <1>8, <1>9

LEMMA LoadCloseExitKeep ==
    ASSUME StoreInv, NEW p \in Proc, LoadFleet(p) \/ CloseStore(p) \/ Exit(p)
    PROVE  StoreInv'
<1> USE StoreAssumption
<1>1. /\ StoreTypes /\ DatabaseOk /\ ProcOk(p)
      /\ proc[p] \in ProcRec /\ proc \in [Proc -> ProcRec]
    BY DEF StoreInv, StoreTypes
<1>2. /\ UNCHANGED <<kind, db, idFile, legacy, gate, call, bound, started>>
      /\ \/ proc[p].pc = "load" /\ owner' = owner /\ Goes(p, "serve")
         \/ proc[p].pc = "load" /\ Closes(p)
         \/ proc[p].pc = "serve" /\ gate = Nil /\ owner' = 0 /\ Goes(p, "closed")
         \/ proc[p].pc = "closed" /\ owner' = owner /\ proc' = [proc EXCEPT ![p] = Off_]
    BY DEF LoadFleet, CloseStore, Exit
<1>3. DatabaseOk' BY <1>1, <1>2 DEF DatabaseOk, SchemaOk
<1>4. proc[p].pc \in {"load", "serve"} =>
        owner = p /\ db # Nil /\ db.version = MaxVersion[kind]
    BY <1>1 DEF ProcOk, PastSchema, Opening
<1>5. proc[p].pc \in {"load", "serve", "closed"} => proc[p].id = idFile /\ idFile # 0
    BY <1>1 DEF ProcOk, PastSchema, Opening
<1>6. Off_ \in ProcRec /\ Off_.pc = "off" BY DEF Off_, ProcRec
<1>7. PICK r :
        /\ r \in ProcRec /\ proc' = [proc EXCEPT ![p] = r]
        /\ \/ proc[p].pc = "load" /\ owner' = owner /\ r.pc = "serve" /\ r.id = proc[p].id
           \/ proc[p].pc = "load" /\ owner' = 0 /\ r.pc = "off"
           \/ proc[p].pc = "serve" /\ gate = Nil /\ owner' = 0 /\ r.pc = "closed" /\ r.id = proc[p].id
           \/ proc[p].pc = "closed" /\ owner' = owner /\ r.pc = "off"
  <2>1. ASSUME NEW to \in {"serve", "closed"}, Goes(p, to)
        PROVE  \E r : r \in ProcRec /\ proc' = [proc EXCEPT ![p] = r] /\ r.pc = to /\ r.id = proc[p].id
    <3>1. PICK r : r = [proc[p] EXCEPT !.pc = to] OBVIOUS
    <3>2. r \in ProcRec /\ r.pc = to /\ r.id = proc[p].id BY <1>1, <3>1 DEF ProcRec, Opening
    <3>3. proc' = [proc EXCEPT ![p] = r] BY <2>1, <3>1 DEF Goes
    <3> QED BY <3>2, <3>3
  <2>2. CASE proc[p].pc = "load" /\ owner' = owner /\ Goes(p, "serve") BY <2>1, <2>2
  <2>3. CASE proc[p].pc = "serve" /\ gate = Nil /\ owner' = 0 /\ Goes(p, "closed") BY <2>1, <2>3
  <2>4. CASE proc[p].pc = "load" /\ Closes(p) BY <1>6, <2>4 DEF Closes
  <2>5. CASE proc[p].pc = "closed" /\ owner' = owner /\ proc' = [proc EXCEPT ![p] = Off_]
      BY <1>6, <2>5
  <2> QED BY <1>2, <2>2, <2>3, <2>4, <2>5
<1>8. ProcFrame(p, r)
    BY <1>1, <1>2, <1>4, <1>7 DEF ProcFrame, StoreTypes, Opening, PastSchema
<1>9. /\ r.pc \in Opening => owner' = p
      /\ r.pc \notin {"off", "link"} => r.id = idFile' /\ idFile' # 0
      /\ r.pc \in {"schema"} \cup PastSchema => db' # Nil
      /\ r.pc \in PastSchema => db'.version = MaxVersion[kind]
    BY <1>2, <1>4, <1>5, <1>7 DEF Opening, PastSchema
<1> QED BY <1>3, <1>7, <1>8, <1>9, ProcFrameKeeps

(* A process dies, and its callers with it. *)
LEMMA ProcDiesKeeps == ASSUME StoreInv, NEW p \in Proc, ProcDies(p) PROVE StoreInv'
<1> USE StoreAssumption
<1>1. StoreTypes /\ DatabaseOk /\ GateOk /\ (\A q \in Proc : ProcOk(q)) /\ \A c \in Callers : CallOk(c)
    BY DEF StoreInv
<1>2. /\ proc' = [proc EXCEPT ![p] = Off_] /\ owner' = (IF owner = p THEN 0 ELSE owner)
      /\ gate' = (IF gate \in OfProc(p) THEN Nil ELSE gate)
      /\ call' = [c \in Callers |-> IF c \in OfProc(p) THEN NoCall ELSE call[c]]
      /\ UNCHANGED <<kind, db, idFile, legacy, bound, started>>
    BY DEF ProcDies
<1>3. NoCall \in CallRec /\ NoCall.pc = "idle" /\ NoCall.commits = 0 /\ NoCall.result = "none"
    BY DEF NoCall, CallRec
<1>4. Off_ \in ProcRec /\ Off_.pc = "off" BY DEF Off_, ProcRec
<1>5. StoreTypes'
  <2>1. call' \in [Callers -> CallRec] BY <1>1, <1>2, <1>3 DEF StoreTypes
  <2>2. proc' \in [Proc -> ProcRec] BY <1>1, <1>2, <1>4 DEF StoreTypes
  <2> QED BY <1>1, <1>2, <2>1, <2>2 DEF StoreTypes
<1>6. DatabaseOk' BY <1>1, <1>2 DEF DatabaseOk, SchemaOk
<1>7. \A c \in Callers : call'[c] = NoCall \/ (call'[c] = call[c] /\ call[c].proc # p)
    BY <1>2 DEF OfProc
<1>8. GateOk'
  <2> SUFFICES ASSUME gate' # Nil
               PROVE  call'[gate'].pc \in InTx /\ call'[gate'].proc \in Proc
                      /\ proc'[call'[gate'].proc].pc = "serve"
      BY DEF GateOk
  <2>1. gate' = gate /\ gate \in Callers /\ gate \notin OfProc(p) BY <1>1, <1>2 DEF StoreTypes
  <2>2. call'[gate] = call[gate] /\ call[gate].proc # p BY <1>2, <2>1 DEF OfProc
  <2>3. call[gate].pc \in InTx /\ call[gate].proc \in Proc /\ proc[call[gate].proc].pc = "serve"
      BY <1>1, <2>1 DEF GateOk
  <2>4. proc'[call[gate].proc] = proc[call[gate].proc] BY <1>1, <1>2, <2>2, <2>3 DEF StoreTypes
  <2> QED BY <2>1, <2>2, <2>3, <2>4
<1>9. ASSUME NEW q \in Proc PROVE ProcOk(q)'
  <2>1. CASE q = p
    <3>1. proc'[q].pc = "off" BY <1>1, <1>2, <1>4, <2>1 DEF StoreTypes
    <3> QED BY <3>1 DEF ProcOk, PastSchema, Opening
  <2>2. CASE q # p
    <3>1. proc'[q] = proc[q] /\ ProcOk(q) BY <1>1, <1>2, <2>2 DEF StoreTypes
    <3> QED BY <1>2, <2>2, <3>1 DEF ProcOk, PastSchema
  <2> QED BY <2>1, <2>2
<1>10. ASSUME NEW c \in Callers PROVE CallOk(c)'
  <2>1. CASE call'[c] = NoCall BY <1>3, <2>1 DEF CallOk, InTx
  <2>2. CASE call'[c] = call[c] /\ call[c].proc # p
    <3>1. call[c].pc \in InTx => gate' = c BY <1>1, <1>2, <2>2 DEF CallOk, OfProc
    <3> QED BY <1>1, <1>2, <2>2, <3>1 DEF CallOk, Evolves
  <2> QED BY <1>7, <2>1, <2>2
<1> QED BY <1>5, <1>6, <1>8, <1>9, <1>10 DEF StoreInv

(* A step of one caller, which becomes r. *)
CallFrame(c, r) ==
    /\ r \in CallRec /\ call' = [call EXCEPT ![c] = r]
    /\ UNCHANGED <<kind, idFile, legacy, owner, proc, started>>
    /\ \/ gate' = gate /\ (r.pc \in InTx => call[c].pc \in InTx) /\ (call[c].pc \in InTx => r.pc \in InTx)
       \/ gate = Nil /\ gate' = c /\ r.pc \in InTx /\ call[c].pc \notin InTx
            /\ r.proc \in Proc /\ proc[r.proc].pc = "serve"
       \/ call[c].pc \in InTx /\ gate' = Nil /\ r.pc \notin InTx
    /\ \/ UNCHANGED <<db, bound>>
       \/ /\ call[c].pc = "commit" /\ r.pc = "rollback"
          /\ db' \in Databases /\ db'.version = db.version

(* What CallOk says of a record. *)
RecordOk(r, d) ==
    /\ r.pc = "idle" => r.commits = 0 /\ r.result = "none"
    /\ r.pc \notin {"idle"} => r.op \in StoreOps /\ r.proc \in Proc
    /\ r.pc \in {"enter", "begin", "body", "check", "commit"} =>
          r.commits = 0 /\ ~r.attempted /\ r.result = "none"
    /\ r.pc \in {"check", "commit"} => r.tx \in Databases /\ Evolves(d, r.tx)
    /\ r.pc = "rollback" =>
          /\ r.result = "none" /\ r.commits <= 1
          /\ r.err = "none" => r.commits = 1
          /\ ~r.attempted => r.commits = 0
    /\ r.commits <= 1
    /\ r.result = "ok" => r.commits = 1
    /\ r.result = "canceled" => r.commits = 0

LEMMA CallFrameKeeps ==
    ASSUME StoreInv, NEW c \in Callers, NEW r, CallFrame(c, r), DatabaseOk', RecordOk(r, db'),
           call[c].pc \in InTx => r.proc = call[c].proc
    PROVE  StoreInv'
<1> USE StoreAssumption
<1>1. StoreTypes /\ DatabaseOk /\ GateOk /\ (\A q \in Proc : ProcOk(q)) /\ \A e \in Callers : CallOk(e)
    BY DEF StoreInv
<1>2. /\ call' \in [Callers -> CallRec] /\ call'[c] = r
      /\ \A e \in Callers : e # c => call'[e] = call[e]
    BY <1>1 DEF CallFrame, StoreTypes
<1>3. StoreTypes'
  <2>1. gate' \in Callers \cup {Nil} BY <1>1 DEF CallFrame, StoreTypes
  <2>2. db' \in Databases \cup {Nil} BY <1>1 DEF CallFrame, StoreTypes
  <2> QED BY <1>1, <1>2, <2>1, <2>2 DEF CallFrame, StoreTypes
<1>4. call[c].pc \in InTx => gate = c BY <1>1 DEF CallOk
<1>5. GateOk'
  <2>1. CASE gate' = gate /\ gate # c BY <1>1, <1>2, <2>1 DEF CallFrame, GateOk, StoreTypes
  <2>2. CASE gate' = gate /\ gate = c BY <1>1, <1>2, <2>2 DEF CallFrame, GateOk
  <2>3. CASE gate' = c /\ gate = Nil BY <1>2, <2>3 DEF CallFrame, GateOk
  <2>4. CASE gate' = Nil BY <2>4 DEF GateOk
  <2> QED BY <2>1, <2>2, <2>3, <2>4 DEF CallFrame
<1>6. ASSUME NEW q \in Proc PROVE ProcOk(q)'
  <2>1. ProcOk(q) BY <1>1
  <2>2. CASE UNCHANGED <<db, bound>> BY <2>1, <2>2 DEF CallFrame, ProcOk, PastSchema
  <2>3. CASE db' \in Databases /\ db'.version = db.version BY <2>1, <2>3 DEF CallFrame, ProcOk, PastSchema
  <2> QED BY <2>2, <2>3 DEF CallFrame
<1>7. ASSUME NEW e \in Callers PROVE CallOk(e)'
  <2>1. CASE e = c
    <3>1. r.pc \in InTx => gate' = c BY <1>4 DEF CallFrame
    <3> QED BY <1>2, <2>1, <3>1 DEF CallOk, RecordOk
  <2>2. CASE e # c
    <3>1. call'[e] = call[e] /\ CallOk(e) BY <1>1, <1>2, <2>2
    <3>2. call[e].pc \in InTx => gate' = e /\ db' = db
      <4> SUFFICES ASSUME call[e].pc \in InTx PROVE gate' = e /\ db' = db
          OBVIOUS
      <4>1. gate = e /\ e # Nil BY <3>1 DEF CallOk
      <4>2. call[c].pc \notin InTx BY <1>4, <2>2, <4>1
      <4> QED BY <4>1, <4>2 DEF CallFrame, InTx
    <3> QED BY <3>1, <3>2 DEF CallOk, InTx
  <2> QED BY <2>1, <2>2
<1> QED BY <1>1, <1>3, <1>5, <1>6, <1>7 DEF StoreInv

(* Steps of a caller that leave the database alone. *)
LEMMA QuietKeeps ==
    ASSUME StoreInv, NEW c \in Callers, NEW r, CallFrame(c, r), UNCHANGED <<db, bound>>,
           RecordOk(r, db), call[c].pc \in InTx => r.proc = call[c].proc
    PROVE  StoreInv'
<1>1. DatabaseOk' BY DEF StoreInv, DatabaseOk, SchemaOk, CallFrame
<1>2. RecordOk(r, db') OBVIOUS
<1> QED BY <1>1, <1>2, CallFrameKeeps

LEMMA CallKeeps ==
    ASSUME StoreInv, NEW c \in Callers, NEW p \in Proc, NEW op \in StoreOps, Call(c, p, op)
    PROVE  StoreInv'
<1>1. PICK r : r = [NoCall EXCEPT !.pc = "enter", !.op = op, !.proc = p, !.attempt = 1] OBVIOUS
<1>2. r = [pc |-> "enter", op |-> op, proc |-> p, attempt |-> 1,
           expired |-> FALSE, tx |-> Nil, attempted |-> FALSE, err |-> "none",
           result |-> "none", commits |-> 0]
    BY <1>1 DEF NoCall
<1>3. r \in CallRec /\ r.pc = "enter" /\ r.op = op /\ r.proc = p /\ r.commits = 0
      /\ r.result = "none" /\ ~r.attempted
    BY <1>2 DEF CallRec
<1>4. /\ call' = [call EXCEPT ![c] = r] /\ call[c].pc = "idle"
      /\ UNCHANGED <<kind, db, idFile, legacy, owner, proc, gate, bound, started>>
    BY <1>1 DEF Call, AtCall
<1>5. CallFrame(c, r) BY <1>3, <1>4 DEF CallFrame, InTx
<1>6. RecordOk(r, db) BY <1>3 DEF RecordOk, InTx
<1> QED BY <1>4, <1>5, <1>6, QuietKeeps DEF InTx

(* The fields of a caller's record that a step may set. *)
Same(r, r0) == r.op = r0.op /\ r.proc = r0.proc /\ r.commits = r0.commits /\ r.tx = r0.tx
               /\ r.attempted = r0.attempted

Errs(r0, err) == [r0 EXCEPT !.pc = "rollback", !.err = err]
Answers(r0, result) == [r0 EXCEPT !.pc = "returned", !.result = result]

LEMMA PcTyped ==
    ASSUME NEW r0 \in CallRec, NEW at \in {"idle", "enter", "returned"} \cup InTx,
           NEW r, r = [r0 EXCEPT !.pc = at]
    PROVE  r \in CallRec /\ r.pc = at /\ Same(r, r0) /\ r.err = r0.err /\ r.result = r0.result
BY DEF CallRec, Same

LEMMA ErrTyped ==
    ASSUME NEW r0 \in CallRec, NEW err \in {"none", "refused", "canceled", "failed"},
           NEW r, r = Errs(r0, err)
    PROVE  r \in CallRec /\ r.pc = "rollback" /\ Same(r, r0) /\ r.err = err /\ r.result = r0.result
BY DEF CallRec, Same, InTx, Errs

LEMMA ResultTyped ==
    ASSUME NEW r0 \in CallRec, NEW result \in {"none", "ok", "canceled", "failed"},
           NEW r, r = Answers(r0, result)
    PROVE  r \in CallRec /\ r.pc = "returned" /\ Same(r, r0) /\ r.result = result
BY DEF CallRec, Same, Answers

LEMMA ExpireKeeps == ASSUME StoreInv, NEW c \in Callers, Expire(c) PROVE StoreInv'
<1>1. call[c] \in CallRec /\ CallOk(c) BY DEF StoreInv, StoreTypes
<1>2. PICK r : r = [call[c] EXCEPT !.expired = TRUE] OBVIOUS
<1>3. /\ r \in CallRec /\ r.pc = call[c].pc /\ r.op = call[c].op /\ r.proc = call[c].proc
      /\ r.tx = call[c].tx /\ r.attempted = call[c].attempted /\ r.err = call[c].err
      /\ r.result = call[c].result /\ r.commits = call[c].commits
    BY <1>1, <1>2 DEF CallRec
<1>4. /\ call' = [call EXCEPT ![c] = r] /\ gate' = gate
      /\ UNCHANGED <<kind, db, idFile, legacy, owner, proc, bound, started>>
    BY <1>2 DEF Expire, StoreStill
<1>5. CallFrame(c, r) BY <1>3, <1>4 DEF CallFrame
<1>6. RecordOk(r, db) BY <1>1, <1>3 DEF RecordOk, CallOk
<1> QED BY <1>3, <1>4, <1>5, <1>6, QuietKeeps

LEMMA EnterKeeps == ASSUME StoreInv, NEW c \in Callers, Enter(c) PROVE StoreInv'
<1>1. call[c] \in CallRec /\ CallOk(c) BY DEF StoreInv, StoreTypes
<1>2. call[c].pc = "enter" /\ UNCHANGED <<kind, db, idFile, legacy, owner, proc, bound, started>>
    BY DEF Enter, StoreStill, AtCall
<1>3. /\ call[c].op \in StoreOps /\ call[c].proc \in Proc /\ call[c].commits = 0
      /\ ~call[c].attempted /\ call[c].result = "none"
    BY <1>1, <1>2 DEF CallOk
<1>4. ASSUME NEW result \in {"canceled", "failed"}, Returns(c, result), gate' = gate PROVE StoreInv'
  <2>1. PICK r : r = Answers(call[c], result) OBVIOUS
  <2>2. r \in CallRec /\ r.pc = "returned" /\ Same(r, call[c]) /\ r.result = result
    <3>1. result \in {"none", "ok", "canceled", "failed"} OBVIOUS
    <3> QED BY <1>1, <2>1, <3>1, ResultTyped
  <2>3. call' = [call EXCEPT ![c] = r] BY <1>4, <2>1 DEF Returns, Answers
  <2>4. CallFrame(c, r) BY <1>2, <1>4, <2>2, <2>3 DEF CallFrame, InTx, Same
  <2>5. RecordOk(r, db) BY <1>3, <2>2 DEF RecordOk, Same
  <2> QED BY <1>2, <2>2, <2>4, <2>5, QuietKeeps DEF Same
<1>5. ASSUME gate = Nil, gate' = c, CallGoes(c, "begin"), proc[call[c].proc].pc = "serve" PROVE StoreInv'
  <2>1. PICK r : r = [call[c] EXCEPT !.pc = "begin"] OBVIOUS
  <2>2. r \in CallRec /\ r.pc = "begin" /\ Same(r, call[c]) /\ r.result = call[c].result
    <3>1. "begin" \in {"idle", "enter", "returned"} \cup InTx BY DEF InTx
    <3> QED BY <1>1, <2>1, <3>1, PcTyped
  <2>3. call' = [call EXCEPT ![c] = r] BY <1>5, <2>1 DEF CallGoes
  <2>4. CallFrame(c, r) BY <1>2, <1>3, <1>5, <2>2, <2>3 DEF CallFrame, InTx, Same
  <2>5. RecordOk(r, db) BY <1>3, <2>2 DEF RecordOk, Same
  <2> QED BY <1>2, <2>2, <2>4, <2>5, QuietKeeps DEF Same
<1> QED BY <1>4, <1>5 DEF Enter

(* A caller leaves the gate with an answer. *)
LEMMA LeavesKeeps ==
    ASSUME StoreInv, NEW c \in Callers, NEW result \in {"none", "ok", "canceled", "failed"},
           call[c].pc \in InTx, Leaves(c, result), StoreStill,
           result = "ok" => call[c].commits = 1, result = "canceled" => call[c].commits = 0
    PROVE  StoreInv'
<1>1. call[c] \in CallRec /\ CallOk(c) BY DEF StoreInv, StoreTypes
<1>2. PICK r : r = Answers(call[c], result) OBVIOUS
<1>3. r \in CallRec /\ r.pc = "returned" /\ Same(r, call[c]) /\ r.result = result
    BY <1>1, <1>2, ResultTyped
<1>4. call' = [call EXCEPT ![c] = r] /\ gate' = Nil BY <1>2 DEF Leaves, Returns, Answers
<1>5. CallFrame(c, r) BY <1>3, <1>4 DEF CallFrame, InTx, Same, StoreStill
<1>6. call[c].op \in StoreOps /\ call[c].proc \in Proc /\ call[c].commits <= 1
    BY <1>1 DEF CallOk, InTx
<1>7. RecordOk(r, db) BY <1>3, <1>6 DEF RecordOk, Same
<1> QED BY <1>3, <1>5, <1>7, QuietKeeps DEF Same, StoreStill

(* A body or a check ends in a rollback, with an error and no commit. *)
LEMMA EndedKeeps ==
    ASSUME StoreInv, NEW c \in Callers, NEW err \in {"refused", "canceled", "failed"},
           call[c].pc \in {"body", "check"}, Ended(c, err), gate' = gate, StoreStill
    PROVE  StoreInv'
<1>1. call[c] \in CallRec /\ CallOk(c) BY DEF StoreInv, StoreTypes
<1>2. PICK r : r = Errs(call[c], err) OBVIOUS
<1>3. r \in CallRec /\ r.pc = "rollback" /\ Same(r, call[c]) /\ r.err = err
      /\ r.result = call[c].result
  <2>1. err \in {"none", "refused", "canceled", "failed"} OBVIOUS
  <2> QED BY <1>1, <1>2, <2>1, ErrTyped
<1>4. call' = [call EXCEPT ![c] = r] BY <1>2 DEF Ended, Errs
<1>5. CallFrame(c, r) BY <1>3, <1>4 DEF CallFrame, InTx, Same, StoreStill
<1>6. /\ call[c].op \in StoreOps /\ call[c].proc \in Proc /\ call[c].commits = 0
      /\ call[c].result = "none"
    BY <1>1 DEF CallOk
<1>7. RecordOk(r, db) BY <1>3, <1>6 DEF RecordOk, Same
<1> QED BY <1>3, <1>5, <1>7, QuietKeeps DEF Same, StoreStill

LEMMA BeginTxKeeps == ASSUME StoreInv, NEW c \in Callers, BeginTx(c) PROVE StoreInv'
<1>1. call[c] \in CallRec /\ CallOk(c) BY DEF StoreInv, StoreTypes
<1>2. call[c].pc = "begin" /\ StoreStill BY DEF BeginTx, AtCall
<1>3. /\ call[c].op \in StoreOps /\ call[c].proc \in Proc /\ call[c].commits = 0
      /\ ~call[c].attempted /\ call[c].result = "none"
    BY <1>1, <1>2 DEF CallOk
<1>4. ASSUME NEW result \in {"canceled", "failed"}, Leaves(c, result) PROVE StoreInv'
  <2>1. result \in {"none", "ok", "canceled", "failed"} /\ call[c].pc \in InTx
      BY <1>2 DEF InTx
  <2> QED BY <1>2, <1>3, <1>4, <2>1, LeavesKeeps
<1>5. ASSUME CallGoes(c, "body"), gate' = gate PROVE StoreInv'
  <2>1. PICK r : r = [call[c] EXCEPT !.pc = "body"] OBVIOUS
  <2>2. r \in CallRec /\ r.pc = "body" /\ Same(r, call[c]) /\ r.result = call[c].result
    <3>1. "body" \in {"idle", "enter", "returned"} \cup InTx BY DEF InTx
    <3> QED BY <1>1, <2>1, <3>1, PcTyped
  <2>3. call' = [call EXCEPT ![c] = r] BY <1>5, <2>1 DEF CallGoes
  <2>4. CallFrame(c, r) BY <1>2, <1>5, <2>2, <2>3 DEF CallFrame, InTx, Same, StoreStill
  <2>5. RecordOk(r, db) BY <1>3, <2>2 DEF RecordOk, Same
  <2> QED BY <1>2, <2>2, <2>4, <2>5, QuietKeeps DEF Same, StoreStill
<1> QED BY <1>4, <1>5 DEF BeginTx

(* The process of a caller in the gate serves an open database. *)
LEMMA GateOpen ==
    ASSUME StoreInv, NEW c \in Callers, call[c].pc \in InTx
    PROVE  /\ db # Nil /\ db \in Databases /\ FleetOk(db) /\ db.version # 0
<1>1. gate = c /\ c # Nil BY StoreAssumption DEF StoreInv, CallOk
<1>2. PICK p \in Proc : proc[p].pc = "serve" BY <1>1 DEF StoreInv, GateOk
<1>3. db # Nil /\ db.version = MaxVersion[kind] BY <1>2 DEF StoreInv, ProcOk, PastSchema
<1>4. MaxVersion[kind] # 0 BY DEF StoreInv, StoreTypes, MaxVersion
<1> QED BY <1>3, <1>4 DEF StoreInv, StoreTypes, DatabaseOk

LEMMA BodyKeeps == ASSUME StoreInv, NEW c \in Callers, RunBody(c) PROVE StoreInv'
<1>1. call[c] \in CallRec /\ CallOk(c) BY DEF StoreInv, StoreTypes
<1>2. call[c].pc = "body" /\ gate' = gate /\ StoreStill BY DEF RunBody, AtCall
<1>3. /\ call[c].op \in StoreOps /\ call[c].proc \in Proc /\ call[c].commits = 0
      /\ ~call[c].attempted /\ call[c].result = "none"
    BY <1>1, <1>2 DEF CallOk
<1>4. PICK d : d = Body(db, call[c].op) OBVIOUS
<1>5. \/ d # Nil /\ call' = [call EXCEPT ![c].pc = "check", ![c].tx = d]
      \/ \E err \in {"refused", "canceled", "failed"} : Ended(c, err)
    BY <1>4 DEF RunBody
<1>6. CASE \E err \in {"refused", "canceled", "failed"} : Ended(c, err)
    BY <1>2, <1>6, EndedKeeps
<1>7. CASE d # Nil /\ call' = [call EXCEPT ![c].pc = "check", ![c].tx = d]
  <2>1. db \in Databases /\ FleetOk(db) BY <1>2, GateOpen DEF InTx
  <2>2. d \in Databases /\ Evolves(db, d) BY <1>3, <1>4, <1>7, <2>1, BodyEvolves
  <2>3. PICK r : r = [call[c] EXCEPT !.pc = "check", !.tx = d] OBVIOUS
  <2>4. /\ r \in CallRec /\ r.pc = "check" /\ r.op = call[c].op /\ r.proc = call[c].proc
        /\ r.tx = d /\ r.attempted = call[c].attempted /\ r.result = call[c].result
        /\ r.commits = call[c].commits
      BY <1>1, <2>2, <2>3 DEF CallRec, InTx
  <2>5. call' = [call EXCEPT ![c] = r] BY <1>7, <2>3
  <2>6. CallFrame(c, r) BY <1>2, <2>4, <2>5 DEF CallFrame, InTx, StoreStill
  <2>7. RecordOk(r, db) BY <1>3, <2>2, <2>4 DEF RecordOk
  <2> QED BY <1>2, <2>4, <2>6, <2>7, QuietKeeps DEF StoreStill
<1> QED BY <1>5, <1>6, <1>7

LEMMA CheckKeeps == ASSUME StoreInv, NEW c \in Callers, CheckContext(c) PROVE StoreInv'
<1>1. call[c] \in CallRec /\ CallOk(c) BY DEF StoreInv, StoreTypes
<1>2. call[c].pc = "check" /\ gate' = gate /\ StoreStill BY DEF CheckContext, AtCall
<1>3. /\ call[c].op \in StoreOps /\ call[c].proc \in Proc /\ call[c].commits = 0
      /\ ~call[c].attempted /\ call[c].result = "none"
      /\ call[c].tx \in Databases /\ Evolves(db, call[c].tx)
    BY <1>1, <1>2 DEF CallOk
<1>4. CASE Ended(c, "canceled") BY <1>2, <1>4, EndedKeeps
<1>5. CASE CallGoes(c, "commit")
  <2>1. PICK r : r = [call[c] EXCEPT !.pc = "commit"] OBVIOUS
  <2>2. r \in CallRec /\ r.pc = "commit" /\ Same(r, call[c]) /\ r.result = call[c].result
    <3>1. "commit" \in {"idle", "enter", "returned"} \cup InTx BY DEF InTx
    <3> QED BY <1>1, <2>1, <3>1, PcTyped
  <2>3. call' = [call EXCEPT ![c] = r] BY <1>5, <2>1 DEF CallGoes
  <2>4. CallFrame(c, r) BY <1>2, <2>2, <2>3 DEF CallFrame, InTx, Same, StoreStill
  <2>5. RecordOk(r, db) BY <1>3, <2>2 DEF RecordOk, Same
  <2> QED BY <1>2, <2>2, <2>4, <2>5, QuietKeeps DEF Same, StoreStill
<1> QED BY <1>4, <1>5 DEF CheckContext

Committed(r0, err, n) ==
    [r0 EXCEPT !.pc = "rollback", !.err = err, !.attempted = TRUE, !.commits = n]

LEMMA CommittedTyped ==
    ASSUME NEW r0 \in CallRec, NEW err \in {"none", "failed", "canceled"}, NEW n \in {0, 1},
           NEW r, r = Committed(r0, err, n)
    PROVE  /\ r \in CallRec /\ r.pc = "rollback" /\ r.op = r0.op /\ r.proc = r0.proc
           /\ r.err = err /\ r.attempted /\ r.result = r0.result /\ r.commits = n
<1>1. n \in Nat OBVIOUS
<1>2. PICK r1 : r1 = [r0 EXCEPT !.pc = "rollback", !.err = err] OBVIOUS
<1>3. /\ r1 \in CallRec /\ r1.pc = "rollback" /\ r1.op = r0.op /\ r1.proc = r0.proc
      /\ r1.err = err /\ r1.result = r0.result
    BY <1>2 DEF CallRec, InTx
<1>4. PICK r2 : r2 = [r1 EXCEPT !.commits = n] OBVIOUS
<1>5. /\ r2 \in CallRec /\ r2.pc = "rollback" /\ r2.op = r0.op /\ r2.proc = r0.proc
      /\ r2.err = err /\ r2.result = r0.result /\ r2.commits = n
    BY <1>1, <1>3, <1>4 DEF CallRec
<1>6. r = [r2 EXCEPT !.attempted = TRUE] BY <1>2, <1>4 DEF Committed, CallRec
<1> QED BY <1>5, <1>6 DEF CallRec

LEMMA AgainTyped ==
    ASSUME NEW r0 \in CallRec, NEW r, r = Again(r0)
    PROVE  /\ r \in CallRec /\ r.pc = "enter" /\ r.op = r0.op /\ r.proc = r0.proc
           /\ ~r.attempted /\ r.result = "none" /\ r.commits = r0.commits
<1> DEFINE n == r0.attempt + 1
<1>1. n \in Nat BY DEF CallRec
<1>2. r = [r0 EXCEPT !.pc = "enter", !.attempt = n, !.expired = FALSE, !.tx = Nil,
                     !.attempted = FALSE, !.err = "none", !.result = "none"]
    BY DEF Again
<1> HIDE DEF n
<1>3. PICK r1 : r1 = [r0 EXCEPT !.pc = "enter", !.attempt = n, !.err = "none", !.result = "none"]
    OBVIOUS
<1>4. /\ r1 \in CallRec /\ r1.pc = "enter" /\ r1.op = r0.op /\ r1.proc = r0.proc
      /\ r1.result = "none" /\ r1.commits = r0.commits
    BY <1>1, <1>3 DEF CallRec, InTx
<1>5. PICK r2 : r2 = [r1 EXCEPT !.tx = Nil, !.expired = FALSE] OBVIOUS
<1>6. /\ r2 \in CallRec /\ r2.pc = "enter" /\ r2.op = r0.op /\ r2.proc = r0.proc
      /\ r2.result = "none" /\ r2.commits = r0.commits
    BY <1>4, <1>5 DEF CallRec
<1>7. r = [r2 EXCEPT !.attempted = FALSE] BY <1>2, <1>3, <1>5 DEF CallRec
<1> QED BY <1>6, <1>7 DEF CallRec

LEMMA CommitKeeps == ASSUME StoreInv, NEW c \in Callers, Commit(c) PROVE StoreInv'
<1>1. call[c] \in CallRec /\ CallOk(c) /\ DatabaseOk BY DEF StoreInv, StoreTypes
<1>2. PICK durable \in BOOLEAN, err \in {"none", "failed", "canceled"} :
        /\ call[c].pc = "commit" /\ (err = "none" => durable)
        /\ IF durable THEN Durable(call[c].tx) ELSE UNCHANGED <<db, bound>>
        /\ call' = [call EXCEPT ![c].pc = "rollback", ![c].err = err, ![c].attempted = TRUE,
                                ![c].commits = IF durable THEN call[c].commits + 1 ELSE call[c].commits]
        /\ UNCHANGED <<kind, idFile, legacy, owner, proc, gate, started, called>>
    BY DEF Commit, AtCall
<1>3. /\ call[c].op \in StoreOps /\ call[c].proc \in Proc /\ call[c].commits = 0
      /\ ~call[c].attempted /\ call[c].result = "none"
      /\ call[c].tx \in Databases /\ Evolves(db, call[c].tx)
    BY <1>1, <1>2 DEF CallOk
<1>4. PICK n \in {0, 1} : n = IF durable THEN 1 ELSE 0 OBVIOUS
<1>5. PICK r : r = Committed(call[c], err, n) OBVIOUS
<1>6. /\ r \in CallRec /\ r.pc = "rollback" /\ r.op = call[c].op /\ r.proc = call[c].proc
      /\ r.err = err /\ r.attempted /\ r.result = call[c].result /\ r.commits = n
    BY <1>1, <1>5, CommittedTyped
<1>7. call' = [call EXCEPT ![c] = r]
  <2>1. n = IF durable THEN call[c].commits + 1 ELSE call[c].commits BY <1>3, <1>4
  <2>2. r = [call[c] EXCEPT !.pc = "rollback", !.err = err, !.attempted = TRUE,
                !.commits = IF durable THEN call[c].commits + 1 ELSE call[c].commits]
      BY <1>5, <2>1 DEF Committed
  <2> QED BY <1>2, <2>2, Zenon
<1>8. db # Nil /\ db \in Databases /\ db.version # 0 BY <1>2, GateOpen DEF InTx
<1>9. /\ DatabaseOk' /\ db' \in Databases /\ db'.version = db.version
  <2>1. CASE ~durable BY <1>1, <1>2, <1>8, <2>1 DEF DatabaseOk, SchemaOk
  <2>2. CASE durable
    <3>1. PICK d : d = call[c].tx OBVIOUS
    <3>2. d # Nil /\ Durable(d) /\ Evolves(db, d) /\ kind' = kind /\ idFile' = idFile
        BY <1>2, <1>3, <2>2, <3>1, StoreAssumption
    <3> QED BY <1>1, <1>8, <3>2, EvolvedOk
  <2> QED BY <2>1, <2>2
<1>10. CallFrame(c, r) BY <1>2, <1>6, <1>7, <1>9 DEF CallFrame, InTx
<1>11. RecordOk(r, db') BY <1>2, <1>3, <1>4, <1>6 DEF RecordOk
<1> QED BY <1>6, <1>9, <1>10, <1>11, CallFrameKeeps

LEMMA RollbackKeeps == ASSUME StoreInv, NEW c \in Callers, Rollback(c) PROVE StoreInv'
<1>1. call[c] \in CallRec /\ CallOk(c) BY DEF StoreInv, StoreTypes
<1>2. call[c].pc = "rollback" /\ StoreStill BY DEF Rollback, AtCall
<1>3. PICK rolledBack \in BOOLEAN :
        Leaves(c, IF call[c].err = "none" THEN "ok"
                  ELSE IF Certified(call[c].attempted, rolledBack, call[c].err) THEN "canceled"
                  ELSE "failed")
    BY DEF Rollback
<1>4. PICK result \in {"none", "ok", "canceled", "failed"} :
        result = IF call[c].err = "none" THEN "ok"
                 ELSE IF Certified(call[c].attempted, rolledBack, call[c].err) THEN "canceled"
                 ELSE "failed"
    OBVIOUS
<1>5. result = "ok" => call[c].commits = 1 BY <1>1, <1>2, <1>4 DEF CallOk
<1>6. result = "canceled" => call[c].commits = 0 BY <1>1, <1>2, <1>4 DEF CallOk, Certified
<1>7. Leaves(c, result) /\ call[c].pc \in InTx BY <1>2, <1>3, <1>4 DEF InTx
<1> QED BY <1>2, <1>5, <1>6, <1>7, LeavesKeeps

LEMMA RetryKeeps == ASSUME StoreInv, NEW c \in Callers, Retry(c) PROVE StoreInv'
<1>1. call[c] \in CallRec /\ CallOk(c) BY DEF StoreInv, StoreTypes
<1>3. PICK r : r = Again(call[c]) OBVIOUS
<1>4. /\ call' = [call EXCEPT ![c] = r] /\ call[c].pc = "returned" /\ gate' = gate /\ StoreStill
      /\ call[c].result = "canceled"
    BY <1>3 DEF Retry, AtCall, MayRetry
<1>6. /\ r \in CallRec /\ r.pc = "enter" /\ r.op = call[c].op /\ r.proc = call[c].proc
      /\ ~r.attempted /\ r.result = "none" /\ r.commits = call[c].commits
    BY <1>1, <1>3, AgainTyped
<1>7. call[c].op \in StoreOps /\ call[c].proc \in Proc /\ call[c].commits = 0
    BY <1>1, <1>4 DEF CallOk
<1>8. CallFrame(c, r) BY <1>4, <1>6 DEF CallFrame, InTx, StoreStill
<1>9. RecordOk(r, db) BY <1>6, <1>7 DEF RecordOk
<1> QED BY <1>4, <1>6, <1>8, <1>9, QuietKeeps DEF StoreStill

LEMMA FinishKeeps == ASSUME StoreInv, NEW c \in Callers, Finish(c) PROVE StoreInv'
<1>1. PICK r : r = NoCall OBVIOUS
<1>2. r \in CallRec /\ r.pc = "idle" /\ r.commits = 0 /\ r.result = "none"
    BY <1>1 DEF NoCall, CallRec
<1>3. /\ call' = [call EXCEPT ![c] = r] /\ call[c].pc = "returned" /\ gate' = gate /\ StoreStill
    BY <1>1 DEF Finish, AtCall
<1>4. CallFrame(c, r) BY <1>2, <1>3 DEF CallFrame, InTx, StoreStill
<1>5. RecordOk(r, db) BY <1>2 DEF RecordOk
<1> QED BY <1>3, <1>4, <1>5, QuietKeeps DEF StoreStill, InTx

(* StoreInv is an invariant of the store's specification. *)
LEMMA StoreInvariant == StoreSpec => []StoreInv
<1>1. StoreInv /\ [StoreNext]_storeVars => StoreInv'
  <2> SUFFICES ASSUME StoreInv, [StoreNext]_storeVars PROVE StoreInv'
      OBVIOUS
  <2>1. ASSUME NEW p \in Proc, ProcStep(p) PROVE StoreInv'
      BY <2>1, StartAndLockKeep, CreateKeeps, SchemaKeeps, ImportKeeps, LoadCloseExitKeep,
         ProcDiesKeeps DEF ProcStep
  <2>2. ASSUME NEW c \in Callers, CallStep(c) PROVE StoreInv'
      BY <2>2, CallKeeps, ExpireKeeps, EnterKeeps, BeginTxKeeps, BodyKeeps, CheckKeeps, CommitKeeps,
         RollbackKeeps, RetryKeeps, FinishKeeps DEF CallStep
  <2>3. CASE UNCHANGED storeVars
    <3>1. UNCHANGED <<kind, db, idFile, legacy, owner, proc, gate, call, bound, started>>
        BY <2>3 DEF storeVars
    <3>2. StoreTypes' BY <3>1 DEF StoreInv, StoreTypes
    <3>3. DatabaseOk' /\ GateOk' BY <3>1 DEF StoreInv, DatabaseOk, SchemaOk, GateOk
    <3>4. ASSUME NEW p \in Proc PROVE ProcOk(p)' BY <3>1 DEF StoreInv, ProcOk, PastSchema
    <3>5. ASSUME NEW c \in Callers PROVE CallOk(c)' BY <3>1 DEF StoreInv, CallOk, Evolves
    <3> QED BY <3>2, <3>3, <3>4, <3>5 DEF StoreInv
  <2> QED BY <2>1, <2>2, <2>3 DEF StoreNext
<1> QED BY <1>1, StoreStarts, PTL DEF StoreSpec

LEMMA FleetReads ==
    ASSUME NEW d \in Databases, FleetOk(d)
    PROVE  ReadFleet(d) = d /\ d # Nil
<1>1. Cardinality(d.nodes) \in Nat BY FS_CardinalityType DEF FleetOk
<1> QED BY <1>1, StoreAssumption DEF ReadFleet, FleetOk

LEMMA OpenableIff == StoreInv => (Openable <=> db # Nil /\ db.version # 0)
<1> SUFFICES ASSUME StoreInv, db # Nil PROVE Openable <=> db.version # 0
    BY DEF Openable
<1>1. db \in Databases /\ FleetOk(db) /\ SchemaOk(db)
    BY DEF StoreInv, StoreTypes, DatabaseOk
<1> QED BY <1>1, FleetReads DEF Openable, inspectSchema, SchemaOk

(***************************************************************************)
(* The store does what its answers say (store.go:54,                       *)
(* persistence_retry.go:11), and what is on the disk is either the empty   *)
(* file of a process that never committed a schema, which the next opening *)
(* refuses and with which nothing is lost, or a database that openStore    *)
(* and LoadFleet accept (identity.go:60, schema.go:102), for any number of *)
(* processes, callers, identities and nodes.                               *)
(***************************************************************************)
THEOREM StoreHonestAlways == StoreSpec => []StoreHonest
<1>1. StoreInv => StoreHonest
  <2> SUFFICES ASSUME StoreInv PROVE StoreHonest
      OBVIOUS
  <2>1. ASSUME NEW c \in Callers
        PROVE  /\ call[c].commits <= 1
               /\ call[c].result = "ok" => call[c].commits = 1
               /\ call[c].result = "canceled" => call[c].commits = 0
      BY DEF StoreInv, CallOk
  <2>2. ASSUME db # Nil
        PROVE  \/ /\ db = Blank /\ bound = {}
                  /\ \A p \in Proc : proc[p].pc \notin PastSchema
               \/ /\ Openable /\ db.tables = Required(kind, db.version)
                  /\ OneToOne(db.bindings) /\ bound = db.bindings
    <3>1. FleetOk(db) /\ SchemaOk(db) /\ bound = db.bindings
        BY <2>2 DEF StoreInv, DatabaseOk
    <3>2. CASE db.version = 0
      <4>1. db = Blank /\ bound = {} BY <3>1, <3>2 DEF SchemaOk, Blank
      <4>2. MaxVersion[kind] # 0 BY DEF StoreInv, StoreTypes, MaxVersion
      <4>3. \A p \in Proc : proc[p].pc \notin PastSchema
          BY <3>2, <4>2 DEF StoreInv, ProcOk
      <4> QED BY <4>1, <4>3
    <3>3. CASE db.version # 0
        BY <2>2, <3>1, <3>3, OpenableIff DEF FleetOk, SchemaOk
    <3> QED BY <3>2, <3>3
  <2> QED BY <2>1, <2>2 DEF StoreHonest
<1> QED BY <1>1, StoreInvariant, PTL

(***************************************************************************)
(* A database that has its first schema stays one that openStore and       *)
(* LoadFleet accept, in every step: an opening, a migration, an import, a  *)
(* transaction or its failure, a death (store.go:137, schema.go:102).      *)
(***************************************************************************)
THEOREM OpenableForGood == StoreSpec => [][Openable => Openable']_storeVars
<1>1. (StoreInv => (Openable <=> db # Nil /\ db.version # 0))' BY OpenableIff, PTL
<1>2. ASSUME StoreInv, StoreInv', [StoreNext]_storeVars, Openable PROVE Openable'
  <2> USE StoreAssumption
  <2>1. /\ db \in Databases /\ db.version # 0 /\ SchemaOk(db) /\ FleetOk(db)
        /\ kind \in {"coordinator", "node"} /\ idFile \in Nat
      BY <1>2, OpenableIff DEF StoreInv, StoreTypes, DatabaseOk
  <2>2. MaxVersion[kind] # 0 BY <2>1 DEF MaxVersion
  <2>3. ASSUME NEW p \in Proc, ProcStep(p) PROVE db' \in Databases /\ db'.version # 0
    <3>1. CASE OpenSchema(p)
      <4>1. proc[p].id = idFile BY <1>2, <3>1 DEF StoreInv, ProcOk, OpenSchema
      <4>2. db' = db \/ db' = initializeSchema(kind, db, idFile)
          BY <3>1, <4>1 DEF OpenSchema, Durable
      <4>3. db.version <= MaxVersion[kind] /\ db.tables = Required(kind, db.version) /\ db.server = idFile
          BY <2>1 DEF SchemaOk
      <4> QED BY <2>1, <2>2, <4>2, <4>3, SchemaMigrates
    <3>2. CASE ImportLegacy(p)
      <4>1. legacy \in SUBSET (Stable \X Instance) BY <1>2 DEF StoreInv, StoreTypes
      <4>2. db' = db \/ (ImportInto(db, legacy) # Nil /\ db' = ImportInto(db, legacy))
          BY <3>2 DEF ImportLegacy, Durable
      <4> QED BY <2>1, <4>1, <4>2, ImportEvolves DEF Evolves
    <3>3. CASE db' = db BY <2>1, <3>3
    <3> QED BY <2>1, <2>3, <3>1, <3>2, <3>3
        DEF ProcStep, StartProc, PublishIdentity, TakeLock, Precreate, LoadFleet, CloseStore, Exit, ProcDies
  <2>4. ASSUME NEW c \in Callers, CallStep(c) PROVE db' \in Databases /\ db'.version # 0
    <3>1. CASE Commit(c)
      <4>1. Evolves(db, call[c].tx) BY <1>2, <3>1 DEF StoreInv, CallOk, Commit, AtCall
      <4>2. db' = db \/ db' = call[c].tx BY <3>1 DEF Commit, Durable
      <4> QED BY <2>1, <4>1, <4>2 DEF Evolves
    <3>2. CASE db' = db BY <2>1, <3>2
    <3> QED BY <2>4, <3>1, <3>2
        DEF CallStep, Call, Expire, Enter, BeginTx, RunBody, CheckContext, Rollback, Retry, Finish, StoreStill
  <2>5. ASSUME UNCHANGED storeVars PROVE db' \in Databases /\ db'.version # 0
      BY <2>1, <2>5 DEF storeVars
  <2>6. db' \in Databases /\ db'.version # 0 BY <1>2, <2>3, <2>4, <2>5 DEF StoreNext
  <2>7. db' # Nil BY <2>6
  <2> QED BY <1>2, <1>1, <2>6, <2>7
<1> QED BY <1>2, StoreInvariant, PTL DEF StoreSpec

-----------------------------------------------------------------------------
(***************************************************************************)
(* The work on the tailnet's policy (HostInv).  What a command read last,  *)
(* and every update still under way, is of the live version or an earlier  *)
(* one; one of the live version changes nothing that is not the mesh's     *)
(* (Current).  An apply belongs to one command until it is recorded        *)
(* (Proposing), and its number is recorded only once its proposal lived.   *)
(* A removal may say that it succeeded only when the policy was seen or    *)
(* made clean after its plan (RemovalOk).  The host's commands keep a plan *)
(* from its making to its use (Fits).                                      *)
(***************************************************************************)
Kinds    == {"init", "setup", "remove", "cleanup"}
Jobs == [kind : Kinds \cup {None},
         pc : Places \cup {None},
         out : Outcomes \cup {None}, seen : SUBSET Entries, tag : Nat,
         want : SUBSET Entries, spare : Nat \cup {None}, apply : Nat,
         clean : BOOLEAN, keys : SUBSET KeyIds]
SavedApplies == [before : SUBSET Entries, proposed : {None} \cup SUBSET Entries,
                 kept : BOOLEAN]
PolicyUpdates == [kind : {"policy"}, tag : Nat, want : SUBSET Entries]
LateRequests == PolicyUpdates \cup [kind : {"device"}, device : Nat]

PolicyType ==
    /\ acl \in SUBSET Entries /\ etag \in Nat
    /\ late \in SUBSET LateRequests
    /\ done \in Nat /\ pending \in BOOLEAN
    /\ applies \in Seq(SavedApplies)
    /\ job \in [Cli -> Jobs]

CliOps == {"init", "start", "stop", "destroy", "setup", "cleanup"}
Waiting == {"intent", "stop", "request", "await", "stopped", "delete", "gone", "removal"}
Removing == Waiting \cup {"remote", "plan", "removing", "policyGone"}
CliPcs == Removing \cup {"idle", "save", "lock", "check", "policy", "launch", "unlock",
             "record", "purge", "wipe", "wipeState", "wipeConfig", "wipeRest",
             "wipeRecord", "wipeRoot", "tailnet"}
Clis == [op : CliOps \cup {None}, pc : CliPcs, file : Nat, device : Nat,
         policy : BOOLEAN, record : {None} \cup DestroyRecords, nonce : Nat]
DaemonPcs == {"off", "load", "guard", "check", "monitor", "network", "retain", "ready",
              "stopping"}
Daemons == [pc : DaemonPcs, file : Nat, nonce : Nat]

FilesType ==
    /\ coordinator \in BOOLEAN /\ root \in BOOLEAN /\ config \in BOOLEAN /\ lock \in BOOLEAN
    /\ roleFile \in Nat /\ destroy \in {None} \cup DestroyRecords
    /\ identity \in Nat /\ control \in Nat /\ request \in Nat /\ tsnet \in Nat
    /\ fresh \in Nat /\ daemon \in [Daemon -> Daemons]

(* A destroying command has its record, and one that is to remove the      *)
(* policy, which only a coordinator's may, has made its plan.              *)
Fits(c, j) ==
    /\ c.pc \in Removing \cup {"record"} => c.op \in {"stop", "destroy"}
    /\ c.policy => coordinator
    /\ c.pc = "removal" => c.policy
    /\ c.pc \in Removing /\ c.op = "destroy" => c.record \in DestroyRecords
    /\ c.op = "stop" /\ c.pc # "idle" =>
          c.pc \in {"stop", "request", "await", "stopped"} /\ c.policy = FALSE
    /\ c.policy /\ c.pc \in Waiting => j.pc = "planned" /\ j.out = None

(* What was read last decides what may be posted. *)
Current(tag, want) == tag <= etag /\ (tag = etag => want \ Mesh = acl \ Mesh)

Proposing(j) == j.kind = "init" /\ j.pc \in {"propose", "post"}

ApplyOk(j) ==
    /\ j.apply <= Len(applies)
    /\ j.pc = "complete" => j.apply \in lived
    /\ Proposing(j) => j.apply \in 1..Len(applies)
    /\ j.pc = "propose" /\ j.want = applies[j.apply].before => j.apply \in lived
    /\ j.pc = "post" /\ j.kind = "init" => applies[j.apply].proposed = j.want

RemovalOk(j) ==
    /\ j.pc \notin {"prepare", None} =>
          /\ j.want \cap Mesh = {}
          /\ acl \cap Mesh = {} => j.clean
          /\ j.want = j.seen => j.clean
    /\ j.out = "ok" => j.clean

JobOk(j) ==
    /\ Current(j.tag, j.want)
    /\ j.pc \in InitPlaces => j.kind = "init"
    /\ j.pc \in SetupPlaces => j.kind = "setup"
    /\ j.pc \in RemovePlaces => j.kind \in {"remove", "cleanup"}
    /\ j.pc = "post" => j.kind \in Kinds
    /\ ApplyOk(j)
    /\ j.kind \in {"remove", "cleanup"} => RemovalOk(j)

PolicyOk ==
    /\ acl \ Mesh = others
    /\ etag = 0 => acl \ Mesh = {}
    /\ \A r \in late : r.kind = "policy" => Current(r.tag, r.want)
    /\ \A k \in 1..Len(applies) : applies[k].proposed = acl => k \in lived
    /\ done # 0 => done \in lived
    /\ \A p \in Cli : JobOk(job[p])
    /\ \A p, q \in Cli : p # q /\ Proposing(job[p]) /\ Proposing(job[q])
                            => job[p].apply # job[q].apply
    /\ \A p \in Cli : job[p].out = "error" /\ job[p].pc = "revoke"
                            => \A k \in job[p].keys : <<p, k>> \notin authKeys

PolicyInv == PolicyType /\ PolicyOk

CliInv == cli \in [Cli -> Clis] /\ \A p \in Cli : Fits(cli[p], job[p])

HostInv == PolicyInv /\ FilesType /\ CliInv

-----------------------------------------------------------------------------
(* What becomes of a command's work when the policy is published. *)
Cleaned(j, new) == [j EXCEPT !.clean = @ \/ ~HasMesh(new)]

LEMMA CleanedFields ==
    ASSUME NEW j \in Jobs, NEW new
    PROVE  /\ Cleaned(j, new) \in Jobs
           /\ Cleaned(j, new).kind = j.kind /\ Cleaned(j, new).pc = j.pc
           /\ Cleaned(j, new).out = j.out /\ Cleaned(j, new).seen = j.seen
           /\ Cleaned(j, new).tag = j.tag /\ Cleaned(j, new).want = j.want
           /\ Cleaned(j, new).apply = j.apply /\ Cleaned(j, new).keys = j.keys
           /\ Cleaned(j, new).clean = (j.clean \/ ~HasMesh(new))
BY DEF Cleaned, Jobs, HasMesh

(* A job that is right stays right when another policy is published. *)
LEMMA JobPublished ==
    ASSUME PolicyType, NEW j \in Jobs, JobOk(j), NEW new,
           acl' = new, etag' = etag + 1, applies' = applies, lived \subseteq lived'
    PROVE  JobOk(Cleaned(j, new))'
<1> DEFINE k == Cleaned(j, new)
<1>1. /\ k \in Jobs /\ k.kind = j.kind /\ k.pc = j.pc /\ k.out = j.out /\ k.seen = j.seen
      /\ k.tag = j.tag /\ k.want = j.want /\ k.apply = j.apply
      /\ k.clean = (j.clean \/ ~HasMesh(new))
    BY CleanedFields
<1>2. j.tag \in Nat /\ etag \in Nat /\ j.clean \in BOOLEAN
    BY DEF Jobs, PolicyType
<1> HIDE DEF k
<1>3. Current(k.tag, k.want)'
    BY <1>1, <1>2 DEF JobOk, Current
<1>4. ApplyOk(k)'
    BY <1>1 DEF JobOk, ApplyOk, Proposing
<1>5. j.kind \in {"remove", "cleanup"} => RemovalOk(k)'
    BY <1>1, <1>2 DEF JobOk, RemovalOk, HasMesh
<1> QED  BY <1>1, <1>3, <1>4, <1>5 DEF JobOk, k

LEMMA JobStands ==
    ASSUME PolicyType, NEW j \in Jobs, JobOk(j),
           acl' = acl, etag' = etag, lived \subseteq lived', Len(applies') \in Nat,
           Len(applies) <= Len(applies'),
           \A i \in 1..Len(applies) : applies'[i].before = applies[i].before,
           Proposing(j) /\ j.pc = "post" => applies'[j.apply].proposed = applies[j.apply].proposed
    PROVE  JobOk(j)'
<1>1. Len(applies) \in Nat /\ j.apply \in Nat
    BY DEF PolicyType, Jobs
<1>2. ApplyOk(j)'
    BY <1>1 DEF JobOk, ApplyOk, Proposing, InitPlaces
<1> QED  BY <1>2 DEF JobOk, Current, RemovalOk

-----------------------------------------------------------------------------
(* The policy changes: the work of the commands is jobs, and what was in   *)
(* progress is now to be refused.                                          *)
LEMMA PublishKeeps ==
    ASSUME PolicyInv, NEW new \in SUBSET Entries, NEW jobs \in [Cli -> Jobs],
           Publish(new, jobs), others' = new \ Mesh,
           late' \subseteq late, UNCHANGED <<authKeys, done, pending, applies>>,
           \A q \in Cli : /\ jobs[q].apply = job[q].apply
                          /\ Proposing(jobs[q]) => Proposing(job[q])
                          /\ jobs[q].out = "error" /\ jobs[q].pc = "revoke" => jobs[q] = job[q]
                          /\ JobOk(Cleaned(jobs[q], new))'
    PROVE  PolicyInv'
<1>1. /\ acl' = new /\ etag' = etag + 1 /\ lived' = lived \cup Proposals(new)
      /\ job' = [q \in Cli |-> Cleaned(jobs[q], new)]
    BY DEF Publish, Cleaned
<1>2. ASSUME NEW q \in Cli
      PROVE  /\ job'[q] = Cleaned(jobs[q], new) /\ job'[q] \in Jobs
             /\ job'[q].kind = jobs[q].kind /\ job'[q].pc = jobs[q].pc
             /\ job'[q].out = jobs[q].out /\ job'[q].apply = jobs[q].apply
             /\ job'[q].keys = jobs[q].keys
    BY <1>1, CleanedFields
<1>3. PolicyType'
  <2>1. etag' \in Nat
      BY <1>1 DEF PolicyInv, PolicyType
  <2>2. job' \in [Cli -> Jobs]
      BY <1>1, <1>2
  <2> QED  BY <1>1, <2>1, <2>2 DEF PolicyInv, PolicyType
<1>4. (acl \ Mesh = others)' /\ (etag = 0 => acl \ Mesh = {})'
    BY <1>1 DEF PolicyInv, PolicyType
<1>5. ASSUME NEW r \in late', r.kind = "policy" PROVE Current(r.tag, r.want)'
  <2>1. r.tag \in Nat /\ etag \in Nat /\ r.tag <= etag
      BY <1>5 DEF PolicyInv, PolicyOk, PolicyType, LateRequests, PolicyUpdates, Current
  <2> QED  BY <1>1, <2>1 DEF Current
<1>6. /\ \A k \in 1..Len(applies') : applies'[k].proposed = acl' => k \in lived'
      /\ done' # 0 => done' \in lived'
    BY <1>1 DEF PolicyInv, PolicyOk, Proposals
<1>7. \A q \in Cli : JobOk(job[q])'
    BY <1>2
<1>8. ASSUME NEW p \in Cli, NEW q \in Cli, p # q, Proposing(job'[p]), Proposing(job'[q])
      PROVE  job'[p].apply # job'[q].apply
    BY <1>2, <1>8 DEF PolicyInv, PolicyOk, Proposing
<1>9. ASSUME NEW p \in Cli, job'[p].out = "error", job'[p].pc = "revoke"
      PROVE  \A k \in job'[p].keys : <<p, k>> \notin authKeys'
    BY <1>2, <1>9 DEF PolicyInv, PolicyOk
<1>10. (\A r \in late : r.kind = "policy" => Current(r.tag, r.want))'
    BY <1>5
<1>11. (\A p, q \in Cli : p # q /\ Proposing(job[p]) /\ Proposing(job[q])
                             => job[p].apply # job[q].apply)'
    BY <1>8 DEF Proposing
<1>12. (\A p \in Cli : job[p].out = "error" /\ job[p].pc = "revoke"
                             => \A k \in job[p].keys : <<p, k>> \notin authKeys)'
    BY <1>9
<1> QED  BY <1>3, <1>4, <1>10, <1>6, <1>7, <1>11, <1>12 DEF PolicyInv, PolicyOk

(* The policy stays, and one command goes on. *)
LEMMA OneJob ==
    ASSUME PolicyInv, NEW p \in Cli, NEW k \in Jobs, job' = [job EXCEPT ![p] = k],
           UNCHANGED <<acl, etag, others, applies>>, lived' = lived,
           late' \in SUBSET LateRequests,
           \A r \in late' : r.kind = "policy" => Current(r.tag, r.want),
           pending' \in BOOLEAN, done' \in Nat, done' # 0 => done' \in lived,
           JobOk(k),
           Proposing(k) => Proposing(job[p]) /\ k.apply = job[p].apply,
           \A q \in Cli \ {p} : \A i \in KeyIds : <<q, i>> \in authKeys' => <<q, i>> \in authKeys,
           k.out = "error" /\ k.pc = "revoke" => \A i \in k.keys : <<p, i>> \notin authKeys'
    PROVE  PolicyInv'
<1>1. ASSUME NEW q \in Cli
      PROVE  job'[q] = IF q = p THEN k ELSE job[q]
    BY DEF PolicyInv, PolicyType
<1>2. PolicyType'
    BY DEF PolicyInv, PolicyType
<1>3. ASSUME NEW j \in Jobs, JobOk(j) PROVE JobOk(j)'
    BY <1>3 DEF JobOk, Current, ApplyOk, RemovalOk
<1>4. \A q \in Cli : JobOk(job[q])'
    BY <1>1, <1>3 DEF PolicyInv, PolicyOk, PolicyType
<1>5. (\A r \in late : r.kind = "policy" => Current(r.tag, r.want))'
    BY DEF Current
<1>6. ASSUME NEW u \in Cli, NEW q \in Cli, u # q, Proposing(job'[u]), Proposing(job'[q])
      PROVE  job'[u].apply # job'[q].apply
    BY <1>1, <1>6 DEF PolicyInv, PolicyOk
<1>7. ASSUME NEW q \in Cli, job'[q].out = "error", job'[q].pc = "revoke"
      PROVE  \A i \in job'[q].keys : <<q, i>> \notin authKeys'
  <2>1. CASE q = p
      BY <1>1, <1>7, <2>1
  <2>2. CASE q # p
    <3>1. job'[q] = job[q] /\ job[q].keys \subseteq KeyIds
        BY <1>1, <2>2 DEF PolicyInv, PolicyType, Jobs
    <3> QED  BY <3>1, <2>2, <1>7 DEF PolicyInv, PolicyOk
  <2> QED  BY <2>1, <2>2
<1>8. (\A u, q \in Cli : u # q /\ Proposing(job[u]) /\ Proposing(job[q])
                             => job[u].apply # job[q].apply)'
    BY <1>6 DEF Proposing
<1>9. (\A q \in Cli : job[q].out = "error" /\ job[q].pc = "revoke"
                             => \A i \in job[q].keys : <<q, i>> \notin authKeys)'
    BY <1>7
<1> QED  BY <1>2, <1>4, <1>5, <1>8, <1>9 DEF PolicyInv, PolicyOk

-----------------------------------------------------------------------------
(* Steps of a command that leave the policy as it is. *)
Moved(j, x) == [j EXCEPT !.pc = x]
Finished(j, x) == [j EXCEPT !.out = x]

LEMMA MovedFields ==
    ASSUME NEW j \in Jobs, NEW x \in Places
    PROVE  /\ Moved(j, x) \in Jobs /\ Moved(j, x).pc = x
           /\ Moved(j, x).kind = j.kind /\ Moved(j, x).out = j.out
           /\ Moved(j, x).seen = j.seen /\ Moved(j, x).tag = j.tag
           /\ Moved(j, x).want = j.want /\ Moved(j, x).apply = j.apply
           /\ Moved(j, x).clean = j.clean /\ Moved(j, x).keys = j.keys
BY DEF Moved, Jobs

LEMMA EndedFields ==
    ASSUME NEW j \in Jobs, NEW x \in Outcomes
    PROVE  /\ Finished(j, x) \in Jobs /\ Finished(j, x).out = x
           /\ Finished(j, x).kind = j.kind /\ Finished(j, x).pc = j.pc
           /\ Finished(j, x).seen = j.seen /\ Finished(j, x).tag = j.tag
           /\ Finished(j, x).want = j.want /\ Finished(j, x).apply = j.apply
           /\ Finished(j, x).clean = j.clean /\ Finished(j, x).keys = j.keys
BY DEF Finished, Jobs

LEMMA GoMoves ==
    ASSUME PolicyType, NEW p \in Cli, NEW x
    PROVE  Go(p, x) = [job EXCEPT ![p] = Moved(job[p], x)]
BY DEF Go, Moved, PolicyType

LEMMA EndsEnds ==
    ASSUME PolicyType, NEW p \in Cli, NEW x
    PROVE  Ends(p, x) = [job EXCEPT ![p] = Finished(job[p], x)]
BY DEF Ends, Finished, PolicyType

LEMMA MovedOk ==
    ASSUME NEW j \in Jobs, JobOk(j), NEW x \in Places,
           \/ j.kind = "init" /\ x \in InitPlaces \ {"complete", "propose"}
           \/ j.kind = "setup" /\ x \in SetupPlaces \cup {"post"}
           \/ /\ j.kind \in {"remove", "cleanup"}
              /\ j.pc \in (RemovePlaces \ {"prepare"}) \cup {"post"}
              /\ x \in (RemovePlaces \ {"prepare"}) \cup {"post"}
    PROVE  JobOk(Moved(j, x)) /\ ~Proposing(Moved(j, x))
<1>1. /\ Moved(j, x) \in Jobs /\ Moved(j, x).pc = x
      /\ Moved(j, x).kind = j.kind /\ Moved(j, x).out = j.out
      /\ Moved(j, x).seen = j.seen /\ Moved(j, x).tag = j.tag
      /\ Moved(j, x).want = j.want /\ Moved(j, x).apply = j.apply
      /\ Moved(j, x).clean = j.clean
    BY MovedFields
<1>2. ASSUME NEW k \in Jobs, k.pc = x, k.kind = j.kind, k.out = j.out, k.seen = j.seen,
             k.tag = j.tag, k.want = j.want, k.apply = j.apply, k.clean = j.clean
      PROVE  JobOk(k) /\ ~Proposing(k)
  <2>1. ~Proposing(k) /\ (x = "complete" => FALSE) /\ (x = "propose" => FALSE)
        /\ (x = "post" => k.kind # "init")
      BY <1>2 DEF Proposing, InitPlaces, SetupPlaces, RemovePlaces
  <2>2. ApplyOk(k)
      BY <1>2, <2>1 DEF JobOk, ApplyOk
  <2>3. k.kind \in {"remove", "cleanup"} => RemovalOk(k)
    <3>1. ASSUME k.kind \in {"remove", "cleanup"}
          PROVE  j.pc \notin {"prepare", None}
        BY <3>1, <1>2, PolicyAssumption DEF RemovePlaces, Places
    <3> QED  BY <3>1, <1>2 DEF JobOk, RemovalOk
  <2>4. /\ k.pc \in InitPlaces => k.kind = "init"
        /\ k.pc \in SetupPlaces => k.kind = "setup"
        /\ k.pc \in RemovePlaces => k.kind \in {"remove", "cleanup"}
      BY <1>2 DEF InitPlaces, SetupPlaces, RemovePlaces
  <2> QED  BY <1>2, <2>1, <2>2, <2>3, <2>4 DEF JobOk, Kinds
<1> HIDE DEF Moved
<1> QED  BY <1>1, <1>2

LEMMA EndedOk ==
    ASSUME NEW j \in Jobs, JobOk(j), NEW x \in Outcomes,
           x = "ok" /\ j.kind \in {"remove", "cleanup"} => j.clean
    PROVE  JobOk(Finished(j, x)) /\ (Proposing(Finished(j, x)) <=> Proposing(j))
<1>1. /\ Finished(j, x) \in Jobs /\ Finished(j, x).out = x
      /\ Finished(j, x).kind = j.kind /\ Finished(j, x).pc = j.pc
      /\ Finished(j, x).seen = j.seen /\ Finished(j, x).tag = j.tag
      /\ Finished(j, x).want = j.want /\ Finished(j, x).apply = j.apply
      /\ Finished(j, x).clean = j.clean
    BY EndedFields
<1> HIDE DEF Finished
<1> QED  BY <1>1 DEF JobOk, Current, ApplyOk, RemovalOk, Proposing

(* The frame of steps that only move or end a command. *)
Quiet == UNCHANGED <<acl, etag, others, applies, lived, late, authKeys>>

LEMMA QuietJob ==
    ASSUME PolicyInv, NEW p \in Cli, NEW k \in Jobs, job' = [job EXCEPT ![p] = k], Quiet,
           pending' \in BOOLEAN, done' \in Nat, done' # 0 => done' \in lived,
           JobOk(k),
           Proposing(k) => Proposing(job[p]) /\ k.apply = job[p].apply,
           k.out = "error" => k.pc # "revoke"
    PROVE  PolicyInv'
<1>1. /\ late' \in SUBSET LateRequests
      /\ \A r \in late' : r.kind = "policy" => Current(r.tag, r.want)
      /\ \A q \in Cli \ {p} : \A i \in KeyIds : <<q, i>> \in authKeys' => <<q, i>> \in authKeys
    BY DEF Quiet, PolicyInv, PolicyOk, PolicyType
<1> QED  BY <1>1, OneJob DEF Quiet

LEMMA RefusedKeeps ==
    ASSUME PolicyInv, NEW p \in Cli, Refused(p), job[p].pc # "revoke"
    PROVE  PolicyInv'
<1>1. job[p] \in Jobs /\ JobOk(job[p]) /\ "error" \in Outcomes
    BY DEF PolicyInv, PolicyType, PolicyOk, Outcomes
<1>2. job' = [job EXCEPT ![p] = Finished(job[p], "error")]
    BY EndsEnds DEF Refused, PolicyInv
<1>3. /\ JobOk(Finished(job[p], "error"))
      /\ Proposing(Finished(job[p], "error")) => Proposing(job[p])
      /\ Finished(job[p], "error") \in Jobs /\ Finished(job[p], "error").apply = job[p].apply
      /\ Finished(job[p], "error").pc # "revoke"
    BY <1>1, EndedOk, EndedFields
<1>4. Quiet /\ pending' \in BOOLEAN /\ done' \in Nat /\ (done' # 0 => done' \in lived)
    BY DEF Refused, Quiet, tailnetVars, fileVars, PolicyInv, PolicyType, PolicyOk
<1> HIDE DEF Finished
<1> QED  BY <1>1, <1>2, <1>3, <1>4, QuietJob

LEMMA DoneKeeps ==
    ASSUME PolicyInv, NEW p \in Cli, job' = Ends(p, "ok"), UNCHANGED <<tailnetVars, fileVars>>,
           job[p].kind \in {"remove", "cleanup"} => job[p].clean
    PROVE  PolicyInv'
<1>1. job[p] \in Jobs /\ JobOk(job[p]) /\ "ok" \in Outcomes
    BY DEF PolicyInv, PolicyType, PolicyOk, Outcomes
<1>2. job' = [job EXCEPT ![p] = Finished(job[p], "ok")]
    BY EndsEnds DEF PolicyInv
<1>3. /\ JobOk(Finished(job[p], "ok"))
      /\ Proposing(Finished(job[p], "ok")) => Proposing(job[p])
      /\ Finished(job[p], "ok") \in Jobs /\ Finished(job[p], "ok").apply = job[p].apply
      /\ Finished(job[p], "ok").out = "ok"
    BY <1>1, EndedOk, EndedFields
<1>4. Quiet /\ pending' \in BOOLEAN /\ done' \in Nat /\ (done' # 0 => done' \in lived)
    BY DEF Quiet, tailnetVars, fileVars, PolicyInv, PolicyType, PolicyOk
<1> HIDE DEF Finished
<1> QED  BY <1>1, <1>2, <1>3, <1>4, QuietJob

LEMMA MovesKeep ==
    ASSUME PolicyInv, NEW p \in Cli, NEW x \in Places, job' = Go(p, x), job[p].out = None,
           Quiet, pending' \in BOOLEAN, done' \in Nat, done' # 0 => done' \in lived,
           \/ job[p].kind = "init" /\ x \in InitPlaces \ {"complete", "propose"}
           \/ job[p].kind = "setup" /\ x \in SetupPlaces \cup {"post"}
           \/ /\ job[p].kind \in {"remove", "cleanup"}
              /\ job[p].pc \in (RemovePlaces \ {"prepare"}) \cup {"post"}
              /\ x \in (RemovePlaces \ {"prepare"}) \cup {"post"}
    PROVE  PolicyInv'
<1>1. job[p] \in Jobs /\ JobOk(job[p]) /\ None # "error"
    BY PolicyAssumption DEF PolicyInv, PolicyType, PolicyOk, Outcomes
<1>2. job' = [job EXCEPT ![p] = Moved(job[p], x)]
    BY GoMoves DEF PolicyInv
<1>3. /\ JobOk(Moved(job[p], x)) /\ ~Proposing(Moved(job[p], x))
      /\ Moved(job[p], x) \in Jobs /\ Moved(job[p], x).out # "error"
    BY <1>1, MovedOk, MovedFields
<1> HIDE DEF Moved
<1> QED  BY <1>1, <1>2, <1>3, QuietJob

(* What a command does depends on where it is. *)
LEMMA AtFacts ==
    ASSUME PolicyInv, NEW p \in Cli, NEW x, At(p, x)
    PROVE  /\ job[p] \in Jobs /\ JobOk(job[p]) /\ job[p].pc = x /\ job[p].out = None
           /\ x \in InitPlaces => job[p].kind = "init"
           /\ x \in SetupPlaces => job[p].kind = "setup"
           /\ x \in RemovePlaces => job[p].kind \in {"remove", "cleanup"}
BY DEF PolicyInv, PolicyType, PolicyOk, At, JobOk

LEMMA FilesKeep ==
    ASSUME PolicyInv, UNCHANGED fileVars
    PROVE  pending' \in BOOLEAN /\ done' \in Nat /\ (done' # 0 => done' \in lived)
BY DEF PolicyInv, PolicyType, PolicyOk, fileVars

LEMMA InitMoves ==
    ASSUME PolicyInv, NEW p \in Cli, NEW x \in InitPlaces \ {"complete", "propose"},
           NEW y \in InitPlaces, At(p, y), Moves(p, x)
    PROVE  PolicyInv'
<1>1. x \in Places /\ job[p].kind = "init" /\ job[p].out = None
    BY AtFacts DEF Places
<1>2. Quiet /\ job' = Go(p, x) /\ UNCHANGED fileVars
    BY DEF Moves, Quiet, tailnetVars, fileVars
<1> QED  BY <1>1, <1>2, FilesKeep, MovesKeep

LEMMA MarkersKeep == ASSUME PolicyInv, NEW p \in Cli, ReadMarkers(p) PROVE PolicyInv'
<1>1. "markers" \in InitPlaces /\ "reconcile" \in InitPlaces \ {"complete", "propose"}
      /\ "preview" \in InitPlaces \ {"complete", "propose"} /\ At(p, "markers")
    BY DEF InitPlaces, ReadMarkers
<1>2. job[p].kind = "init"
    BY <1>1, AtFacts
<1>3. CASE Moves(p, "reconcile")
    BY <1>1, <1>3, InitMoves
<1>4. CASE Moves(p, "preview")
    BY <1>1, <1>4, InitMoves
<1>5. CASE job' = Ends(p, "ok") /\ UNCHANGED <<tailnetVars, fileVars>>
    BY <1>2, <1>5, DoneKeeps
<1> QED  BY <1>3, <1>4, <1>5 DEF ReadMarkers

LEMMA ReconcileKeeps == ASSUME PolicyInv, NEW p \in Cli, ReconcilePending(p) PROVE PolicyInv'
<1>1. "reconcile" \in InitPlaces /\ "forget" \in InitPlaces \ {"complete", "propose"}
      /\ At(p, "reconcile") /\ "complete" \in Places
    BY DEF InitPlaces, Places, ReconcilePending
<1>2. /\ job[p] \in Jobs /\ JobOk(job[p]) /\ job[p].kind = "init" /\ job[p].pc = "reconcile"
      /\ job[p].out = None /\ None # "error"
    BY <1>1, AtFacts, PolicyAssumption DEF Outcomes
<1>3. CASE Refused(p)
    BY <1>2, <1>3, RefusedKeeps
<1>4. CASE Moves(p, "forget")
    BY <1>1, <1>4, InitMoves
<1>5. ASSUME NEW n \in Saved, acl = applies[n].proposed,
             job' = [Go(p, "complete") EXCEPT ![p].apply = n],
             UNCHANGED <<tailnetVars, fileVars>>
      PROVE  PolicyInv'
  <2> DEFINE k == [Moved(job[p], "complete") EXCEPT !.apply = n]
  <2>1. n \in 1..Len(applies) /\ n \in Nat /\ n <= Len(applies) /\ n \in lived
      BY <1>5 DEF Saved, PolicyInv, PolicyType, PolicyOk
  <2>2. Go(p, "complete") = [job EXCEPT ![p] = Moved(job[p], "complete")]
      BY GoMoves DEF PolicyInv
  <2>3. job' = [job EXCEPT ![p] = k]
      BY <1>5, <2>2 DEF PolicyInv, PolicyType
  <2>4. /\ k \in Jobs /\ k.pc = "complete" /\ k.apply = n /\ k.kind = "init"
        /\ k.out = None /\ k.tag = job[p].tag /\ k.want = job[p].want
      BY <1>1, <1>2, <2>1, MovedFields DEF Jobs
  <2>5. Quiet /\ UNCHANGED fileVars
      BY <1>5 DEF Quiet, tailnetVars, fileVars
  <2> HIDE DEF k
  <2>6. JobOk(k) /\ ~Proposing(k)
      BY <1>2, <2>1, <2>4
         DEF JobOk, ApplyOk, Proposing, InitPlaces, SetupPlaces, RemovePlaces
  <2> QED  BY <1>2, <2>3, <2>4, <2>5, <2>6, FilesKeep, QuietJob
<1> QED  BY <1>3, <1>4, <1>5 DEF ReconcilePending

LEMMA ForgetKeeps == ASSUME PolicyInv, NEW p \in Cli, ForgetPending(p) PROVE PolicyInv'
<1>1. At(p, "forget") /\ "forget" \in InitPlaces
      /\ "preview" \in InitPlaces \ {"complete", "propose"} /\ "preview" \in Places
    BY DEF ForgetPending, InitPlaces, Places
<1>2. job[p].kind = "init" /\ job[p].pc = "forget" /\ job[p].out = None
    BY <1>1, AtFacts
<1>3. CASE Refused(p)
    BY <1>2, <1>3, RefusedKeeps
<1>4. CASE /\ pending' = FALSE /\ job' = Go(p, "preview")
           /\ UNCHANGED <<tailnetVars, done, applies, lived>>
  <2>1. Quiet /\ pending' \in BOOLEAN /\ done' \in Nat /\ (done' # 0 => done' \in lived)
      BY <1>4 DEF Quiet, tailnetVars, PolicyInv, PolicyType, PolicyOk
  <2> QED  BY <1>1, <1>2, <1>4, <2>1, MovesKeep
<1> QED  BY <1>3, <1>4 DEF ForgetPending

LEMMA PreviewKeeps == ASSUME PolicyInv, NEW p \in Cli, Preview(p) PROVE PolicyInv'
<1> DEFINE k == [Moved(job[p], "confirm") EXCEPT !.seen = acl]
<1>1. At(p, "preview") /\ "preview" \in InitPlaces /\ "confirm" \in Places
      /\ acl \in SUBSET Entries /\ "confirm" \in InitPlaces \ {"complete", "propose"}
    BY DEF Preview, InitPlaces, Places, PolicyInv, PolicyType
<1>2. /\ job[p] \in Jobs /\ JobOk(job[p]) /\ job[p].kind = "init" /\ job[p].out = None
      /\ None # "error"
    BY <1>1, AtFacts, PolicyAssumption DEF Outcomes
<1>a. Go(p, "confirm") = [job EXCEPT ![p] = Moved(job[p], "confirm")]
    BY GoMoves DEF PolicyInv
<1>3. job' = [job EXCEPT ![p] = k]
    BY <1>a DEF Preview, PolicyInv, PolicyType
<1>4. /\ k \in Jobs /\ k.kind = "init" /\ k.pc = "confirm" /\ k.out = None
      /\ k.tag = job[p].tag /\ k.want = job[p].want /\ k.apply = job[p].apply
    BY <1>1, <1>2, MovedFields DEF Jobs
<1>5. Quiet /\ UNCHANGED fileVars
    BY DEF Preview, Quiet, tailnetVars, fileVars
<1> HIDE DEF k
<1>6. JobOk(k) /\ ~Proposing(k)
    BY <1>2, <1>4 DEF JobOk, ApplyOk, Proposing, InitPlaces, SetupPlaces, RemovePlaces
<1> QED  BY <1>2, <1>3, <1>4, <1>5, <1>6, FilesKeep, QuietJob

LEMMA ConfirmKeeps == ASSUME PolicyInv, NEW p \in Cli, Confirm(p) PROVE PolicyInv'
<1>1. At(p, "confirm") /\ "confirm" \in InitPlaces
      /\ "apply" \in InitPlaces \ {"complete", "propose"} /\ "apply" \in Places
    BY DEF Confirm, InitPlaces, Places
<1>2. job[p].kind = "init" /\ job[p].pc = "confirm" /\ job[p].out = None
    BY <1>1, AtFacts
<1>3. CASE Refused(p)
    BY <1>2, <1>3, RefusedKeeps
<1>4. CASE /\ pending' = TRUE /\ job' = Go(p, "apply")
           /\ UNCHANGED <<tailnetVars, done, applies, lived>>
  <2>1. Quiet /\ pending' \in BOOLEAN /\ done' \in Nat /\ (done' # 0 => done' \in lived)
      BY <1>4 DEF Quiet, tailnetVars, PolicyInv, PolicyType, PolicyOk
  <2> QED  BY <1>1, <1>2, <1>4, <2>1, MovesKeep
<1> QED  BY <1>3, <1>4 DEF Confirm

-----------------------------------------------------------------------------
(* The files of an apply. *)

(* The saved applies change: the proposal of p's own, or a new one. *)
LEMMA SavedJob ==
    ASSUME PolicyInv, NEW p \in Cli, NEW k \in Jobs, job' = [job EXCEPT ![p] = k],
           UNCHANGED <<acl, etag, others, late, authKeys, done, pending>>,
           applies' \in Seq(SavedApplies), Len(applies) <= Len(applies'),
           lived \subseteq lived',
           \A i \in 1..Len(applies) : applies'[i].before = applies[i].before,
           \A i \in 1..Len(applies') : applies'[i].proposed = acl => i \in lived',
           \A q \in Cli \ {p} : Proposing(job[q]) =>
                /\ applies'[job[q].apply].proposed = applies[job[q].apply].proposed
                /\ k.apply # job[q].apply,
           JobOk(k)', k.out # "error"
    PROVE  PolicyInv'
<1>1. ASSUME NEW q \in Cli
      PROVE  job'[q] = IF q = p THEN k ELSE job[q]
    BY DEF PolicyInv, PolicyType
<1>2. PolicyType'
    BY DEF PolicyInv, PolicyType
<1>3. ASSUME NEW q \in Cli PROVE JobOk(job[q])'
  <2>1. CASE q = p
      BY <1>1, <2>1
  <2>2. CASE q # p
    <3>1. job[q] \in Jobs /\ JobOk(job[q]) /\ PolicyType /\ Len(applies') \in Nat
        BY DEF PolicyInv, PolicyType, PolicyOk
    <3>2. \A j : j = job[q] => (JobOk(j)' <=> JobOk(job[q])')
        BY <1>1, <2>2
    <3>3. PICK j : j = job[q]
        OBVIOUS
    <3>4. JobOk(j)'
        BY <2>2, <3>1, <3>3, JobStands
    <3> QED  BY <3>2, <3>3, <3>4
  <2> QED  BY <2>1, <2>2
<1>4. (\A r \in late : r.kind = "policy" => Current(r.tag, r.want))'
    BY DEF PolicyInv, PolicyOk, Current
<1>5. ASSUME NEW u \in Cli, NEW q \in Cli, u # q, Proposing(job'[u]), Proposing(job'[q])
      PROVE  job'[u].apply # job'[q].apply
    BY <1>1, <1>5 DEF PolicyInv, PolicyOk
<1>6. (\A u, q \in Cli : u # q /\ Proposing(job[u]) /\ Proposing(job[q])
                             => job[u].apply # job[q].apply)'
    BY <1>5 DEF Proposing
<1>7. (\A q \in Cli : job[q].out = "error" /\ job[q].pc = "revoke"
                             => \A i \in job[q].keys : <<q, i>> \notin authKeys)'
    BY <1>1 DEF PolicyInv, PolicyOk
<1>8. (done # 0 => done \in lived)'
    BY DEF PolicyInv, PolicyOk
<1> QED  BY <1>2, <1>3, <1>4, <1>6, <1>7, <1>8 DEF PolicyInv, PolicyOk

LEMMA BackupKeeps == ASSUME PolicyInv, NEW p \in Cli, SaveBackup(p) PROVE PolicyInv'
<1>1. /\ At(p, "apply") /\ "apply" \in InitPlaces /\ "propose" \in Places
      /\ acl \in SUBSET Entries /\ mergePolicy(acl) \in SUBSET Entries /\ etag \in Nat
      /\ applies \in Seq(SavedApplies) /\ Len(applies) \in Nat
    BY DEF SaveBackup, InitPlaces, Places, PolicyInv, PolicyType, mergePolicy, Entries
<1>2. /\ job[p] \in Jobs /\ JobOk(job[p]) /\ job[p].kind = "init" /\ job[p].out = None
      /\ job[p].pc = "apply" /\ None # "error" /\ acl # None
    BY <1>1, AtFacts, PolicyAssumption DEF Outcomes
<1>3. CASE Refused(p)
    BY <1>2, <1>3, RefusedKeeps
<1>4. CASE ~Refused(p)
  <2> DEFINE a == [before |-> acl, proposed |-> None, kept |-> TRUE]
             j == [Moved(job[p], "propose") EXCEPT !.tag = etag, !.want = mergePolicy(acl),
                                                   !.apply = Len(applies) + 1]
  <2>1. /\ applies' = Append(applies, a)
        /\ job' = [Go(p, "propose") EXCEPT
                     ![p].tag = etag, ![p].want = mergePolicy(acl),
                     ![p].apply = Len(applies) + 1]
        /\ lived' = lived \cup (IF mergePolicy(acl) = acl THEN {Len(applies) + 1} ELSE {})
        /\ UNCHANGED <<tailnetVars, done, pending>>
      BY <1>4 DEF SaveBackup
  <2>2. Go(p, "propose") = [job EXCEPT ![p] = Moved(job[p], "propose")]
      BY GoMoves DEF PolicyInv
  <2>3. job' = [job EXCEPT ![p] = j]
      BY <2>1, <2>2 DEF PolicyInv, PolicyType
  <2>4. PICK k \in Jobs : /\ k.kind = "init" /\ k.pc = "propose" /\ k.out = None /\ k.tag = etag
                          /\ k.want = mergePolicy(acl) /\ k.apply = Len(applies) + 1
                          /\ job' = [job EXCEPT ![p] = k]
    <3>a. /\ Moved(job[p], "propose") \in Jobs /\ Moved(job[p], "propose").kind = "init"
          /\ Moved(job[p], "propose").pc = "propose" /\ Moved(job[p], "propose").out = None
          /\ Len(applies) + 1 \in Nat
        BY <1>1, <1>2, MovedFields
    <3>1. /\ j \in Jobs /\ j.kind = "init" /\ j.pc = "propose" /\ j.out = None
          /\ j.tag = etag /\ j.want = mergePolicy(acl) /\ j.apply = Len(applies) + 1
        BY <1>1, <3>a DEF Jobs
    <3> HIDE DEF j
    <3> QED  BY <2>3, <3>1
  <2>5. /\ applies' \in Seq(SavedApplies) /\ Len(applies') = Len(applies) + 1
        /\ applies'[Len(applies) + 1] = a
        /\ \A i \in 1..Len(applies) : applies'[i] = applies[i]
    <3>1. a \in SavedApplies
        BY <1>1 DEF SavedApplies
    <3> QED  BY <1>1, <2>1, <3>1
  <2>6. a.before = acl /\ a.proposed = None
      OBVIOUS
  <2>7. UNCHANGED <<acl, etag, others, late, authKeys, done, pending>>
      BY <2>1 DEF tailnetVars
  <2> HIDE DEF j, a
  <2>8. JobOk(k)'
    <3>1. ApplyOk(k)'
        BY <1>1, <2>1, <2>4, <2>5, <2>6 DEF ApplyOk, Proposing
    <3>2. Current(k.tag, k.want)'
        BY <1>1, <2>4, <2>7 DEF Current, mergePolicy
    <3> QED  BY <3>1, <3>2, <2>4 DEF JobOk, InitPlaces, SetupPlaces, RemovePlaces
  <2>9. \A i \in 1..Len(applies') : applies'[i].proposed = acl => i \in lived'
      BY <1>1, <1>2, <2>1, <2>5, <2>6 DEF PolicyInv, PolicyOk
  <2>10. ASSUME NEW q \in Cli \ {p}, Proposing(job[q])
         PROVE  /\ applies'[job[q].apply].proposed = applies[job[q].apply].proposed
                /\ k.apply # job[q].apply
    <3>1. job[q].apply \in 1..Len(applies)
        BY <2>10 DEF PolicyInv, PolicyOk, JobOk, ApplyOk
    <3> QED  BY <3>1, <1>1, <2>4, <2>5
  <2>11. /\ Len(applies) <= Len(applies') /\ lived \subseteq lived' /\ k.out # "error"
         /\ \A i \in 1..Len(applies) : applies'[i].before = applies[i].before
      BY <1>1, <1>2, <2>1, <2>4, <2>5
  <2> QED  BY <2>4, <2>5, <2>7, <2>8, <2>9, <2>10, <2>11, SavedJob
<1> QED  BY <1>3, <1>4

LEMMA ProposalKeeps == ASSUME PolicyInv, NEW p \in Cli, SaveProposal(p) PROVE PolicyInv'
<1> DEFINE n == job[p].apply
           x == IF job[p].want = applies[n].before THEN "complete" ELSE "post"
<1>1. /\ At(p, "propose") /\ "propose" \in InitPlaces /\ x \in Places
      /\ applies \in Seq(SavedApplies) /\ Len(applies) \in Nat
    BY DEF SaveProposal, InitPlaces, Places, PolicyInv, PolicyType
<1>2. /\ job[p] \in Jobs /\ JobOk(job[p]) /\ job[p].kind = "init" /\ job[p].out = None
      /\ job[p].pc = "propose" /\ None # "error" /\ job[p].want \in SUBSET Entries
    BY <1>1, AtFacts, PolicyAssumption DEF Outcomes, Jobs
<1>3. n \in 1..Len(applies) /\ n \in Nat /\ (x = "complete" => n \in lived)
    BY <1>2 DEF JobOk, ApplyOk, Proposing
<1>4. job' = [job EXCEPT ![p] = Moved(job[p], x)]
    BY GoMoves DEF SaveProposal, PolicyInv
<1>5. PICK k \in Jobs : /\ k.kind = "init" /\ k.pc = x /\ k.out = None /\ k.tag = job[p].tag
                        /\ k.want = job[p].want /\ k.apply = n
                        /\ job' = [job EXCEPT ![p] = k]
  <2>1. /\ Moved(job[p], x) \in Jobs /\ Moved(job[p], x).kind = "init"
        /\ Moved(job[p], x).pc = x /\ Moved(job[p], x).out = None
        /\ Moved(job[p], x).tag = job[p].tag /\ Moved(job[p], x).want = job[p].want
        /\ Moved(job[p], x).apply = n
      BY <1>1, <1>2, MovedFields
  <2> HIDE DEF x
  <2> QED  BY <1>4, <2>1
<1>6. /\ applies' \in Seq(SavedApplies) /\ Len(applies') = Len(applies)
      /\ \A i \in 1..Len(applies) :
            /\ applies'[i].before = applies[i].before
            /\ applies'[i].proposed = IF i = n THEN job[p].want ELSE applies[i].proposed
  <2>1. applies' = [applies EXCEPT ![n].proposed = job[p].want]
      BY DEF SaveProposal
  <2>2. applies[n] \in SavedApplies
      BY <1>1, <1>3
  <2>3. PICK a \in SavedApplies : /\ applies' = [applies EXCEPT ![n] = a]
                                  /\ a.before = applies[n].before
                                  /\ a.proposed = job[p].want
    <3>1. [applies[n] EXCEPT !.proposed = job[p].want] \in SavedApplies
        BY <1>2, <2>2 DEF SavedApplies
    <3> QED  BY <2>1, <2>2, <3>1 DEF SavedApplies
  <2>4. applies' \in Seq(SavedApplies) /\ Len(applies') = Len(applies)
      BY <1>1, <1>3, <2>3
  <2>5. \A i \in 1..Len(applies) : applies'[i] = IF i = n THEN a ELSE applies[i]
      BY <1>1, <1>3, <2>3
  <2> QED  BY <2>3, <2>4, <2>5
<1>7. /\ lived' = (IF acl = job[p].want THEN lived \cup {n} ELSE lived)
      /\ UNCHANGED <<acl, etag, others, late, authKeys, done, pending>>
    BY DEF SaveProposal, tailnetVars
<1>8. k.pc \in {"complete", "post"} /\ lived \subseteq lived'
    BY <1>5, <1>7
<1> HIDE DEF x
<1>9. JobOk(k)'
  <2>1. ApplyOk(k)'
      BY <1>1, <1>3, <1>5, <1>6, <1>7, <1>8 DEF ApplyOk, Proposing
  <2>2. Current(k.tag, k.want)'
      BY <1>2, <1>5, <1>7 DEF Current, JobOk
  <2> QED  BY <2>1, <2>2, <1>5, <1>8 DEF JobOk, Kinds, InitPlaces, SetupPlaces, RemovePlaces
<1>10. \A i \in 1..Len(applies') : applies'[i].proposed = acl => i \in lived'
    BY <1>6, <1>7 DEF PolicyInv, PolicyOk
<1>11. ASSUME NEW q \in Cli \ {p}, Proposing(job[q])
       PROVE  /\ applies'[job[q].apply].proposed = applies[job[q].apply].proposed
              /\ k.apply # job[q].apply
  <2>1. job[q].apply \in 1..Len(applies)
      BY <1>11 DEF PolicyInv, PolicyOk, JobOk, ApplyOk
  <2>2. Proposing(job[p]) /\ job[q].apply # n
      BY <1>2, <1>11 DEF Proposing, PolicyInv, PolicyOk
  <2> QED  BY <2>1, <2>2, <1>5, <1>6
<1>12. Len(applies) <= Len(applies') /\ k.out # "error"
    BY <1>1, <1>2, <1>5, <1>6
<1> QED  BY <1>4, <1>5, <1>6, <1>7, <1>8, <1>9, <1>10, <1>11, <1>12, SavedJob

LEMMA CompleteKeeps == ASSUME PolicyInv, NEW p \in Cli, RecordComplete(p) PROVE PolicyInv'
<1>1. At(p, "complete") /\ "complete" \in InitPlaces
      /\ "clear" \in InitPlaces \ {"complete", "propose"} /\ "clear" \in Places
    BY DEF RecordComplete, InitPlaces, Places
<1>2. /\ job[p] \in Jobs /\ JobOk(job[p]) /\ job[p].kind = "init" /\ job[p].pc = "complete"
      /\ job[p].out = None
    BY <1>1, AtFacts
<1>3. CASE Refused(p)
    BY <1>2, <1>3, RefusedKeeps
<1>4. CASE /\ done' = job[p].apply /\ job' = Go(p, "clear")
           /\ UNCHANGED <<tailnetVars, pending, applies, lived>>
  <2>1. job[p].apply \in lived /\ job[p].apply \in Nat
      BY <1>2 DEF JobOk, ApplyOk, Jobs
  <2>2. Quiet /\ pending' \in BOOLEAN /\ done' \in Nat /\ (done' # 0 => done' \in lived)
      BY <1>4, <2>1 DEF Quiet, tailnetVars, PolicyInv, PolicyType, PolicyOk
  <2> QED  BY <1>1, <1>2, <1>4, <2>2, MovesKeep
<1> QED  BY <1>3, <1>4 DEF RecordComplete

LEMMA ClearKeeps == ASSUME PolicyInv, NEW p \in Cli, ClearPending(p) PROVE PolicyInv'
<1> DEFINE x == IF pending THEN "ok" ELSE "error"
<1>1. At(p, "clear") /\ "clear" \in InitPlaces /\ x \in Outcomes
    BY DEF ClearPending, InitPlaces, Outcomes
<1>2. /\ job[p] \in Jobs /\ JobOk(job[p]) /\ job[p].kind = "init" /\ job[p].pc = "clear"
    BY <1>1, AtFacts
<1>3. job' = [job EXCEPT ![p] = Finished(job[p], x)]
    BY EndsEnds DEF ClearPending, PolicyInv
<1> HIDE DEF x
<1>4. /\ JobOk(Finished(job[p], x)) /\ (Proposing(Finished(job[p], x)) => Proposing(job[p]))
      /\ Finished(job[p], x) \in Jobs /\ Finished(job[p], x).apply = job[p].apply
      /\ Finished(job[p], x).pc # "revoke"
    BY <1>1, <1>2, EndedOk, EndedFields
<1>5. Quiet /\ pending' \in BOOLEAN /\ done' \in Nat /\ (done' # 0 => done' \in lived)
    BY DEF ClearPending, Quiet, tailnetVars, PolicyInv, PolicyType, PolicyOk
<1> HIDE DEF Finished
<1> QED  BY <1>3, <1>4, <1>5, QuietJob

(* A purge takes the files and leaves what has been. *)
LEMMA WipeKeeps == ASSUME PolicyInv, WipePolicyFiles PROVE PolicyInv'
<1>1. /\ applies \in Seq(SavedApplies) /\ Len(applies) \in Nat
      /\ \A i \in 1..Len(applies) : applies[i] \in SavedApplies
    BY DEF PolicyInv, PolicyType
<1>2. /\ applies' \in Seq(SavedApplies) /\ Len(applies') = Len(applies)
      /\ \A i \in 1..Len(applies) : /\ applies'[i].before = applies[i].before
                                    /\ applies'[i].proposed = applies[i].proposed
  <2>1. \A a \in SavedApplies : /\ [a EXCEPT !.kept = FALSE] \in SavedApplies
                                /\ [a EXCEPT !.kept = FALSE].before = a.before
                                /\ [a EXCEPT !.kept = FALSE].proposed = a.proposed
      BY DEF SavedApplies
  <2>2. applies' = [i \in 1..Len(applies) |-> [applies[i] EXCEPT !.kept = FALSE]]
      BY DEF WipePolicyFiles
  <2>3. \A i \in 1..Len(applies) : applies'[i] = [applies[i] EXCEPT !.kept = FALSE]
      BY <2>2
  <2>4. \A i \in 1..Len(applies) : applies'[i] \in SavedApplies
      BY <1>1, <2>1, <2>3
  <2>5. applies' \in [1..Len(applies) -> SavedApplies]
      BY <2>2, <2>3, <2>4
  <2>6. applies' \in Seq(SavedApplies) /\ Len(applies') = Len(applies)
      BY <1>1, <2>5
  <2> QED  BY <1>1, <2>1, <2>3, <2>6
<1>3. /\ UNCHANGED <<acl, etag, others, late, authKeys, lived, job>>
      /\ done' = 0 /\ pending' = FALSE
    BY DEF WipePolicyFiles, tailnetVars
<1>4. ASSUME NEW j \in Jobs, JobOk(j) PROVE JobOk(j)'
  <2>1. Len(applies) <= Len(applies') /\ Len(applies') \in Nat /\ lived \subseteq lived'
      BY <1>1, <1>2, <1>3
  <2>2. Proposing(j) /\ j.pc = "post" => applies'[j.apply].proposed = applies[j.apply].proposed
      BY <1>2, <1>4 DEF JobOk, ApplyOk
  <2> QED  BY <1>2, <1>3, <1>4, <2>1, <2>2, JobStands DEF PolicyInv
<1>5. \A p \in Cli : JobOk(job[p])'
  <2> SUFFICES ASSUME NEW p \in Cli PROVE JobOk(job[p])'
      OBVIOUS
  <2>1. PICK j \in Jobs : j = job[p] /\ JobOk(j)
      BY DEF PolicyInv, PolicyType, PolicyOk
  <2>2. JobOk(j)' /\ j = job'[p]
      BY <1>3, <1>4, <2>1
  <2> QED  BY <2>2
<1>6. PolicyType'
    BY <1>2, <1>3 DEF PolicyInv, PolicyType
<1>7. (\A r \in late : r.kind = "policy" => Current(r.tag, r.want))'
    BY <1>3 DEF PolicyInv, PolicyOk, Current
<1>8. (\A u, q \in Cli : u # q /\ Proposing(job[u]) /\ Proposing(job[q])
                             => job[u].apply # job[q].apply)'
    BY <1>3 DEF PolicyInv, PolicyOk, Proposing
<1>9. (\A k \in 1..Len(applies) : applies[k].proposed = acl => k \in lived)'
    BY <1>2, <1>3 DEF PolicyInv, PolicyOk
<1>10. /\ (acl \ Mesh = others)' /\ (etag = 0 => acl \ Mesh = {})' /\ (done # 0 => done \in lived)'
       /\ (\A q \in Cli : job[q].out = "error" /\ job[q].pc = "revoke"
                             => \A i \in job[q].keys : <<q, i>> \notin authKeys)'
    BY <1>3 DEF PolicyInv, PolicyOk
<1> QED  BY <1>5, <1>6, <1>7, <1>8, <1>9, <1>10 DEF PolicyInv, PolicyOk

-----------------------------------------------------------------------------
(* The update. *)
LEMMA SetupKeeps == ASSUME PolicyInv, NEW p \in Cli, Setup(p) PROVE PolicyInv'
<1> DEFINE x == IF mergePolicy(acl) = acl THEN "keys" ELSE "post"
           j == [Moved(job[p], x) EXCEPT !.tag = etag, !.want = mergePolicy(acl)]
<1>1. /\ At(p, "setup") /\ "setup" \in SetupPlaces /\ x \in Places
      /\ acl \in SUBSET Entries /\ mergePolicy(acl) \in SUBSET Entries /\ etag \in Nat
    BY DEF Setup, SetupPlaces, Places, PolicyInv, PolicyType, mergePolicy, Entries
<1>2. /\ job[p] \in Jobs /\ JobOk(job[p]) /\ job[p].kind = "setup" /\ job[p].out = None
      /\ None # "error"
    BY <1>1, AtFacts, PolicyAssumption DEF Outcomes
<1>3. Go(p, x) = [job EXCEPT ![p] = Moved(job[p], x)]
    BY GoMoves DEF PolicyInv
<1>4. job' = [job EXCEPT ![p] = j]
    BY <1>3 DEF Setup, PolicyInv, PolicyType
<1>5. /\ Moved(job[p], x) \in Jobs /\ Moved(job[p], x).kind = "setup"
      /\ Moved(job[p], x).pc = x /\ Moved(job[p], x).out = None
      /\ Moved(job[p], x).apply = job[p].apply
    BY <1>1, <1>2, MovedFields
<1>6. /\ j \in Jobs /\ j.kind = "setup" /\ j.pc = x /\ j.out = None /\ j.tag = etag
      /\ j.want = mergePolicy(acl) /\ j.apply = job[p].apply
    BY <1>1, <1>5 DEF Jobs
<1>7. x \in {"keys", "post"}
    OBVIOUS
<1> HIDE DEF j, x
<1>8. JobOk(j) /\ ~Proposing(j)
  <2>1. Current(j.tag, j.want)
      BY <1>1, <1>6 DEF Current, mergePolicy
  <2> QED  BY <1>2, <1>6, <1>7, <2>1
           DEF JobOk, ApplyOk, Proposing, Kinds, InitPlaces, SetupPlaces, RemovePlaces
<1>9. Quiet /\ UNCHANGED fileVars
    BY DEF Setup, Quiet, tailnetVars, fileVars
<1> QED  BY <1>2, <1>4, <1>6, <1>8, <1>9, FilesKeep, QuietJob

(* One command's update is published. *)
LEMMA OwnPublished ==
    ASSUME PolicyInv, NEW p \in Cli, NEW k \in Jobs, NEW new, new = job[p].want,
           Matches(job[p].tag), Publish(new, [job EXCEPT ![p] = k]),
           UNCHANGED <<late, others, authKeys, done, pending, applies>>,
           k.apply = job[p].apply, Proposing(k) => Proposing(job[p]),
           k.out = "error" => k.pc # "revoke",
           JobOk(k) \/ JobOk(Cleaned(k, new))'
    PROVE  PolicyInv'
<1>2. PICK jobs : jobs = [job EXCEPT ![p] = k]
    OBVIOUS
<1>3. /\ new \in SUBSET Entries /\ jobs \in [Cli -> Jobs] /\ job[p] \in Jobs /\ JobOk(job[p])
      /\ \A q \in Cli : jobs[q] = IF q = p THEN k ELSE job[q]
    BY <1>2 DEF PolicyInv, PolicyType, PolicyOk, Jobs
<1>4. Publish(new, jobs)
    BY <1>2
<1>5. others' = new \ Mesh
    BY <1>3 DEF JobOk, Current, Matches, PolicyInv, PolicyOk
<1>6. acl' = new /\ etag' = etag + 1 /\ lived \subseteq lived' /\ applies' = applies
    BY <1>4 DEF Publish
<1>7. ASSUME NEW q \in Cli PROVE JobOk(Cleaned(jobs[q], new))'
  <2>1. ASSUME NEW j \in Jobs, JobOk(j) PROVE JobOk(Cleaned(j, new))'
      BY <2>1, <1>6, JobPublished DEF PolicyInv
  <2>2. CASE q # p
    <3>1. jobs[q] = job[q] /\ job[q] \in Jobs /\ JobOk(job[q])
        BY <1>3, <2>2 DEF PolicyInv, PolicyType, PolicyOk
    <3>2. PICK j \in Jobs : j = jobs[q] /\ JobOk(j)
        BY <3>1
    <3> QED  BY <3>2, <2>1
  <2>3. CASE q = p /\ JobOk(k)
      BY <2>1, <2>3, <1>3
  <2>4. CASE q = p /\ JobOk(Cleaned(k, new))'
      BY <2>4, <1>3
  <2> QED  BY <2>2, <2>3, <2>4
<1>8. ASSUME NEW q \in Cli
      PROVE  /\ jobs[q].apply = job[q].apply
             /\ Proposing(jobs[q]) => Proposing(job[q])
             /\ jobs[q].out = "error" /\ jobs[q].pc = "revoke" => jobs[q] = job[q]
    BY <1>3
<1> QED  BY <1>3, <1>4, <1>5, <1>7, <1>8, PublishKeeps

(* What a command makes of its update: known to be done. *)
LEMMA UpdatedJob ==
    ASSUME PolicyInv, NEW p \in Cli, At(p, "post"), NEW new, new = job[p].want,
           acl' = new, etag' = etag + 1, lived' = lived \cup Proposals(new), applies' = applies
    PROVE  \E k \in Jobs : /\ Updated(p) = [job EXCEPT ![p] = k]
                           /\ k.apply = job[p].apply /\ ~Proposing(k) /\ k.out # "error"
                           /\ JobOk(k) \/ JobOk(Cleaned(k, new))'
<1>1. PICK j \in Jobs : j = job[p] /\ JobOk(j) /\ j.pc = "post" /\ j.out = None /\ j.kind \in Kinds
    BY AtFacts DEF JobOk
<1>2. None # "error" /\ j.tag \in Nat /\ etag \in Nat
    BY <1>1, PolicyAssumption DEF Outcomes, PolicyInv, PolicyType, Jobs
<1>3. CASE j.kind = "init"
  <2>1. PICK k \in Jobs : k = Moved(j, "complete")
      BY <1>1, MovedFields DEF Places, InitPlaces
  <2>2. Updated(p) = [job EXCEPT ![p] = k]
      BY <1>1, <1>3, <2>1, GoMoves DEF Updated, PolicyInv
  <2>3. /\ k.apply = j.apply /\ k.pc = "complete" /\ k.out = None /\ k.kind = "init"
        /\ k.tag = j.tag /\ k.want = j.want
      BY <1>1, <1>3, <2>1, MovedFields DEF Places, InitPlaces
  <2>4. j.apply \in Proposals(new) /\ j.apply <= Len(applies)
      BY <1>1, <1>3 DEF JobOk, ApplyOk, Proposing, Proposals
  <2>5. PICK c \in Jobs : /\ c = Cleaned(k, new) /\ c.apply = j.apply /\ c.pc = "complete"
                          /\ c.kind = "init" /\ c.tag = j.tag /\ c.want = j.want
      BY <2>3, CleanedFields
  <2>6. JobOk(c)'
    <3>1. Current(c.tag, c.want)'
        BY <1>1, <1>2, <2>5 DEF JobOk, Current
    <3>2. ApplyOk(c)'
        BY <2>4, <2>5 DEF ApplyOk, Proposing
    <3> QED  BY <2>5, <3>1, <3>2 DEF JobOk, InitPlaces, SetupPlaces, RemovePlaces
  <2>7. JobOk(Cleaned(k, new))'
      BY <2>5, <2>6
  <2> QED  BY <1>1, <1>2, <2>2, <2>3, <2>7 DEF Proposing
<1>4. CASE j.kind = "setup"
  <2>1. "keys" \in Places /\ "keys" \in SetupPlaces \cup {"post"}
      BY DEF Places, SetupPlaces
  <2>2. PICK k \in Jobs : k = Moved(j, "keys")
      BY <2>1, <1>1, MovedFields
  <2>3. Updated(p) = [job EXCEPT ![p] = k]
      BY <1>1, <1>4, <2>2, GoMoves DEF Updated, PolicyInv
  <2>4. k.apply = j.apply /\ k.out = None
      BY <1>1, <2>1, <2>2, MovedFields
  <2>5. JobOk(k) /\ ~Proposing(k)
      BY <1>1, <1>4, <2>1, <2>2, MovedOk
  <2> QED  BY <1>1, <1>2, <2>3, <2>4, <2>5
<1>5. CASE j.kind \in {"remove", "cleanup"}
  <2>1. PICK k \in Jobs : k = Finished(j, "ok")
      BY <1>1, EndedFields DEF Outcomes
  <2>2. Updated(p) = [job EXCEPT ![p] = k]
    <3>1. Updated(p) = Ends(p, "ok")
        BY <1>1, <1>5 DEF Updated
    <3> QED  BY <1>1, <3>1, <2>1, EndsEnds DEF PolicyInv
  <2>3. /\ k.apply = j.apply /\ k.pc = "post" /\ k.out = "ok" /\ k.kind = j.kind
        /\ k.tag = j.tag /\ k.want = j.want
      BY <1>1, <2>1, EndedFields DEF Outcomes
  <2>4. j.want \cap Mesh = {} /\ ~HasMesh(new)
      BY <1>1, <1>5, PolicyAssumption DEF JobOk, RemovalOk, HasMesh, Places
  <2>5. PICK c \in Jobs : /\ c = Cleaned(k, new) /\ c.apply = j.apply /\ c.pc = "post"
                          /\ c.kind = j.kind /\ c.tag = j.tag /\ c.want = j.want
                          /\ c.clean
    <3>1. /\ Cleaned(k, new) \in Jobs /\ Cleaned(k, new).pc = k.pc
          /\ Cleaned(k, new).kind = k.kind /\ Cleaned(k, new).tag = k.tag
          /\ Cleaned(k, new).want = k.want /\ Cleaned(k, new).apply = k.apply
          /\ Cleaned(k, new).clean = (k.clean \/ ~HasMesh(new))
        BY CleanedFields
    <3> QED  BY <2>3, <2>4, <3>1
  <2>6. JobOk(c)'
    <3>1. Current(c.tag, c.want)'
        BY <1>1, <1>2, <2>5 DEF JobOk, Current
    <3>2. ApplyOk(c)' /\ RemovalOk(c)'
        BY <1>1, <1>5, <2>4, <2>5 DEF JobOk, ApplyOk, Proposing, RemovalOk
    <3> QED  BY <1>5, <2>5, <3>1, <3>2
             DEF JobOk, Kinds, InitPlaces, SetupPlaces, RemovePlaces
  <2>7. JobOk(Cleaned(k, new))'
      BY <2>5, <2>6
  <2> QED  BY <1>1, <1>5, <2>2, <2>3, <2>7 DEF Proposing
<1> QED  BY <1>1, <1>3, <1>4, <1>5 DEF Kinds

(* And without an answer. *)
LEMMA UnansweredJob ==
    ASSUME PolicyInv, NEW p \in Cli, At(p, "post")
    PROVE  \E k \in Jobs : /\ Unanswered(p) = [job EXCEPT ![p] = k]
                           /\ k.apply = job[p].apply /\ (Proposing(k) => Proposing(job[p]))
                           /\ (k.out = "error" => k.pc # "revoke") /\ JobOk(k)
<1>1. PICK j \in Jobs : j = job[p] /\ JobOk(j) /\ j.pc = "post" /\ j.out = None /\ j.kind \in Kinds
    BY AtFacts DEF JobOk
<1>2. None # "error"
    BY PolicyAssumption DEF Outcomes
<1>3. CASE j.kind \in {"init", "setup"}
  <2>1. PICK k \in Jobs : k = Finished(j, "error")
      BY <1>1, EndedFields DEF Outcomes
  <2>2. Unanswered(p) = [job EXCEPT ![p] = k]
      BY <1>1, <1>3, <2>1, EndsEnds DEF Unanswered, PolicyInv
  <2>3. k.apply = j.apply /\ k.pc = "post"
      BY <1>1, <2>1, EndedFields DEF Outcomes
  <2>4. JobOk(k) /\ (Proposing(k) <=> Proposing(j))
      BY <1>1, <2>1, EndedOk DEF Outcomes
  <2> QED  BY <1>1, <2>2, <2>3, <2>4
<1>4. CASE j.kind \in {"remove", "cleanup"}
  <2>1. "readback" \in Places /\ "readback" \in (RemovePlaces \ {"prepare"}) \cup {"post"}
      BY DEF Places, RemovePlaces
  <2>2. PICK k \in Jobs : k = Moved(j, "readback")
      BY <2>1, <1>1, MovedFields
  <2>3. Unanswered(p) = [job EXCEPT ![p] = k]
      BY <1>1, <1>4, <2>2, GoMoves DEF Unanswered, PolicyInv
  <2>4. k.apply = j.apply /\ k.out = None
      BY <1>1, <2>1, <2>2, MovedFields
  <2>5. JobOk(k) /\ ~Proposing(k)
      BY <1>1, <1>4, <2>1, <2>2, MovedOk
  <2> QED  BY <1>1, <1>2, <2>3, <2>4, <2>5
<1> QED  BY <1>1, <1>3, <1>4 DEF Kinds

LEMMA PostKeeps == ASSUME PolicyInv, NEW p \in Cli, Post(p) PROVE PolicyInv'
<1>1. At(p, "post") /\ UNCHANGED <<enrolled, authKeys, others, edits, done, pending, applies>>
    BY DEF Post
<1>2. PICK new : new = job[p].want
    OBVIOUS
<1>3. CASE Matches(job[p].tag) /\ Publish(new, Updated(p)) /\ UNCHANGED late
  <2>1. acl' = new /\ etag' = etag + 1 /\ lived' = lived \cup Proposals(new)
      BY <1>3 DEF Publish
  <2>2. PICK k \in Jobs : /\ Updated(p) = [job EXCEPT ![p] = k]
                          /\ k.apply = job[p].apply /\ ~Proposing(k) /\ k.out # "error"
                          /\ JobOk(k) \/ JobOk(Cleaned(k, new))'
      BY <1>1, <1>2, <2>1, UpdatedJob
  <2> QED  BY <1>1, <1>2, <1>3, <2>2, OwnPublished
<1>4. PICK k \in Jobs : /\ Unanswered(p) = [job EXCEPT ![p] = k]
                        /\ k.apply = job[p].apply /\ (Proposing(k) => Proposing(job[p]))
                        /\ (k.out = "error" => k.pc # "revoke") /\ JobOk(k)
    BY <1>1, UnansweredJob
<1>5. CASE Matches(job[p].tag) /\ Publish(new, Unanswered(p)) /\ UNCHANGED late
    BY <1>1, <1>2, <1>4, <1>5, OwnPublished
<1>6. CASE job' = Ends(p, "error") /\ UNCHANGED <<acl, etag, lived, late>>
  <2>1. Refused(p) /\ job[p].pc # "revoke"
      BY <1>1, <1>6 DEF Refused, tailnetVars, fileVars, At
  <2> QED  BY <2>1, RefusedKeeps
<1>7. CASE /\ late' = late \cup {[kind |-> "policy", tag |-> job[p].tag, want |-> job[p].want]}
           /\ job' = Unanswered(p) /\ UNCHANGED <<acl, etag, lived>>
  <2>1. PICK r : r = [kind |-> "policy", tag |-> job[p].tag, want |-> job[p].want]
      OBVIOUS
  <2>2. r \in LateRequests /\ Current(r.tag, r.want)
    <3>1. job[p] \in Jobs /\ JobOk(job[p])
        BY DEF PolicyInv, PolicyType, PolicyOk
    <3> QED  BY <2>1, <3>1 DEF LateRequests, PolicyUpdates, Jobs, JobOk
  <2>3. /\ late' \in SUBSET LateRequests
        /\ \A s \in late' : s.kind = "policy" => Current(s.tag, s.want)
      BY <1>7, <2>1, <2>2 DEF PolicyInv, PolicyType, PolicyOk
  <2>4. pending' \in BOOLEAN /\ done' \in Nat /\ (done' # 0 => done' \in lived)
      BY <1>1 DEF PolicyInv, PolicyType, PolicyOk
  <2>5. /\ \A q \in Cli \ {p} : \A i \in KeyIds : <<q, i>> \in authKeys' => <<q, i>> \in authKeys
        /\ UNCHANGED <<acl, etag, others, applies>> /\ lived' = lived
      BY <1>1, <1>7
  <2> QED  BY <1>4, <1>7, <2>3, <2>4, <2>5, OneJob
<1> QED  BY <1>2, <1>3, <1>5, <1>6, <1>7 DEF Post

-----------------------------------------------------------------------------
(* Enrollment keys. *)
LEMMA KeyKeeps == ASSUME PolicyInv, NEW p \in Cli, CreateKey(p) PROVE PolicyInv'
<1>1. /\ At(p, "keys") /\ "keys" \in SetupPlaces
      /\ UNCHANGED <<acl, etag, enrolled, late, others, edits, fileVars>>
    BY DEF CreateKey, SetupPlaces
<1>2. PICK j \in Jobs : /\ j = job[p] /\ JobOk(j) /\ j.pc = "keys" /\ j.out = None
                        /\ j.kind = "setup"
    BY <1>1, AtFacts
<1>3. PICK k \in Jobs : /\ job' = [job EXCEPT ![p] = k]
                        /\ k.kind = "setup" /\ k.pc \in {"keys", "revoke"} /\ k.out # "error"
                        /\ k.tag = j.tag /\ k.want = j.want /\ k.apply = j.apply
  <2>0. None # "error" /\ "ok" # "error" /\ "ok" \in Outcomes /\ "revoke" \in Places
        /\ job = [job EXCEPT ![p] = j] /\ "keys" \in Places
      BY <1>2, PolicyAssumption DEF Outcomes, Places, SetupPlaces, PolicyInv, PolicyType
  <2>1. CASE job' = Ends(p, "ok")
      BY <1>2, <2>0, <2>1, EndsEnds, EndedFields DEF PolicyInv
  <2>2. CASE job' = Go(p, "revoke")
      BY <1>2, <2>0, <2>2, GoMoves, MovedFields DEF PolicyInv
  <2>3. ASSUME NEW i \in KeyIds, NEW x \in {"keys", "revoke"},
               job' = [Go(p, x) EXCEPT ![p].keys = @ \cup {i}]
        PROVE  \E k \in Jobs : /\ job' = [job EXCEPT ![p] = k]
                        /\ k.kind = "setup" /\ k.pc \in {"keys", "revoke"} /\ k.out # "error"
                        /\ k.tag = j.tag /\ k.want = j.want /\ k.apply = j.apply
    <3>1. Go(p, x) = [job EXCEPT ![p] = Moved(j, x)]
        BY <1>2, GoMoves DEF PolicyInv
    <3>2. PICK m \in Jobs : /\ m = Moved(j, x) /\ m.pc = x /\ m.kind = "setup" /\ m.out = None
                            /\ m.tag = j.tag /\ m.want = j.want /\ m.apply = j.apply
        BY <1>2, <2>0, MovedFields
    <3>3. PICK k : k = [m EXCEPT !.keys = @ \cup {i}]
        OBVIOUS
    <3>4. /\ k \in Jobs /\ k.pc = x /\ k.kind = "setup" /\ k.out = None
          /\ k.tag = j.tag /\ k.want = j.want /\ k.apply = j.apply
        BY <3>2, <3>3 DEF Jobs
    <3>5. job' = [job EXCEPT ![p] = k]
        BY <2>3, <3>1, <3>2, <3>3 DEF PolicyInv, PolicyType
    <3> QED  BY <2>0, <3>4, <3>5
  <2>4. ASSUME NEW i \in KeyIds, job' = [job EXCEPT ![p].keys = @ \cup {i}]
        PROVE  job' = [Go(p, "keys") EXCEPT ![p].keys = @ \cup {i}]
    <3>1. Go(p, "keys") = job
        BY <1>2, <2>0 DEF Go, PolicyInv, PolicyType, Jobs
    <3> QED  BY <2>4, <3>1
  <2> QED  BY <2>1, <2>2, <2>3, <2>4 DEF CreateKey
<1>4. JobOk(k) /\ ~Proposing(k)
    BY <1>2, <1>3 DEF JobOk, ApplyOk, Proposing, InitPlaces, SetupPlaces, RemovePlaces
<1>5. \A q \in Cli \ {p} : \A i \in KeyIds : <<q, i>> \in authKeys' => <<q, i>> \in authKeys
    BY DEF CreateKey
<1>6. /\ late' \in SUBSET LateRequests
      /\ \A r \in late' : r.kind = "policy" => Current(r.tag, r.want)
      /\ UNCHANGED <<acl, etag, others, applies>> /\ lived' = lived
    BY <1>1 DEF fileVars, PolicyInv, PolicyType, PolicyOk
<1> QED  BY <1>1, <1>3, <1>4, <1>5, <1>6, FilesKeep, OneJob

LEMMA RevokeKeeps == ASSUME PolicyInv, NEW p \in Cli, RevokeKeys(p) PROVE PolicyInv'
<1>1. /\ At(p, "revoke") /\ "revoke" \in SetupPlaces
      /\ UNCHANGED <<acl, etag, enrolled, late, others, edits, fileVars>>
    BY DEF RevokeKeys, SetupPlaces
<1>2. PICK j \in Jobs : j = job[p] /\ JobOk(j) /\ j.pc = "revoke" /\ j.kind = "setup"
    BY <1>1, AtFacts
<1>a. PICK doubt \in SUBSET j.keys : \E gone \in SUBSET doubt :
          /\ authKeys' = authKeys \ ({p} \X ((j.keys \ doubt) \cup gone))
          /\ job' = Ends(p, RevokeOutcome(doubt))
    BY <1>2 DEF RevokeKeys
<1>3. PICK gone \in SUBSET doubt :
          /\ authKeys' = authKeys \ ({p} \X ((j.keys \ doubt) \cup gone))
          /\ job' = Ends(p, RevokeOutcome(doubt))
    BY <1>a
<1>4. PICK x \in Outcomes : x = RevokeOutcome(doubt) /\ x # "ok" /\ (x = "error" => doubt = {})
    BY DEF RevokeOutcome, Outcomes
<1>5. PICK k \in Jobs : /\ k = Finished(j, x) /\ k.out = x /\ k.keys = j.keys
                        /\ k.apply = j.apply /\ JobOk(k) /\ (Proposing(k) <=> Proposing(j))
    BY <1>2, <1>4, EndedFields, EndedOk
<1>6. job' = [job EXCEPT ![p] = k]
    BY <1>2, <1>3, <1>4, <1>5, EndsEnds DEF PolicyInv
<1>7. \A q \in Cli \ {p} : \A i \in KeyIds : <<q, i>> \in authKeys' => <<q, i>> \in authKeys
    BY <1>3
<1>8. k.out = "error" => \A i \in k.keys : <<p, i>> \notin authKeys'
    BY <1>3, <1>4, <1>5
<1>9. /\ late' \in SUBSET LateRequests
      /\ \A r \in late' : r.kind = "policy" => Current(r.tag, r.want)
      /\ UNCHANGED <<acl, etag, others, applies>> /\ lived' = lived
    BY <1>1 DEF fileVars, PolicyInv, PolicyType, PolicyOk
<1> QED  BY <1>1, <1>2, <1>5, <1>6, <1>7, <1>8, <1>9, FilesKeep, OneJob

-----------------------------------------------------------------------------
(* Removal. *)
LEMMA PrepareKeeps == ASSUME PolicyInv, NEW p \in Cli, PrepareMeshPolicyRemoval(p) PROVE PolicyInv'
<1>1. /\ At(p, "prepare") /\ "prepare" \in RemovePlaces /\ "depend" \in Places
      /\ acl \in SUBSET Entries /\ acl \ Mesh \in SUBSET Entries /\ etag \in Nat
    BY DEF PrepareMeshPolicyRemoval, RemovePlaces, Places, PolicyInv, PolicyType
<1>2. PICK j \in Jobs : /\ j = job[p] /\ JobOk(j) /\ j.pc = "prepare" /\ j.out = None
                        /\ j.kind \in {"remove", "cleanup"}
    BY <1>1, AtFacts
<1>3. CASE Refused(p)
    BY <1>2, <1>3, RefusedKeeps
<1>4. CASE ~Refused(p)
  <2>1. /\ job' = [Go(p, "depend") EXCEPT ![p].tag = etag, ![p].want = acl \ Mesh,
                                          ![p].seen = acl, ![p].clean = ~HasMesh(acl)]
        /\ UNCHANGED <<tailnetVars, fileVars>>
      BY <1>4 DEF PrepareMeshPolicyRemoval
  <2>2. Go(p, "depend") = [job EXCEPT ![p] = Moved(j, "depend")]
      BY <1>2, GoMoves DEF PolicyInv
  <2>3. PICK m \in Jobs : /\ m = Moved(j, "depend") /\ m.pc = "depend" /\ m.kind = j.kind
                          /\ m.out = None /\ m.apply = j.apply
      BY <1>1, <1>2, MovedFields
  <2>a. PICK b \in BOOLEAN : b = ~HasMesh(acl)
      BY DEF HasMesh
  <2>4. PICK k : k = [m EXCEPT !.tag = etag, !.want = acl \ Mesh, !.seen = acl, !.clean = b]
      OBVIOUS
  <2>5. /\ k \in Jobs /\ k.pc = "depend" /\ k.kind = j.kind /\ k.out = None
        /\ k.apply = j.apply /\ k.tag = etag /\ k.want = acl \ Mesh /\ k.seen = acl
        /\ k.clean = b
      BY <1>1, <2>3, <2>4 DEF Jobs
  <2>6. job' = [job EXCEPT ![p] = k]
    <3>1. Go(p, "depend") \in [Cli -> Jobs] /\ Go(p, "depend")[p] = m
        BY <2>2, <2>3 DEF PolicyInv, PolicyType
    <3>2. job' = [Go(p, "depend") EXCEPT ![p] = k]
        BY <2>1, <2>a, <2>4, <3>1
    <3> QED  BY <2>2, <3>2 DEF PolicyInv, PolicyType
  <2>7. JobOk(k) /\ ~Proposing(k)
    <3>a. None # "ok" /\ Current(k.tag, k.want)
        BY <1>1, <2>5, PolicyAssumption DEF Current, Outcomes
    <3>b. /\ k.want \cap Mesh = {}
          /\ acl \cap Mesh = {} => k.clean
          /\ k.want = k.seen => k.clean
        BY <2>a, <2>5 DEF HasMesh
    <3>1. Current(k.tag, k.want) /\ RemovalOk(k)
        BY <2>5, <3>a, <3>b DEF RemovalOk
    <3> QED  BY <1>2, <2>5, <3>1
             DEF JobOk, ApplyOk, Proposing, InitPlaces, SetupPlaces, RemovePlaces
  <2>8. Quiet /\ UNCHANGED fileVars /\ None # "error"
      BY <2>1, PolicyAssumption DEF Quiet, tailnetVars, fileVars, Outcomes
  <2> QED  BY <2>5, <2>6, <2>7, <2>8, FilesKeep, QuietJob
<1> QED  BY <1>3, <1>4

LEMMA RemoveMoves ==
    ASSUME PolicyInv, NEW p \in Cli, NEW y \in RemovePlaces \ {"prepare"}, At(p, y),
           NEW x \in (RemovePlaces \ {"prepare"}) \cup {"post"}, Moves(p, x)
    PROVE  PolicyInv'
<1>1. /\ x \in Places /\ job[p].kind \in {"remove", "cleanup"} /\ job[p].out = None
      /\ job[p].pc = y
    BY AtFacts DEF Places
<1>2. Quiet /\ job' = Go(p, x) /\ UNCHANGED fileVars
    BY DEF Moves, Quiet, tailnetVars, fileVars
<1> QED  BY <1>1, <1>2, FilesKeep, MovesKeep

LEMMA DependKeeps == ASSUME PolicyInv, NEW p \in Cli, CheckDependencies(p) PROVE PolicyInv'
<1>1. /\ At(p, "depend") /\ "depend" \in RemovePlaces \ {"prepare"}
      /\ "recheck" \in (RemovePlaces \ {"prepare"}) \cup {"post"}
      /\ "planned" \in (RemovePlaces \ {"prepare"}) \cup {"post"}
    BY DEF CheckDependencies, RemovePlaces
<1>2. /\ job[p] \in Jobs /\ JobOk(job[p]) /\ job[p].pc = "depend"
      /\ job[p].kind \in {"remove", "cleanup"}
    BY <1>1, AtFacts
<1>3. CASE Refused(p)
    BY <1>2, <1>3, RefusedKeeps
<1>4. CASE Moves(p, "recheck")
    BY <1>1, <1>4, RemoveMoves
<1>5. CASE Moves(p, "planned")
    BY <1>1, <1>5, RemoveMoves
<1>6. CASE ~HasChanges(p) /\ job' = Ends(p, "ok") /\ UNCHANGED <<tailnetVars, fileVars>>
  <2>1. job[p].clean
      BY <1>2, <1>6, PolicyAssumption DEF HasChanges, JobOk, RemovalOk, Places, RemovePlaces
  <2> QED  BY <1>6, <2>1, DoneKeeps
<1> QED  BY <1>3, <1>4, <1>5, <1>6 DEF CheckDependencies

LEMMA RecheckKeeps == ASSUME PolicyInv, NEW p \in Cli, RecheckDependencies(p) PROVE PolicyInv'
<1>1. /\ At(p, "recheck") /\ "recheck" \in RemovePlaces \ {"prepare"}
      /\ "post" \in (RemovePlaces \ {"prepare"}) \cup {"post"} /\ job[p].pc # "revoke"
    BY DEF RecheckDependencies, RemovePlaces, At
<1> QED  BY <1>1, RefusedKeeps, RemoveMoves DEF RecheckDependencies

LEMMA ReadBackKeeps == ASSUME PolicyInv, NEW p \in Cli, ReadBack(p) PROVE PolicyInv'
<1>1. At(p, "readback") /\ "readback" \in RemovePlaces
    BY DEF ReadBack, RemovePlaces
<1>2. /\ job[p] \in Jobs /\ JobOk(job[p]) /\ job[p].pc = "readback"
      /\ job[p].kind \in {"remove", "cleanup"}
    BY <1>1, AtFacts
<1>3. CASE Refused(p)
    BY <1>2, <1>3, RefusedKeeps
<1>4. CASE acl = job[p].want /\ job' = Ends(p, "ok") /\ UNCHANGED <<tailnetVars, fileVars>>
  <2>1. job[p].clean
      BY <1>2, <1>4, PolicyAssumption DEF JobOk, RemovalOk, Places, RemovePlaces
  <2> QED  BY <1>4, <2>1, DoneKeeps
<1> QED  BY <1>3, <1>4 DEF ReadBack

LEMMA StartKeeps ==
    ASSUME PolicyInv, NEW p \in Cli, At(p, "planned"),
           job' = StartRemoval(p), UNCHANGED <<tailnetVars, fileVars>>
    PROVE  PolicyInv'
<1>1. PICK x \in {"recheck", "readback"} : job' = Go(p, x)
    BY DEF StartRemoval, Go
<1>2. "planned" \in RemovePlaces \ {"prepare"} /\ x \in (RemovePlaces \ {"prepare"}) \cup {"post"}
    BY DEF RemovePlaces
<1> QED  BY <1>1, <1>2, RemoveMoves DEF Moves

(* Every step of a command's work on the policy. *)
LEMMA PolicyStepKeeps == ASSUME PolicyInv, NEW p \in Cli, PolicyStep(p) PROVE PolicyInv'
<1>1. CASE GivesUp(p)
  <2>1. Refused(p) /\ job[p].pc # "revoke"
      BY <1>1 DEF GivesUp
  <2> QED  BY <2>1, RefusedKeeps
<1> QED  BY <1>1, MarkersKeep, ReconcileKeeps, ForgetKeeps, PreviewKeeps, ConfirmKeeps,
            BackupKeeps, ProposalKeeps, SetupKeeps, PostKeeps, CompleteKeeps, ClearKeeps,
            KeyKeeps, RevokeKeeps, PrepareKeeps, DependKeeps, RecheckKeeps, ReadBackKeeps
         DEF PolicyStep

-----------------------------------------------------------------------------
(* Steps of others, and of the commands around their work. *)
LEMMA AnotherPolicy ==
    ASSUME PolicyInv, NEW new \in SUBSET Entries, Publish(new, job), others' = new \ Mesh,
           late' \subseteq late, UNCHANGED <<authKeys, done, pending, applies>>
    PROVE  PolicyInv'
<1>1. PICK jobs \in [Cli -> Jobs] : jobs = job
    BY DEF PolicyInv, PolicyType
<1>2. Publish(new, jobs)
    BY <1>1
<1>3. acl' = new /\ etag' = etag + 1 /\ lived \subseteq lived'
    BY DEF Publish
<1>4. ASSUME NEW q \in Cli PROVE JobOk(Cleaned(jobs[q], new))'
  <2>1. PICK j \in Jobs : j = jobs[q] /\ JobOk(j)
      BY <1>1 DEF PolicyInv, PolicyOk
  <2>2. JobOk(Cleaned(j, new))'
      BY <1>3, <2>1, JobPublished DEF PolicyInv
  <2> QED  BY <2>1, <2>2
<1> QED  BY <1>1, <1>2, <1>4, PublishKeeps

LEMMA TailnetKeeps == ASSUME PolicyInv, TailnetStep PROVE PolicyInv'
<1>1. ASSUME NEW e \in Entries, OutsideEdit(e) PROVE PolicyInv'
  <2>1. PICK new : /\ new = (IF e \in acl THEN acl \ {e} ELSE acl \cup {e})
                   /\ Publish(new, job) /\ others' = new \ Mesh
      BY <1>1 DEF OutsideEdit
  <2>2. new \in SUBSET Entries
      BY <2>1 DEF PolicyInv, PolicyType
  <2> QED  BY <1>1, <2>1, <2>2, AnotherPolicy DEF OutsideEdit
<1>2. ASSUME NEW r \in late, LateEffect(r) PROVE PolicyInv'
  <2>1. CASE r.kind = "device"
    <3>1. /\ UNCHANGED <<acl, etag, lived, job, authKeys, others, done, pending, applies>>
          /\ late' \subseteq late
        BY <1>2, <2>1 DEF LateEffect
    <3> QED  BY <3>1 DEF PolicyInv, PolicyType, PolicyOk, JobOk, Current, ApplyOk, RemovalOk
  <2>2. CASE r.kind # "device"
    <3>1. /\ r.kind = "policy" /\ r.want \in SUBSET Entries /\ Current(r.tag, r.want)
        BY <2>2 DEF PolicyInv, PolicyType, PolicyOk, LateRequests, PolicyUpdates
    <3>2. /\ Publish(r.want, job) /\ r.tag = etag /\ late' \subseteq late
          /\ UNCHANGED <<authKeys, others, done, pending, applies>>
        BY <1>2, <2>2 DEF LateEffect, Matches
    <3>3. others' = r.want \ Mesh
        BY <3>1, <3>2 DEF Current, PolicyInv, PolicyOk
    <3> QED  BY <3>1, <3>2, <3>3, AnotherPolicy
  <2> QED  BY <2>1, <2>2
<1>3. CASE OtherDevice
    BY <1>3 DEF OtherDevice, fileVars, PolicyInv, PolicyType, PolicyOk, JobOk, Current, ApplyOk,
                RemovalOk
<1> QED  BY <1>1, <1>2, <1>3 DEF TailnetStep

LEMMA NewJob ==
    ASSUME PolicyInv, NEW p \in Cli, NEW k \in Jobs, job' = [job EXCEPT ![p] = k],
           UNCHANGED <<acl, etag, late, others, fileVars>>, authKeys' \subseteq authKeys,
           k.tag = 0, k.want = {}, k.apply = 0, k.out = None,
           \/ k.kind = "init" /\ k.pc = "markers"
           \/ k.kind = "setup" /\ k.pc = "setup"
           \/ k.kind \in {"remove", "cleanup"} /\ k.pc = "prepare"
           \/ k.kind = None /\ k.pc = None
    PROVE  PolicyInv'
<1>1. JobOk(k) /\ ~Proposing(k) /\ k.out # "error"
  <2>1. Current(0, {}) /\ 0 <= Len(applies)
      BY DEF Current, PolicyInv, PolicyType, PolicyOk
  <2>2. None \notin Places /\ None \notin Outcomes
      BY PolicyAssumption
  <2>3. k.pc \notin {"complete", "propose", "post"}
      BY <2>2 DEF Places, InitPlaces
  <2>4. /\ k.pc \in InitPlaces => k.kind = "init"
        /\ k.pc \in SetupPlaces => k.kind = "setup"
        /\ k.pc \in RemovePlaces => k.kind \in {"remove", "cleanup"}
      BY <2>2 DEF Places, InitPlaces, SetupPlaces, RemovePlaces
  <2>5. k.kind \in {"remove", "cleanup"} => RemovalOk(k)
      BY <2>2 DEF RemovalOk, Outcomes
  <2>6. ApplyOk(k) /\ ~Proposing(k)
      BY <2>1, <2>3 DEF ApplyOk, Proposing
  <2> QED  BY <2>1, <2>2, <2>3, <2>4, <2>5, <2>6 DEF JobOk, Outcomes
<1>2. /\ late' \in SUBSET LateRequests
      /\ \A r \in late' : r.kind = "policy" => Current(r.tag, r.want)
      /\ \A q \in Cli \ {p} : \A i \in KeyIds : <<q, i>> \in authKeys' => <<q, i>> \in authKeys
      /\ UNCHANGED <<acl, etag, others, applies>> /\ lived' = lived
    BY DEF fileVars, PolicyInv, PolicyOk, PolicyType
<1> QED  BY <1>1, <1>2, FilesKeep, OneJob

LEMMA BeginKeeps ==
    ASSUME PolicyInv, NEW p \in Cli, NEW task, NEW place, NEW spare \in Nat \cup {None},
           Begin(p, task, place, spare),
           \/ task = "init" /\ place = "markers"
           \/ task = "setup" /\ place = "setup"
           \/ task \in {"remove", "cleanup"} /\ place = "prepare"
    PROVE  PolicyInv'
<1>1. PICK k : k = [NoJob EXCEPT !.kind = task, !.pc = place, !.spare = spare]
    OBVIOUS
<1>2. /\ k \in Jobs /\ k.tag = 0 /\ k.want = {} /\ k.apply = 0 /\ k.out = None
      /\ k.kind = task /\ k.pc = place
    BY <1>1 DEF NoJob, Jobs, Kinds, Places, InitPlaces, SetupPlaces, RemovePlaces
<1>3. /\ job' = [job EXCEPT ![p] = k] /\ authKeys' \subseteq authKeys
      /\ UNCHANGED <<acl, etag, late, others, fileVars>>
    BY <1>1 DEF Begin
<1> QED  BY <1>2, <1>3, NewJob

LEMMA PolicyInvKeeps == ASSUME PolicyInv, UNCHANGED policyVars PROVE PolicyInv'
BY DEF policyVars, PolicyInv, PolicyType, PolicyOk, JobOk, Current, ApplyOk, RemovalOk

-----------------------------------------------------------------------------
(* The commands. *)

LEMMA CliChanges ==
    ASSUME CliInv, coordinator' = coordinator, NEW p \in Cli, NEW c \in Clis, cli' = [cli EXCEPT ![p] = c],
           Fits(c, job'[p]), \A q \in Cli \ {p} : job'[q] = job[q]
    PROVE  CliInv'
<1>1. \A q \in Cli : cli'[q] = IF q = p THEN c ELSE cli[q]
    BY DEF CliInv
<1>2. \A q \in Cli : Fits(cli'[q], job'[q])
    BY <1>1 DEF CliInv
<1>3. cli' \in [Cli -> Clis]
    BY DEF CliInv
<1> QED  BY <1>2, <1>3 DEF CliInv, Fits

(* A command goes to x. *)
LEMMA CliGoes ==
    ASSUME CliInv, coordinator' = coordinator, NEW p \in Cli, NEW x \in CliPcs, To(p, x), job' = job,
           x \in Removing => cli[p].pc \in Removing,
           x = "record" => cli[p].op = "destroy", x = "removal" => cli[p].policy,
           x \in Waiting => \/ cli[p].pc \in Waiting \/ ~cli[p].policy
                            \/ job[p].pc = "planned" /\ job[p].out = None,
           cli[p].op = "stop" => x \in {"stop", "request", "await", "stopped"}
                                 /\ cli[p].policy = FALSE
    PROVE  CliInv'
<1>1. PICK b \in Clis : b = cli[p] /\ Fits(b, job[p])
    BY DEF CliInv
<1>2. PICK c : c = [b EXCEPT !.pc = x]
    OBVIOUS
<1>3. /\ c \in Clis /\ c.pc = x /\ c.op = b.op /\ c.policy = b.policy /\ c.record = b.record
    BY <1>1, <1>2 DEF Clis
<1>4. cli' = [cli EXCEPT ![p] = c]
    BY <1>1, <1>2 DEF To, CliInv
<1>5. Fits(c, job[p])
    BY <1>1, <1>3 DEF Fits
<1> QED  BY <1>3, <1>4, <1>5, CliChanges

Elsewhere == CliPcs \ (Removing \cup {"record"})

LEMMA NoCliFits == NoCli \in Clis /\ \A j : Fits(NoCli, j)
BY DEF NoCli, Clis, CliPcs, Removing, Waiting, Fits

LEMMA CliStops ==
    ASSUME CliInv, coordinator' = coordinator, NEW p \in Cli, cli' = [cli EXCEPT ![p] = NoCli],
           \A q \in Cli \ {p} : job'[q] = job[q]
    PROVE  CliInv'
BY NoCliFits, CliChanges

LEMMA FailsKeeps ==
    ASSUME CliInv, coordinator' = coordinator, NEW p \in Cli, Fails(p), job' = job, cli[p].op # "stop"
    PROVE  CliInv'
<1>1. "unlock" \in CliPcs /\ "unlock" # "record" /\ "unlock" \notin Removing /\ "unlock" \notin Waiting
    BY DEF CliPcs, Removing, Waiting
<1> QED  BY <1>1, CliGoes DEF Fails

(* Only a stop is in a place of its own with nothing else to do. *)
LEMMA NotStopping ==
    ASSUME CliInv, coordinator' = coordinator, NEW p \in Cli,
           cli[p].pc \notin {"idle", "stop", "request", "await", "stopped"}
    PROVE  cli[p].op # "stop"
BY DEF CliInv, Fits

LEMMA GivesKeeps ==
    ASSUME CliInv, coordinator' = coordinator, NEW p \in Cli, Gives(p), job' = job
    PROVE  CliInv'
BY CliStops, FailsKeeps DEF Gives

LEMMA SimpleMoves ==
    ASSUME CliInv, coordinator' = coordinator, NEW p \in Cli, NEW x \in Elsewhere, To(p, x), job' = job,
           cli[p].pc \notin {"idle", "stop", "request", "await", "stopped"}
    PROVE  CliInv'
<1>1. x \in CliPcs /\ x \notin Removing /\ x \notin Waiting /\ x \notin {"record", "removal"}
    BY DEF Removing, Waiting, Elsewhere
<1> QED  BY <1>1, NotStopping, CliGoes

LEMMA CommandBegins ==
    ASSUME CliInv, coordinator' = coordinator, NEW p \in Cli, NEW op \in CliOps, NEW x \in Elsewhere,
           op # "stop", Runs(p, op, x), \A q \in Cli \ {p} : job'[q] = job[q]
    PROVE  CliInv'
<1>1. PICK c : c = [NoCli EXCEPT !.op = op, !.pc = x]
    OBVIOUS
<1>2. c \in Clis /\ c.pc = x /\ c.op = op /\ c.policy = FALSE
    BY <1>1 DEF NoCli, Clis, Elsewhere
<1>3. Fits(c, job'[p])
    BY <1>2 DEF Fits, Elsewhere, Removing, Waiting
<1> QED  BY <1>1, <1>2, <1>3, CliChanges DEF Runs

LEMMA BeginOthers ==
    ASSUME PolicyInv, NEW p \in Cli, NEW task, NEW place, NEW spare, Begin(p, task, place, spare)
    PROVE  \A q \in Cli \ {p} : job'[q] = job[q]
BY DEF Begin, PolicyInv, PolicyType

(* Commands are given. *)
LEMMA GivenKeeps ==
    ASSUME HostInv, coordinator' = coordinator, NEW p \in Cli,
           \/ Init_(p) \/ SaveConfig(p) \/ Start(p) \/ Stop(p)
           \/ \E removePolicy \in BOOLEAN : Destroy(p, removePolicy)
           \/ \E task \in {"setup", "cleanup"} : Tailnet(p, task)
           \/ TailnetEnds(p)
    PROVE  CliInv'
<1>0. CliInv /\ PolicyInv /\ FilesType
    BY DEF HostInv
<1>a. /\ "lock" \in Elsewhere /\ "save" \in Elsewhere /\ "tailnet" \in Elsewhere
      /\ "init" \in CliOps /\ "start" \in CliOps
    BY DEF CliPcs, Elsewhere, Removing, Waiting, CliOps
<1>1. CASE Init_(p)
  <2>1. PICK x \in {"lock", "save"} : Runs(p, "init", x) /\ job' = job
      BY <1>1 DEF Init_, policyVars
  <2> QED  BY <1>0, <1>a, <2>1, CommandBegins
<1>2. CASE SaveConfig(p)
  <2>1. job' = job /\ cli[p].pc = "save" /\ (To(p, "lock") \/ cli' = [cli EXCEPT ![p] = NoCli])
      BY <1>2 DEF SaveConfig, policyVars, AtCli
  <2> QED  BY <1>0, <1>a, <2>1, SimpleMoves, CliStops
<1>3. CASE Start(p)
  <2>1. Runs(p, "start", "lock") /\ job' = job
      BY <1>3 DEF Start, policyVars
  <2> QED  BY <1>0, <1>a, <2>1, CommandBegins
<1>4. CASE Stop(p)
  <2>1. PICK c : c = [NoCli EXCEPT !.op = "stop", !.pc = "stop"]
      OBVIOUS
  <2>2. c \in Clis /\ c.pc = "stop" /\ c.op = "stop" /\ c.policy = FALSE
      BY <2>1 DEF NoCli, Clis, CliOps, CliPcs, Removing, Waiting
  <2>3. Fits(c, job'[p])
      BY <2>2 DEF Fits
  <2>4. cli' = [cli EXCEPT ![p] = c] /\ job' = job
      BY <1>4, <2>1 DEF Stop, Runs, policyVars
  <2> QED  BY <1>0, <2>2, <2>3, <2>4, CliChanges
<1>5. ASSUME NEW removePolicy \in BOOLEAN, Destroy(p, removePolicy) PROVE CliInv'
  <2>1. PICK n \in Nat : n = IF coordinator THEN ManagedIdentity ELSE 0
    <3>1. destroy # None => destroy.device \in Nat
        BY <1>0 DEF FilesType, DestroyRecords
    <3> QED  BY <1>0, <3>1 DEF FilesType, ManagedIdentity
  <2>2. PICK c : c = [NoCli EXCEPT !.op = "destroy", !.pc = "lock", !.device = n,
                                   !.policy = removePolicy]
      OBVIOUS
  <2>3. c \in Clis /\ c.pc = "lock" /\ c.op = "destroy" /\ c.policy = removePolicy
      BY <1>a, <2>2 DEF NoCli, Clis, CliOps, CliPcs
  <2>a. removePolicy => coordinator
      BY <1>5 DEF Destroy
  <2>4. Fits(c, job'[p])
      BY <1>a, <2>3, <2>a DEF Fits, Elsewhere, Removing
  <2>5. cli' = [cli EXCEPT ![p] = c] /\ job' = job
      BY <1>5, <2>1, <2>2 DEF Destroy, policyVars
  <2> QED  BY <1>0, <2>3, <2>4, <2>5, CliChanges
<1>6. ASSUME NEW task \in {"setup", "cleanup"}, Tailnet(p, task) PROVE CliInv'
  <2>1. /\ Runs(p, task, "tailnet") /\ task \in CliOps /\ task # "stop"
        /\ Begin(p, task, IF task = "setup" THEN "setup" ELSE "prepare", None)
      BY <1>6 DEF Tailnet, CliOps
  <2>2. \A q \in Cli \ {p} : job'[q] = job[q]
      BY <1>0, <2>1, BeginOthers
  <2> QED  BY <1>0, <1>a, <2>1, <2>2, CommandBegins
<1>7. CASE TailnetEnds(p)
    BY <1>0, <1>7, CliStops DEF TailnetEnds, Only, policyVars
<1> QED  BY <1>1, <1>2, <1>3, <1>4, <1>5, <1>6, <1>7

(* Init and start. *)
LEMMA LockedKeeps ==
    ASSUME HostInv, coordinator' = coordinator, NEW p \in Cli, Lock(p) \/ Unlock(p) \/ Check(p) \/ PolicyDone(p) \/ Launch(p)
    PROVE  CliInv'
<1>0. CliInv /\ PolicyInv /\ cli[p] \in Clis
    BY DEF HostInv, CliInv
<1>a. /\ "check" \in Elsewhere /\ "policy" \in Elsewhere /\ "launch" \in Elsewhere
      /\ "unlock" \in Elsewhere /\ "policy" \in CliPcs
      /\ "record" \in CliPcs \ Removing /\ "record" \notin Waiting
    BY DEF CliPcs, Elsewhere, Removing, Waiting
<1>1. CASE Lock(p)
  <2>1. /\ job' = job /\ cli[p].pc = "lock"
        /\ \/ To(p, "record") /\ cli[p].op = "destroy"
           \/ To(p, "check") \/ cli' = [cli EXCEPT ![p] = NoCli]
      BY <1>1 DEF Lock, policyVars, AtCli
  <2>2. CASE To(p, "record") /\ cli[p].op = "destroy"
      BY <1>0, <1>a, <2>1, <2>2, CliGoes
  <2> QED  BY <1>0, <1>a, <2>1, <2>2, SimpleMoves, CliStops
<1>2. CASE Unlock(p)
    BY <1>0, <1>2, CliStops DEF Unlock, policyVars
<1>3. CASE Check(p)
  <2>1. cli[p].pc = "check" /\ cli[p].op # "stop"
      BY <1>0, <1>3, NotStopping DEF Check, AtCli
  <2>2. CASE To(p, "policy") /\ Begin(p, "init", "markers", None)
    <3>1. PICK c : c = [cli[p] EXCEPT !.pc = "policy"]
        OBVIOUS
    <3>2. c \in Clis /\ c.pc = "policy" /\ c.op = cli[p].op /\ c.policy = cli[p].policy
        BY <1>0, <1>a, <3>1 DEF Clis
    <3>5. c.policy => coordinator
        BY <1>0, <3>2 DEF CliInv, Fits
    <3>3. cli' = [cli EXCEPT ![p] = c]
        BY <2>2, <3>1, <1>0 DEF To, CliInv
    <3>4. Fits(c, job'[p])
        BY <1>a, <2>1, <3>2, <3>5 DEF Fits, Elsewhere, Removing
    <3> QED  BY <1>0, <2>2, <3>2, <3>3, <3>4, BeginOthers, CliChanges
  <2>3. CASE (To(p, "launch") \/ Fails(p)) /\ UNCHANGED policyVars
    <3>1. job' = job
        BY <2>3 DEF policyVars
    <3> QED  BY <1>0, <1>a, <2>1, <2>3, <3>1, SimpleMoves, FailsKeeps
  <2> QED  BY <1>3, <2>2, <2>3 DEF Check
<1>4. CASE PolicyDone(p)
  <2>1. /\ job' = job /\ cli[p].pc = "policy" /\ (To(p, "launch") \/ To(p, "unlock"))
      BY <1>4 DEF PolicyDone, Only, policyVars, AtCli
  <2> QED  BY <1>0, <1>a, <2>1, SimpleMoves
<1>5. CASE Launch(p)
  <2>1. /\ job' = job /\ cli[p].pc = "launch" /\ To(p, "unlock")
      BY <1>5 DEF Launch, policyVars, AtCli
  <2> QED  BY <1>0, <1>a, <2>1, SimpleMoves
<1> QED  BY <1>1, <1>2, <1>3, <1>4, <1>5

(* Shutdown with --destroy. *)
LEMMA RecordKeeps ==
    ASSUME HostInv, coordinator' = coordinator, NEW p \in Cli, ReadRecord(p) \/ Preflight(p) \/ PlanReady(p)
    PROVE  CliInv'
<1>0. CliInv /\ PolicyInv /\ FilesType /\ cli[p] \in Clis /\ Fits(cli[p], job[p])
    BY DEF HostInv, CliInv
<1>a. /\ "record" \notin Removing /\ "remote" \in Removing \ Waiting
      /\ "plan" \in Removing \ Waiting /\ "intent" \in Waiting
      /\ "remote" \in CliPcs /\ "plan" \in CliPcs /\ "intent" \in CliPcs /\ "intent" \in Removing
    BY DEF CliPcs, Removing, Waiting
<1>1. CASE ReadRecord(p)
  <2>1. cli[p].pc = "record" /\ cli[p].op # "stop" /\ job' = job
      BY <1>0, <1>1, NotStopping DEF ReadRecord, AtCli, Only, policyVars
  <2>2. CASE Fails(p)
      BY <1>0, <2>1, <2>2, FailsKeeps
  <2>3. CASE ~Fails(p)
    <3>1. PICK r \in DestroyRecords : r = IF destroy = None THEN NewRecord(p) ELSE destroy
      <4>1. PICK b \in BOOLEAN : b = ~coordinator
          OBVIOUS
      <4>2. cli[p].device \in Nat /\ cli[p].policy \in BOOLEAN
          BY <1>0 DEF Clis
      <4>3. NewRecord(p) = [device |-> cli[p].device, policy |-> cli[p].policy, local |-> b,
                            deviceRemoved |-> FALSE, policyRemoved |-> FALSE]
          BY <4>1 DEF NewRecord
      <4>4. NewRecord(p) \in DestroyRecords
          BY <4>2, <4>3 DEF DestroyRecords
      <4> QED  BY <1>0, <4>4 DEF FilesType
    <3>2. PICK x \in {"remote", "intent"} : x = IF coordinator THEN "remote" ELSE "intent"
        OBVIOUS
    <3>3. PICK c : c = [cli[p] EXCEPT !.record = r, !.pc = x]
        OBVIOUS
    <3>4. /\ c \in Clis /\ c.pc = x /\ c.record = r /\ c.op = cli[p].op
          /\ c.policy = cli[p].policy
        BY <1>0, <1>a, <3>1, <3>2, <3>3 DEF Clis
    <3>5. cli' = [cli EXCEPT ![p] = c]
        BY <1>0, <1>1, <2>3, <3>1, <3>2, <3>3 DEF ReadRecord, CliInv
    <3>6. Fits(c, job'[p])
      <4>1. cli[p].op \in {"stop", "destroy"} /\ (cli[p].policy => coordinator)
          BY <1>0, <2>1 DEF Fits
      <4> QED  BY <1>0, <1>a, <2>1, <3>1, <3>2, <3>4, <4>1 DEF Fits
    <3> QED  BY <1>0, <2>1, <3>4, <3>5, <3>6, CliChanges
  <2> QED  BY <2>2, <2>3
<1>2. CASE Preflight(p)
  <2>1. cli[p].pc = "remote" /\ cli[p].op # "stop"
      BY <1>0, <1>2, NotStopping DEF Preflight, AtCli
  <2>2. CASE Fails(p) /\ UNCHANGED policyVars
      BY <1>0, <2>1, <2>2, FailsKeeps DEF policyVars
  <2>3. CASE ~cli[p].policy /\ To(p, "intent") /\ UNCHANGED policyVars
    <3>1. job' = job
        BY <2>3 DEF policyVars
    <3> QED  BY <1>0, <1>a, <2>1, <2>3, <3>1, CliGoes
  <2>4. CASE To(p, "plan") /\ Begin(p, "remove", "prepare", cli[p].device)
    <3>1. PICK c : c = [cli[p] EXCEPT !.pc = "plan"]
        OBVIOUS
    <3>2. /\ c \in Clis /\ c.pc = "plan" /\ c.op = cli[p].op /\ c.record = cli[p].record
          /\ c.policy = cli[p].policy
        BY <1>0, <1>a, <3>1 DEF Clis
    <3>3. cli' = [cli EXCEPT ![p] = c]
        BY <2>4, <3>1, <1>0 DEF To, CliInv
    <3>4. Fits(c, job'[p])
        BY <1>0, <1>a, <2>1, <3>2 DEF Fits
    <3> QED  BY <1>0, <2>4, <3>2, <3>3, <3>4, BeginOthers, CliChanges
  <2> QED  BY <1>2, <2>2, <2>3, <2>4 DEF Preflight
<1>3. CASE PlanReady(p)
  <2>1. cli[p].pc = "plan" /\ cli[p].op # "stop" /\ job' = job
      BY <1>0, <1>3, NotStopping DEF PlanReady, AtCli, Only, policyVars
  <2>2. CASE job[p].out = None
    <3>1. To(p, "intent") /\ job[p].pc = "planned"
        BY <1>3, <2>2 DEF PlanReady
    <3> QED  BY <1>0, <1>a, <2>1, <2>2, <3>1, CliGoes
  <2>3. CASE job[p].out # None
      BY <1>0, <1>3, <2>1, <2>3, FailsKeeps DEF PlanReady, Fails
  <2> QED  BY <2>2, <2>3
<1> QED  BY <1>1, <1>2, <1>3

(* What is saved is the record of the command, further on. *)
LEMMA SavedRecord ==
    ASSUME HostInv, NEW p \in Cli, cli[p].pc \in {"intent", "gone", "policyGone"}
    PROVE  [cli[p].record EXCEPT !.deviceRemoved = @ \/ cli[p].pc = "gone",
                                 !.policyRemoved = @ \/ cli[p].pc = "policyGone"]
              \in DestroyRecords
<1>1. PICK r \in DestroyRecords : r = cli[p].record
  <2>1. Fits(cli[p], job[p]) /\ cli[p].pc \in Removing
      BY DEF HostInv, CliInv, Removing, Waiting
  <2>2. cli[p].op # "stop"
      BY <2>1 DEF Fits
  <2> QED  BY <2>1, <2>2 DEF Fits
<1>2. PICK a \in BOOLEAN : a = (r.deviceRemoved \/ cli[p].pc = "gone")
    BY <1>1 DEF DestroyRecords
<1>3. PICK b \in BOOLEAN : b = (r.policyRemoved \/ cli[p].pc = "policyGone")
    BY <1>1 DEF DestroyRecords
<1>4. [r EXCEPT !.deviceRemoved = a, !.policyRemoved = b] \in DestroyRecords
    BY <1>1, <1>2, <1>3 DEF DestroyRecords
<1>5. [cli[p].record EXCEPT !.deviceRemoved = @ \/ cli[p].pc = "gone",
                            !.policyRemoved = @ \/ cli[p].pc = "policyGone"]
         = [r EXCEPT !.deviceRemoved = a, !.policyRemoved = b]
    BY <1>1, <1>2, <1>3
<1> QED  BY <1>4, <1>5

LEMMA SaveKeeps ==
    ASSUME HostInv, coordinator' = coordinator, NEW p \in Cli, SaveRecord(p)
    PROVE  CliInv'
<1>0. CliInv /\ cli[p] \in Clis /\ Fits(cli[p], job[p])
    BY DEF HostInv, CliInv
<1>1. /\ cli[p].pc \in {"intent", "gone", "policyGone"} /\ job' = job /\ cli[p].op # "stop"
      /\ cli[p].pc \in Removing /\ cli[p].op = "destroy"
    BY <1>0, NotStopping DEF SaveRecord, policyVars, Fits, Removing, Waiting
<1>2. CASE Fails(p)
    BY <1>0, <1>1, <1>2, FailsKeeps
<1>3. CASE ~Fails(p)
  <2>1. PICK r \in DestroyRecords : r = destroy'
      BY <1>1, <1>3, SavedRecord DEF SaveRecord
  <2>2. PICK x : x = NextAfterSave(p)
      OBVIOUS
  <2>3. /\ x \in {"stop", "removal", "purge"}
        /\ x \in Waiting => cli[p].pc \in Waiting
        /\ x = "removal" => cli[p].policy
        /\ x \in CliPcs /\ x # "record"
    <3>1. CASE cli[p].pc = "intent"
        BY <2>2, <3>1 DEF NextAfterSave, AtCli, Waiting, CliPcs, Removing
    <3>2. CASE cli[p].pc = "gone"
        BY <2>2, <3>2 DEF NextAfterSave, AtCli, Waiting, CliPcs, Removing
    <3>3. CASE cli[p].pc = "policyGone"
        BY <2>2, <3>3 DEF NextAfterSave, AtCli, Waiting, CliPcs, Removing
    <3> QED  BY <1>1, <3>1, <3>2, <3>3
  <2>4. PICK c : c = [cli[p] EXCEPT !.record = r, !.pc = x]
      OBVIOUS
  <2>5. /\ c \in Clis /\ c.pc = x /\ c.op = cli[p].op /\ c.record = r /\ c.policy = cli[p].policy
      BY <1>0, <2>1, <2>3, <2>4 DEF Clis
  <2>6. cli' = [cli EXCEPT ![p] = c]
      BY <1>0, <1>3, <2>1, <2>2, <2>4 DEF SaveRecord, CliInv
  <2>7. Fits(c, job'[p])
      BY <1>0, <1>1, <2>1, <2>3, <2>5 DEF Fits
  <2> QED  BY <1>0, <1>1, <2>5, <2>6, <2>7, CliChanges
<1> QED  BY <1>2, <1>3

(* Shutdown, of either kind. *)
LEMMA StoppingKeeps ==
    ASSUME HostInv, coordinator' = coordinator, NEW p \in Cli,
           ReadControl(p) \/ RequestStop(p) \/ AwaitStop(p) \/ RecordStopped(p)
    PROVE  CliInv'
<1>0. CliInv /\ FilesType /\ cli[p] \in Clis /\ Fits(cli[p], job[p])
    BY DEF HostInv, CliInv
<1>a. /\ {"stop", "request", "await", "stopped", "delete"} \subseteq Waiting
      /\ Waiting \subseteq Removing /\ Removing \subseteq CliPcs /\ "record" \notin Waiting
      /\ "purge" \in CliPcs /\ "purge" \notin Removing /\ "purge" \notin Waiting /\ "purge" # "record"
    BY DEF CliPcs, Removing, Waiting
<1>b. /\ cli[p].pc \in {"stop", "request", "await", "stopped"} /\ job' = job
      /\ cli[p].op = "stop" => cli[p].policy = FALSE
    BY <1>0 DEF ReadControl, RequestStop, AwaitStop, RecordStopped, Only, policyVars, AtCli, Fits
<1>1. ASSUME NEW x \in {"stop", "request", "await", "stopped"}, To(p, x) PROVE CliInv'
    BY <1>0, <1>a, <1>b, <1>1, CliGoes
<1>2. CASE Gives(p)
    BY <1>0, <1>b, <1>2, GivesKeeps
<1>3. CASE cli' = [cli EXCEPT ![p].nonce = control, ![p].pc = "request"]
  <2>1. PICK c : c = [cli[p] EXCEPT !.nonce = control, !.pc = "request"]
      OBVIOUS
  <2>2. /\ c \in Clis /\ c.pc = "request" /\ c.op = cli[p].op /\ c.record = cli[p].record
        /\ c.policy = cli[p].policy
      BY <1>0, <1>a, <2>1 DEF Clis, FilesType
  <2>3. cli' = [cli EXCEPT ![p] = c]
      BY <1>0, <1>3, <2>1 DEF CliInv
  <2>4. Fits(c, job'[p])
      BY <1>0, <1>a, <1>b, <2>2 DEF Fits
  <2> QED  BY <1>0, <1>b, <2>2, <2>3, <2>4, CliChanges
<1>4. CASE cli' = [cli EXCEPT ![p] = NoCli]
    BY <1>0, <1>b, <1>4, CliStops
<1>5. ASSUME NEW x \in {"delete", "purge"}, To(p, x), cli[p].op # "stop" PROVE CliInv'
    BY <1>0, <1>a, <1>b, <1>5, CliGoes
<1>6. CASE ReadControl(p)
    BY <1>6, <1>1, <1>2, <1>3 DEF ReadControl
<1>7. CASE RequestStop(p)
    BY <1>7, <1>1, <1>2 DEF RequestStop
<1>8. CASE AwaitStop(p)
    BY <1>8, <1>1, <1>2 DEF AwaitStop
<1>9. CASE RecordStopped(p)
    BY <1>9, <1>2, <1>4, <1>5 DEF RecordStopped
<1> QED  BY <1>6, <1>7, <1>8, <1>9

(* The removals and the purge. *)
LEMMA RemovalKeeps ==
    ASSUME HostInv, coordinator' = coordinator, NEW p \in Cli,
           RemoveDevice(p) \/ RemovePolicy(p) \/ PolicyRemoved(p) \/ Purge(p)
    PROVE  CliInv'
<1>0. CliInv /\ PolicyInv /\ FilesType /\ cli[p] \in Clis /\ Fits(cli[p], job[p])
    BY DEF HostInv, CliInv
<1>a. /\ {"delete", "gone", "removal"} \subseteq Waiting
      /\ {"removing", "policyGone"} \subseteq Removing \ Waiting
      /\ Waiting \subseteq Removing /\ Removing \subseteq CliPcs /\ "record" \notin Removing
      /\ "unlock" \in Elsewhere /\ "wipe" \in CliPcs /\ "wipe" \notin Removing /\ "wipe" # "record"
    BY DEF CliPcs, Removing, Waiting, Elsewhere
<1>1. CASE RemoveDevice(p)
  <2>1. cli[p].pc = "delete" /\ job' = job /\ (To(p, "gone") \/ To(p, "unlock"))
      BY <1>1 DEF RemoveDevice, AtCli
  <2>2. cli[p].op # "stop"
      BY <1>0, <2>1, NotStopping
  <2>3. CASE To(p, "gone")
      BY <1>0, <1>a, <2>1, <2>2, <2>3, CliGoes
  <2> QED  BY <1>0, <1>a, <2>1, <2>3, SimpleMoves
<1>2. CASE RemovePolicy(p)
  <2>1. /\ cli[p].pc = "removal" /\ To(p, "removing") /\ cli[p].op # "stop"
        /\ \A q \in Cli \ {p} : job'[q] = job[q]
      BY <1>0, <1>2, NotStopping DEF RemovePolicy, AtCli, StartRemoval, PolicyInv, PolicyType
  <2>2. PICK c : c = [cli[p] EXCEPT !.pc = "removing"]
      OBVIOUS
  <2>3. /\ c \in Clis /\ c.pc = "removing" /\ c.op = cli[p].op /\ c.record = cli[p].record
        /\ c.policy = cli[p].policy
      BY <1>0, <1>a, <2>2 DEF Clis
  <2>4. cli' = [cli EXCEPT ![p] = c]
      BY <1>0, <2>1, <2>2 DEF To, CliInv
  <2>5. Fits(c, job'[p])
      BY <1>0, <1>a, <2>1, <2>3 DEF Fits
  <2> QED  BY <1>0, <2>1, <2>3, <2>4, <2>5, CliChanges
<1>3. CASE PolicyRemoved(p)
  <2>1. cli[p].pc = "removing" /\ job' = job /\ (To(p, "policyGone") \/ To(p, "unlock"))
      BY <1>3 DEF PolicyRemoved, AtCli, Only, policyVars
  <2>2. cli[p].op # "stop"
      BY <1>0, <2>1, NotStopping
  <2>3. CASE To(p, "policyGone")
      BY <1>0, <1>a, <2>1, <2>2, <2>3, CliGoes
  <2> QED  BY <1>0, <1>a, <2>1, <2>3, SimpleMoves
<1>4. CASE Purge(p)
  <2>1. cli[p].pc = "purge" /\ job' = job /\ cli[p].op # "stop"
      BY <1>0, <1>4, NotStopping DEF Purge, AtCli, policyVars
  <2>2. CASE Fails(p)
      BY <1>0, <2>1, <2>2, FailsKeeps
  <2>3. CASE ~Fails(p)
    <3>1. PICK n \in Nat : n = roleFile'
        BY <1>0, <1>4, <2>3 DEF Purge, RoleFile, FilesType
    <3>2. PICK c : c = [cli[p] EXCEPT !.file = n, !.pc = "wipe"]
        OBVIOUS
    <3>3. c \in Clis /\ c.pc = "wipe" /\ c.op = cli[p].op /\ c.policy = cli[p].policy
        BY <1>0, <1>a, <3>1, <3>2 DEF Clis
    <3>4. cli' = [cli EXCEPT ![p] = c]
        BY <1>0, <1>4, <2>3, <3>1, <3>2 DEF Purge, CliInv
    <3>5. Fits(c, job'[p])
        BY <1>0, <1>a, <2>1, <3>3 DEF Fits
    <3> QED  BY <1>0, <2>1, <3>3, <3>4, <3>5, CliChanges
  <2> QED  BY <2>2, <2>3
<1> QED  BY <1>1, <1>2, <1>3, <1>4

LEMMA WipingKeeps ==
    ASSUME HostInv, coordinator' = coordinator, NEW p \in Cli,
           \/ Wipe(p) \/ WipeState(p) \/ WipeConfig(p) \/ WipeRest(p)
           \/ WipeRecord(p) \/ WipeRoot(p) \/ CliDies(p)
    PROVE  CliInv'
<1>0. CliInv /\ PolicyInv /\ cli[p] \in Clis /\ Fits(cli[p], job[p])
    BY DEF HostInv, CliInv
<1>a. {"wipeState", "wipeConfig", "wipeRest", "wipeRecord", "wipeRoot", "unlock"} \subseteq Elsewhere
    BY DEF CliPcs, Removing, Waiting, Elsewhere
<1>1. CASE Wipe(p)
  <2>1. cli[p].pc = "wipe" /\ job' = job /\ To(p, "wipeState")
      BY <1>1 DEF Wipe, AtCli, policyVars
  <2> QED  BY <1>0, <1>a, <2>1, SimpleMoves
<1>2. CASE WipeState(p)
  <2>1. cli[p].pc = "wipeState" /\ job' = job /\ To(p, "wipeConfig")
      BY <1>2 DEF WipeState, WipePolicyFiles, AtCli
  <2> QED  BY <1>0, <1>a, <2>1, SimpleMoves
<1>3. CASE WipeConfig(p)
  <2>1. cli[p].pc = "wipeConfig" /\ job' = job /\ cli[p].op # "stop"
      BY <1>0, <1>3, NotStopping DEF WipeConfig, AtCli, policyVars
  <2>2. PICK c : c = [cli[p] EXCEPT !.file = 0, !.pc = "wipeRest"]
      OBVIOUS
  <2>3. c \in Clis /\ c.pc = "wipeRest" /\ c.op = cli[p].op /\ c.policy = cli[p].policy
      BY <1>0, <1>a, <2>2 DEF Clis, Elsewhere
  <2>4. cli' = [cli EXCEPT ![p] = c]
      BY <1>0, <1>3, <2>2 DEF WipeConfig, CliInv
  <2>5. Fits(c, job'[p])
      BY <1>0, <1>a, <2>1, <2>3 DEF Fits, Elsewhere, Removing
  <2> QED  BY <1>0, <2>1, <2>3, <2>4, <2>5, CliChanges
<1>4. CASE WipeRest(p)
  <2>1. cli[p].pc = "wipeRest" /\ job' = job /\ To(p, "wipeRecord")
      BY <1>4 DEF WipeRest, WipePolicyFiles, AtCli
  <2> QED  BY <1>0, <1>a, <2>1, SimpleMoves
<1>5. CASE WipeRecord(p)
  <2>1. cli[p].pc = "wipeRecord" /\ job' = job /\ (To(p, "wipeRoot") \/ To(p, "unlock"))
      BY <1>5 DEF WipeRecord, AtCli, policyVars
  <2> QED  BY <1>0, <1>a, <2>1, SimpleMoves
<1>6. CASE WipeRoot(p)
  <2>1. cli[p].pc = "wipeRoot" /\ job' = job /\ To(p, "unlock")
      BY <1>6 DEF WipeRoot, AtCli, policyVars
  <2> QED  BY <1>0, <1>a, <2>1, SimpleMoves
<1>7. CASE CliDies(p)
  <2>1. cli' = [cli EXCEPT ![p] = NoCli] /\ \A q \in Cli \ {p} : job'[q] = job[q]
      BY <1>0, <1>7 DEF CliDies, PolicyInv, PolicyType
  <2> QED  BY <1>0, <2>1, CliStops
<1> QED  BY <1>1, <1>2, <1>3, <1>4, <1>5, <1>6, <1>7

-----------------------------------------------------------------------------
(* The files. *)
LEMMA CliFiles ==
    ASSUME HostInv, NEW p \in Cli, CliStep(p)
    PROVE  FilesType' /\ coordinator' = coordinator
<1>0. FilesType
    BY DEF HostInv
<1> USE DEF UnchangedFiles, Only, countVars, markerVars, Given
<1>1. CASE \/ Init_(p) \/ SaveConfig(p) \/ Start(p) \/ Stop(p) \/ TailnetEnds(p) \/ Lock(p)
           \/ Unlock(p) \/ PolicyDone(p) \/ ReadRecord(p) \/ PlanReady(p)
    BY <1>0, <1>1 DEF FilesType, Init_, SaveConfig, Start, Stop, TailnetEnds, Lock, Unlock,
                      PolicyDone, ReadRecord, PlanReady
<1>2. CASE \/ \E removePolicy \in BOOLEAN : Destroy(p, removePolicy)
           \/ \E task \in {"setup", "cleanup"} : Tailnet(p, task)
    BY <1>0, <1>2 DEF FilesType, Destroy, Tailnet
<1>3. CASE Check(p) \/ Preflight(p) \/ ReadControl(p) \/ AwaitStop(p) \/ PolicyRemoved(p)
    BY <1>0, <1>3 DEF FilesType, Check, Preflight, ReadControl, AwaitStop, PolicyRemoved
<1>4. CASE RemoveDevice(p) \/ RemovePolicy(p) \/ CliDies(p)
    BY <1>0, <1>4 DEF FilesType, RemoveDevice, RemovePolicy, CliDies
<1>5. CASE Launch(p)
  <2>1. daemon' \in [Daemon -> Daemons]
    <3>1. CASE UNCHANGED daemon
        BY <1>0, <3>1 DEF FilesType
    <3>2. ASSUME NEW d \in Daemon, daemon' = [daemon EXCEPT ![d].pc = "load"]
          PROVE  daemon' \in [Daemon -> Daemons]
        BY <1>0, <3>2 DEF FilesType, Daemons, DaemonPcs
    <3> QED  BY <1>5, <3>1, <3>2 DEF Launch
  <2> QED  BY <1>0, <1>5, <2>1 DEF FilesType, Launch
<1>6. CASE SaveRecord(p)
  <2>1. destroy' \in {None} \cup DestroyRecords
      BY <1>0, <1>6, SavedRecord DEF SaveRecord, FilesType
  <2> QED  BY <1>0, <1>6, <2>1 DEF FilesType, SaveRecord
<1>7. CASE RequestStop(p)
  <2>1. cli[p].nonce \in Nat
      BY DEF HostInv, CliInv, Clis
  <2> QED  BY <1>0, <1>7, <2>1 DEF FilesType, RequestStop
<1>8. CASE RecordStopped(p) \/ Purge(p)
    BY <1>0, <1>8 DEF FilesType, RecordStopped, Purge, RoleFile
<1>9. CASE \/ Wipe(p) \/ WipeState(p) \/ WipeConfig(p) \/ WipeRest(p) \/ WipeRecord(p)
  <2>1. CASE Wipe(p)
      BY <1>0, <2>1 DEF FilesType, Wipe
  <2>2. CASE WipeState(p)
      BY <1>0, <2>2 DEF FilesType, WipeState
  <2>3. CASE WipeConfig(p)
      BY <1>0, <2>3 DEF FilesType, WipeConfig
  <2>4. CASE WipeRest(p)
      BY <1>0, <2>4 DEF FilesType, WipeRest
  <2>5. CASE WipeRecord(p)
      BY <1>0, <2>5 DEF FilesType, WipeRecord
  <2> QED  BY <1>9, <2>1, <2>2, <2>3, <2>4, <2>5
<1>10. CASE WipeRoot(p)
  <2>1. PICK b \in BOOLEAN : b = (root /\ ~EmptyDir)
      OBVIOUS
  <2>2. root' \in BOOLEAN
      BY <1>10, <2>1 DEF WipeRoot
  <2> QED  BY <1>0, <1>10, <2>2 DEF FilesType, WipeRoot
<1> QED  BY <1>1, <1>2, <1>3, <1>4, <1>5, <1>6, <1>7, <1>8, <1>9, <1>10 DEF CliStep

LEMMA DaemonFiles ==
    ASSUME HostInv, NEW d \in Daemon, DaemonStep(d)
    PROVE  FilesType' /\ coordinator' = coordinator /\ cli' = cli
<1>0. FilesType /\ daemon[d] \in Daemons
    BY DEF HostInv, FilesType
<1> USE DEF UnchangedFiles, OnlyDaemon, countVars, markerVars, Becomes
<1>a. Off \in Daemons
    BY DEF Off, Daemons, DaemonPcs
<1>b. ASSUME NEW x \in DaemonPcs, Becomes(d, x) PROVE daemon' \in [Daemon -> Daemons]
    BY <1>0, <1>b DEF FilesType, Daemons
<1>c. ASSUME daemon' = [daemon EXCEPT ![d] = Off] PROVE daemon' \in [Daemon -> Daemons]
    BY <1>0, <1>a, <1>c DEF FilesType
<1>d. {"guard", "check", "monitor", "network", "retain", "ready", "stopping"} \subseteq DaemonPcs
    BY DEF DaemonPcs
<1>1. CASE LoadConfig(d)
  <2>1. daemon' \in [Daemon -> Daemons]
    <3>1. CASE config
        BY <1>0, <1>1, <3>1 DEF LoadConfig, FilesType, Daemons, DaemonPcs
    <3>2. CASE ~config
        BY <1>1, <1>c, <3>2 DEF LoadConfig
    <3> QED  BY <3>1, <3>2
  <2> QED  BY <1>0, <1>1, <2>1 DEF LoadConfig, FilesType
<1>2. CASE TakeGuard(d)
  <2>1. /\ roleFile' \in Nat /\ fresh' \in Nat /\ root' \in BOOLEAN
        /\ UNCHANGED <<config, lock, destroy, markerVars, cli, countVars, policyVars>>
    <3>1. roleFile \in Nat /\ fresh \in Nat /\ root \in BOOLEAN /\ RoleFile \in Nat
        BY <1>0 DEF FilesType, RoleFile
    <3>2. CASE IsRunning
        BY <1>2, <3>1, <3>2 DEF TakeGuard
    <3>3. CASE ~IsRunning
        BY <1>2, <3>1, <3>3 DEF TakeGuard
    <3> QED  BY <3>2, <3>3
  <2>2. daemon' \in [Daemon -> Daemons]
    <3>1. CASE daemon' = [daemon EXCEPT ![d] = Off]
        BY <1>c, <3>1
    <3>2. CASE daemon' = [daemon EXCEPT ![d].file = roleFile', ![d].pc = "check"]
        BY <1>0, <2>1, <3>2 DEF FilesType, Daemons, DaemonPcs
    <3> QED  BY <1>2, <3>1, <3>2 DEF TakeGuard
  <2> QED  BY <1>0, <2>1, <2>2 DEF FilesType
<1>3. CASE CheckAgain(d)
  <2>1. daemon' \in [Daemon -> Daemons]
    <3>1. CASE MayRun
        BY <1>0, <1>3, <3>1 DEF CheckAgain, FilesType, Daemons, DaemonPcs
    <3>2. CASE ~MayRun
        BY <1>3, <1>c, <3>2 DEF CheckAgain
    <3> QED  BY <3>1, <3>2
  <2> QED  BY <1>0, <1>3, <2>1 DEF CheckAgain, FilesType
<1>4. CASE StartMonitor(d)
  <2>1. fresh' \in Nat /\ control' \in Nat
      BY <1>0, <1>4 DEF StartMonitor, FilesType
  <2>2. daemon' \in [Daemon -> Daemons]
      BY <1>0, <1>4, <2>1 DEF StartMonitor, FilesType, Daemons, DaemonPcs
  <2> QED  BY <1>0, <1>4, <2>1, <2>2 DEF StartMonitor, FilesType
<1>5. CASE StartNetwork(d)
  <2>1. fresh' \in Nat /\ tsnet' \in Nat
      BY <1>0, <1>5 DEF StartNetwork, FilesType
  <2>2. daemon' \in [Daemon -> Daemons]
      BY <1>5, <1>b, <1>d DEF StartNetwork
  <2> QED  BY <1>0, <1>5, <2>1, <2>2 DEF StartNetwork, FilesType
<1>6. CASE RetainIdentity(d)
  <2>1. daemon' \in [Daemon -> Daemons]
      BY <1>6, <1>b, <1>d DEF RetainIdentity
  <2> QED  BY <1>0, <1>6, <2>1 DEF RetainIdentity, FilesType
<1>7. CASE Stops(d)
  <2>1. daemon' \in [Daemon -> Daemons]
      BY <1>7, <1>b, <1>d DEF Stops
  <2> QED  BY <1>0, <1>7, <2>1 DEF Stops, FilesType
<1>8. CASE ReleaseGuard(d) \/ DaemonDies(d)
  <2>1. daemon' \in [Daemon -> Daemons]
      BY <1>8, <1>c DEF ReleaseGuard, DaemonDies
  <2> QED  BY <1>0, <1>8, <2>1 DEF ReleaseGuard, DaemonDies, FilesType
<1> QED  BY <1>1, <1>2, <1>3, <1>4, <1>5, <1>6, <1>7, <1>8 DEF DaemonStep

-----------------------------------------------------------------------------
(* The policy, seen from the host. *)
LEMMA PolicyStands ==
    ASSUME PolicyInv,
           UNCHANGED <<acl, etag, authKeys, others, done, pending, applies, lived, job>>,
           late' \in SUBSET LateRequests,
           \A r \in late' : r.kind = "policy" => r \in late
    PROVE  PolicyInv'
<1>1. \A tag, want : Current(tag, want)' <=> Current(tag, want)
    BY DEF Current
<1>2. \A r \in late' : r.kind = "policy" => Current(r.tag, r.want)
    BY DEF PolicyInv, PolicyOk
<1>3. (\A r \in late : r.kind = "policy" => Current(r.tag, r.want))'
    BY <1>1, <1>2
<1>4. (\A p \in Cli : JobOk(job[p]))'
    BY DEF PolicyInv, PolicyOk, JobOk, Current, ApplyOk, RemovalOk
<1> QED  BY <1>3, <1>4 DEF PolicyInv, PolicyType, PolicyOk

LEMMA CliPolicy == ASSUME HostInv, NEW p \in Cli, CliStep(p) PROVE PolicyInv'
<1>0. PolicyInv /\ cli[p] \in Clis /\ Fits(cli[p], job[p]) /\ None \in Nat \cup {None}
    BY DEF HostInv, CliInv
<1>1. CASE UNCHANGED policyVars
    BY <1>0, <1>1, PolicyInvKeeps
<1>2. ASSUME NEW task \in {"setup", "cleanup"}, Tailnet(p, task) PROVE PolicyInv'
  <2>1. CASE Begin(p, "setup", "setup", None)
      BY <1>0, <2>1, BeginKeeps
  <2>2. CASE Begin(p, "cleanup", "prepare", None)
      BY <1>0, <2>2, BeginKeeps
  <2> QED  BY <1>2, <2>1, <2>2 DEF Tailnet
<1>3. CASE Check(p)
    BY <1>0, <1>1, <1>3, BeginKeeps DEF Check
<1>4. CASE Preflight(p)
  <2>1. cli[p].device \in Nat \cup {None}
      BY <1>0 DEF Clis
  <2> QED  BY <1>0, <1>1, <1>4, <2>1, BeginKeeps DEF Preflight
<1>5. CASE RemoveDevice(p)
  <2>1. PICK sure \in Confirmed : DeleteDevice(cli[p].device, sure) /\ job' = job
      BY <1>5 DEF RemoveDevice
  <2>2. UNCHANGED <<acl, etag, authKeys, others, done, pending, applies, lived, job>>
      BY <2>1 DEF DeleteDevice, fileVars
  <2>3. PICK r \in LateRequests : r = [kind |-> "device", device |-> cli[p].device]
      BY <1>0 DEF Clis, LateRequests
  <2>4. late' \subseteq late \cup {r} /\ r.kind # "policy"
      BY <2>1, <2>3 DEF DeleteDevice
  <2>5. late' \in SUBSET LateRequests /\ \A s \in late' : s.kind = "policy" => s \in late
      BY <1>0, <2>3, <2>4 DEF PolicyInv, PolicyType
  <2> QED  BY <1>0, <2>2, <2>5, PolicyStands
<1>6. CASE RemovePolicy(p)
  <2>1. At(p, "planned")
    <3>1. cli[p].pc = "removal" /\ cli[p].pc \in Waiting
        BY <1>6 DEF RemovePolicy, AtCli, Waiting
    <3>2. cli[p].policy
        BY <1>0, <3>1 DEF Fits
    <3> QED  BY <1>0, <3>1, <3>2 DEF Fits, At
  <2> QED  BY <1>0, <1>6, <2>1, StartKeeps DEF RemovePolicy
<1>7. CASE WipeState(p) \/ WipeRest(p)
    BY <1>0, <1>7, WipeKeeps DEF WipeState, WipeRest
<1>8. CASE CliDies(p)
  <2>1. /\ NoJob \in Jobs /\ NoJob.tag = 0 /\ NoJob.want = {} /\ NoJob.apply = 0
        /\ NoJob.out = None /\ NoJob.kind = None /\ NoJob.pc = None
      BY DEF NoJob, Jobs
  <2>2. /\ job' = [job EXCEPT ![p] = NoJob] /\ authKeys' \subseteq authKeys
        /\ UNCHANGED <<acl, etag, late, others, fileVars>>
      BY <1>8 DEF CliDies, tailnetVars
  <2> QED  BY <1>0, <2>1, <2>2, NewJob
<1>9. CASE \/ Init_(p) \/ SaveConfig(p) \/ Start(p) \/ Stop(p) \/ TailnetEnds(p)
           \/ Lock(p) \/ Unlock(p) \/ PolicyDone(p) \/ Launch(p) \/ ReadRecord(p)
           \/ PlanReady(p) \/ SaveRecord(p) \/ ReadControl(p) \/ RequestStop(p)
           \/ AwaitStop(p) \/ RecordStopped(p) \/ PolicyRemoved(p) \/ Purge(p) \/ Wipe(p)
           \/ WipeConfig(p) \/ WipeRecord(p) \/ WipeRoot(p)
           \/ \E removePolicy \in BOOLEAN : Destroy(p, removePolicy)
  <2>1. UNCHANGED policyVars
      BY <1>9 DEF Init_, SaveConfig, Start, Stop, TailnetEnds, Lock, Unlock, PolicyDone, Launch,
                  ReadRecord, PlanReady, SaveRecord, ReadControl, RequestStop, AwaitStop,
                  RecordStopped, PolicyRemoved, Purge, Wipe, WipeConfig, WipeRecord, WipeRoot,
                  Destroy, Only
  <2> QED  BY <1>1, <2>1
<1> QED  BY <1>2, <1>3, <1>4, <1>5, <1>6, <1>7, <1>8, <1>9 DEF CliStep

LEMMA DaemonPolicy == ASSUME HostInv, NEW d \in Daemon, DaemonStep(d) PROVE PolicyInv' /\ job' = job
<1>1. CASE UNCHANGED policyVars
    BY <1>1, PolicyInvKeeps DEF HostInv, policyVars
<1>2. CASE StartNetwork(d)
  <2>1. /\ UNCHANGED <<acl, etag, authKeys, others, done, pending, applies, lived, job>>
        /\ late' = late
      BY <1>2 DEF StartNetwork, fileVars
  <2>2. late' \in SUBSET LateRequests /\ PolicyInv
      BY <2>1 DEF HostInv, PolicyInv, PolicyType
  <2> QED  BY <2>1, <2>2, PolicyStands
<1>3. CASE \/ LoadConfig(d) \/ TakeGuard(d) \/ CheckAgain(d) \/ StartMonitor(d)
           \/ RetainIdentity(d) \/ Stops(d) \/ ReleaseGuard(d) \/ DaemonDies(d)
    BY <1>1, <1>3 DEF LoadConfig, TakeGuard, CheckAgain, StartMonitor, RetainIdentity, Stops,
                      ReleaseGuard, DaemonDies, OnlyDaemon
<1> QED  BY <1>2, <1>3 DEF DaemonStep

-----------------------------------------------------------------------------
(* A command's work is not touched by the others, except that they may     *)
(* have cleaned the policy.                                                *)
LEMMA PublishedJob ==
    ASSUME PolicyInv, NEW q \in Cli, NEW new, NEW jobs, Publish(new, jobs), jobs[q] = job[q]
    PROVE  job'[q].pc = job[q].pc /\ job'[q].out = job[q].out
<1>1. job'[q] = Cleaned(job[q], new) /\ job[q] \in Jobs
    BY DEF Publish, Cleaned, PolicyInv, PolicyType
<1> QED  BY <1>1, CleanedFields

LEMMA OtherJobs ==
    ASSUME PolicyInv, NEW p \in Cli, NEW q \in Cli \ {p}, PolicyStep(p)
    PROVE  job'[q].pc = job[q].pc /\ job'[q].out = job[q].out
<1>0. job \in [Cli -> Jobs]
    BY DEF PolicyInv, PolicyType
<1>1. \A x : Go(p, x)[q] = job[q] /\ Ends(p, x)[q] = job[q]
    BY <1>0 DEF Go, Ends
<1>a. \A x : Go(p, x) \in [Cli -> {Go(p, x)[u] : u \in Cli}]
    BY <1>0 DEF Go
<1>2. Refused(p) => job'[q] = job[q]
    BY <1>1 DEF Refused
<1>3. \A x : Moves(p, x) => job'[q] = job[q]
    BY <1>1 DEF Moves
<1>4. CASE Post(p)
  <2>1. Updated(p)[q] = job[q] /\ Unanswered(p)[q] = job[q]
    <3>1. CASE job[p].kind = "init"
        BY <1>1, <3>1 DEF Updated, Unanswered
    <3>2. CASE job[p].kind = "setup"
        BY <1>1, <3>2 DEF Updated, Unanswered
    <3>3. CASE job[p].kind \notin {"init", "setup"}
        BY <1>1, <3>3 DEF Updated, Unanswered
    <3> QED  BY <3>1, <3>2, <3>3
  <2> QED  BY <1>1, <1>4, <2>1, PublishedJob DEF Post
<1>5. CASE GivesUp(p) \/ ReadMarkers(p) \/ ForgetPending(p) \/ Confirm(p) \/ RecordComplete(p)
    BY <1>1, <1>2, <1>3, <1>5 DEF GivesUp, ReadMarkers, ForgetPending, Confirm, RecordComplete
<1>6. CASE ReconcilePending(p)
    BY <1>1, <1>2, <1>3, <1>6, <1>a DEF ReconcilePending
<1>7. CASE Preview(p)
    BY <1>1, <1>7, <1>a DEF Preview
<1>8. CASE SaveBackup(p)
    BY <1>1, <1>2, <1>8, <1>a DEF SaveBackup
<1>9. CASE SaveProposal(p) \/ ClearPending(p)
    BY <1>1, <1>9 DEF SaveProposal, ClearPending
<1>10. CASE Setup(p)
    BY <1>1, <1>10, <1>a DEF Setup
<1>11. CASE CreateKey(p)
    BY <1>0, <1>1, <1>11, <1>a DEF CreateKey
<1>12. CASE RevokeKeys(p)
    BY <1>1, <1>12 DEF RevokeKeys
<1>13. CASE PrepareMeshPolicyRemoval(p)
    BY <1>1, <1>2, <1>13, <1>a DEF PrepareMeshPolicyRemoval
<1>14. CASE CheckDependencies(p) \/ RecheckDependencies(p) \/ ReadBack(p)
    BY <1>1, <1>2, <1>3, <1>14 DEF CheckDependencies, RecheckDependencies, ReadBack
<1> QED  BY <1>4, <1>5, <1>6, <1>7, <1>8, <1>9, <1>10, <1>11, <1>12, <1>13, <1>14 DEF PolicyStep

(* A plan waits for its command. *)
LEMMA PlannedWaits == ASSUME NEW p \in Cli, job[p].pc = "planned" PROVE ~PolicyStep(p)
BY DEF PolicyStep, At, GivesUp, ReadMarkers, ReconcilePending, ForgetPending, Preview, Confirm,
       SaveBackup, SaveProposal, Setup, Post, RecordComplete, ClearPending, CreateKey,
       RevokeKeys, PrepareMeshPolicyRemoval, CheckDependencies, RecheckDependencies, ReadBack

LEMMA TailnetJobs ==
    ASSUME PolicyInv, NEW q \in Cli, TailnetStep
    PROVE  job'[q].pc = job[q].pc /\ job'[q].out = job[q].out
<1>1. ASSUME NEW e \in Entries, OutsideEdit(e)
      PROVE  job'[q].pc = job[q].pc /\ job'[q].out = job[q].out
    BY <1>1, PublishedJob DEF OutsideEdit
<1>2. ASSUME NEW r \in late, LateEffect(r)
      PROVE  job'[q].pc = job[q].pc /\ job'[q].out = job[q].out
    BY <1>2, PublishedJob DEF LateEffect
<1> QED  BY <1>1, <1>2 DEF TailnetStep, OtherDevice

LEMMA WorkKeeps ==
    ASSUME HostInv, UNCHANGED hostVars,
           \A q \in Cli : job[q].pc = "planned" =>
               job'[q].pc = job[q].pc /\ job'[q].out = job[q].out
    PROVE  FilesType' /\ CliInv'
<1>1. FilesType'
    BY DEF HostInv, FilesType, hostVars
<1>2. ASSUME NEW q \in Cli PROVE Fits(cli[q], job[q])'
    BY DEF HostInv, CliInv, Fits, hostVars
<1> QED  BY <1>1, <1>2 DEF HostInv, CliInv, hostVars

-----------------------------------------------------------------------------
LEMMA HostInitial == HostInit /\ PolicyInit => HostInv
<1> SUFFICES ASSUME HostInit, PolicyInit PROVE HostInv
    OBVIOUS
<1>0. None \notin Places /\ None \notin Outcomes
    BY PolicyAssumption
<1>1. FilesType
  <2>1. Off \in Daemons
      BY DEF Off, Daemons, DaemonPcs
  <2> QED  BY <2>1 DEF HostInit, FilesType
<1>2. CliInv
    BY NoCliFits DEF HostInit, CliInv
<1>3. PolicyType
  <2>1. NoJob \in Jobs
      BY DEF NoJob, Jobs
  <2>2. acl \in SUBSET Entries
      BY DEF PolicyInit, Entries
  <2>3. applies \in Seq(SavedApplies) /\ late \in SUBSET LateRequests
      BY DEF PolicyInit
  <2>4. job \in [Cli -> Jobs]
      BY <2>1 DEF PolicyInit
  <2> QED  BY <2>2, <2>3, <2>4 DEF PolicyInit, PolicyType
<1>4. acl \ Mesh = {} /\ others = {}
    BY DEF PolicyInit
<1>5. JobOk(NoJob) /\ ~Proposing(NoJob)
  <2>1. /\ NoJob.pc = None /\ NoJob.kind = None /\ NoJob.tag = 0 /\ NoJob.want = {}
        /\ NoJob.apply = 0 /\ NoJob.out = None
      BY DEF NoJob
  <2>2. etag = 0 /\ Len(applies) = 0
      BY DEF PolicyInit
  <2>3. NoJob.pc \notin Places
      BY <1>0, <2>1
  <2>4. Current(NoJob.tag, NoJob.want)
      BY <1>4, <2>1, <2>2 DEF Current
  <2>5. ApplyOk(NoJob) /\ ~Proposing(NoJob)
      BY <2>1, <2>2, <2>3 DEF ApplyOk, Proposing, Places, InitPlaces
  <2>6. RemovalOk(NoJob)
      BY <1>0, <2>1 DEF RemovalOk, Outcomes
  <2> QED  BY <2>3, <2>4, <2>5, <2>6 DEF JobOk, Places
<1>6. PolicyOk
  <2>1. \A p \in Cli : job[p] = NoJob
      BY DEF PolicyInit
  <2>2. NoJob.out # "error"
      BY <1>0 DEF NoJob, Outcomes
  <2> QED  BY <1>4, <1>5, <2>1, <2>2 DEF PolicyOk, PolicyInit
<1> QED  BY <1>1, <1>2, <1>3, <1>6 DEF HostInv, PolicyInv

LEMMA HostStep == HostInv /\ [HostNext]_<<hostVars, policyVars, raced>> => HostInv'
<1> SUFFICES ASSUME HostInv, [HostNext]_<<hostVars, policyVars, raced>> PROVE HostInv'
    OBVIOUS
<1>0. PolicyInv
    BY DEF HostInv
<1>1. ASSUME NEW p \in Cli, CliStep(p) PROVE HostInv'
  <2>1. PolicyInv' /\ FilesType' /\ coordinator' = coordinator
      BY <1>1, CliPolicy, CliFiles
  <2>2. CliInv'
      BY <1>1, <2>1, GivenKeeps, LockedKeeps, RecordKeeps, SaveKeeps, StoppingKeeps,
         RemovalKeeps, WipingKeeps DEF CliStep
  <2> QED  BY <2>1, <2>2 DEF HostInv
<1>2. ASSUME NEW d \in Daemon, DaemonStep(d) PROVE HostInv'
  <2>1. /\ PolicyInv' /\ FilesType' /\ coordinator' = coordinator /\ cli' = cli /\ job' = job
      BY <1>2, DaemonPolicy, DaemonFiles
  <2>2. CliInv'
      BY <2>1 DEF HostInv, CliInv, Fits
  <2> QED  BY <2>1, <2>2 DEF HostInv
<1>3. CASE ClearLock
  <2>1. /\ UNCHANGED policyVars /\ UNCHANGED <<cli, coordinator>> /\ lock' = FALSE
        /\ UNCHANGED <<root, config, roleFile, destroy, identity, control, request, tsnet>>
        /\ UNCHANGED <<fresh, daemon>>
      BY <1>3 DEF ClearLock, countVars, markerVars
  <2>2. FilesType'
      BY <2>1 DEF HostInv, FilesType
  <2>3. CliInv'
      BY <2>1 DEF HostInv, CliInv, Fits, policyVars
  <2> QED  BY <1>0, <2>1, <2>2, <2>3, PolicyInvKeeps DEF HostInv
<1>4. ASSUME NEW p \in Cli, PolicyStep(p), UNCHANGED hostVars PROVE HostInv'
  <2>1. \A q \in Cli : job[q].pc = "planned" =>
            job'[q].pc = job[q].pc /\ job'[q].out = job[q].out
      BY <1>0, <1>4, OtherJobs, PlannedWaits
  <2> QED  BY <1>0, <1>4, <2>1, WorkKeeps, PolicyStepKeeps DEF HostInv
<1>5. CASE TailnetStep /\ UNCHANGED hostVars
    BY <1>0, <1>5, TailnetJobs, WorkKeeps, TailnetKeeps DEF HostInv
<1>6. CASE UNCHANGED <<hostVars, policyVars, raced>>
  <2>1. job' = job
      BY <1>6 DEF policyVars
  <2> QED  BY <1>0, <1>6, <2>1, WorkKeeps, PolicyInvKeeps DEF HostInv
<1> QED  BY <1>1, <1>2, <1>3, <1>4, <1>5, <1>6 DEF HostNext, HostActions

(* The invariant of the commands, the files and the work on the policy. *)
THEOREM HostInvariant == HostSpec => []HostInv
BY HostInitial, HostStep, PTL DEF HostSpec

(***************************************************************************)
(* What the commands do to the tailnet and say of it is honest: no change  *)
(* of somebody else is lost, the receipt names a proposal that lived, a    *)
(* removal that succeeds cleaned the policy, and a failed setup leaves no  *)
(* key it does not speak of (native.go:203, policy_recovery.go:63,         *)
(* policy.go:260, native.go:471), for any number of commands, entries,     *)
(* keys and daemons, with answers lost, effects late and processes dying.  *)
(***************************************************************************)
THEOREM PolicyHonestAlways == HostSpec => []PolicyHonest
<1>1. HostInv => PolicyHonest
    BY DEF HostInv, PolicyInv, PolicyOk, PolicyHonest, JobOk, RemovalOk
<1> QED  BY <1>1, HostInvariant, PTL

-----------------------------------------------------------------------------
(***************************************************************************)
(* Destruction (TeardownInv), as long as neither of the two races has      *)
(* happened: one command destroys at a time, from its lock to the last     *)
(* file, and daemons run on the guard by its name.  Then the record is the *)
(* one the command has (RecordFits), nothing runs from the stop to the end *)
(* of the purge, a device may be missing only while a record names it, the *)
(* purge comes after the device is gone (ErasingOk), and a command that    *)
(* still waits for its lock is after the same device (Aims).               *)
(***************************************************************************)
Stopped  == {"delete", "gone", "removal", "removing", "policyGone", "purge"} \cup Erasing
Recorded == {"stop", "request", "await", "stopped"} \cup Stopped

NoDaemon == \A d \in Daemon : ~Active(d)
Leaving(k) == \E r \in late : r.kind = "device" /\ r.device = k

(* The coordinator's device. *)
DeviceOk ==
    /\ enrolled \ {0} \subseteq {tsnet} /\ identity \in {0, tsnet}
    /\ tsnet # 0 /\ (tsnet \notin enrolled \/ Leaving(tsnet)) => destroy # None /\ NoDaemon
    /\ destroy # None => /\ destroy.device # 0 /\ ~destroy.local
                         /\ tsnet \in {0, destroy.device}
                         /\ tsnet = 0 => NoDaemon
                         /\ destroy.deviceRemoved => destroy.device \notin enrolled

KnownDevices ==
    /\ tsnet <= fresh /\ identity <= fresh
    /\ destroy # None => destroy.device <= fresh
    /\ \A r \in late : r.kind = "device" => r.device <= fresh

RunningOk ==
    \A d \in Daemon :
        /\ daemon[d].pc = "check" \/ Active(d) => daemon[d].file # 0
        /\ Active(d) => config /\ (destroy # None => ~destroy.deviceRemoved)

(* A destroying command c is after the device of this installation. *)
Aims(c) == c.device # 0 /\ c.device = IF destroy = None THEN tsnet ELSE destroy.device

RecordFits(c) ==
    /\ c.pc \in {"remote", "plan", "intent"} =>
          IF destroy # None THEN c.record = destroy
          ELSE /\ c.record.device = c.device /\ c.record.local = ~coordinator
               /\ ~c.record.deviceRemoved
    /\ c.pc \in Recorded => destroy # None /\ c.record = destroy
    /\ c.pc \in Stopped => NoDaemon

ErasingOk(c) ==
    /\ c.pc = "gone" => c.device \notin enrolled
    /\ c.pc \in Erasing => destroy.deviceRemoved
    /\ c.pc \in Erasing \ {"wipe"} => identity = 0
    /\ c.pc \in Erasing \ {"wipe", "wipeState"} => tsnet = 0

DestroyerOk(c) ==
    /\ c.device <= fresh
    /\ c.pc \in {"purge", "wipeRoot"} \cup Erasing => c.op = "destroy"
    /\ Destroying(c) /\ c.pc \notin {"wipeRoot", "unlock"} =>
          RecordFits(c) /\ (coordinator => Aims(c) /\ ErasingOk(c))

HostOk == (coordinator => DeviceOk) /\ KnownDevices /\ RunningOk
TeardownInv == HostOk /\ \A p \in Cli : DestroyerOk(cli[p])

-----------------------------------------------------------------------------
LEMMA TeardownStarts == HostInit /\ PolicyInit => TeardownInv
<1> SUFFICES ASSUME HostInit, PolicyInit PROVE TeardownInv
    OBVIOUS
<1>1. HostOk
    BY DEF HostInit, PolicyInit, HostOk, DeviceOk, KnownDevices, RunningOk, Active, Off
<1>2. DestroyerOk(NoCli)
    BY DEF HostInit, NoCli, DestroyerOk, Destroying, Erasing
<1> QED  BY <1>1, <1>2 DEF HostInit, TeardownInv

(* Most steps leave the device, its names and the record alone, start no   *)
(* daemon, and take no configuration away.                                 *)
Still ==
    /\ UNCHANGED <<coordinator, tsnet, identity, destroy, enrolled>>
    /\ \A r \in late' : r.kind = "device" => r \in late
    /\ \A d \in Daemon : /\ Active(d)' => Active(d) /\ daemon'[d].file = daemon[d].file
                         /\ daemon'[d].pc = "check" => daemon'[d].file # 0
    /\ (config => config') /\ fresh <= fresh'

LEMMA StillKeeps ==
    ASSUME HostInv, HostInv', HostOk, Still
    PROVE  HostOk' /\ \A c \in Clis : DestroyerOk(c) => DestroyerOk(c)'
<1>0. /\ fresh \in Nat /\ fresh' \in Nat /\ tsnet \in Nat /\ identity \in Nat
      /\ \A r \in late : r.kind = "device" => r.device \in Nat
      /\ destroy \in {None} \cup DestroyRecords /\ (coordinator \in BOOLEAN)
    BY DEF HostInv, FilesType, PolicyInv, PolicyType, LateRequests, PolicyUpdates
<1>1. NoDaemon => NoDaemon'
    BY DEF Still, NoDaemon
<1>2. \A k : Leaving(k)' => Leaving(k)
    BY DEF Still, Leaving
<1>3. DeviceOk => DeviceOk'
    BY <1>1, <1>2 DEF Still, DeviceOk
<1>4. KnownDevices'
  <2>1. destroy # None => destroy.device \in Nat
      BY <1>0 DEF DestroyRecords
  <2> QED  BY <1>0, <2>1 DEF Still, HostOk, KnownDevices
<1>5. RunningOk'
    BY DEF Still, HostOk, RunningOk
<1>6. ASSUME NEW c \in Clis, DestroyerOk(c) PROVE DestroyerOk(c)'
  <2>1. c.device <= fresh'
      BY <1>0, <1>6 DEF Still, DestroyerOk, Clis
  <2>2. RecordFits(c) => RecordFits(c)'
      BY <1>1 DEF Still, RecordFits
  <2>3. Aims(c) /\ ErasingOk(c) => (Aims(c) /\ ErasingOk(c))'
      BY DEF Still, Aims, ErasingOk
  <2> QED  BY <1>6, <2>1, <2>2, <2>3 DEF Still, DestroyerOk
<1> QED  BY <1>3, <1>4, <1>5, <1>6 DEF HostOk, Still

(* A command that takes the state c in a step of this kind. *)
LEMMA StillMoves ==
    ASSUME HostInv, HostInv', TeardownInv, Still, NEW p \in Cli, NEW c \in Clis,
           cli' = [cli EXCEPT ![p] = c], DestroyerOk(c)
    PROVE  TeardownInv'
<1>1. HostOk' /\ \A e \in Clis : DestroyerOk(e) => DestroyerOk(e)'
    BY StillKeeps DEF TeardownInv
<1>2. ASSUME NEW q \in Cli PROVE DestroyerOk(cli[q])'
  <2>1. PICK e \in Clis : e = IF q = p THEN c ELSE cli[q]
      BY DEF HostInv, CliInv
  <2>2. cli'[q] = e /\ DestroyerOk(e)
      BY <2>1 DEF HostInv, CliInv, TeardownInv
  <2>3. DestroyerOk(e)'
      BY <1>1, <2>2
  <2> QED  BY <2>2, <2>3 DEF DestroyerOk, RecordFits, Aims, ErasingOk, Destroying
<1> QED  BY <1>1, <1>2 DEF TeardownInv

LEMMA StillStands ==
    ASSUME HostInv, HostInv', TeardownInv, Still, cli' = cli
    PROVE  TeardownInv'
<1>1. HostOk' /\ \A e \in Clis : DestroyerOk(e) => DestroyerOk(e)'
    BY StillKeeps DEF TeardownInv
<1>2. ASSUME NEW q \in Cli PROVE DestroyerOk(cli[q])'
  <2>1. PICK e \in Clis : e = cli[q] /\ DestroyerOk(e)
      BY DEF HostInv, CliInv, TeardownInv
  <2>2. DestroyerOk(e)'
      BY <1>1, <2>1
  <2> QED  BY <2>1, <2>2 DEF DestroyerOk, RecordFits, Aims, ErasingOk, Destroying
<1> QED  BY <1>1, <1>2 DEF TeardownInv

(* Places at which nothing is asked of a command. *)
Neutral == {"idle", "unlock", "save", "lock", "check", "policy", "launch", "record", "tailnet"}

LEMMA NoCliOk == ASSUME HostInv PROVE DestroyerOk(NoCli)
BY DEF NoCli, DestroyerOk, Destroying, Erasing, HostInv, FilesType

(* A command that goes to x. *)
LEMMA DestroyerGoes ==
    ASSUME TeardownInv, NEW p \in Cli, NEW x \in CliPcs, NEW c,
           c.op = cli[p].op, c.device = cli[p].device, c.pc = x,
           \/ x \in Neutral /\ (cli[p].pc \notin {"wipeRoot", "unlock", "idle"} \/ x \in {"idle", "unlock"})
           \/ cli[p].op # "destroy" /\ x \notin {"purge", "wipeRoot"} \cup Erasing
           \/ /\ cli[p].pc \in {"remote", "plan"} /\ x \in {"plan", "intent"}
              /\ c.record = cli[p].record
           \/ /\ cli[p].pc \in Recorded /\ x \in Recorded \ ({"gone"} \cup Erasing)
              /\ x \in Stopped => cli[p].pc \in Stopped \/ NoDaemon
              /\ x = "purge" => cli[p].op = "destroy"
              /\ c.record = cli[p].record
    PROVE  DestroyerOk(c)
<1>0. DestroyerOk(cli[p])
    BY DEF TeardownInv
<1>1. c.device <= fresh
    BY <1>0 DEF DestroyerOk
<1>2. c.pc \in {"purge", "wipeRoot"} \cup Erasing => c.op = "destroy"
    BY DEF Neutral, Recorded, Stopped, Erasing
<1>3. ASSUME Destroying(c), c.pc \notin {"wipeRoot", "unlock"}
      PROVE  RecordFits(c) /\ (coordinator => Aims(c) /\ ErasingOk(c))
  <2>1. RecordFits(cli[p]) /\ (coordinator => Aims(cli[p]) /\ ErasingOk(cli[p]))
    <3>1. cli[p].pc \notin {"wipeRoot", "unlock", "idle"}
        BY <1>3 DEF Destroying, Recorded, Stopped, Erasing, Neutral
    <3> QED  BY <1>0, <1>3, <3>1 DEF DestroyerOk, Destroying
  <2>2. RecordFits(c)
      BY <1>3, <2>1 DEF RecordFits, Destroying, Neutral, Recorded, Stopped, Erasing
  <2>3. coordinator => Aims(c) /\ ErasingOk(c)
      BY <1>3, <2>1 DEF Aims, ErasingOk, Destroying, Neutral, Recorded, Stopped, Erasing
  <2> QED  BY <2>2, <2>3
<1> QED  BY <1>1, <1>2, <1>3 DEF DestroyerOk

LEMMA DestroyerStarts ==
    ASSUME HostInv, TeardownInv, NEW p \in Cli, NEW c, c.op = "destroy", c.pc = "lock",
           c.device = IF coordinator THEN ManagedIdentity ELSE 0,
           coordinator => ManagedIdentity # 0
    PROVE  DestroyerOk(c)
<1>1. coordinator => ManagedIdentity = IF destroy = None THEN tsnet ELSE destroy.device
  <2>1. coordinator => identity \in {0, tsnet}
      BY DEF TeardownInv, HostOk, DeviceOk
  <2> QED  BY <2>1 DEF ManagedIdentity
<1>2. c.device <= fresh
    BY <1>1 DEF TeardownInv, HostOk, KnownDevices, HostInv, FilesType
<1>3. coordinator => Aims(c)
    BY <1>1 DEF Aims
<1> QED  BY <1>2, <1>3 DEF DestroyerOk, RecordFits, ErasingOk, Recorded, Stopped, Erasing

LEMMA RecordRead ==
    ASSUME HostInv, TeardownInv, NEW p \in Cli, ReadRecord(p), ~Fails(p), NEW c,
           c.op = cli[p].op, c.device = cli[p].device, c.pc \in {"remote", "intent"},
           c.record = IF destroy = None THEN NewRecord(p) ELSE destroy
    PROVE  DestroyerOk(c)
<1>1. DestroyerOk(cli[p]) /\ cli[p].pc = "record"
    BY DEF TeardownInv, ReadRecord, AtCli
<1>2. RecordFits(c)
  <2>1. /\ NewRecord(p).device = cli[p].device /\ NewRecord(p).local = ~coordinator
        /\ ~NewRecord(p).deviceRemoved
      BY DEF NewRecord
  <2> QED  BY <2>1 DEF RecordFits, Recorded, Stopped, Erasing
<1>3. Destroying(c) => (coordinator => Aims(c))
    BY <1>1 DEF DestroyerOk, Destroying, Aims
<1> QED  BY <1>1, <1>2, <1>3 DEF DestroyerOk, ErasingOk, Erasing

LEMMA PurgeBegins ==
    ASSUME HostInv, TeardownInv, NEW p \in Cli, cli[p].pc = "purge", MayPurge, NEW c,
           c.op = cli[p].op, c.device = cli[p].device, c.pc = "wipe", c.record = cli[p].record
    PROVE  DestroyerOk(c)
<1>1. DestroyerOk(cli[p]) /\ cli[p].op = "destroy"
    BY DEF TeardownInv, DestroyerOk
<1>2. RecordFits(cli[p]) /\ (coordinator => Aims(cli[p]))
    BY <1>1 DEF DestroyerOk, Destroying
<1>3. coordinator => destroy.deviceRemoved
    BY DEF MayPurge, TeardownInv, HostOk, DeviceOk
<1>4. RecordFits(c)
    BY <1>2 DEF RecordFits, Recorded, Stopped, Erasing
<1>5. coordinator => Aims(c) /\ ErasingOk(c)
    BY <1>2, <1>3 DEF Aims, ErasingOk, Erasing
<1> QED  BY <1>1, <1>4, <1>5 DEF DestroyerOk

(* Nobody who runs has the guard once it is free by its name. *)
LEMMA NothingRuns ==
    ASSUME HostInv, TeardownInv, ~Unseen, ~IsRunning
    PROVE  NoDaemon
BY DEF TeardownInv, HostOk, RunningOk, Unseen, IsRunning, Held, NoDaemon

(* What a command does to a policy leaves the devices alone. *)
LEMMA PolicyLeaves ==
    ASSUME NEW p \in Cli, PolicyStep(p)
    PROVE  enrolled' = enrolled /\ \A r \in late' : r.kind = "device" => r \in late
<1> USE DEF tailnetVars
<1>1. CASE Post(p)
    BY <1>1 DEF Post
<1>2. CASE \/ GivesUp(p) \/ ReadMarkers(p) \/ ReconcilePending(p) \/ ForgetPending(p)
           \/ Preview(p) \/ Confirm(p)
    BY <1>2 DEF GivesUp, ReadMarkers, ReconcilePending, ForgetPending, Preview, Confirm,
                Refused, Moves
<1>3. CASE \/ SaveBackup(p) \/ SaveProposal(p) \/ Setup(p) \/ RecordComplete(p) \/ ClearPending(p)
    BY <1>3 DEF SaveBackup, SaveProposal, Setup, RecordComplete, ClearPending, Refused
<1>4. CASE \/ CreateKey(p) \/ RevokeKeys(p)
    BY <1>4 DEF CreateKey, RevokeKeys
<1>5. CASE \/ PrepareMeshPolicyRemoval(p) \/ CheckDependencies(p)
           \/ RecheckDependencies(p) \/ ReadBack(p)
    BY <1>5 DEF PrepareMeshPolicyRemoval, CheckDependencies, RecheckDependencies, ReadBack,
                Refused, Moves
<1> QED  BY <1>1, <1>2, <1>3, <1>4, <1>5 DEF PolicyStep

LEMMA CommandStill ==
    ASSUME TeardownInv, UNCHANGED <<coordinator, tsnet, identity, destroy, enrolled, daemon>>,
           config => config', fresh <= fresh', \A r \in late' : r.kind = "device" => r \in late
    PROVE  Still
BY DEF Still, TeardownInv, HostOk, RunningOk, Active

LEMMA ToMoves ==
    ASSUME HostInv, HostInv', NEW p \in Cli, NEW x \in CliPcs, To(p, x)
    PROVE  \E c \in Clis : /\ cli' = [cli EXCEPT ![p] = c] /\ c.pc = x /\ c.op = cli[p].op
                           /\ c.device = cli[p].device /\ c.record = cli[p].record
<1>1. cli[p] \in Clis /\ cli \in [Cli -> Clis]
    BY DEF HostInv, CliInv
<1>2. PICK c : c = [cli[p] EXCEPT !.pc = x]
    OBVIOUS
<1>3. /\ c \in Clis /\ c.pc = x /\ c.op = cli[p].op /\ c.device = cli[p].device
      /\ c.record = cli[p].record
    BY <1>1, <1>2 DEF Clis
<1>4. cli' = [cli EXCEPT ![p] = c]
    BY <1>1, <1>2 DEF To
<1> QED  BY <1>3, <1>4

(* A command ends, or goes to unlock its directory. *)
LEMMA CommandEnds ==
    ASSUME HostInv, HostInv', TeardownInv, Still, NEW p \in Cli,
           cli' = [cli EXCEPT ![p] = NoCli] \/ Fails(p) \/ Gives(p)
    PROVE  TeardownInv'
<1>1. CASE cli' = [cli EXCEPT ![p] = NoCli]
    BY <1>1, NoCliFits, NoCliOk, StillMoves
<1>2. CASE Fails(p)
  <2>1. "unlock" \in CliPcs /\ "unlock" \in Neutral
      BY DEF CliPcs, Neutral
  <2>2. PICK c \in Clis : /\ cli' = [cli EXCEPT ![p] = c] /\ c.pc = "unlock" /\ c.op = cli[p].op
                          /\ c.device = cli[p].device /\ c.record = cli[p].record
      BY <1>2, <2>1, ToMoves DEF Fails
  <2>3. DestroyerOk(c)
      BY <2>1, <2>2, DestroyerGoes
  <2> QED  BY <2>2, <2>3, StillMoves
<1> QED  BY <1>1, <1>2 DEF Gives

(* A command starts at x. *)
LEMMA CommandRuns ==
    ASSUME HostInv, HostInv', TeardownInv, Still, NEW p \in Cli, NEW op \in CliOps \ {"destroy"},
           NEW x \in Neutral, Runs(p, op, x)
    PROVE  TeardownInv'
<1>1. PICK c : c = [NoCli EXCEPT !.op = op, !.pc = x]
    OBVIOUS
<1>2. c \in Clis /\ c.op = op /\ c.pc = x /\ c.device = 0
    BY <1>1 DEF NoCli, Clis, Neutral, CliPcs, CliOps, Removing, Waiting
<1>3. DestroyerOk(c)
    BY <1>2 DEF DestroyerOk, Destroying, Neutral, Erasing, HostInv, FilesType
<1> QED  BY <1>1, <1>2, <1>3, StillMoves DEF Runs

LEMMA GivenTears ==
    ASSUME HostInv, HostInv', TeardownInv, NEW p \in Cli,
           \/ Init_(p) \/ SaveConfig(p) \/ Start(p) \/ Stop(p)
           \/ \E removePolicy \in BOOLEAN : Destroy(p, removePolicy)
           \/ \E task \in {"setup", "cleanup"} : Tailnet(p, task)
           \/ TailnetEnds(p)
    PROVE  TeardownInv'
<1> USE DEF Given, UnchangedFiles, Only, markerVars, countVars
<1>0. fresh <= fresh
    BY DEF HostInv, FilesType
<1>a. {"init", "start", "stop", "setup", "cleanup"} \subseteq CliOps \ {"destroy"}
    BY DEF CliOps
<1>b. {"lock", "save", "tailnet"} \subseteq Neutral
    BY DEF Neutral
<1>1. CASE Init_(p)
  <2>1. Still
      BY <1>0, <1>1, CommandStill DEF Init_, policyVars
  <2>2. PICK x \in {"lock", "save"} : Runs(p, "init", x)
      BY <1>1 DEF Init_
  <2> QED  BY <1>a, <1>b, <2>1, <2>2, CommandRuns
<1>2. CASE SaveConfig(p)
  <2>1. Still
      BY <1>0, <1>2, CommandStill DEF SaveConfig, policyVars
  <2>2. CASE cli' = [cli EXCEPT ![p] = NoCli]
      BY <2>1, <2>2, CommandEnds
  <2>3. CASE To(p, "lock") /\ cli[p].pc = "save"
    <3>1. "lock" \in CliPcs
        BY DEF CliPcs
    <3>2. PICK c \in Clis : /\ cli' = [cli EXCEPT ![p] = c] /\ c.pc = "lock" /\ c.op = cli[p].op
                            /\ c.device = cli[p].device /\ c.record = cli[p].record
        BY <2>3, <3>1, ToMoves
    <3>3. DestroyerOk(c)
        BY <1>b, <2>3, <3>1, <3>2, DestroyerGoes
    <3> QED  BY <2>1, <3>2, <3>3, StillMoves
  <2> QED  BY <1>2, <2>2, <2>3 DEF SaveConfig, AtCli
<1>3. CASE Start(p)
  <2>1. Still
      BY <1>0, <1>3, CommandStill DEF Start, policyVars
  <2> QED  BY <1>3, <1>a, <1>b, <2>1, CommandRuns DEF Start
<1>4. CASE Stop(p)
  <2>1. Still
      BY <1>0, <1>4, CommandStill DEF Stop, policyVars
  <2>2. PICK c : c = [NoCli EXCEPT !.op = "stop", !.pc = "stop"]
      OBVIOUS
  <2>3. c \in Clis /\ c.op = "stop" /\ c.pc = "stop" /\ c.device = 0
      BY <2>2 DEF NoCli, Clis, CliPcs, CliOps, Removing, Waiting
  <2>4. DestroyerOk(c)
      BY <2>3 DEF DestroyerOk, Destroying, Erasing, HostInv, FilesType
  <2> QED  BY <1>4, <2>1, <2>2, <2>3, <2>4, StillMoves DEF Stop, Runs
<1>5. ASSUME NEW removePolicy \in BOOLEAN, Destroy(p, removePolicy) PROVE TeardownInv'
  <2>1. Still
      BY <1>0, <1>5, CommandStill DEF Destroy, policyVars
  <2>2. PICK n : n = IF coordinator THEN ManagedIdentity ELSE 0
      OBVIOUS
  <2>3. n \in Nat
      BY <2>2 DEF ManagedIdentity, HostInv, FilesType, DestroyRecords
  <2>4. PICK c : c = [NoCli EXCEPT !.op = "destroy", !.pc = "lock", !.device = n,
                                  !.policy = removePolicy]
      OBVIOUS
  <2>5. c \in Clis /\ c.op = "destroy" /\ c.pc = "lock" /\ c.device = n
      BY <2>3, <2>4, <1>5 DEF NoCli, Clis, CliPcs, CliOps
  <2>6. DestroyerOk(c)
      BY <1>5, <2>2, <2>5, DestroyerStarts DEF Destroy
  <2>7. cli' = [cli EXCEPT ![p] = c]
      BY <1>5, <2>2, <2>4 DEF Destroy
  <2> QED  BY <2>1, <2>5, <2>6, <2>7, StillMoves
<1>6. ASSUME NEW task \in {"setup", "cleanup"}, Tailnet(p, task) PROVE TeardownInv'
  <2>1. Still
      BY <1>0, <1>6, CommandStill DEF Tailnet, Begin
  <2> QED  BY <1>6, <1>a, <1>b, <2>1, CommandRuns DEF Tailnet
<1>7. CASE TailnetEnds(p)
  <2>1. Still
      BY <1>0, <1>7, CommandStill DEF TailnetEnds, policyVars
  <2> QED  BY <1>7, <2>1, CommandEnds DEF TailnetEnds
<1> QED  BY <1>1, <1>2, <1>3, <1>4, <1>5, <1>6, <1>7

(* A command goes on to x, with what it has. *)
LEMMA CommandGoes ==
    ASSUME HostInv, HostInv', TeardownInv, Still, NEW p \in Cli, NEW x \in CliPcs, To(p, x),
           \/ x \in Neutral /\ (cli[p].pc \notin {"wipeRoot", "unlock", "idle"} \/ x \in {"idle", "unlock"})
           \/ cli[p].op # "destroy" /\ x \notin {"purge", "wipeRoot"} \cup Erasing
           \/ cli[p].pc \in {"remote", "plan"} /\ x \in {"plan", "intent"}
           \/ /\ cli[p].pc \in Recorded /\ x \in Recorded \ ({"gone"} \cup Erasing)
              /\ x \in Stopped => cli[p].pc \in Stopped \/ NoDaemon
              /\ x = "purge" => cli[p].op = "destroy"
    PROVE  TeardownInv'
<1>1. PICK c \in Clis : /\ cli' = [cli EXCEPT ![p] = c] /\ c.pc = x /\ c.op = cli[p].op
                        /\ c.device = cli[p].device /\ c.record = cli[p].record
    BY ToMoves
<1>2. DestroyerOk(c)
    BY <1>1, DestroyerGoes
<1> QED  BY <1>1, <1>2, StillMoves

LEMMA LockTears ==
    ASSUME HostInv, HostInv', TeardownInv, NEW p \in Cli,
           Lock(p) \/ Unlock(p) \/ Check(p) \/ PolicyDone(p) \/ Launch(p) \/ CliDies(p)
    PROVE  TeardownInv'
<1> USE DEF UnchangedFiles, Only, markerVars, countVars
<1>0. fresh <= fresh
    BY DEF HostInv, FilesType
<1>a. {"record", "check", "policy", "launch", "unlock"} \subseteq Neutral \cap CliPcs
    BY DEF Neutral, CliPcs, Removing
<1>1. CASE Lock(p)
  <2>1. Still
      BY <1>0, <1>1, CommandStill DEF Lock, policyVars
  <2>2. CASE cli' = [cli EXCEPT ![p] = NoCli]
      BY <2>1, <2>2, CommandEnds
  <2>3. ASSUME NEW x \in {"record", "check"}, To(p, x), cli[p].pc = "lock" PROVE TeardownInv'
      BY <1>a, <2>1, <2>3, CommandGoes
  <2> QED  BY <1>1, <2>2, <2>3 DEF Lock, AtCli
<1>2. CASE Unlock(p)
  <2>1. Still
      BY <1>0, <1>2, CommandStill DEF Unlock, policyVars
  <2> QED  BY <1>2, <2>1, CommandEnds DEF Unlock
<1>3. CASE Check(p)
  <2>1. Still
      BY <1>0, <1>3, CommandStill DEF Check, policyVars, Begin
  <2>2. cli[p].pc = "check" /\ (To(p, "policy") \/ To(p, "launch") \/ Fails(p))
      BY <1>3 DEF Check, AtCli
  <2> QED  BY <1>a, <2>1, <2>2, CommandGoes, CommandEnds
<1>4. CASE PolicyDone(p)
  <2>1. Still
      BY <1>0, <1>4, CommandStill DEF PolicyDone, policyVars
  <2>2. cli[p].pc = "policy" /\ (To(p, "launch") \/ To(p, "unlock"))
      BY <1>4 DEF PolicyDone, AtCli
  <2> QED  BY <1>a, <2>1, <2>2, CommandGoes
<1>5. CASE Launch(p)
  <2>1. To(p, "unlock")
      BY <1>5 DEF Launch
  <2>2. Still
    <3>1. /\ UNCHANGED <<coordinator, tsnet, identity, destroy, enrolled, config, fresh, late>>
        BY <1>5 DEF Launch, policyVars
    <3>2. CASE UNCHANGED daemon
        BY <1>0, <3>1, <3>2, CommandStill
    <3>3. ASSUME NEW d \in Daemon, daemon[d] = Off, daemon' = [daemon EXCEPT ![d].pc = "load"]
          PROVE  Still
      <4>1. daemon \in [Daemon -> Daemons]
          BY DEF HostInv, FilesType
      <4>2. /\ daemon'[d].pc = "load"
            /\ \A e \in Daemon \ {d} : daemon'[e] = daemon[e]
          BY <3>3, <4>1 DEF Daemons
      <4>3. \A e \in Daemon : daemon[e].pc = "check" => daemon[e].file # 0
          BY DEF TeardownInv, HostOk, RunningOk
      <4> QED  BY <1>0, <3>1, <4>2, <4>3 DEF Still, Active
    <3> QED  BY <1>5, <3>2, <3>3 DEF Launch
  <2> QED  BY <1>a, <2>1, <2>2, CommandGoes
<1>6. CASE CliDies(p)
  <2>1. Still
      BY <1>0, <1>6, CommandStill DEF CliDies, tailnetVars
  <2> QED  BY <1>6, <2>1, CommandEnds DEF CliDies
<1> QED  BY <1>1, <1>2, <1>3, <1>4, <1>5, <1>6

LEMMA RecordTears ==
    ASSUME HostInv, HostInv', TeardownInv, NEW p \in Cli, ReadRecord(p) \/ Preflight(p) \/ PlanReady(p)
    PROVE  TeardownInv'
<1> USE DEF UnchangedFiles, Only, markerVars, countVars
<1>0. fresh <= fresh
    BY DEF HostInv, FilesType
<1>a. {"plan", "intent"} \subseteq CliPcs /\ {"remote", "intent"} \subseteq CliPcs
    BY DEF CliPcs, Removing, Waiting
<1>1. CASE ReadRecord(p)
  <2>1. Still
      BY <1>0, <1>1, CommandStill DEF ReadRecord, policyVars
  <2>2. CASE Fails(p)
      BY <2>1, <2>2, CommandEnds
  <2>3. CASE ~Fails(p)
    <3>1. PICK r : r = IF destroy = None THEN NewRecord(p) ELSE destroy
        OBVIOUS
    <3>2. PICK x \in {"remote", "intent"} : x = IF coordinator THEN "remote" ELSE "intent"
        OBVIOUS
    <3>3. PICK c : c = [cli[p] EXCEPT !.record = r, !.pc = x]
        OBVIOUS
    <3>4. cli \in [Cli -> Clis] /\ cli[p] \in Clis
        BY DEF HostInv, CliInv
    <3>5. cli' = [cli EXCEPT ![p] = c]
        BY <1>1, <2>3, <3>1, <3>2, <3>3, <3>4 DEF ReadRecord
    <3>6. c \in Clis
      <4>1. cli'[p] \in Clis
          BY DEF HostInv, CliInv
      <4> QED  BY <3>4, <3>5, <4>1
    <3>7. c.pc = x /\ c.record = r /\ c.op = cli[p].op /\ c.device = cli[p].device
        BY <3>3, <3>4 DEF Clis
    <3>8. DestroyerOk(c)
        BY <1>1, <2>3, <3>1, <3>2, <3>7, RecordRead
    <3> QED  BY <2>1, <3>5, <3>6, <3>8, StillMoves
  <2> QED  BY <2>2, <2>3
<1>2. CASE Preflight(p)
  <2>1. Still
      BY <1>0, <1>2, CommandStill DEF Preflight, policyVars, Begin
  <2>2. cli[p].pc = "remote" /\ (Fails(p) \/ To(p, "intent") \/ To(p, "plan"))
      BY <1>2 DEF Preflight, AtCli
  <2> QED  BY <1>a, <2>1, <2>2, CommandGoes, CommandEnds
<1>3. CASE PlanReady(p)
  <2>1. Still
      BY <1>0, <1>3, CommandStill DEF PlanReady, policyVars
  <2>2. cli[p].pc = "plan" /\ (To(p, "intent") \/ Fails(p))
      BY <1>3 DEF PlanReady, AtCli, Fails
  <2> QED  BY <1>a, <2>1, <2>2, CommandGoes, CommandEnds
<1> QED  BY <1>1, <1>2, <1>3

LEMMA StopTears ==
    ASSUME HostInv, HostInv', TeardownInv, ~Unseen, NEW p \in Cli,
           ReadControl(p) \/ RequestStop(p) \/ AwaitStop(p) \/ RecordStopped(p)
    PROVE  TeardownInv'
<1> USE DEF UnchangedFiles, Only, markerVars, countVars
<1>0. fresh <= fresh
    BY DEF HostInv, FilesType
<1>a. /\ {"stop", "request", "await", "stopped"} \subseteq (CliPcs \cap Recorded) \ (Stopped \cup {"purge"})
      /\ {"delete", "purge"} \subseteq (CliPcs \cap Recorded) \ ({"gone"} \cup Erasing)
      /\ "gone" \notin {"stop", "request", "await", "stopped"} /\ Erasing \subseteq Stopped
    BY DEF CliPcs, Removing, Waiting, Recorded, Stopped, Erasing
<1>1. CASE ReadControl(p)
  <2>1. Still
      BY <1>0, <1>1, CommandStill DEF ReadControl, policyVars
  <2>2. cli[p].pc = "stop"
      BY <1>1 DEF ReadControl, AtCli
  <2>3. CASE To(p, "stopped")
      BY <1>a, <2>1, <2>2, <2>3, CommandGoes
  <2>4. CASE Gives(p)
      BY <2>1, <2>4, CommandEnds
  <2>5. CASE cli' = [cli EXCEPT ![p].nonce = control, ![p].pc = "request"]
    <3>1. PICK c : c = [cli[p] EXCEPT !.nonce = control, !.pc = "request"]
        OBVIOUS
    <3>2. cli \in [Cli -> Clis] /\ cli[p] \in Clis
        BY DEF HostInv, CliInv
    <3>3. /\ c.pc = "request" /\ c.op = cli[p].op /\ c.record = cli[p].record
          /\ c.device = cli[p].device /\ c \in Clis
        BY <1>a, <3>1, <3>2 DEF Clis, HostInv, FilesType
    <3>4. cli' = [cli EXCEPT ![p] = c]
        BY <2>5, <3>1, <3>2
    <3>5. DestroyerOk(c)
        BY <1>a, <2>2, <3>3, DestroyerGoes
    <3> QED  BY <2>1, <3>3, <3>4, <3>5, StillMoves
  <2> QED  BY <1>1, <2>3, <2>4, <2>5 DEF ReadControl
<1>2. CASE RequestStop(p)
  <2>1. Still
      BY <1>0, <1>2, CommandStill DEF RequestStop, policyVars
  <2>2. cli[p].pc = "request" /\ (To(p, "await") \/ Gives(p))
      BY <1>2 DEF RequestStop, AtCli
  <2>3. CASE To(p, "await")
      BY <1>a, <2>1, <2>2, <2>3, CommandGoes
  <2> QED  BY <2>1, <2>2, <2>3, CommandEnds
<1>3. CASE AwaitStop(p)
  <2>1. Still
      BY <1>0, <1>3, CommandStill DEF AwaitStop, policyVars
  <2>2. cli[p].pc = "await" /\ (To(p, "stopped") \/ Gives(p))
      BY <1>3 DEF AwaitStop, AtCli
  <2>3. CASE To(p, "stopped")
      BY <1>a, <2>1, <2>2, <2>3, CommandGoes
  <2> QED  BY <2>1, <2>2, <2>3, CommandEnds
<1>4. CASE RecordStopped(p)
  <2>1. Still
    <3>1. fresh <= fresh'
        BY <1>4 DEF RecordStopped, HostInv, FilesType
    <3> QED  BY <1>4, <3>1, CommandStill DEF RecordStopped, policyVars
  <2>2. cli[p].pc = "stopped"
      BY <1>4 DEF RecordStopped, AtCli
  <2>3. CASE Gives(p) \/ cli' = [cli EXCEPT ![p] = NoCli]
      BY <2>1, <2>3, CommandEnds
  <2>4. ASSUME ~IsRunning, cli[p].op # "stop", NEW x \in {"delete", "purge"}, To(p, x)
        PROVE  TeardownInv'
    <3>1. cli[p].op = "destroy"
        BY <2>2, <2>4 DEF HostInv, CliInv, Fits, Removing, Waiting
    <3>2. NoDaemon
        BY <2>4, NothingRuns
    <3> QED  BY <1>a, <2>1, <2>2, <2>4, <3>1, <3>2, CommandGoes
  <2> QED  BY <1>4, <2>3, <2>4 DEF RecordStopped
<1> QED  BY <1>1, <1>2, <1>3, <1>4

LEMMA RemovalTears ==
    ASSUME HostInv, HostInv', TeardownInv, NEW p \in Cli,
           RemovePolicy(p) \/ PolicyRemoved(p) \/ Purge(p) \/ WipeRoot(p)
    PROVE  TeardownInv'
<1> USE DEF UnchangedFiles, Only, markerVars, countVars
<1>0. fresh <= fresh
    BY DEF HostInv, FilesType
<1>a. /\ {"removal", "removing", "policyGone"} \subseteq (CliPcs \cap Recorded \cap Stopped) \ ({"gone", "purge"} \cup Erasing)
      /\ "unlock" \in Neutral \cap CliPcs
    BY DEF CliPcs, Removing, Waiting, Recorded, Stopped, Erasing, Neutral
<1>1. CASE RemovePolicy(p)
  <2>1. Still
      BY <1>0, <1>1, CommandStill DEF RemovePolicy, tailnetVars
  <2>2. cli[p].pc = "removal" /\ To(p, "removing")
      BY <1>1 DEF RemovePolicy, AtCli
  <2> QED  BY <1>a, <2>1, <2>2, CommandGoes
<1>2. CASE PolicyRemoved(p)
  <2>1. Still
      BY <1>0, <1>2, CommandStill DEF PolicyRemoved, policyVars
  <2>2. cli[p].pc = "removing" /\ (To(p, "policyGone") \/ To(p, "unlock"))
      BY <1>2 DEF PolicyRemoved, AtCli
  <2> QED  BY <1>a, <2>1, <2>2, CommandGoes
<1>3. CASE Purge(p)
  <2>1. Still
    <3>1. fresh <= fresh'
        BY <1>3 DEF Purge, HostInv, FilesType
    <3> QED  BY <1>3, <3>1, CommandStill DEF Purge, policyVars
  <2>2. CASE Fails(p)
      BY <2>1, <2>2, CommandEnds
  <2>3. CASE ~Fails(p)
    <3>1. PICK n \in Nat : n = roleFile'
        BY DEF HostInv, FilesType
    <3>2. PICK c : c = [cli[p] EXCEPT !.file = n, !.pc = "wipe"]
        OBVIOUS
    <3>3. cli \in [Cli -> Clis] /\ cli[p] \in Clis
        BY DEF HostInv, CliInv
    <3>4. /\ c \in Clis /\ c.pc = "wipe" /\ c.op = cli[p].op /\ c.device = cli[p].device
          /\ c.record = cli[p].record
        BY <3>1, <3>2, <3>3 DEF Clis, CliPcs
    <3>5. cli' = [cli EXCEPT ![p] = c]
        BY <1>3, <2>3, <3>1, <3>2, <3>3 DEF Purge
    <3>6. cli[p].pc = "purge" /\ MayPurge
        BY <1>3, <2>3 DEF Purge, AtCli
    <3>7. DestroyerOk(c)
        BY <3>4, <3>6, PurgeBegins
    <3> QED  BY <2>1, <3>4, <3>5, <3>7, StillMoves
  <2> QED  BY <2>2, <2>3
<1>4. CASE WipeRoot(p)
  <2>1. Still
      BY <1>0, <1>4, CommandStill DEF WipeRoot, policyVars
  <2>2. To(p, "unlock")
      BY <1>4 DEF WipeRoot
  <2> QED  BY <1>a, <2>1, <2>2, CommandGoes
<1> QED  BY <1>1, <1>2, <1>3, <1>4

-----------------------------------------------------------------------------
(* The steps that change the record or the device are those of the one     *)
(* command at work: others that destroy wait for the lock, after the same  *)
(* device, or have nothing left to do.                                     *)
LEMMA DestroyerMoves ==
    ASSUME HostInv, TeardownInv, ~Overlap, NEW p \in Cli, AtWork(cli[p]),
           fresh' = fresh, coordinator' = coordinator, NEW c \in Clis, cli' = [cli EXCEPT ![p] = c],
           cli[p].pc \in Erasing \/ \A e \in Clis : coordinator /\ Aims(e) => Aims(e)',
           HostOk', DestroyerOk(c)'
    PROVE  TeardownInv'
<1>1. ASSUME NEW q \in Cli PROVE DestroyerOk(cli[q])'
  <2>1. CASE q = p
    <3>1. cli'[q] = c
        BY <2>1 DEF HostInv, CliInv
    <3> QED  BY <3>1 DEF DestroyerOk, RecordFits, Aims, ErasingOk, Destroying
  <2>2. CASE q # p
    <3>1. PICK e \in Clis : e = cli[q] /\ DestroyerOk(e)
        BY DEF HostInv, CliInv, TeardownInv
    <3>2. /\ ~AtWork(e)
          /\ cli[p].pc \in Erasing => ~(Destroying(e) /\ e.pc = "lock")
        BY <2>2, <3>1 DEF Overlap
    <3>3. CASE Destroying(e) /\ e.pc = "lock"
      <4>1. RecordFits(e)' /\ ErasingOk(e)'
          BY <3>3 DEF RecordFits, ErasingOk, Recorded, Stopped, Erasing
      <4>2. coordinator => Aims(e)'
          BY <3>1, <3>2, <3>3 DEF DestroyerOk
      <4>3. DestroyerOk(e)'
          BY <3>1, <3>3, <4>1, <4>2 DEF DestroyerOk, Erasing
      <4>4. cli'[q] = e
          BY <2>2, <3>1 DEF HostInv, CliInv
      <4> QED  BY <4>3, <4>4 DEF DestroyerOk, RecordFits, Aims, ErasingOk, Destroying
    <3>4. CASE ~(Destroying(e) /\ e.pc = "lock")
      <4>1. cli'[q] = e
          BY <2>2, <3>1 DEF HostInv, CliInv
      <4>2. ~Destroying(e) \/ e.pc \in {"wipeRoot", "unlock"}
          BY <3>2, <3>4 DEF AtWork
      <4> QED  BY <3>1, <4>1, <4>2 DEF DestroyerOk, Destroying
    <3> QED  BY <3>3, <3>4
  <2> QED  BY <2>1, <2>2
<1> QED  BY <1>1 DEF TeardownInv

(* What is known of a destroyer that has its record. *)
LEMMA DestroyerFacts ==
    ASSUME HostInv, TeardownInv, NEW p \in Cli,
           cli[p].pc \in {"intent", "delete", "gone", "policyGone"} \cup Erasing
    PROVE  /\ cli[p].op = "destroy" /\ AtWork(cli[p]) /\ cli[p] \in Clis
           /\ RecordFits(cli[p]) /\ (coordinator => Aims(cli[p]) /\ ErasingOk(cli[p]))
           /\ cli[p].device \in Nat /\ cli[p].device <= fresh
<1>1. DestroyerOk(cli[p]) /\ cli[p] \in Clis /\ Fits(cli[p], job[p])
    BY DEF TeardownInv, HostInv, CliInv
<1>2. cli[p].op = "destroy"
    BY <1>1 DEF DestroyerOk, Fits, Removing, Waiting
<1>3. AtWork(cli[p])
    BY <1>2 DEF AtWork, Destroying, Erasing
<1> QED  BY <1>1, <1>2, <1>3 DEF DestroyerOk, Clis, AtWork

LEMMA RemoveDeviceTears ==
    ASSUME HostInv, HostInv', TeardownInv, ~Overlap, NEW p \in Cli, RemoveDevice(p)
    PROVE  TeardownInv'
<1> USE DEF UnchangedFiles, markerVars, countVars
<1>0. cli[p].pc = "delete"
    BY DEF RemoveDevice, AtCli
<1>1. PICK k \in Nat : k = cli[p].device /\ k <= fresh
    BY <1>0, DestroyerFacts
<1>2. PICK sure \in BOOLEAN : DeleteDevice(k, sure) /\ To(p, IF sure THEN "gone" ELSE "unlock")
    BY <1>1 DEF RemoveDevice, Confirmed
<1>3. /\ enrolled' \subseteq enrolled /\ (sure => k \notin enrolled')
      /\ \A r \in late' : r \in late \/ (r.kind = "device" /\ r.device = k)
    BY <1>2 DEF DeleteDevice
<1>4. /\ UNCHANGED <<coordinator, tsnet, identity, destroy, config, fresh, daemon>>
    BY DEF RemoveDevice
<1>5. NoDaemon /\ destroy # None /\ RecordFits(cli[p]) /\ AtWork(cli[p]) /\ (coordinator => Aims(cli[p]))
  <2>1. RecordFits(cli[p]) /\ AtWork(cli[p]) /\ (coordinator => Aims(cli[p]))
      BY <1>0, DestroyerFacts
  <2> QED  BY <1>0, <2>1 DEF RecordFits, Recorded, Stopped
<1>6. NoDaemon'
    BY <1>4, <1>5 DEF NoDaemon, Active
<1>7. HostOk'
  <2>1. DeviceOk => DeviceOk'
      BY <1>3, <1>4, <1>5, <1>6 DEF DeviceOk
  <2>2. KnownDevices'
      BY <1>1, <1>3, <1>4 DEF TeardownInv, HostOk, KnownDevices
  <2>3. RunningOk'
      BY <1>4 DEF TeardownInv, HostOk, RunningOk, Active
  <2> QED  BY <1>4, <2>1, <2>2, <2>3 DEF TeardownInv, HostOk
<1>8. PICK x \in {"gone", "unlock"} : x = IF sure THEN "gone" ELSE "unlock"
    OBVIOUS
<1>9. PICK c \in Clis : /\ cli' = [cli EXCEPT ![p] = c] /\ c.pc = x /\ c.op = cli[p].op
                        /\ c.device = cli[p].device /\ c.record = cli[p].record
  <2>1. x \in CliPcs /\ To(p, x)
      BY <1>2, <1>8 DEF CliPcs, Removing, Waiting
  <2> QED  BY <2>1, ToMoves
<1>10. DestroyerOk(c)'
  <2>1. c.device <= fresh'
      BY <1>1, <1>4, <1>9
  <2>2. c.op = "destroy"
      BY <1>5, <1>9 DEF AtWork, Destroying
  <2>3. x = "gone" => RecordFits(c)' /\ (coordinator' => Aims(c)' /\ ErasingOk(c)')
    <3>1. x = "gone" => RecordFits(c)'
        BY <1>0, <1>4, <1>5, <1>6, <1>9 DEF RecordFits, Recorded, Stopped, Erasing
    <3>2. x = "gone" /\ coordinator' => Aims(c)' /\ ErasingOk(c)'
        BY <1>1, <1>3, <1>4, <1>5, <1>8, <1>9 DEF Aims, ErasingOk, Erasing
    <3> QED  BY <3>1, <3>2
  <2> QED  BY <1>9, <2>1, <2>2, <2>3 DEF DestroyerOk, Erasing
<1>11. \A e \in Clis : coordinator /\ Aims(e) => Aims(e)'
    BY <1>4 DEF Aims
<1> QED  BY <1>4, <1>5, <1>7, <1>9, <1>10, <1>11, DestroyerMoves

LEMMA SaveRecordTears ==
    ASSUME HostInv, HostInv', TeardownInv, ~Overlap, NEW p \in Cli, SaveRecord(p)
    PROVE  TeardownInv'
<1>0. /\ cli[p].pc \in {"intent", "gone", "policyGone"}
      /\ UNCHANGED <<coordinator, tsnet, identity, config, fresh, daemon, enrolled, late>>
    BY DEF SaveRecord, markerVars, countVars, policyVars
<1>a. fresh <= fresh
    BY DEF HostInv, FilesType
<1>1. CASE Fails(p) /\ UNCHANGED destroy
  <2>1. Still
      BY <1>0, <1>1, <1>a, CommandStill
  <2> QED  BY <1>1, <2>1, CommandEnds
<1>2. CASE ~(Fails(p) /\ UNCHANGED destroy)
  <2>1. /\ cli[p].op = "destroy" /\ AtWork(cli[p]) /\ cli[p] \in Clis
        /\ RecordFits(cli[p]) /\ (coordinator => Aims(cli[p]) /\ ErasingOk(cli[p]))
        /\ cli[p].device \in Nat /\ cli[p].device <= fresh
      BY <1>0, DestroyerFacts
  <2>2. PICK b \in DestroyRecords : b = cli[p].record
      BY <1>0, <2>1 DEF HostInv, CliInv, Fits, Removing, Waiting
  <2>3. PICK r \in DestroyRecords : r = destroy'
      BY <1>0, <1>2, SavedRecord DEF SaveRecord
  <2>4. /\ r.device = b.device /\ r.local = b.local
        /\ cli[p].pc # "gone" => r.deviceRemoved = b.deviceRemoved
    <3>1. r = [b EXCEPT !.deviceRemoved = @ \/ cli[p].pc = "gone",
                        !.policyRemoved = @ \/ cli[p].pc = "policyGone"]
        BY <1>2, <2>2, <2>3 DEF SaveRecord
    <3>2. PICK u \in BOOLEAN : u = (b.deviceRemoved \/ cli[p].pc = "gone")
        OBVIOUS
    <3>3. PICK v \in BOOLEAN : v = (b.policyRemoved \/ cli[p].pc = "policyGone")
        OBVIOUS
    <3>4. r = [b EXCEPT !.deviceRemoved = u, !.policyRemoved = v]
        BY <3>1, <3>2, <3>3
    <3>5. r.device = b.device /\ r.local = b.local /\ r.deviceRemoved = u
        BY <3>4 DEF DestroyRecords
    <3>6. b.deviceRemoved \in BOOLEAN
        BY DEF DestroyRecords
    <3> QED  BY <3>2, <3>5, <3>6
  <2>5. r # None /\ destroy' # None
      BY <2>3, HostAssumption
  <2>6. PICK x : x = NextAfterSave(p)
      OBVIOUS
  <2>7. /\ x \in {"stop", "removal", "purge"} /\ x \in CliPcs
        /\ x # "stop" => cli[p].pc \in {"gone", "policyGone"}
    <3>1. CASE cli[p].pc = "intent"
        BY <2>6, <3>1 DEF NextAfterSave, AtCli, Waiting, CliPcs, Removing
    <3>2. CASE cli[p].pc = "gone"
        BY <2>6, <3>2 DEF NextAfterSave, AtCli, Waiting, CliPcs, Removing
    <3>3. CASE cli[p].pc = "policyGone"
        BY <2>6, <3>3 DEF NextAfterSave, AtCli, Waiting, CliPcs, Removing
    <3> QED  BY <1>0, <3>1, <3>2, <3>3
  <2>8. PICK c : c = [cli[p] EXCEPT !.record = r, !.pc = x]
      OBVIOUS
  <2>9. /\ c \in Clis /\ c.pc = x /\ c.op = cli[p].op /\ c.record = r
        /\ c.device = cli[p].device
      BY <2>1, <2>7, <2>8 DEF Clis
  <2>10. cli' = [cli EXCEPT ![p] = c]
      BY <1>2, <2>3, <2>6, <2>8 DEF SaveRecord, HostInv, CliInv
  \* The record names the device, and says that it is gone only once it is.
  <2>11. /\ destroy # None => b = destroy
         /\ destroy = None => /\ cli[p].pc = "intent" /\ b.device = cli[p].device
                              /\ b.local = ~coordinator /\ ~b.deviceRemoved
         /\ cli[p].pc # "intent" => NoDaemon
      BY <1>0, <2>1, <2>2 DEF RecordFits, Recorded, Stopped
  <2>12. coordinator => b.device = cli[p].device
      BY <2>1, <2>11 DEF Aims
  <2>13. b.device \in Nat /\ b.device <= fresh
      BY <2>1, <2>11 DEF TeardownInv, HostOk, KnownDevices, DestroyRecords
  <2>14. HostOk'
    <3>1. NoDaemon' <=> NoDaemon
        BY <1>0 DEF NoDaemon, Active
    <3>2. ASSUME coordinator PROVE DeviceOk'
      <4>1. DeviceOk
          BY <3>2 DEF TeardownInv, HostOk
      <4>2. r.device # 0 /\ ~r.local /\ tsnet \in {0, r.device} /\ (tsnet = 0 => NoDaemon)
        <5>1. CASE destroy = None
            BY <2>1, <2>4, <2>11, <3>2, <5>1 DEF Aims
        <5>2. CASE destroy # None
            BY <2>4, <2>11, <4>1, <5>2 DEF DeviceOk
        <5> QED  BY <5>1, <5>2
      <4>3. r.deviceRemoved => r.device \notin enrolled
        <5>1. CASE cli[p].pc = "gone"
            BY <2>1, <2>4, <2>12, <3>2, <5>1 DEF ErasingOk
        <5>2. CASE cli[p].pc # "gone"
            BY <2>4, <2>11, <4>1, <5>2 DEF DeviceOk
        <5> QED  BY <5>1, <5>2
      <4>4. \A k : Leaving(k)' <=> Leaving(k)
          BY <1>0 DEF Leaving
      <4>5. /\ (enrolled \ {0} \subseteq {tsnet} /\ identity \in {0, tsnet})'
            /\ (tsnet # 0 /\ (tsnet \notin enrolled \/ Leaving(tsnet)))' => NoDaemon'
          BY <1>0, <3>1, <4>1, <4>4 DEF DeviceOk
      <4> QED  BY <1>0, <2>3, <2>5, <3>1, <4>2, <4>3, <4>5 DEF DeviceOk
    <3>3. KnownDevices'
        BY <1>0, <2>3, <2>4, <2>13 DEF TeardownInv, HostOk, KnownDevices
    <3>4. RunningOk'
      <4>1. ASSUME NEW d \in Daemon, Active(d) PROVE config /\ ~r.deviceRemoved
        <5>1. cli[p].pc = "intent"
            BY <2>11, <4>1 DEF NoDaemon
        <5>2. config /\ (destroy # None => ~destroy.deviceRemoved)
            BY <4>1 DEF TeardownInv, HostOk, RunningOk
        <5> QED  BY <2>4, <2>11, <5>1, <5>2
      <4> QED  BY <1>0, <2>3, <4>1 DEF TeardownInv, HostOk, RunningOk, Active
    <3> QED  BY <1>0, <3>2, <3>3, <3>4 DEF HostOk
  <2>15. DestroyerOk(c)'
    <3>1. c.device <= fresh' /\ c.op = "destroy"
        BY <1>0, <2>1, <2>9
    <3>2. RecordFits(c)'
      <4>1. NoDaemon' <=> NoDaemon
          BY <1>0 DEF NoDaemon, Active
      <4> QED  BY <2>3, <2>5, <2>7, <2>9, <2>11, <4>1, <1>0 DEF RecordFits, Recorded, Stopped, Erasing
    <3>3. coordinator' => Aims(c)' /\ ErasingOk(c)'
      <4>1. coordinator' => Aims(c)'
          BY <1>0, <2>1, <2>3, <2>4, <2>5, <2>9, <2>12 DEF Aims
      <4>2. ErasingOk(c)'
          BY <2>7, <2>9 DEF ErasingOk, Erasing
      <4> QED  BY <4>1, <4>2
    <3> QED  BY <3>1, <3>2, <3>3 DEF DestroyerOk
  <2>16. \A e \in Clis : coordinator /\ Aims(e) => Aims(e)'
      BY <1>0, <2>1, <2>3, <2>4, <2>5, <2>11, <2>12 DEF Aims
  <2> QED  BY <1>0, <2>1, <2>9, <2>10, <2>14, <2>15, <2>16, DestroyerMoves
<1> QED  BY <1>1, <1>2

(* A step of the purge: nothing runs, and the device is gone.  What names  *)
(* it goes, the record last.                                               *)
LEMMA ErasingMoves ==
    ASSUME HostInv, HostInv', TeardownInv, ~Overlap, NEW p \in Cli, cli[p].pc \in Erasing,
           UNCHANGED <<coordinator, enrolled, late, fresh, daemon>>,
           tsnet' \in {0, tsnet}, identity' \in {0, identity},
           coordinator /\ tsnet' = 0 => identity' = 0,
           NEW c \in Clis, cli' = [cli EXCEPT ![p] = c],
           c.op = cli[p].op, c.device = cli[p].device, c.record = cli[p].record,
           \/ destroy' = destroy /\ c.pc \in Erasing /\ (coordinator => ErasingOk(c)')
           \/ destroy' = None /\ c.pc = "wipeRoot" /\ (coordinator => tsnet' = 0)
    PROVE  TeardownInv'
<1>1. /\ AtWork(cli[p]) /\ cli[p].op = "destroy" /\ RecordFits(cli[p])
      /\ coordinator => Aims(cli[p]) /\ ErasingOk(cli[p])
      /\ cli[p].device \in Nat /\ cli[p].device <= fresh
    BY DestroyerFacts
<1>2. NoDaemon /\ destroy # None /\ cli[p].record = destroy
    BY <1>1 DEF RecordFits, Recorded, Stopped
<1>3. NoDaemon'
    BY <1>2 DEF NoDaemon, Active
<1>4. ASSUME coordinator PROVE DeviceOk'
  <2>1. DeviceOk /\ destroy.deviceRemoved
      BY <1>1, <1>4 DEF TeardownInv, HostOk, ErasingOk
  <2>2. enrolled \ {0} = {}
      BY <1>2, <2>1 DEF DeviceOk
  <2>3. identity' \in {0, tsnet'}
      BY <1>4, <2>1 DEF DeviceOk
  <2>4. tsnet' # 0 => destroy' # None
      BY <1>2, <1>4
  <2> QED  BY <1>2, <1>3, <2>1, <2>2, <2>3, <2>4 DEF DeviceOk
<1>5. KnownDevices'
    BY DEF TeardownInv, HostOk, KnownDevices, HostInv, FilesType
<1>6. RunningOk'
    BY <1>3 DEF TeardownInv, HostOk, RunningOk, NoDaemon, Active
<1>7. HostOk'
    BY <1>4, <1>5, <1>6 DEF HostOk
<1>8. DestroyerOk(c)'
  <2>1. c.device <= fresh' /\ c.op = "destroy"
      BY <1>1
  <2>2. CASE c.pc = "wipeRoot"
      BY <2>1, <2>2 DEF DestroyerOk
  <2>3. CASE destroy' = destroy /\ c.pc \in Erasing /\ (coordinator => ErasingOk(c)')
    <3>1. RecordFits(c)'
        BY <1>2, <1>3, <2>3 DEF RecordFits, Recorded, Stopped, Erasing
    <3>2. coordinator => Aims(c)'
        BY <1>1, <1>2, <2>3 DEF Aims
    <3> QED  BY <2>1, <2>3, <3>1, <3>2 DEF DestroyerOk
  <2> QED  BY <2>2, <2>3
<1> QED  BY <1>1, <1>7, <1>8, DestroyerMoves

LEMMA WipingTears ==
    ASSUME HostInv, HostInv', TeardownInv, ~Overlap, NEW p \in Cli,
           Wipe(p) \/ WipeState(p) \/ WipeConfig(p) \/ WipeRest(p) \/ WipeRecord(p)
    PROVE  TeardownInv'
<1> USE DEF markerVars, countVars
<1>a. /\ Erasing \cup {"wipeRoot"} \subseteq CliPcs
      /\ "wipeRoot" \notin Erasing
    BY DEF CliPcs, Erasing, Removing, Waiting
<1>b. cli[p].pc \in Erasing
    BY DEF Wipe, WipeState, WipeConfig, WipeRest, WipeRecord, AtCli, Erasing
<1>c. /\ RecordFits(cli[p]) /\ (coordinator => ErasingOk(cli[p]))
      /\ destroy # None
  <2>1. RecordFits(cli[p]) /\ (coordinator => ErasingOk(cli[p]))
      BY <1>b, DestroyerFacts
  <2> QED  BY <1>b, <2>1 DEF RecordFits, Recorded, Stopped
<1>1. CASE Wipe(p)
  <2>1. /\ cli[p].pc = "wipe" /\ To(p, "wipeState") /\ identity' = 0
        /\ UNCHANGED <<coordinator, enrolled, late, fresh, daemon, tsnet, destroy>>
      BY <1>1 DEF Wipe, AtCli, policyVars
  <2>2. "wipeState" \in Erasing
      BY DEF Erasing
  <2>3. PICK c \in Clis : /\ cli' = [cli EXCEPT ![p] = c] /\ c.pc = "wipeState" /\ c.op = cli[p].op
                          /\ c.device = cli[p].device /\ c.record = cli[p].record
      BY <1>a, <2>1, <2>2, ToMoves
  <2>4. coordinator => ErasingOk(c)'
      BY <1>b, <1>c, <2>1, <2>3 DEF ErasingOk, Erasing
  <2> QED  BY <1>b, <2>1, <2>2, <2>3, <2>4, ErasingMoves
<1>2. CASE WipeState(p)
  <2>1. /\ cli[p].pc = "wipeState" /\ To(p, "wipeConfig") /\ tsnet' = 0
        /\ UNCHANGED <<coordinator, enrolled, late, fresh, daemon, identity, destroy>>
      BY <1>2 DEF WipeState, AtCli, WipePolicyFiles, tailnetVars
  <2>2. "wipeConfig" \in Erasing
      BY DEF Erasing
  <2>3. PICK c \in Clis : /\ cli' = [cli EXCEPT ![p] = c] /\ c.pc = "wipeConfig" /\ c.op = cli[p].op
                          /\ c.device = cli[p].device /\ c.record = cli[p].record
      BY <1>a, <2>1, <2>2, ToMoves
  <2>4. coordinator => ErasingOk(c)'
      BY <1>b, <1>c, <2>1, <2>3 DEF ErasingOk, Erasing
  <2>5. coordinator => identity' = 0
      BY <1>b, <1>c, <2>1 DEF ErasingOk, Erasing
  <2> QED  BY <1>b, <2>1, <2>2, <2>3, <2>4, <2>5, ErasingMoves
<1>3. CASE WipeConfig(p)
  <2>1. /\ cli[p].pc = "wipeConfig" /\ cli' = [cli EXCEPT ![p].file = 0, ![p].pc = "wipeRest"]
        /\ UNCHANGED <<coordinator, enrolled, late, fresh, daemon, identity, tsnet, destroy>>
      BY <1>3 DEF WipeConfig, AtCli, policyVars
  <2>2. "wipeRest" \in Erasing
      BY DEF Erasing
  <2>3. PICK c : c = [cli[p] EXCEPT !.file = 0, !.pc = "wipeRest"]
      OBVIOUS
  <2>4. cli \in [Cli -> Clis] /\ cli[p] \in Clis
      BY DEF HostInv, CliInv
  <2>5. /\ c \in Clis /\ c.pc = "wipeRest" /\ c.op = cli[p].op /\ c.device = cli[p].device
        /\ c.record = cli[p].record
      BY <1>a, <2>2, <2>3, <2>4 DEF Clis
  <2>6. cli' = [cli EXCEPT ![p] = c]
      BY <2>1, <2>3, <2>4
  <2>7. coordinator => ErasingOk(c)'
      BY <1>b, <1>c, <2>1, <2>5 DEF ErasingOk, Erasing
  <2>8. coordinator => identity' = 0
      BY <1>b, <1>c, <2>1 DEF ErasingOk, Erasing
  <2> QED  BY <1>b, <2>1, <2>2, <2>5, <2>6, <2>7, <2>8, ErasingMoves
<1>4. CASE WipeRest(p)
  <2>1. /\ cli[p].pc = "wipeRest" /\ To(p, "wipeRecord") /\ tsnet' = 0 /\ identity' = 0
        /\ UNCHANGED <<coordinator, enrolled, late, fresh, daemon, destroy>>
      BY <1>4 DEF WipeRest, AtCli, WipePolicyFiles, tailnetVars
  <2>2. "wipeRecord" \in Erasing
      BY DEF Erasing
  <2>3. PICK c \in Clis : /\ cli' = [cli EXCEPT ![p] = c] /\ c.pc = "wipeRecord" /\ c.op = cli[p].op
                          /\ c.device = cli[p].device /\ c.record = cli[p].record
      BY <1>a, <2>1, <2>2, ToMoves
  <2>4. coordinator => ErasingOk(c)'
      BY <1>b, <1>c, <2>1, <2>3 DEF ErasingOk, Erasing
  <2> QED  BY <1>b, <2>1, <2>2, <2>3, <2>4, ErasingMoves
<1>5. CASE WipeRecord(p)
  <2>1. /\ cli[p].pc = "wipeRecord" /\ To(p, "wipeRoot") /\ destroy' = None
        /\ UNCHANGED <<coordinator, enrolled, late, fresh, daemon, tsnet, identity>>
      BY <1>5, <1>c DEF WipeRecord, AtCli, policyVars
  <2>2. PICK c \in Clis : /\ cli' = [cli EXCEPT ![p] = c] /\ c.pc = "wipeRoot" /\ c.op = cli[p].op
                          /\ c.device = cli[p].device /\ c.record = cli[p].record
      BY <1>a, <2>1, ToMoves
  <2>3. coordinator => tsnet' = 0 /\ identity' = 0
      BY <1>b, <1>c, <2>1 DEF ErasingOk, Erasing
  <2> QED  BY <1>b, <2>1, <2>2, <2>3, ErasingMoves
<1> QED  BY <1>1, <1>2, <1>3, <1>4, <1>5

-----------------------------------------------------------------------------
LEMMA CommandsStand ==
    ASSUME HostInv, TeardownInv, cli' = cli, HostOk',
           \A c \in Clis : DestroyerOk(c) => DestroyerOk(c)'
    PROVE  TeardownInv'
<1>1. ASSUME NEW q \in Cli PROVE DestroyerOk(cli[q])'
  <2>1. PICK e \in Clis : e = cli[q] /\ DestroyerOk(e)
      BY DEF HostInv, CliInv, TeardownInv
  <2>2. DestroyerOk(e)'
      BY <2>1
  <2> QED  BY <2>1, <2>2 DEF DestroyerOk, RecordFits, Aims, ErasingOk, Destroying
<1> QED  BY <1>1 DEF TeardownInv

Running == {"monitor", "network", "retain", "ready", "stopping"}

(* A daemon that takes the state e. *)
LEMMA DaemonStill ==
    ASSUME HostInv, TeardownInv, NEW d \in Daemon, NEW e \in Daemons,
           daemon' = [daemon EXCEPT ![d] = e], fresh <= fresh',
           UNCHANGED <<coordinator, tsnet, identity, destroy, enrolled, late, config>>,
           e.pc \in Running => Active(d) /\ e.file = daemon[d].file,
           e.pc = "check" => e.file # 0
    PROVE  Still
<1>1. /\ daemon'[d] = e /\ \A k \in Daemon \ {d} : daemon'[k] = daemon[k]
    BY DEF HostInv, FilesType
<1>2. \A k \in Daemon : daemon[k].pc = "check" => daemon[k].file # 0
    BY DEF TeardownInv, HostOk, RunningOk
<1> QED  BY <1>1, <1>2 DEF Still, Active, Running

LEMMA DaemonBecomes ==
    ASSUME HostInv, NEW d \in Daemon, NEW x \in DaemonPcs, Becomes(d, x)
    PROVE  \E e \in Daemons : /\ daemon' = [daemon EXCEPT ![d] = e]
                              /\ e.pc = x /\ e.file = daemon[d].file
<1>1. daemon \in [Daemon -> Daemons] /\ daemon[d] \in Daemons
    BY DEF HostInv, FilesType
<1>2. PICK e : e = [daemon[d] EXCEPT !.pc = x]
    OBVIOUS
<1>3. e \in Daemons /\ e.pc = x /\ e.file = daemon[d].file
    BY <1>1, <1>2 DEF Daemons
<1>4. daemon' = [daemon EXCEPT ![d] = e]
    BY <1>1, <1>2 DEF Becomes
<1> QED  BY <1>3, <1>4

LEMMA DaemonRests ==
    ASSUME HostInv, HostInv', TeardownInv, NEW d \in Daemon, cli' = cli,
           LoadConfig(d) \/ TakeGuard(d) \/ StartMonitor(d) \/ Stops(d) \/ ReleaseGuard(d)
           \/ DaemonDies(d)
    PROVE  TeardownInv'
<1> USE DEF markerVars, countVars, policyVars, UnchangedFiles, OnlyDaemon
<1>0. /\ daemon \in [Daemon -> Daemons] /\ daemon[d] \in Daemons
      /\ fresh \in Nat /\ fresh' \in Nat
    BY DEF HostInv, FilesType
<1>a. Off \in Daemons /\ Off.pc \notin Running \cup {"check"}
    BY DEF Off, Daemons, DaemonPcs, Running
<1>b. ASSUME daemon' = [daemon EXCEPT ![d] = Off], fresh <= fresh',
             UNCHANGED <<coordinator, tsnet, identity, destroy, enrolled, late, config>>
      PROVE  TeardownInv'
    BY <1>a, <1>b, DaemonStill, StillStands
<1>1. CASE LoadConfig(d)
  <2>1. PICK e \in Daemons : e = IF config THEN [daemon[d] EXCEPT !.pc = "guard"] ELSE Off
      BY <1>0, <1>a DEF Daemons, DaemonPcs
  <2>2. e.pc \notin Running \cup {"check"}
      BY <1>0, <1>a, <2>1 DEF Daemons, DaemonPcs, Running
  <2>3. daemon' = [daemon EXCEPT ![d] = e]
      BY <1>0, <1>1, <2>1 DEF LoadConfig
  <2>4. UNCHANGED <<coordinator, tsnet, identity, destroy, enrolled, late, config, fresh>>
      BY <1>1 DEF LoadConfig
  <2>5. fresh <= fresh'
      BY <1>0, <2>4
  <2>6. Still
      BY <2>2, <2>3, <2>4, <2>5, DaemonStill
  <2> QED  BY <2>6, StillStands
<1>2. CASE TakeGuard(d)
  <2>1. fresh <= fresh'
      BY <1>0, <1>2 DEF TakeGuard
  <2>2. CASE IsRunning
      BY <1>2, <1>b, <2>1, <2>2 DEF TakeGuard
  <2>3. CASE ~IsRunning
    <3>1. PICK n \in Nat : n = roleFile' /\ n # 0
        BY <1>0, <1>2, <2>3 DEF TakeGuard, RoleFile, HostInv, FilesType
    <3>2. PICK e : e = [daemon[d] EXCEPT !.file = n, !.pc = "check"]
        OBVIOUS
    <3>3. e \in Daemons /\ e.pc = "check" /\ e.file # 0
        BY <1>0, <3>1, <3>2 DEF Daemons, DaemonPcs
    <3>4. daemon' = [daemon EXCEPT ![d] = e]
        BY <1>0, <1>2, <2>3, <3>1, <3>2 DEF TakeGuard
    <3>5. e.pc \notin Running
        BY <3>3 DEF Running
    <3>6. Still
        BY <1>2, <2>1, <3>3, <3>4, <3>5, DaemonStill DEF TakeGuard
    <3> QED  BY <3>6, StillStands
  <2> QED  BY <2>2, <2>3
<1>3. CASE StartMonitor(d)
  <2>1. PICK n \in Nat : n = fresh'
      BY <1>0
  <2>2. PICK e : e = [daemon[d] EXCEPT !.nonce = n, !.pc = "network"]
      OBVIOUS
  <2>3. e \in Daemons /\ e.pc = "network" /\ e.file = daemon[d].file
      BY <1>0, <2>1, <2>2 DEF Daemons, DaemonPcs
  <2>4. daemon' = [daemon EXCEPT ![d] = e]
      BY <1>0, <1>3, <2>1, <2>2 DEF StartMonitor
  <2>5. fresh <= fresh' /\ Active(d)
      BY <1>0, <1>3 DEF StartMonitor, AtDaemon, Active
  <2>6. Still
      BY <1>3, <2>3, <2>4, <2>5, DaemonStill DEF StartMonitor
  <2> QED  BY <2>6, StillStands
<1>4. CASE Stops(d)
  <2>1. PICK e \in Daemons : /\ daemon' = [daemon EXCEPT ![d] = e]
                             /\ e.pc = "stopping" /\ e.file = daemon[d].file
      BY <1>4, DaemonBecomes DEF Stops, DaemonPcs
  <2>2. Active(d)
      BY <1>4 DEF Stops, Active
  <2>3. UNCHANGED <<coordinator, tsnet, identity, destroy, enrolled, late, config, fresh>>
      BY <1>4 DEF Stops
  <2>4. fresh <= fresh'
      BY <1>0, <2>3
  <2>5. Still
      BY <2>1, <2>2, <2>3, <2>4, DaemonStill
  <2> QED  BY <2>5, StillStands
<1>5. CASE ReleaseGuard(d)
    BY <1>0, <1>5, <1>b DEF ReleaseGuard
<1>6. CASE DaemonDies(d)
    BY <1>0, <1>6, <1>b DEF DaemonDies
<1> QED  BY <1>1, <1>2, <1>3, <1>4, <1>5, <1>6

(* A daemon looks at the record and the configuration under its guard, so  *)
(* no destroyer that has its record is past the stop.                      *)
LEMMA CheckTears ==
    ASSUME HostInv, HostInv', TeardownInv, NEW d \in Daemon, cli' = cli, CheckAgain(d)
    PROVE  TeardownInv'
<1> USE DEF markerVars, countVars, policyVars, UnchangedFiles, OnlyDaemon
<1>0. /\ daemon \in [Daemon -> Daemons] /\ daemon[d] \in Daemons /\ fresh \in Nat
      /\ UNCHANGED <<coordinator, tsnet, identity, destroy, enrolled, late, config, fresh>>
    BY DEF HostInv, FilesType, CheckAgain
<1>1. CASE ~MayRun
  <2>1. daemon' = [daemon EXCEPT ![d] = Off]
      BY <1>1 DEF CheckAgain
  <2>2. Off \in Daemons /\ Off.pc \notin Running \cup {"check"}
      BY DEF Off, Daemons, DaemonPcs, Running
  <2>3. fresh <= fresh'
      BY <1>0
  <2>4. Still
      BY <1>0, <2>1, <2>2, <2>3, DaemonStill
  <2> QED  BY <2>4, StillStands
<1>2. CASE MayRun
  <2>1. destroy = None /\ config
      BY <1>2 DEF MayRun
  <2>2. /\ daemon'[d].pc = "monitor" /\ daemon'[d].file = daemon[d].file /\ daemon[d].file # 0
        /\ \A k \in Daemon \ {d} : daemon'[k] = daemon[k]
    <3>1. daemon[d].file # 0
        BY DEF CheckAgain, AtDaemon, TeardownInv, HostOk, RunningOk
    <3> QED  BY <1>0, <1>2, <3>1 DEF CheckAgain, Daemons
  <2>3. HostOk'
    <3>1. DeviceOk => DeviceOk'
        BY <1>0, <2>1 DEF DeviceOk, Leaving
    <3>2. KnownDevices'
        BY <1>0 DEF TeardownInv, HostOk, KnownDevices
    <3>3. RunningOk'
        BY <1>0, <2>1, <2>2 DEF TeardownInv, HostOk, RunningOk, Active
    <3> QED  BY <1>0, <3>1, <3>2, <3>3 DEF TeardownInv, HostOk
  <2>4. ASSUME NEW c \in Clis, DestroyerOk(c) PROVE DestroyerOk(c)'
    <3>1. RecordFits(c) => RecordFits(c)'
        BY <1>0, <2>1 DEF RecordFits, Recorded
    <3>2. Aims(c) /\ ErasingOk(c) => (Aims(c) /\ ErasingOk(c))'
        BY <1>0 DEF Aims, ErasingOk
    <3> QED  BY <1>0, <2>4, <3>1, <3>2 DEF DestroyerOk
  <2> QED  BY <2>3, <2>4, CommandsStand
<1> QED  BY <1>1, <1>2

(* A running daemon keeps every destroyer that has its record before the   *)
(* stop; on a coordinator without a device nobody destroys at all.         *)
LEMMA NetworkTears ==
    ASSUME HostInv, HostInv', TeardownInv, NEW d \in Daemon, cli' = cli, StartNetwork(d)
    PROVE  TeardownInv'
<1>0. /\ daemon \in [Daemon -> Daemons] /\ daemon[d] \in Daemons /\ fresh \in Nat
      /\ tsnet \in Nat /\ identity \in Nat
      /\ UNCHANGED <<coordinator, identity, destroy, late, config>> /\ Active(d)
      /\ ~NoDaemon /\ Becomes(d, "retain")
    BY DEF HostInv, FilesType, StartNetwork, AtDaemon, Active, NoDaemon, countVars
<1>1. PICK e \in Daemons : /\ daemon' = [daemon EXCEPT ![d] = e]
                           /\ e.pc = "retain" /\ e.file = daemon[d].file
    BY <1>0, DaemonBecomes DEF DaemonPcs
<1>2. CASE UNCHANGED <<tsnet, fresh, enrolled>>
  <2>1. fresh <= fresh'
      BY <1>0, <1>2
  <2>2. Still
      BY <1>0, <1>1, <1>2, <2>1, DaemonStill
  <2> QED  BY <2>2, StillStands
<1>3. CASE ~UNCHANGED <<tsnet, fresh, enrolled>>
  <2>1. /\ fresh' = fresh + 1 /\ tsnet' = fresh' /\ enrolled' = enrolled \cup {fresh'}
        /\ tsnet = 0 \/ tsnet \notin enrolled
      BY <1>3 DEF StartNetwork
  <2>2. coordinator => DeviceOk /\ tsnet = 0 /\ identity = 0 /\ destroy = None
    <3>1. coordinator => DeviceOk
        BY DEF TeardownInv, HostOk
    <3> QED  BY <1>0, <2>1, <3>1 DEF DeviceOk
  <2>3. /\ daemon'[d].pc = "retain" /\ daemon'[d].file = daemon[d].file
        /\ \A k \in Daemon \ {d} : daemon'[k] = daemon[k]
      BY <1>0, <1>1
  <2>4. HostOk'
    <3>1. ASSUME coordinator PROVE DeviceOk'
      <4>1. enrolled' \ {0} \subseteq {tsnet'} /\ identity' \in {0, tsnet'} /\ destroy' = None
          BY <1>0, <2>1, <2>2, <3>1 DEF DeviceOk
      <4>2. ~Leaving(tsnet)'
          BY <1>0, <2>1 DEF Leaving, TeardownInv, HostOk, KnownDevices
      <4>3. tsnet' \in enrolled'
          BY <2>1
      <4> QED  BY <4>1, <4>2, <4>3 DEF DeviceOk, Leaving
    <3>2. KnownDevices'
      <4>1. \A r \in late : r.kind = "device" => r.device \in Nat
          BY DEF HostInv, PolicyInv, PolicyType, LateRequests, PolicyUpdates
      <4>2. destroy # None => destroy.device \in Nat
          BY DEF HostInv, FilesType, DestroyRecords
      <4> QED  BY <1>0, <2>1, <4>1, <4>2 DEF TeardownInv, HostOk, KnownDevices
    <3>3. RunningOk'
        BY <1>0, <2>3 DEF TeardownInv, HostOk, RunningOk, Active
    <3> QED  BY <1>0, <3>1, <3>2, <3>3 DEF HostOk
  <2>5. ASSUME NEW c \in Clis, DestroyerOk(c) PROVE DestroyerOk(c)'
    <3>1. c.device \in Nat
        BY DEF Clis
    <3>2. RecordFits(c) => RecordFits(c)'
        BY <1>0 DEF RecordFits
    <3>3. coordinator => ~Aims(c)
        BY <2>2 DEF Aims
    <3> QED  BY <1>0, <2>1, <2>5, <3>1, <3>2, <3>3 DEF DestroyerOk
  <2> QED  BY <2>4, <2>5, CommandsStand
<1> QED  BY <1>2, <1>3

LEMMA IdentityTears ==
    ASSUME HostInv, HostInv', TeardownInv, NEW d \in Daemon, cli' = cli, RetainIdentity(d)
    PROVE  TeardownInv'
<1>0. /\ daemon \in [Daemon -> Daemons] /\ daemon[d] \in Daemons /\ fresh \in Nat
      /\ UNCHANGED <<coordinator, tsnet, destroy, enrolled, late, config, fresh>>
      /\ Active(d) /\ ~NoDaemon
    BY DEF HostInv, FilesType, RetainIdentity, AtDaemon, Active, NoDaemon, countVars, policyVars
<1>1. PICK x \in {"ready", "stopping"} : /\ Becomes(d, x)
                                         /\ identity' = IF x = "ready" THEN tsnet ELSE identity
    BY DEF RetainIdentity
<1>2. PICK e \in Daemons : /\ daemon' = [daemon EXCEPT ![d] = e]
                           /\ e.pc = x /\ e.file = daemon[d].file
    BY <1>1, DaemonBecomes DEF DaemonPcs
<1>3. /\ daemon'[d].pc = x /\ daemon'[d].file = daemon[d].file
      /\ \A k \in Daemon \ {d} : daemon'[k] = daemon[k]
    BY <1>0, <1>2
<1>4. NoDaemon' <=> NoDaemon
    BY <1>0, <1>3 DEF NoDaemon, Active
<1>5. HostOk'
  <2>1. DeviceOk => DeviceOk'
      BY <1>0, <1>1, <1>4 DEF DeviceOk, Leaving
  <2>2. KnownDevices'
      BY <1>0, <1>1 DEF TeardownInv, HostOk, KnownDevices
  <2>3. RunningOk'
      BY <1>0, <1>3 DEF TeardownInv, HostOk, RunningOk, Active
  <2> QED  BY <1>0, <2>1, <2>2, <2>3 DEF TeardownInv, HostOk
<1>6. ASSUME NEW c \in Clis, DestroyerOk(c) PROVE DestroyerOk(c)'
  <2>1. RecordFits(c) => RecordFits(c)' /\ c.pc \notin Stopped
      BY <1>0 DEF RecordFits
  <2>2. c.pc \notin Stopped /\ Aims(c) /\ ErasingOk(c) => (Aims(c) /\ ErasingOk(c))'
      BY <1>0 DEF Aims, ErasingOk, Stopped
  <2> QED  BY <1>0, <1>6, <2>1, <2>2 DEF DestroyerOk
<1> QED  BY <1>5, <1>6, CommandsStand

LEMMA DaemonTears ==
    ASSUME HostInv, HostInv', TeardownInv, NEW d \in Daemon, DaemonStep(d)
    PROVE  TeardownInv'
<1>1. cli' = cli
    BY DaemonFiles
<1> QED  BY <1>1, DaemonRests, CheckTears, NetworkTears, IdentityTears DEF DaemonStep

(* Devices go late, and other hosts come and go; a device that is still to *)
(* be deleted is one that a record names.                                  *)
LEMMA DevicesTear ==
    ASSUME HostInv, HostInv', TeardownInv, cli' = cli, enrolled' \ {0} \subseteq enrolled,
           UNCHANGED <<coordinator, tsnet, identity, destroy, config, fresh, daemon>>,
           late' \subseteq late, \A k \in enrolled \ enrolled' : k = 0 \/ Leaving(k)
    PROVE  TeardownInv'
<1>1. NoDaemon' <=> NoDaemon
    BY DEF NoDaemon, Active
<1>2. DeviceOk => DeviceOk'
  <2>1. ASSUME DeviceOk, tsnet # 0, tsnet \notin enrolled' \/ Leaving(tsnet)'
        PROVE  tsnet \notin enrolled \/ Leaving(tsnet)
      BY <2>1 DEF Leaving
  <2> QED  BY <1>1, <2>1 DEF DeviceOk, Leaving
<1>3. KnownDevices' /\ RunningOk'
    BY DEF TeardownInv, HostOk, KnownDevices, RunningOk, Active
<1>4. ASSUME NEW c \in Clis, DestroyerOk(c) PROVE DestroyerOk(c)'
  <2>1. RecordFits(c) => RecordFits(c)'
      BY <1>1 DEF RecordFits
  <2>2. Aims(c) /\ ErasingOk(c) => (Aims(c) /\ ErasingOk(c))'
      BY DEF Aims, ErasingOk
  <2> QED  BY <1>4, <2>1, <2>2 DEF DestroyerOk
<1> QED  BY <1>2, <1>3, <1>4, CommandsStand DEF TeardownInv, HostOk

LEMMA TailnetTears ==
    ASSUME HostInv, HostInv', TeardownInv, TailnetStep, UNCHANGED hostVars
    PROVE  TeardownInv'
<1>0. UNCHANGED <<coordinator, tsnet, identity, destroy, config, fresh, daemon, cli>>
    BY DEF hostVars
<1>1. ASSUME NEW e \in Entries, OutsideEdit(e) PROVE TeardownInv'
    BY <1>0, <1>1, DevicesTear DEF OutsideEdit
<1>2. CASE OtherDevice
    BY <1>0, <1>2, DevicesTear DEF OtherDevice
<1>3. ASSUME NEW r \in late, LateEffect(r) PROVE TeardownInv'
  <2>1. late' \subseteq late
      BY <1>3 DEF LateEffect
  <2>2. enrolled' \subseteq enrolled /\ \A k \in enrolled \ enrolled' : Leaving(k)
      BY <1>3 DEF LateEffect, Leaving
  <2> QED  BY <1>0, <2>1, <2>2, DevicesTear
<1> QED  BY <1>1, <1>2, <1>3 DEF TailnetStep

LEMMA TeardownStep ==
    ASSUME HostInv, HostInv', TeardownInv, ~Overlap, ~Unseen,
           [HostNext]_<<hostVars, policyVars, raced>>
    PROVE  TeardownInv'
<1>0. fresh <= fresh
    BY DEF HostInv, FilesType
<1>1. ASSUME NEW p \in Cli, CliStep(p) PROVE TeardownInv'
    BY <1>1, GivenTears, LockTears, RecordTears, SaveRecordTears, StopTears, RemoveDeviceTears,
       RemovalTears, WipingTears DEF CliStep
<1>2. ASSUME NEW d \in Daemon, DaemonStep(d) PROVE TeardownInv'
    BY <1>2, DaemonTears
<1>3. CASE ClearLock
  <2>1. Still
      BY <1>0, <1>3, CommandStill DEF ClearLock, markerVars, countVars, policyVars
  <2> QED  BY <1>3, <2>1, StillStands DEF ClearLock
<1>4. ASSUME NEW p \in Cli, PolicyStep(p), UNCHANGED hostVars PROVE TeardownInv'
  <2>1. UNCHANGED <<coordinator, tsnet, identity, destroy, config, fresh, daemon, cli>>
      BY <1>4 DEF hostVars
  <2>2. enrolled' = enrolled /\ \A r \in late' : r.kind = "device" => r \in late
      BY <1>4, PolicyLeaves
  <2>3. Still
      BY <1>0, <2>1, <2>2, CommandStill
  <2> QED  BY <2>1, <2>3, StillStands
<1>5. CASE TailnetStep /\ UNCHANGED hostVars
    BY <1>5, TailnetTears
<1>6. CASE UNCHANGED <<hostVars, policyVars, raced>>
  <2>1. Still
      BY <1>0, <1>6, CommandStill DEF hostVars, policyVars
  <2> QED  BY <1>6, <2>1, StillStands DEF hostVars
<1> QED  BY <1>1, <1>2, <1>3, <1>4, <1>5, <1>6 DEF HostNext, HostActions


-----------------------------------------------------------------------------
(***************************************************************************)
(* What a record says of its device (ClaimInv), whatever races: it is the  *)
(* device of the command that wrote it, a device once enrolled never comes *)
(* back, and a command finds its device gone before it says so.            *)
(***************************************************************************)
ClaimOk(c) ==
    /\ c.device <= fresh
    /\ coordinator /\ Destroying(c) =>
         /\ c.device # 0
         /\ c.pc \in Removing =>
              /\ c.record.device = c.device
              /\ c.record.deviceRemoved => c.device \notin enrolled
         /\ c.pc = "gone" => c.device \notin enrolled

RecordOfDevice ==
    /\ tsnet <= fresh /\ identity <= fresh
    /\ coordinator /\ destroy # None =>
         /\ destroy.device # 0 /\ destroy.device <= fresh
         /\ destroy.deviceRemoved => destroy.device \notin enrolled

ClaimInv == RecordOfDevice /\ \A p \in Cli : ClaimOk(cli[p])

LEMMA ClaimStarts == HostInit => ClaimInv
<1>1. HostInit => ClaimOk(NoCli)
    BY DEF HostInit, NoCli, ClaimOk, Destroying
<1> QED  BY <1>1 DEF HostInit, ClaimInv, RecordOfDevice

(* No device comes back. *)
Onward ==
    /\ coordinator' = coordinator /\ fresh <= fresh' /\ tsnet' <= fresh' /\ identity' <= fresh'
    /\ \A k \in enrolled' : k \in enrolled \/ k = 0 \/ ~(k <= fresh)

LEMMA OnwardKeeps ==
    ASSUME HostInv, HostInv', RecordOfDevice, Onward
    PROVE  /\ destroy' \in {destroy, None} => RecordOfDevice'
           /\ \A c \in Clis : ClaimOk(c) => ClaimOk(c)'
<1>0. /\ fresh \in Nat /\ fresh' \in Nat /\ destroy \in {None} \cup DestroyRecords
    BY DEF HostInv, FilesType
<1>1. ASSUME destroy' \in {destroy, None} PROVE RecordOfDevice'
  <2>1. destroy # None => destroy.device \in Nat
      BY <1>0 DEF DestroyRecords
  <2> QED  BY <1>0, <1>1, <2>1 DEF Onward, RecordOfDevice
<1>2. ASSUME NEW c \in Clis, ClaimOk(c) PROVE ClaimOk(c)'
  <2>1. c.device \in Nat /\ c.device <= fresh'
      BY <1>0, <1>2 DEF Onward, ClaimOk, Clis
  <2>2. coordinator /\ Destroying(c) => (c.device \notin enrolled => c.device \notin enrolled')
      BY <1>2 DEF Onward, ClaimOk
  <2> QED  BY <1>2, <2>1, <2>2 DEF Onward, ClaimOk, Destroying
<1> QED  BY <1>1, <1>2

LEMMA ClaimMoves ==
    ASSUME HostInv, HostInv', ClaimInv, Onward, RecordOfDevice', NEW p \in Cli, NEW c \in Clis,
           cli' = [cli EXCEPT ![p] = c], ClaimOk(c)'
    PROVE  ClaimInv'
<1>1. \A e \in Clis : ClaimOk(e) => ClaimOk(e)'
    BY OnwardKeeps DEF ClaimInv
<1>2. ASSUME NEW q \in Cli PROVE ClaimOk(cli[q])'
  <2>1. PICK e \in Clis : e = IF q = p THEN c ELSE cli[q]
      BY DEF HostInv, CliInv
  <2>2. cli'[q] = e
      BY <2>1 DEF HostInv, CliInv
  <2>3. ClaimOk(e)'
      BY <1>1, <2>1 DEF ClaimInv
  <2> QED  BY <2>2, <2>3 DEF ClaimOk, Destroying
<1> QED  BY <1>2 DEF ClaimInv

LEMMA ClaimStands ==
    ASSUME HostInv, HostInv', ClaimInv, Onward, destroy' \in {destroy, None}, cli' = cli
    PROVE  ClaimInv'
<1>1. RecordOfDevice' /\ \A e \in Clis : ClaimOk(e) => ClaimOk(e)'
    BY OnwardKeeps DEF ClaimInv
<1>2. ASSUME NEW q \in Cli PROVE ClaimOk(cli[q])'
  <2>1. PICK e \in Clis : e = cli[q] /\ ClaimOk(e)
      BY DEF HostInv, CliInv, ClaimInv
  <2>2. ClaimOk(e)'
      BY <1>1, <2>1
  <2> QED  BY <2>1, <2>2 DEF ClaimOk, Destroying
<1> QED  BY <1>1, <1>2 DEF ClaimInv

(* A command ends, or goes to x with what it has. *)
LEMMA ClaimGoes ==
    ASSUME HostInv, HostInv', ClaimInv, Onward, destroy' \in {destroy, None}, NEW p \in Cli,
           \/ cli' = [cli EXCEPT ![p] = NoCli]
           \/ \E c \in Clis :
                /\ cli' = [cli EXCEPT ![p] = c] /\ c.device \in {0, cli[p].device}
                /\ \/ ~Destroying(c)
                   \/ /\ cli[p].op = "destroy" /\ cli[p].pc # "idle" /\ c.record = cli[p].record
                      /\ c.device = cli[p].device
                      /\ c.pc # "gone" /\ (c.pc \in Removing => cli[p].pc \in Removing)
    PROVE  ClaimInv'
<1>1. RecordOfDevice' /\ \A e \in Clis : ClaimOk(e) => ClaimOk(e)'
    BY OnwardKeeps DEF ClaimInv
<1>2. CASE cli' = [cli EXCEPT ![p] = NoCli]
  <2>1. NoCli \in Clis /\ ClaimOk(NoCli)
      BY NoCliFits DEF ClaimOk, NoCli, Destroying, HostInv, FilesType
  <2> QED  BY <1>1, <1>2, <2>1, ClaimMoves
<1>3. ASSUME NEW c \in Clis, cli' = [cli EXCEPT ![p] = c], c.device \in {0, cli[p].device},
             \/ ~Destroying(c)
             \/ /\ cli[p].op = "destroy" /\ cli[p].pc # "idle" /\ c.record = cli[p].record
                /\ c.device = cli[p].device
                /\ c.pc # "gone" /\ (c.pc \in Removing => cli[p].pc \in Removing)
      PROVE  ClaimInv'
  <2>1. ClaimOk(cli[p])
      BY DEF ClaimInv
  <2>2. ClaimOk(c)
      BY <1>3, <2>1 DEF ClaimOk, Destroying, HostInv, FilesType
  <2> QED  BY <1>1, <1>3, <2>2, ClaimMoves
<1> QED  BY <1>2, <1>3

(* To(p, x), where x is nothing that claims more. *)
LEMMA ClaimTo ==
    ASSUME HostInv, HostInv', ClaimInv, Onward, destroy' \in {destroy, None}, NEW p \in Cli,
           NEW x \in CliPcs, To(p, x), x # "gone",
           cli[p].pc # "idle", x \in Removing => cli[p].pc \in Removing
    PROVE  ClaimInv'
<1>1. PICK c \in Clis : /\ cli' = [cli EXCEPT ![p] = c] /\ c.pc = x /\ c.op = cli[p].op
                        /\ c.device = cli[p].device /\ c.record = cli[p].record
    BY ToMoves
<1> QED  BY <1>1, ClaimGoes DEF Destroying

LEMMA ClaimEnds ==
    ASSUME HostInv, HostInv', ClaimInv, Onward, destroy' \in {destroy, None}, NEW p \in Cli,
           cli[p].pc # "idle", cli' = [cli EXCEPT ![p] = NoCli] \/ Fails(p) \/ Gives(p)
    PROVE  ClaimInv'
<1>1. "unlock" \in CliPcs /\ "unlock" \notin Removing
    BY DEF CliPcs, Removing, Waiting
<1> QED  BY <1>1, ClaimGoes, ClaimTo DEF Fails, Gives

(* A command brings no device back; only SaveRecord writes a record.       *)
LEMMA CliOnward ==
    ASSUME HostInv, ClaimInv, NEW p \in Cli, CliStep(p)
    PROVE  Onward /\ (SaveRecord(p) \/ destroy' \in {destroy, None})
<1>0. /\ fresh \in Nat /\ tsnet \in Nat /\ identity \in Nat /\ tsnet <= fresh /\ identity <= fresh
      /\ coordinator' = coordinator
    BY CliFiles DEF HostInv, FilesType, ClaimInv, RecordOfDevice
<1> USE DEF UnchangedFiles, Only, countVars, markerVars, Given, policyVars, tailnetVars, Onward
<1>1. CASE \/ Init_(p) \/ SaveConfig(p) \/ Start(p) \/ Stop(p) \/ TailnetEnds(p) \/ Lock(p)
           \/ Unlock(p) \/ PolicyDone(p) \/ ReadRecord(p) \/ PlanReady(p)
    BY <1>0, <1>1 DEF Init_, SaveConfig, Start, Stop, TailnetEnds, Lock, Unlock, PolicyDone,
                      ReadRecord, PlanReady
<1>2. CASE \/ \E removePolicy \in BOOLEAN : Destroy(p, removePolicy)
           \/ \E task \in {"setup", "cleanup"} : Tailnet(p, task)
  <2>1. ASSUME NEW removePolicy \in BOOLEAN, Destroy(p, removePolicy)
        PROVE  Onward /\ destroy' = destroy
      BY <1>0, <2>1 DEF Destroy
  <2>2. ASSUME NEW task \in {"setup", "cleanup"}, Tailnet(p, task)
        PROVE  Onward /\ destroy' = destroy
      BY <1>0, <2>2 DEF Tailnet, Begin
  <2> QED  BY <1>2, <2>1, <2>2
<1>3. CASE Check(p) \/ Preflight(p) \/ ReadControl(p) \/ AwaitStop(p) \/ PolicyRemoved(p)
    BY <1>0, <1>3 DEF Check, Preflight, ReadControl, AwaitStop, PolicyRemoved, Begin
<1>4. CASE RemoveDevice(p) \/ RemovePolicy(p) \/ CliDies(p)
    BY <1>0, <1>4 DEF RemoveDevice, RemovePolicy, CliDies, DeleteDevice
<1>5. CASE Launch(p) \/ SaveRecord(p) \/ RequestStop(p)
    BY <1>0, <1>5 DEF Launch, SaveRecord, RequestStop
<1>6. CASE RecordStopped(p) \/ Purge(p)
    BY <1>0, <1>6 DEF RecordStopped, Purge
<1>7. CASE \/ Wipe(p) \/ WipeState(p) \/ WipeConfig(p) \/ WipeRest(p) \/ WipeRecord(p) \/ WipeRoot(p)
    BY <1>0, <1>7 DEF Wipe, WipeState, WipeConfig, WipeRest, WipeRecord, WipeRoot, WipePolicyFiles
<1> QED  BY <1>1, <1>2, <1>3, <1>4, <1>5, <1>6, <1>7 DEF CliStep

(* A destroying command begins with the device it found. *)
LEMMA DestroyClaims ==
    ASSUME HostInv, HostInv', ClaimInv, Onward, NEW p \in Cli, NEW removePolicy \in BOOLEAN,
           Destroy(p, removePolicy)
    PROVE  ClaimInv'
<1>1. PICK n : n = IF coordinator THEN ManagedIdentity ELSE 0
    OBVIOUS
<1>2. n \in Nat /\ n <= fresh /\ (coordinator => n # 0)
    BY <1>1 DEF Destroy, ManagedIdentity, HostInv, FilesType, DestroyRecords, ClaimInv, RecordOfDevice
<1>3. PICK c : c = [NoCli EXCEPT !.op = "destroy", !.pc = "lock", !.device = n, !.policy = removePolicy]
    OBVIOUS
<1>4. c \in Clis /\ c.op = "destroy" /\ c.pc = "lock" /\ c.device = n
    BY <1>2, <1>3 DEF NoCli, Clis, CliPcs, CliOps
<1>5. ClaimOk(c)
    BY <1>2, <1>4 DEF ClaimOk, Removing, Waiting
<1>6. cli' = [cli EXCEPT ![p] = c] /\ destroy' = destroy
    BY <1>1, <1>3 DEF Destroy, Given, UnchangedFiles
<1>7. RecordOfDevice' /\ ClaimOk(c)'
    BY <1>4, <1>5, <1>6, OnwardKeeps DEF ClaimInv
<1> QED  BY <1>4, <1>6, <1>7, ClaimMoves

LEMMA ReadClaims ==
    ASSUME HostInv, HostInv', ClaimInv, Onward, NEW p \in Cli, ReadRecord(p)
    PROVE  ClaimInv'
<1>0. destroy' = destroy /\ cli[p].pc = "record"
    BY DEF ReadRecord, Only, UnchangedFiles, AtCli
<1>1. CASE Fails(p)
    BY <1>0, <1>1, ClaimEnds
<1>2. CASE ~Fails(p)
  <2>1. PICK r : r = IF destroy = None THEN NewRecord(p) ELSE destroy
      OBVIOUS
  <2>2. PICK x \in {"remote", "intent"} : x = IF coordinator THEN "remote" ELSE "intent"
      OBVIOUS
  <2>3. PICK c : c = [cli[p] EXCEPT !.record = r, !.pc = x]
      OBVIOUS
  <2>4. cli \in [Cli -> Clis] /\ cli[p] \in Clis
      BY DEF HostInv, CliInv
  <2>5. /\ cli' = [cli EXCEPT ![p] = c]
        /\ destroy # None => destroy.device = cli[p].device
      BY <1>2, <2>1, <2>2, <2>3, <2>4 DEF ReadRecord
  <2>6. c \in Clis
    <3>1. cli'[p] \in Clis
        BY DEF HostInv, CliInv
    <3> QED  BY <2>4, <2>5, <3>1
  <2>7. c.pc = x /\ c.record = r /\ c.op = cli[p].op /\ c.device = cli[p].device
      BY <2>3, <2>4 DEF Clis
  <2>8. r.device = cli[p].device /\ (r.deviceRemoved => destroy # None /\ r = destroy)
    <3>1. NewRecord(p).device = cli[p].device /\ ~NewRecord(p).deviceRemoved
        BY DEF NewRecord
    <3> QED  BY <2>1, <2>5, <3>1
  <2>9. ClaimOk(c)
      BY <1>0, <2>7, <2>8 DEF ClaimInv, ClaimOk, RecordOfDevice, Destroying
  <2>10. RecordOfDevice' /\ ClaimOk(c)'
      BY <1>0, <2>6, <2>9, OnwardKeeps DEF ClaimInv
  <2> QED  BY <2>5, <2>6, <2>10, ClaimMoves
<1> QED  BY <1>1, <1>2

(* It is gone, and is not enrolled again. *)
LEMMA RemoveClaims ==
    ASSUME HostInv, HostInv', ClaimInv, Onward, NEW p \in Cli, RemoveDevice(p)
    PROVE  ClaimInv'
<1>0. destroy' = destroy /\ cli[p].pc = "delete" /\ "delete" \in Removing /\ cli[p] \in Clis
    BY DEF RemoveDevice, AtCli, UnchangedFiles, Removing, Waiting, HostInv, CliInv
<1>1. PICK k \in Nat : k = cli[p].device
    BY <1>0 DEF Clis
<1>2. PICK sure \in BOOLEAN : DeleteDevice(k, sure) /\ To(p, IF sure THEN "gone" ELSE "unlock")
    BY <1>1 DEF RemoveDevice, Confirmed
<1>3. CASE ~sure
    BY <1>0, <1>2, <1>3, ClaimEnds DEF Fails
<1>4. CASE sure
  <2>1. k \notin enrolled'
      BY <1>2, <1>4 DEF DeleteDevice
  <2>2. PICK c \in Clis : /\ cli' = [cli EXCEPT ![p] = c] /\ c.pc = "gone" /\ c.op = cli[p].op
                          /\ c.device = cli[p].device /\ c.record = cli[p].record
    <3>1. "gone" \in CliPcs /\ To(p, "gone")
        BY <1>2, <1>4 DEF CliPcs, Removing, Waiting
    <3> QED  BY <3>1, ToMoves
  <2>3. ClaimOk(cli[p]) /\ cli[p].device \in Nat
      BY <1>0 DEF ClaimInv, Clis
  <2>4. RecordOfDevice'
      BY <1>0, OnwardKeeps DEF ClaimInv
  <2>5. ClaimOk(c)'
    <3>1. PICK e \in Clis : e = cli[p]
        BY <1>0
    <3>2. ClaimOk(e)'
        BY <2>3, <3>1, OnwardKeeps DEF ClaimInv
    <3>3. c.device = e.device /\ c.op = e.op /\ c.record = e.record /\ e.pc = "delete" /\ c.pc = "gone"
        BY <1>0, <2>2, <3>1
    <3>4. c.device \notin enrolled'
        BY <1>1, <2>1, <2>2
    <3> QED  BY <1>0, <3>2, <3>3, <3>4 DEF ClaimOk, Destroying
  <2> QED  BY <2>2, <2>4, <2>5, ClaimMoves
<1> QED  BY <1>3, <1>4

(* What it saves is the record of its own device, removed or not. *)
LEMMA SaveClaims ==
    ASSUME HostInv, HostInv', ClaimInv, Onward, NEW p \in Cli, SaveRecord(p)
    PROVE  ClaimInv'
<1>0. /\ cli[p].pc \in {"intent", "gone", "policyGone"} /\ UNCHANGED <<enrolled, fresh, tsnet, identity, coordinator>>
      /\ cli[p] \in Clis /\ Fits(cli[p], job[p]) /\ ClaimOk(cli[p])
    BY DEF SaveRecord, markerVars, countVars, policyVars, HostInv, CliInv, ClaimInv
<1>1. CASE Fails(p) /\ UNCHANGED destroy
    BY <1>0, <1>1, ClaimEnds
<1>2. CASE ~(Fails(p) /\ UNCHANGED destroy)
  <2>1. cli[p].op = "destroy" /\ Destroying(cli[p]) /\ cli[p].pc \in Removing
      BY <1>0 DEF Fits, Destroying, Removing, Waiting
  <2>2. PICK b \in DestroyRecords : b = cli[p].record
      BY <1>0, <2>1 DEF Fits
  <2>3. PICK r \in DestroyRecords : r = destroy'
      BY <1>0, <1>2, SavedRecord DEF SaveRecord
  <2>4. r.device = b.device /\ (r.deviceRemoved => b.deviceRemoved \/ cli[p].pc = "gone")
    <3>1. r = [b EXCEPT !.deviceRemoved = @ \/ cli[p].pc = "gone",
                        !.policyRemoved = @ \/ cli[p].pc = "policyGone"]
        BY <1>2, <2>2, <2>3 DEF SaveRecord
    <3>2. PICK u \in BOOLEAN : u = (b.deviceRemoved \/ cli[p].pc = "gone")
        OBVIOUS
    <3>3. PICK v \in BOOLEAN : v = (b.policyRemoved \/ cli[p].pc = "policyGone")
        OBVIOUS
    <3>4. r = [b EXCEPT !.deviceRemoved = u, !.policyRemoved = v]
        BY <3>1, <3>2, <3>3
    <3>5. r.device = b.device /\ r.deviceRemoved = u
        BY <3>4 DEF DestroyRecords
    <3> QED  BY <3>2, <3>5
  <2>5. coordinator => /\ r.device = cli[p].device /\ r.device # 0
                       /\ r.deviceRemoved => r.device \notin enrolled
      BY <1>0, <2>1, <2>2, <2>4 DEF ClaimOk
  <2>6. coordinator => r.device <= fresh
      BY <1>0, <2>5 DEF ClaimOk
  <2>7. RecordOfDevice'
      BY <1>0, <2>3, <2>5, <2>6 DEF RecordOfDevice, ClaimInv
  <2>8. PICK x : x = NextAfterSave(p)
      OBVIOUS
  <2>9. x \in {"stop", "removal", "purge"} /\ x \in CliPcs
    <3>1. CASE cli[p].pc = "intent"
        BY <2>8, <3>1 DEF NextAfterSave, AtCli, Waiting, CliPcs, Removing
    <3>2. CASE cli[p].pc = "gone"
        BY <2>8, <3>2 DEF NextAfterSave, AtCli, Waiting, CliPcs, Removing
    <3>3. CASE cli[p].pc = "policyGone"
        BY <2>8, <3>3 DEF NextAfterSave, AtCli, Waiting, CliPcs, Removing
    <3> QED  BY <1>0, <3>1, <3>2, <3>3
  <2>10. PICK c : c = [cli[p] EXCEPT !.record = r, !.pc = x]
      OBVIOUS
  <2>11. /\ c \in Clis /\ c.pc = x /\ c.op = cli[p].op /\ c.record = r
         /\ c.device = cli[p].device
      BY <1>0, <2>9, <2>10 DEF Clis
  <2>12. cli' = [cli EXCEPT ![p] = c]
      BY <1>2, <2>3, <2>8, <2>10 DEF SaveRecord, HostInv, CliInv
  <2>13. ClaimOk(c)'
      BY <1>0, <2>1, <2>5, <2>9, <2>11 DEF ClaimOk, Destroying
  <2> QED  BY <2>7, <2>11, <2>12, <2>13, ClaimMoves
<1> QED  BY <1>1, <1>2

LEMMA CliClaims ==
    ASSUME HostInv, HostInv', ClaimInv, NEW p \in Cli, CliStep(p)
    PROVE  ClaimInv'
<1>0. Onward /\ (SaveRecord(p) \/ destroy' \in {destroy, None})
    BY CliOnward
<1>a. /\ Removing \subseteq CliPcs /\ {"lock", "save", "tailnet", "check", "policy", "launch", "unlock",
             "record", "purge", "wipe", "wipeState", "wipeConfig", "wipeRest",
             "wipeRecord", "wipeRoot"} \subseteq CliPcs \ Removing
      /\ {"stop", "request", "await", "stopped", "delete", "removal", "removing", "policyGone",
          "remote", "plan", "intent"} \subseteq Removing \ {"gone"}
    BY DEF CliPcs, Removing, Waiting
<1>1. ASSUME destroy' \in {destroy, None}, NEW op \in CliOps \ {"destroy"}, NEW x \in CliPcs, Runs(p, op, x)
      PROVE  ClaimInv'
  <2>1. PICK c : c = [NoCli EXCEPT !.op = op, !.pc = x]
      OBVIOUS
  <2>2. c \in Clis /\ c.op = op /\ c.device = 0
      BY <1>1, <2>1 DEF NoCli, Clis
  <2> QED  BY <1>0, <1>1, <2>1, <2>2, ClaimGoes DEF Runs, Destroying
<1>b. {"init", "start", "stop", "setup", "cleanup"} \subseteq CliOps \ {"destroy"}
    BY DEF CliOps
<1>2. CASE \/ Init_(p) \/ Start(p) \/ Stop(p)
           \/ \E task \in {"setup", "cleanup"} : Tailnet(p, task)
  <2>1. destroy' = destroy
      BY <1>2 DEF Init_, Start, Stop, Tailnet, Given, UnchangedFiles
  <2>2. \E op \in CliOps \ {"destroy"}, x \in CliPcs : Runs(p, op, x)
    <3>1. CASE Init_(p)
        BY <1>a, <1>b, <3>1 DEF Init_
    <3>2. CASE Start(p)
        BY <1>a, <1>b, <3>2 DEF Start
    <3>3. CASE Stop(p)
        BY <1>a, <1>b, <3>3 DEF Stop
    <3>4. ASSUME NEW task \in {"setup", "cleanup"}, Tailnet(p, task)
          PROVE  \E op \in CliOps \ {"destroy"}, x \in CliPcs : Runs(p, op, x)
        BY <1>a, <1>b, <3>4 DEF Tailnet
    <3> QED  BY <1>2, <3>1, <3>2, <3>3, <3>4
  <2> QED  BY <1>1, <2>1, <2>2
<1>3. CASE \/ SaveConfig(p) \/ TailnetEnds(p) \/ Lock(p) \/ Unlock(p) \/ Check(p) \/ PolicyDone(p)
           \/ Launch(p) \/ CliDies(p)
  <2>1. destroy' = destroy /\ cli[p].pc # "idle"
      BY <1>3 DEF SaveConfig, TailnetEnds, Lock, Unlock, Check, PolicyDone, Launch, CliDies, AtCli,
                  Only, UnchangedFiles
  <2>2. \/ cli' = [cli EXCEPT ![p] = NoCli] \/ Fails(p)
        \/ \E x \in {"lock", "record", "check", "policy", "launch", "unlock"} : To(p, x)
      BY <1>3 DEF SaveConfig, TailnetEnds, Lock, Unlock, Check, PolicyDone, Launch, CliDies
  <2>3. ASSUME NEW x \in {"lock", "record", "check", "policy", "launch", "unlock"}, To(p, x)
        PROVE  ClaimInv'
      BY <1>0, <1>a, <2>1, <2>3, ClaimTo
  <2> QED  BY <1>0, <2>1, <2>2, <2>3, ClaimEnds
<1>4. CASE Preflight(p) \/ PlanReady(p) \/ AwaitStop(p) \/ RequestStop(p) \/ RemovePolicy(p)
           \/ PolicyRemoved(p) \/ RecordStopped(p)
  <2>1. /\ destroy' = destroy
        /\ cli[p].pc \in Removing /\ cli[p].pc # "idle"
      BY <1>4, <1>a DEF Preflight, PlanReady, AwaitStop, RequestStop, RemovePolicy, PolicyRemoved, RecordStopped,
                  AtCli, Only, UnchangedFiles
  <2>2. \/ cli' = [cli EXCEPT ![p] = NoCli] \/ Fails(p) \/ Gives(p)
        \/ \E x \in {"plan", "intent", "unlock", "stopped", "await", "removing", "policyGone",
                     "delete", "purge"} : To(p, x)
      BY <1>4 DEF Preflight, PlanReady, AwaitStop, RequestStop, RemovePolicy, PolicyRemoved, RecordStopped
  <2>3. ASSUME NEW x \in {"plan", "intent", "unlock", "stopped", "await", "removing", "policyGone",
                     "delete", "purge"}, To(p, x)
        PROVE  ClaimInv'
      BY <1>0, <1>a, <2>1, <2>3, ClaimTo
  <2> QED  BY <1>0, <2>1, <2>2, <2>3, ClaimEnds
<1>5. CASE ReadControl(p)
  <2>1. destroy' = destroy /\ cli[p].pc = "stop" /\ "stop" \in Removing /\ cli[p] \in Clis
        /\ cli[p].op \in {"stop", "destroy"}
      BY <1>5, <1>a DEF ReadControl, AtCli, Only, UnchangedFiles, HostInv, CliInv, Fits
  <2>2. CASE To(p, "stopped") \/ Gives(p)
      BY <1>0, <1>a, <2>1, <2>2, ClaimTo, ClaimEnds
  <2>3. CASE cli' = [cli EXCEPT ![p].nonce = control, ![p].pc = "request"]
    <3>1. PICK c : c = [cli[p] EXCEPT !.nonce = control, !.pc = "request"]
        OBVIOUS
    <3>2. c \in Clis /\ c.pc = "request" /\ c.op = cli[p].op /\ c.record = cli[p].record
          /\ c.device = cli[p].device
        BY <1>a, <2>1, <3>1 DEF Clis, HostInv, FilesType
    <3>3. cli' = [cli EXCEPT ![p] = c]
        BY <2>3, <3>1 DEF HostInv, CliInv
    <3> QED  BY <1>0, <2>1, <3>2, <3>3, ClaimGoes DEF Destroying
  <2> QED  BY <1>5, <2>2, <2>3 DEF ReadControl
<1>6. CASE Purge(p)
  <2>1. destroy' = destroy /\ cli[p].pc = "purge" /\ cli[p] \in Clis
      BY <1>6 DEF Purge, AtCli, HostInv, CliInv
  <2>2. CASE Fails(p)
      BY <1>0, <2>1, <2>2, ClaimEnds
  <2>3. CASE ~Fails(p)
    <3>1. PICK n \in Nat : n = roleFile'
        BY DEF HostInv, FilesType
    <3>2. PICK c : c = [cli[p] EXCEPT !.file = n, !.pc = "wipe"]
        OBVIOUS
    <3>3. /\ c \in Clis /\ c.pc = "wipe" /\ c.op = cli[p].op /\ c.device = cli[p].device
          /\ c.record = cli[p].record
        BY <1>a, <2>1, <3>1, <3>2 DEF Clis
    <3>4. cli' = [cli EXCEPT ![p] = c]
        BY <1>6, <2>3, <3>1, <3>2 DEF Purge, HostInv, CliInv
    <3>5. \/ ~Destroying(c)
          \/ cli[p].op = "destroy" /\ cli[p].pc # "idle" /\ c.pc # "gone" /\ c.pc \notin Removing
        BY <1>a, <2>1, <3>3 DEF Destroying
    <3> QED  BY <1>0, <2>1, <3>3, <3>4, <3>5, ClaimGoes
  <2> QED  BY <2>2, <2>3
<1>7. CASE \/ Wipe(p) \/ WipeState(p) \/ WipeRest(p) \/ WipeRecord(p) \/ WipeRoot(p)
  <2>1. destroy' \in {destroy, None} /\ cli[p].pc # "idle"
      BY <1>7 DEF Wipe, WipeState, WipeRest, WipeRecord, WipeRoot, AtCli
  <2>2. \E x \in {"wipeState", "wipeConfig", "wipeRecord", "unlock", "wipeRoot"} : To(p, x)
      BY <1>7 DEF Wipe, WipeState, WipeRest, WipeRecord, WipeRoot
  <2> QED  BY <1>0, <1>a, <2>1, <2>2, ClaimTo
<1>8. CASE WipeConfig(p)
  <2>1. destroy' = destroy /\ cli[p].pc = "wipeConfig" /\ cli[p] \in Clis
      BY <1>8 DEF WipeConfig, AtCli, HostInv, CliInv
  <2>2. PICK c : c = [cli[p] EXCEPT !.file = 0, !.pc = "wipeRest"]
      OBVIOUS
  <2>3. /\ c \in Clis /\ c.pc = "wipeRest" /\ c.op = cli[p].op /\ c.device = cli[p].device
        /\ c.record = cli[p].record
      BY <1>a, <2>1, <2>2 DEF Clis
  <2>4. cli' = [cli EXCEPT ![p] = c]
      BY <1>8, <2>2 DEF WipeConfig, HostInv, CliInv
  <2>5. \/ ~Destroying(c)
        \/ cli[p].op = "destroy" /\ cli[p].pc # "idle" /\ c.pc # "gone" /\ c.pc \notin Removing
      BY <1>a, <2>1, <2>3 DEF Destroying
  <2> QED  BY <1>0, <2>1, <2>3, <2>4, <2>5, ClaimGoes
<1> QED  BY <1>0, <1>2, <1>3, <1>4, <1>5, <1>6, <1>7, <1>8, DestroyClaims, ReadClaims,
            RemoveClaims, SaveClaims DEF CliStep

LEMMA DaemonClaims ==
    ASSUME HostInv, HostInv', ClaimInv, NEW d \in Daemon, DaemonStep(d)
    PROVE  ClaimInv'
<1>0. /\ cli' = cli /\ coordinator' = coordinator /\ fresh \in Nat /\ tsnet \in Nat
      /\ identity \in Nat /\ tsnet <= fresh /\ identity <= fresh
    BY DaemonFiles DEF HostInv, FilesType, ClaimInv, RecordOfDevice
<1> USE DEF UnchangedFiles, OnlyDaemon, countVars, markerVars, policyVars
<1>1. CASE LoadConfig(d) \/ TakeGuard(d) \/ CheckAgain(d) \/ StartMonitor(d)
  <2>1. Onward /\ destroy' = destroy
      BY <1>0, <1>1 DEF Onward, LoadConfig, TakeGuard, CheckAgain, StartMonitor
  <2> QED  BY <1>0, <2>1, ClaimStands
<1>2. CASE StartNetwork(d)
  <2>1. Onward /\ destroy' = destroy
      BY <1>0, <1>2 DEF Onward, StartNetwork
  <2> QED  BY <1>0, <2>1, ClaimStands
<1>3. CASE RetainIdentity(d) \/ Stops(d) \/ ReleaseGuard(d) \/ DaemonDies(d)
  <2>1. Onward /\ destroy' = destroy
      BY <1>0, <1>3 DEF Onward, RetainIdentity, Stops, ReleaseGuard, DaemonDies
  <2> QED  BY <1>0, <2>1, ClaimStands
<1> QED  BY <1>1, <1>2, <1>3 DEF DaemonStep

LEMMA ClaimStep == HostInv /\ HostInv' /\ ClaimInv /\ [HostNext]_<<hostVars, policyVars, raced>> => ClaimInv'
<1> SUFFICES ASSUME HostInv, HostInv', ClaimInv, [HostNext]_<<hostVars, policyVars, raced>>
             PROVE  ClaimInv'
    OBVIOUS
<1>0. fresh \in Nat /\ tsnet <= fresh /\ identity <= fresh
    BY DEF HostInv, FilesType, ClaimInv, RecordOfDevice
<1>1. ASSUME NEW p \in Cli, CliStep(p) PROVE ClaimInv'
    BY <1>1, CliClaims
<1>2. ASSUME NEW d \in Daemon, DaemonStep(d) PROVE ClaimInv'
    BY <1>2, DaemonClaims
<1>3. CASE ClearLock
  <2>1. Onward /\ destroy' = destroy /\ cli' = cli
      BY <1>0, <1>3 DEF Onward, ClearLock, markerVars, countVars, policyVars
  <2> QED  BY <2>1, ClaimStands
<1>4. ASSUME NEW p \in Cli, PolicyStep(p), UNCHANGED hostVars PROVE ClaimInv'
  <2>1. Onward /\ destroy' = destroy /\ cli' = cli
      BY <1>0, <1>4, PolicyLeaves DEF Onward, hostVars
  <2> QED  BY <2>1, ClaimStands
<1>5. CASE TailnetStep /\ UNCHANGED hostVars
  <2>1. enrolled' \subseteq enrolled \cup {0}
    <3>1. ASSUME NEW e \in Entries, OutsideEdit(e) PROVE enrolled' \subseteq enrolled \cup {0}
        BY <3>1 DEF OutsideEdit
    <3>2. CASE OtherDevice
        BY <3>2 DEF OtherDevice
    <3>3. ASSUME NEW r \in late, LateEffect(r) PROVE enrolled' \subseteq enrolled \cup {0}
        BY <3>3 DEF LateEffect
    <3> QED  BY <1>5, <3>1, <3>2, <3>3 DEF TailnetStep
  <2>2. Onward /\ destroy' = destroy /\ cli' = cli
      BY <1>0, <1>5, <2>1 DEF Onward, hostVars
  <2> QED  BY <2>2, ClaimStands
<1>6. CASE UNCHANGED <<hostVars, policyVars, raced>>
  <2>1. Onward /\ destroy' = destroy /\ cli' = cli
      BY <1>0, <1>6 DEF Onward, hostVars, policyVars, tailnetVars
  <2> QED  BY <2>1, ClaimStands
<1> QED  BY <1>1, <1>2, <1>3, <1>4, <1>5, <1>6 DEF HostNext, HostActions

-----------------------------------------------------------------------------
(***************************************************************************)
(* Both together: the history remembers the races, and until then the      *)
(* destruction is in order (TeardownInv).                                  *)
(***************************************************************************)
RaceInv == (Overlap \/ Unseen => raced) /\ (~raced => TeardownInv)

LEMMA RaceStarts == HostInit /\ PolicyInit => RaceInv
<1> SUFFICES ASSUME HostInit, PolicyInit PROVE RaceInv
    OBVIOUS
<1>1. TeardownInv
    BY TeardownStarts
<1>2. ~Overlap /\ ~Unseen
    BY DEF HostInit, Overlap, Unseen, AtWork, Destroying, NoCli, Active, Off
<1> QED  BY <1>1, <1>2 DEF RaceInv

LEMMA RaceStep == HostInv /\ HostInv' /\ RaceInv /\ [HostNext]_<<hostVars, policyVars, raced>> => RaceInv'
<1> SUFFICES ASSUME HostInv, HostInv', RaceInv, [HostNext]_<<hostVars, policyVars, raced>>
             PROVE  RaceInv'
    OBVIOUS
<1>1. raced => raced'
    BY DEF HostNext
<1>2. CASE HostNext
  <2>1. (Overlap \/ Unseen)' => raced'
      BY <1>2 DEF HostNext
  <2>2. ASSUME ~raced' PROVE TeardownInv'
      BY <1>1, <2>2, TeardownStep DEF RaceInv
  <2> QED  BY <2>1, <2>2 DEF RaceInv
<1>3. CASE UNCHANGED <<hostVars, policyVars, raced>>
  <2>1. cli' = cli /\ daemon' = daemon /\ roleFile' = roleFile /\ raced' = raced
      BY <1>3 DEF hostVars
  <2>2. (Overlap' <=> Overlap) /\ (Unseen' <=> Unseen)
      BY <2>1 DEF Overlap, Unseen, AtWork, Destroying, Active
  <2>3. ASSUME ~raced PROVE TeardownInv'
      BY <2>3, TeardownStep DEF RaceInv
  <2> QED  BY <2>1, <2>2, <2>3 DEF RaceInv
<1> QED  BY <1>2, <1>3

(***************************************************************************)
(* A record that says the device is removed is true, whatever races; and   *)
(* until one of the two races happens, a coordinator's device stays named  *)
(* by something cleanup can resume from as long as it is enrolled, and no  *)
(* daemon runs without a configuration or after its device is recorded as  *)
(* removed (teardown.go:329, runtime.go:117), with deletions lost or late  *)
(* and every process dying at any step, for any number of commands and     *)
(* daemons.  After the first race it does fail: the run host_destroy.      *)
(***************************************************************************)
THEOREM DestroySafeAlways == HostSpec => []DestroySafe
<1>1. ClaimInv /\ RaceInv => DestroySafe
    BY DEF ClaimInv, RecordOfDevice, RaceInv, TeardownInv, HostOk, DeviceOk, RunningOk, DestroySafe,
           Recoverable
<1> QED  BY <1>1, HostInvariant, HostInitial, ClaimStarts, ClaimStep, RaceStarts, RaceStep, PTL DEF HostSpec
=============================================================================
