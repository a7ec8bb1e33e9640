--------------------------- MODULE StoreOperations ---------------------------
(***************************************************************************)
(* The SQLite store under the coordinator and the node journal: who opens  *)
(* it and with which identity, how its schema is made and migrated, and    *)
(* how an operation passes the gate, its transaction and the one retry of  *)
(* persistCoordinator when its context may be cancelled at any moment.     *)
(* A statement, a commit and a rollback may fail; a commit may take effect *)
(* and still report an error; the process may die between any two steps.   *)
(***************************************************************************)
EXTENDS Naturals, FiniteSets

CONSTANTS Proc,         \* processes started on the same state directory
          Callers,      \* goroutines that use the store
          Stable,       \* Tailscale stable IDs
          Instance,     \* mesh instance IDs
          MaxNodes,     \* maxNodes
          MaxCalls, MaxStarts,      \* bounds on calls and on starts
          Nil

Tables == {"metadata", "bindings", "latest_nodes", "commands", "projects", "lifecycle_commands",
           "node_metadata", "node_commands", "node_projects", "lifecycle_node_commands",
           "node_lifecycle", "node_command_scopes"}
Databases == [version : Nat, tables : SUBSET Tables, server : Nat,
              bindings : SUBSET (Stable \X Instance), nodes : SUBSET (Stable \X Instance)]

ASSUME StoreAssumption ==
    /\ 0 \notin Proc /\ MaxNodes \in Nat \ {0}
    /\ Nil \notin Callers /\ Nil \notin Databases

VARIABLES kind,         \* which database this is
          db,           \* the durable database, or Nil: no such file
          idFile,       \* the published instance-id, or 0
          legacy,       \* bindings of the old JSON file
          owner,        \* the process that holds the ownership lock, or 0
          proc,         \* what each process is doing
          gate,         \* the caller that owns the connection, or Nil
          call,         \* what each caller is doing
          bound,        \* history: bindings that were ever durable
          started, called

storeVars == <<kind, db, idFile, legacy, owner, proc, gate, call, bound, started, called>>

Blank == [version |-> 0, tables |-> {}, server |-> 0, bindings |-> {}, nodes |-> {}]
Off_ == [pc |-> "off", id |-> 0, created |-> FALSE]
NoCall == [pc |-> "idle", op |-> Nil, proc |-> 0, attempt |-> 0,
           expired |-> FALSE, tx |-> Nil, attempted |-> FALSE, err |-> "none",
           result |-> "none", commits |-> 0]

-----------------------------------------------------------------------------
(***************************************************************************)
(* The schema.  Required is what inspectSchema wants of a version;         *)
(* Migrations are the steps of initializeSchema, each taken by a database  *)
(* of a version below its own.                                             *)
(***************************************************************************)
MaxVersion == [coordinator |-> 7, node |-> 6]

Required(k, v) ==
    IF k = "coordinator"
    THEN {"metadata", "bindings", "latest_nodes"}
           \cup (IF v >= 7 THEN {"lifecycle_commands"} ELSE IF v >= 2 THEN {"commands"} ELSE {})
           \cup (IF v >= 6 THEN {"projects"} ELSE {})
    ELSE {"node_metadata", IF v >= 6 THEN "lifecycle_node_commands" ELSE "node_commands"}
           \cup (IF v >= 5 THEN {"node_projects"} ELSE {})
           \cup (IF v >= 6 THEN {"node_lifecycle", "node_command_scopes"} ELSE {})

Step(v, adds, drops) == [version |-> v, adds |-> adds, drops |-> drops]
Migrations(k) ==
    IF k = "coordinator"
    THEN { Step(1, {"metadata", "bindings", "latest_nodes"}, {}), Step(2, {"commands"}, {}),
           Step(3, {}, {}), Step(4, {}, {}), Step(5, {}, {}), Step(6, {"projects"}, {}),
           Step(7, {"lifecycle_commands"}, {"commands"}) }
    ELSE { Step(1, {"node_metadata", "node_commands"}, {}), Step(2, {}, {}), Step(3, {}, {}),
           Step(4, {}, {}), Step(5, {"node_projects"}, {}),
           Step(6, {"lifecycle_node_commands", "node_lifecycle", "node_command_scopes"},
                   {"node_commands"}) }

(* The steps run in the order of their versions, in one transaction: a     *)
(* table that a step drops is there at the end if one adds it from then on.*)
initializeSchema(k, d, id) ==
    LET Due == {s \in Migrations(k) : d.version < s.version}
        Dropped == {t \in UNION {s.drops : s \in Due} :
                      \E s \in Due : t \in s.drops /\ \A u \in Due : t \in u.adds => u.version < s.version}
    IN  [d EXCEPT !.version = MaxVersion[k],
                  !.tables = (@ \cup UNION {s.adds : s \in Due}) \ Dropped,
                  !.server = IF d.version = 0 THEN id ELSE @]

inspectSchema(k, d, id, created) ==
    IF d.version = 0 THEN created
    ELSE d.version <= MaxVersion[k] /\ Required(k, d.version) \subseteq d.tables /\ d.server = id

(* A database some release of the program has left behind. *)
OldDatabase(k, v, bs, ns) ==
    [version |-> v, tables |-> Required(k, v), server |-> 1, bindings |-> bs, nodes |-> ns]

-----------------------------------------------------------------------------
(* What a binding contradicts; bind, SaveNode, DeleteNodes and readFleet   *)
(* as what they make of the database, Nil for a refusal.                   *)
Conflicts(bs, s, i) == \E b \in bs : (b[1] = s /\ b[2] # i) \/ (b[2] = i /\ b[1] # s)

OneToOne(bs) == \A b \in bs : ~Conflicts(bs, b[1], b[2])

ImportInto(d, new) ==
    IF OneToOne(d.bindings \cup new) THEN [d EXCEPT !.bindings = @ \cup new] ELSE Nil

SaveInto(d, s, i) ==
    IF \/ <<s, i>> \notin d.bindings
       \/ Cardinality(d.nodes) > MaxNodes
       \/ Cardinality(d.nodes) = MaxNodes /\ i \notin {n[2] : n \in d.nodes}
    THEN Nil ELSE [d EXCEPT !.nodes = {n \in @ : n[2] # i} \cup {<<s, i>>}]

ReadFleet(d) ==
    IF Cardinality(d.nodes) > MaxNodes \/ ~(d.nodes \subseteq d.bindings) THEN Nil ELSE d

StoreOps == [do : {"bind", "save"}, s : Stable, i : Instance]
         \cup [do : {"delete"}, i : Instance] \cup [do : {"load"}]

Body(d, op) ==
    CASE op.do = "bind"   -> ImportInto(d, {<<op.s, op.i>>})
      [] op.do = "save"   -> SaveInto(d, op.s, op.i)
      [] op.do = "delete" -> [d EXCEPT !.nodes = {n \in @ : n[2] # op.i}]
      [] op.do = "load"   -> ReadFleet(d)

-----------------------------------------------------------------------------
StoreInit ==
    /\ kind \in {"coordinator", "node"}
    /\ \/ db = Nil /\ idFile \in {0, 1}
       \/ /\ idFile = 1
          /\ \E v \in 1..MaxVersion[kind], s \in Stable, i \in Instance :
               db \in {OldDatabase(kind, v, {}, {}), OldDatabase(kind, v, {<<s, i>>}, {<<s, i>>})}
          /\ kind = "node" => db.bindings = {}
    /\ legacy \in {{}} \cup {{<<s, i>>} : s \in Stable, i \in Instance}
    /\ owner = 0 /\ proc = [p \in Proc |-> Off_]
    /\ gate = Nil /\ call = [c \in Callers |-> NoCall]
    /\ bound = IF db = Nil THEN {} ELSE db.bindings
    /\ started = 0 /\ called = 0

(* A transaction of d becomes durable. *)
Durable(d) == db' = d /\ bound' = bound \cup d.bindings

Goes(p, pc) == proc' = [proc EXCEPT ![p].pc = pc]
OfProc(p) == {c \in Callers : call[c].proc = p}

-----------------------------------------------------------------------------
(***************************************************************************)
(* LoadOrCreate: a link publishes the first identity, and a process that   *)
(* comes second takes what it finds.                                       *)
(***************************************************************************)
StartProc(p) ==
    /\ proc[p] = Off_ /\ started < MaxStarts /\ started' = started + 1
    /\ proc' = [proc EXCEPT ![p] = [Off_ EXCEPT !.pc = IF idFile # 0 THEN "lock" ELSE "link",
                                                !.id = idFile]]
    /\ UNCHANGED <<kind, db, idFile, legacy, owner, gate, call, bound, called>>

Published(mine) == IF idFile # 0 THEN idFile ELSE mine
PublishIdentity(p) ==
    /\ proc[p].pc = "link"
    /\ LET mine == started + 1
       IN  /\ idFile' = IF idFile # 0 THEN idFile ELSE mine
           /\ proc' = [proc EXCEPT ![p].pc = "lock", ![p].id = Published(mine)]
    /\ started' = started + 1      \* another random identity
    /\ UNCHANGED <<kind, db, legacy, owner, gate, call, bound, called>>

(* openStore: the lock, the file made before SQLite opens it, the schema. *)
TakeLock(p) ==
    /\ proc[p].pc = "lock"
    /\ IF owner # 0 THEN proc' = [proc EXCEPT ![p] = Off_] /\ UNCHANGED owner
       ELSE owner' = p /\ Goes(p, "create")
    /\ UNCHANGED <<kind, db, idFile, legacy, gate, call, bound, started, called>>

Precreate(p) ==
    /\ proc[p].pc = "create"
    /\ db' = IF db = Nil THEN Blank ELSE db
    /\ proc' = [proc EXCEPT ![p].pc = "schema", ![p].created = (db = Nil)]
    /\ UNCHANGED <<kind, idFile, legacy, owner, gate, call, bound, started, called>>

(* Close: SQLite first, then the lock. *)
Closes(p) == owner' = 0 /\ proc' = [proc EXCEPT ![p] = Off_]

OpenSchema(p) ==
    /\ proc[p].pc = "schema"
    /\ \/ /\ ~inspectSchema(kind, db, proc[p].id, proc[p].created)
          /\ Closes(p) /\ UNCHANGED <<db, bound>>
       \/ /\ inspectSchema(kind, db, proc[p].id, proc[p].created)
          /\ \/ Durable(initializeSchema(kind, db, proc[p].id)) /\ UNCHANGED owner
                /\ Goes(p, IF kind = "node" THEN "serve" ELSE "import")
             \/ Durable(initializeSchema(kind, db, proc[p].id)) /\ Closes(p)
             \/ Closes(p) /\ UNCHANGED <<db, bound>>
    /\ UNCHANGED <<kind, idFile, legacy, gate, call, started, called>>

(* openCoordinatorState: the old bindings, all or none, then the fleet. *)
ImportLegacy(p) ==
    /\ proc[p].pc = "import"
    /\ LET d == ImportInto(db, legacy)
       IN  \/ d # Nil /\ Durable(d) /\ Goes(p, "load") /\ UNCHANGED owner
           \/ d # Nil /\ Durable(d) /\ Closes(p)
           \/ Closes(p) /\ UNCHANGED <<db, bound>>
    /\ UNCHANGED <<kind, idFile, legacy, gate, call, started, called>>

LoadFleet(p) ==
    /\ proc[p].pc = "load"
    /\ \/ ReadFleet(db) # Nil /\ Goes(p, "serve") /\ UNCHANGED owner
       \/ Closes(p)
    /\ UNCHANGED <<kind, db, idFile, legacy, gate, call, bound, started, called>>

(* Close waits for the gate; callers still to come find the store closed. *)
CloseStore(p) ==
    /\ proc[p].pc = "serve" /\ gate = Nil
    /\ owner' = 0 /\ Goes(p, "closed")
    /\ UNCHANGED <<kind, db, idFile, legacy, gate, call, bound, started, called>>

Exit(p) ==
    /\ proc[p].pc = "closed" /\ OfProc(p) = {}
    /\ proc' = [proc EXCEPT ![p] = Off_]
    /\ UNCHANGED <<kind, db, idFile, legacy, owner, gate, call, bound, started, called>>

(* The process dies; only what is durable stays. *)
ProcDies(p) ==
    /\ proc[p].pc # "off"
    /\ proc' = [proc EXCEPT ![p] = Off_]
    /\ owner' = IF owner = p THEN 0 ELSE owner
    /\ gate' = IF gate \in OfProc(p) THEN Nil ELSE gate
    /\ call' = [c \in Callers |-> IF c \in OfProc(p) THEN NoCall ELSE call[c]]
    /\ UNCHANGED <<kind, db, idFile, legacy, bound, started, called>>

-----------------------------------------------------------------------------
(***************************************************************************)
(* One operation.  The fleet's writes go through persistCoordinator, which *)
(* tries twice; other callers report the first error.                      *)
(***************************************************************************)
Tries(op) == IF op.do = "load" THEN 1 ELSE 2
AtCall(c, pc) == call[c].pc = pc
CallGoes(c, pc) == call' = [call EXCEPT ![c].pc = pc]
(* The operation returns to its caller, which has left the gate. *)
Returns(c, result) ==
    call' = [call EXCEPT ![c].pc = "returned", ![c].result = result]
StoreStill == UNCHANGED <<kind, db, idFile, legacy, owner, proc, bound, started, called>>

Call(c, p, op) ==
    /\ AtCall(c, "idle") /\ proc[p].pc = "serve" /\ kind = "coordinator"
    /\ called < MaxCalls /\ called' = called + 1
    /\ call' = [call EXCEPT ![c] = [NoCall EXCEPT !.pc = "enter", !.op = op, !.proc = p,
                                                  !.attempt = 1]]
    /\ UNCHANGED <<kind, db, idFile, legacy, owner, proc, gate, bound, started>>

(* The deadline passes or the caller's own context ends. *)
Expire(c) ==
    /\ call[c].pc \in {"enter", "begin", "body", "check", "commit"}
    /\ ~call[c].expired
    /\ call' = [call EXCEPT ![c].expired = TRUE]
    /\ UNCHANGED gate /\ StoreStill

(* enter: whoever waits may still give up. *)
Enter(c) ==
    /\ AtCall(c, "enter")
    /\ \/ call[c].expired /\ Returns(c, "canceled") /\ UNCHANGED gate
       \/ /\ gate = Nil /\ ~call[c].expired
          /\ IF proc[call[c].proc].pc = "serve"
             THEN gate' = c /\ CallGoes(c, "begin")
             ELSE Returns(c, "failed") /\ UNCHANGED gate
    /\ StoreStill

Leaves(c, result) == gate' = Nil /\ Returns(c, result)

(* BeginTx without the caller's cancellation. *)
BeginTx(c) ==
    /\ AtCall(c, "begin")
    /\ \/ call[c].expired /\ Leaves(c, "canceled")
       \/ ~call[c].expired /\ Leaves(c, "failed")       \* not valid, or no transaction
       \/ ~call[c].expired /\ CallGoes(c, "body") /\ UNCHANGED gate
    /\ StoreStill

(* The body ends: done, refused, interrupted, or with a storage error,     *)
(* which an interruption may come together with.                           *)
Ended(c, err) == call' = [call EXCEPT ![c].pc = "rollback", ![c].err = err]
RunBody(c) ==
    /\ AtCall(c, "body")
    /\ LET d == Body(db, call[c].op)
       IN  \/ d # Nil /\ call' = [call EXCEPT ![c].pc = "check", ![c].tx = d]
           \/ d = Nil /\ Ended(c, "refused")
           \/ call[c].expired /\ Ended(c, "canceled")
           \/ Ended(c, "failed")
    /\ UNCHANGED gate /\ StoreStill

CheckContext(c) ==
    /\ AtCall(c, "check")
    /\ IF call[c].expired THEN Ended(c, "canceled") ELSE CallGoes(c, "commit")
    /\ UNCHANGED gate /\ StoreStill

(* Commit: durable or not, and reported so or not.  An error after the     *)
(* deadline may look like an interruption.                                 *)
Commit(c) ==
    /\ AtCall(c, "commit")
    /\ \E durable \in BOOLEAN :
       \E err \in {"none", "failed"} \cup (IF call[c].expired THEN {"canceled"} ELSE {}) :
         /\ err = "none" => durable
         /\ IF durable THEN Durable(call[c].tx) ELSE UNCHANGED <<db, bound>>
         /\ call' = [call EXCEPT ![c].pc = "rollback", ![c].err = err, ![c].attempted = TRUE,
                                 ![c].commits = IF durable THEN @ + 1 ELSE @]
    /\ UNCHANGED <<kind, idFile, legacy, owner, proc, gate, started, called>>

(* Mutant of Certified: an interrupted commit may be tried again. *)
Interrupted(attempted, rolledBack, err) == err = "canceled"

(* The deferred rollback, and what the error may be taken for.  After a    *)
(* commit the rollback reports that the transaction is done.               *)
Certified(attempted, rolledBack, err) == rolledBack /\ ~attempted /\ err = "canceled"

Rollback(c) ==
    /\ AtCall(c, "rollback")
    /\ \E rolledBack \in BOOLEAN :
         Leaves(c, IF call[c].err = "none" THEN "ok"
                   ELSE IF Certified(call[c].attempted, rolledBack, call[c].err) THEN "canceled"
                   ELSE "failed")
    /\ StoreStill

(* persistCoordinator: once more, with a new context, after a certified    *)
(* cancellation.                                                           *)
MayRetry(c) == call[c].result = "canceled" /\ call[c].attempt < Tries(call[c].op)
Again(a) == [a EXCEPT !.pc = "enter", !.attempt = @ + 1, !.expired = FALSE, !.tx = Nil,
                      !.attempted = FALSE, !.err = "none", !.result = "none"]
Retry(c) ==
    /\ AtCall(c, "returned") /\ MayRetry(c)
    /\ call' = [call EXCEPT ![c] = Again(call[c])]
    /\ UNCHANGED gate /\ StoreStill

Finish(c) ==
    /\ AtCall(c, "returned") /\ ~MayRetry(c)
    /\ call' = [call EXCEPT ![c] = NoCall]
    /\ UNCHANGED gate /\ StoreStill

ProcStep(p) ==
    \/ StartProc(p) \/ PublishIdentity(p) \/ TakeLock(p) \/ Precreate(p) \/ OpenSchema(p)
    \/ ImportLegacy(p) \/ LoadFleet(p) \/ CloseStore(p) \/ Exit(p) \/ ProcDies(p)

CallStep(c) ==
    \/ \E p \in Proc, op \in StoreOps : Call(c, p, op)
    \/ Expire(c) \/ Enter(c) \/ BeginTx(c) \/ RunBody(c) \/ CheckContext(c)
    \/ Commit(c) \/ Rollback(c) \/ Retry(c) \/ Finish(c)

StoreNext ==
    \/ \E p \in Proc : ProcStep(p)
    \/ \E c \in Callers : CallStep(c)

StoreSpec == StoreInit /\ [][StoreNext]_storeVars

-----------------------------------------------------------------------------
(***************************************************************************)
(* The store does what its answers say.  An operation takes effect at most *)
(* once over both attempts, exactly once when it reports success, and not  *)
(* at all when it reports a certified cancellation, which is what makes    *)
(* the retry sound (store.go:54, persistence_retry.go:11).                 *)
(*                                                                         *)
(* From the commit of its first schema on, whatever is interrupted, the    *)
(* database is one that openStore and LoadFleet accept: its schema is that *)
(* of its version and its identity the published one (identity.go:60),     *)
(* and every stored node has its binding within the limit; bindings are    *)
(* one to one and permanent.  Before that commit it is not: a process that *)
(* dies or fails between making the file and committing the schema leaves  *)
(* an empty database, which every later opening refuses                    *)
(* (store.go:137, schema.go:102) until somebody removes the file.  Then    *)
(* nothing is lost with it: it holds nothing, nothing was ever bound, and  *)
(* no process works on it.                                                 *)
(***************************************************************************)
Openable == db # Nil /\ inspectSchema(kind, db, idFile, FALSE) /\ ReadFleet(db) # Nil
PastSchema == {"import", "load", "serve", "closed"}

StoreHonest ==
    /\ \A c \in Callers :
         /\ call[c].commits <= 1
         /\ call[c].result = "ok" => call[c].commits = 1
         /\ call[c].result = "canceled" => call[c].commits = 0
    /\ db # Nil =>
         \/ /\ db = Blank /\ bound = {}
            /\ \A p \in Proc : proc[p].pc \notin PastSchema
         \/ /\ Openable /\ db.tables = Required(kind, db.version)
            /\ OneToOne(db.bindings) /\ bound = db.bindings

=============================================================================
