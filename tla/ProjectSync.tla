---------------------------- MODULE ProjectSync -----------------------------
(***************************************************************************)
(* How a project registered at the coordinator becomes a binding at one    *)
(* node, and how mutations are held to the binding they were admitted for: *)
(* the coordinator's project records (state/projects.go), their delivery   *)
(* over the node's stream (server/projects.go, server/server.go), the      *)
(* node's project cache (state/node_projects.go) and its application       *)
(* (node/projects.go).                                                     *)
(*                                                                         *)
(* Both journals are durable; everything else is lost with the session or  *)
(* the process.  A coordinator that crashes loses only its streams here,   *)
(* so EndSession stands for its crash as well.  A stream is ordered.       *)
(*                                                                         *)
(* A mutation is followed only as far as its binding: CommandDelivery has  *)
(* the rest of its life.  The record of the acknowledgement it was         *)
(* admitted under travels with it for the properties' sake; the code sends *)
(* the generation.                                                         *)
(***************************************************************************)
EXTENDS ManagedProjects, Sequences, FiniteSets

CONSTANTS
    Config,         \* the registrations operators make for each project
    Legacy,         \* each project's binding in the node's policy file, or None
    Order,          \* the projects in the order of their ids
    Targets,        \* the directories each link may be pointed at
    Removable,      \* the checkouts that may become unavailable
    MaxGeneration,  \* bound on generations; the code's is 2^64 - 1
    MaxStreams,     \* bound on the streams a node opens
    MaxMutations    \* bound on the mutations that are submitted

ASSUME ConfigAssumption ==
    /\ None \notin Configs
    /\ Config \in [Project -> SUBSET Configs]
    /\ Legacy \in [Project -> Configs \cup {None}]
    /\ \A p \in Project : Legacy[p] # None => Legacy[p].path \in Dir
    /\ Order \in Seq(Project)
    /\ \A p \in Project : \E i \in 1..Len(Order) : Order[i] = p
    /\ Len(Order) = Cardinality(Project)
    /\ Targets \in [Path -> SUBSET Dir]
    /\ Removable \subseteq Dir
    /\ MaxGeneration \in Nat /\ MaxStreams \in Nat /\ MaxMutations \in Nat

VARIABLES
    desired,         \* coordinator, durable: generation and registration
    lastAck,         \* coordinator, durable: the record's Applied
    adoption,        \* coordinator, durable: the record's AdoptionStatus
    cur,             \* stream of the current fleet entry, or 0
    projectWake,     \* entry: the wake channel holds a token
    projectSent,     \* entry: generation sent last
    projectApplied,  \* entry: acknowledgement of this stream
    outbound,        \* entry: mutations admitted and not yet dispatched
    hello,           \* streams whose Hello waits at the coordinator
    toNode,          \* messages in flight on the node's stream
    toServer,        \* messages in flight on the coordinator's stream
    phase, sess, opened,
    config,          \* node, durable: last seen generation and registration
    ack,             \* node, durable: latest outcome
    appliedAck,      \* node, durable: latest successful outcome
    projectCurrent,  \* node: outcome of this session
    bindings,        \* node: the managed cache of this session
    projectLegacy,   \* node: legacy bindings this session may still adopt
    applying,        \* node: the configuration applyProject works on
    work,            \* node: mutations that wait for a worker
    held,            \* node: a mutation and the binding its worker resolved
    submitted,       \* number of mutations submitted
    fs,              \* the node's filesystem
    fault            \* why a session was ended for good

recordVars == <<desired, lastAck, adoption>>
entryVars == <<cur, projectWake, projectSent, projectApplied, outbound>>
netVars == <<hello, toNode, toServer>>
sessionVars == <<phase, sess, opened>>
cacheVars == <<config, ack, appliedAck>>
handlerVars == <<projectCurrent, bindings, projectLegacy, applying, work, held>>
vars == <<recordVars, entryVars, netVars, sessionVars, cacheVars, handlerVars,
          submitted, fs, fault>>

Desired == [gen : Nat, cfg : Configs \cup {None}]
NoDesired == [gen |-> 0, cfg |-> None]

\* status is "applied" or the error code of an invalid outcome.
Acks ==
    [gen : Nat, status : {"none", "applied", "invalid_path", "configuration_conflict"},
     dir : Dir \cup {None}, root : Root \cup {None}]
NoAck == [gen |-> 0, status |-> "none", dir |-> None, root |-> None]

Mutations == [type : {"mutation"}, project : Project, gen : Nat, ack : Acks]
NoMutation == [type |-> "none"]

Idle == [step |-> "idle"]

TypeOK ==
    /\ desired \in [Project -> Desired]
    /\ lastAck \in [Project -> Acks]
    /\ adoption \in [Project -> {"none", "adopted", "conflict"}]
    /\ cur \in 0..MaxStreams
    /\ projectWake \in BOOLEAN
    /\ projectSent \in [Project -> Nat]
    /\ projectApplied \in [Project -> Acks]
    /\ outbound \subseteq Mutations
    /\ hello \subseteq 1..MaxStreams
    /\ \A i \in DOMAIN toNode : toNode[i].type \in {"welcome", "config", "mutation"}
    /\ \A i \in DOMAIN toServer : toServer[i].type \in {"ack", "offer"}
    /\ phase \in {"down", "idle", "greeting", "open", "closing"}
    /\ sess \in 0..MaxStreams
    /\ opened \in 0..MaxStreams
    /\ config \in [Project -> Desired]
    /\ ack \in [Project -> Acks]
    /\ appliedAck \in [Project -> Acks]
    /\ projectCurrent \in [Project -> Acks]
    /\ bindings \in [Project -> Bindings]
    /\ projectLegacy \subseteq Project
    /\ applying.step \in {"idle", "saved", "bound"}
    /\ work \subseteq Mutations
    /\ held = NoMutation \/ (held.mutation \in Mutations /\ held.binding \in Bindings)
    /\ submitted \in 0..MaxMutations
    /\ fs \in [target : [Path -> Dir \cup {None}], online : SUBSET Dir,
               roots : [Root -> {"missing", "empty", "used"}]]
    /\ fault \in {"none", "protocol", "identity"}

NoAcks == [p \in Project |-> NoAck]

\* Every checkout is there; legacy roots hold worktrees, the others are new.
Init ==
    /\ desired = [p \in Project |-> NoDesired]
    /\ lastAck = NoAcks
    /\ adoption = [p \in Project |-> "none"]
    /\ cur = 0
    /\ projectWake = FALSE
    /\ projectSent = [p \in Project |-> 0]
    /\ projectApplied = NoAcks
    /\ outbound = {}
    /\ hello = {}
    /\ toNode = <<>>
    /\ toServer = <<>>
    /\ phase = "down"
    /\ sess = 0
    /\ opened = 0
    /\ config = [p \in Project |-> NoDesired]
    /\ ack = NoAcks
    /\ appliedAck = NoAcks
    /\ projectCurrent = NoAcks
    /\ bindings = [p \in Project |-> NoBinding]
    /\ projectLegacy = {}
    /\ applying = Idle
    /\ work = {}
    /\ held = NoMutation
    /\ submitted = 0
    /\ fs \in [target : {t \in [Path -> Dir] : \A l \in Path : t[l] \in Targets[l]},
               online : {Dir},
               roots : {[r \in Root |->
                          IF \E p \in Project : Legacy[p] # None /\ Legacy[p].root = r
                          THEN "used" ELSE "missing"]}]
    /\ fault = "none"

-----------------------------------------------------------------------------
(***************************************************************************)
(* The coordinator.                                                        *)
(***************************************************************************)

\* What is sent on the current stream arrives only while the node listens.
Linked == cur # 0 /\ cur = sess

\* Mutant: a registration is changed in place until it is acknowledged.
RegisterProjectInPlace(p, cfg) ==
    /\ desired[p].cfg # cfg
    /\ desired[p].gen < MaxGeneration
    /\ desired' = [desired EXCEPT ![p] =
                     [gen |-> IF @.gen > lastAck[p].gen THEN @.gen ELSE @.gen + 1,
                      cfg |-> cfg]]
    /\ projectWake' = (projectWake \/ cur # 0)
    /\ UNCHANGED <<lastAck, adoption, cur, projectSent, projectApplied, outbound,
                   netVars, sessionVars, cacheVars, handlerVars, submitted, fs,
                   fault>>

\* Changed paths advance the generation, equal ones change nothing.
UpsertProject(p, cfg) ==
    /\ desired[p].cfg # cfg
    /\ desired' = [desired EXCEPT ![p] = [gen |-> @.gen + 1, cfg |-> cfg]]

RegisterProject(p, cfg) ==
    /\ desired[p].gen < MaxGeneration
    /\ UpsertProject(p, cfg)
    /\ projectWake' = (projectWake \/ cur # 0)
    /\ UNCHANGED <<lastAck, adoption, cur, projectSent, projectApplied, outbound,
                   netVars, sessionVars, cacheVars, handlerVars, submitted, fs,
                   fault>>

\* Mutant: an acknowledged project is not looked at again.
NewsOnce(p) == desired[p].gen > 0 /\ projectSent[p] = 0

\* A generation that was not sent on this stream.
News(p) == desired[p].gen > 0 /\ projectSent[p] # desired[p].gen

ProjectConfig(p) ==
    [type |-> "config", project |-> p, gen |-> desired[p].gen, cfg |-> desired[p].cfg]

\* The news of the first n projects.
Updates[n \in 0..Len(Order)] ==
    IF n = 0 THEN <<>>
    ELSE IF News(Order[n]) THEN Append(Updates[n - 1], ProjectConfig(Order[n]))
    ELSE Updates[n - 1]

(***************************************************************************)
(* The stream's sender takes the wake token and sends the generations it   *)
(* has not sent on this stream.                                            *)
(***************************************************************************)
projectUpdates ==
    /\ cur # 0
    /\ projectWake
    /\ projectWake' = FALSE
    /\ projectSent' = [p \in Project |->
                        IF News(p) THEN desired[p].gen ELSE projectSent[p]]
    /\ toNode' = IF Linked THEN toNode \o Updates[Len(Order)] ELSE toNode
    /\ UNCHANGED <<recordVars, cur, projectApplied, outbound, hello, toServer,
                   sessionVars, cacheVars, handlerVars, submitted, fs, fault>>

\* Mutant: every changed outcome of a generation is a conflict.
projectAckChanged(previous, next) == previous.gen = next.gen /\ previous # next

\* A success of one generation may not be replaced by another success of it.
projectAckConflict(previous, next) ==
    /\ previous.gen = next.gen
    /\ previous.status = "applied"
    /\ next.status = "applied"
    /\ previous # next

\* A fleet entry starts with nothing sent and nothing acknowledged.
Entry(s) ==
    /\ cur' = s
    /\ projectWake' = (s # 0)
    /\ projectSent' = [p \in Project |-> 0]
    /\ projectApplied' = NoAcks
    /\ outbound' = {}
    /\ toServer' = <<>>

\* Why acknowledgeProject refuses an acknowledgement.
Unsolicited(p, a) == a.gen > projectSent[p]

Conflicting(p, a) ==
    /\ a.gen = projectSent[p]
    /\ projectApplied[p].gen = a.gen
    /\ projectApplied[p] # a

Changed(p, a) ==
    /\ a.gen = projectSent[p]
    /\ a.gen = desired[p].gen
    /\ projectAckConflict(lastAck[p], a)

(***************************************************************************)
(* acknowledgeProject and AckProject.  An outcome of a generation that is  *)
(* no longer the one sent, or no longer desired, is dropped.               *)
(***************************************************************************)
acknowledgeProject ==
    LET p == Head(toServer).project
        a == Head(toServer).ack
        taken == a.gen = projectSent[p] /\ a.gen = desired[p].gen
    IN  /\ cur # 0
        /\ toServer # <<>>
        /\ Head(toServer).type = "ack"
        /\ ~(Unsolicited(p, a) \/ Conflicting(p, a) \/ Changed(p, a))
        /\ toServer' = Tail(toServer)
        /\ lastAck' = IF taken THEN [lastAck EXCEPT ![p] = a] ELSE lastAck
        /\ projectApplied' = IF taken THEN [projectApplied EXCEPT ![p] = a]
                                      ELSE projectApplied
        /\ UNCHANGED <<desired, adoption, cur, projectWake, projectSent, outbound,
                       hello, toNode, sessionVars, cacheVars, handlerVars, submitted,
                       fs, fault>>

\* The stream ends with an error that the node takes for permanent.
refuseAcknowledgement ==
    LET p == Head(toServer).project
        a == Head(toServer).ack
    IN  /\ cur # 0
        /\ toServer # <<>>
        /\ Head(toServer).type = "ack"
        /\ Unsolicited(p, a) \/ Conflicting(p, a) \/ Changed(p, a)
        /\ fault' = IF Unsolicited(p, a) \/ Conflicting(p, a)
                    THEN "protocol" ELSE "identity"
        /\ Entry(0)
        /\ UNCHANGED <<recordVars, hello, toNode, sessionVars, cacheVars, handlerVars,
                       submitted, fs>>

(***************************************************************************)
(* AdoptProjects: the first offer decides whether the node's own binding   *)
(* was adopted; it becomes the registration only where there is none.      *)
(***************************************************************************)
AdoptProjects(offered) ==
    /\ desired' = [p \in Project |->
                    IF p \in offered /\ desired[p].gen = 0
                    THEN [gen |-> 1, cfg |-> Legacy[p]] ELSE desired[p]]
    /\ adoption' = [p \in Project |->
                     IF p \notin offered \/ adoption[p] # "none" THEN adoption[p]
                     ELSE IF desired[p].gen = 0 \/ desired[p].cfg = Legacy[p]
                          THEN "adopted" ELSE "conflict"]

adoptProjects ==
    /\ cur # 0
    /\ toServer # <<>>
    /\ Head(toServer).type = "offer"
    /\ toServer' = Tail(toServer)
    /\ AdoptProjects({p \in Project : Legacy[p] # None})
    /\ projectWake' = TRUE
    /\ UNCHANGED <<lastAck, cur, projectSent, projectApplied, outbound, hello,
                   toNode, sessionVars, cacheVars, handlerVars, submitted, fs,
                   fault>>

\* Mutant: the stored acknowledgement counts.
ReadinessStored(p) ==
    IF cur = 0 THEN "offline"
    ELSE IF lastAck[p].gen = desired[p].gen /\ desired[p].gen > 0
         THEN lastAck[p].status
         ELSE "pending"

\* projectViewLocked: the outcome of this stream for the desired generation.
Readiness(p) ==
    IF cur = 0 THEN "offline"
    ELSE IF projectApplied[p].gen = desired[p].gen /\ desired[p].gen > 0
         THEN projectApplied[p].status
         ELSE "pending"

managedProjectReady(p, gen) == Readiness(p) = "applied" /\ desired[p].gen = gen

SubmitMutation(p) ==
    /\ submitted < MaxMutations
    /\ managedProjectReady(p, desired[p].gen)
    /\ submitted' = submitted + 1
    /\ outbound' = outbound \cup
          {[type |-> "mutation", project |-> p, gen |-> desired[p].gen,
            ack |-> projectApplied[p]]}
    /\ UNCHANGED <<recordVars, cur, projectWake, projectSent, projectApplied, netVars,
                   sessionVars, cacheVars, handlerVars, fs, fault>>

\* prepareCommand looks at the generation again.
DispatchMutation(m) ==
    /\ cur # 0
    /\ m \in outbound
    /\ outbound' = outbound \ {m}
    /\ toNode' = IF Linked /\ managedProjectReady(m.project, m.gen)
                 THEN Append(toNode, m) ELSE toNode
    /\ UNCHANGED <<recordVars, cur, projectWake, projectSent, projectApplied, hello,
                   toServer, sessionVars, cacheVars, handlerVars, submitted, fs,
                   fault>>

BeginSession(s) ==
    /\ s \in hello
    /\ hello' = hello \ {s}
    /\ Entry(s)
    /\ toNode' = IF s = sess THEN <<[type |-> "welcome"]>> ELSE toNode
    /\ UNCHANGED <<recordVars, sessionVars, cacheVars, handlerVars, submitted, fs,
                   fault>>

EndSession ==
    /\ cur # 0
    /\ Entry(0)
    /\ UNCHANGED <<recordVars, hello, toNode, sessionVars, cacheVars, handlerVars,
                   submitted, fs, fault>>

-----------------------------------------------------------------------------
(***************************************************************************)
(* The node.                                                               *)
(***************************************************************************)

NodeState == [fs |-> fs, m |-> bindings]

\* A policy file that names a missing checkout keeps the node from starting.
NodeStart ==
    /\ phase = "down"
    /\ \A p \in Project : Legacy[p] # None => Legacy[p].path \in fs.online
    /\ phase' = "idle"
    /\ UNCHANGED <<recordVars, entryVars, netVars, sess, opened, cacheVars,
                   handlerVars, submitted, fs, fault>>

OpenStream ==
    /\ phase = "idle"
    /\ opened < MaxStreams
    /\ opened' = opened + 1
    /\ sess' = opened + 1
    /\ phase' = "greeting"
    /\ hello' = hello \cup {opened + 1}
    /\ UNCHANGED <<recordVars, entryVars, toNode, toServer, cacheVars, handlerVars,
                   submitted, fs, fault>>

\* restoreProjects goes through the applied outcomes in the order of ids.
RestoredUpTo[n \in 0..Len(Order)] ==
    IF n = 0 THEN NodeState
    ELSE IF appliedAck[Order[n]] = NoAck THEN RestoredUpTo[n - 1]
    ELSE RestoreOwnership(RestoredUpTo[n - 1], Order[n], appliedAck[Order[n]])

Restored == RestoredUpTo[Len(Order)]

\* HelloAck: a new managed cache is filled and the legacy bindings offered.
Registered ==
    LET offered == {p \in Project : Legacy[p] # None}
    IN  /\ phase = "greeting"
        /\ toNode # <<>>
        /\ Head(toNode).type = "welcome"
        /\ toNode' = Tail(toNode)
        /\ phase' = "open"
        /\ bindings' = Restored.m
        /\ fs' = Restored.fs
        /\ projectLegacy' = {p \in offered : appliedAck[p] = NoAck}
        /\ toServer' = IF Linked /\ offered # {}
                       THEN Append(toServer, [type |-> "offer"]) ELSE toServer
        /\ UNCHANGED <<recordVars, entryVars, hello, sess, opened, cacheVars,
                       projectCurrent, applying, work, held, submitted, fault>>

\* What a node forgets with its session or its process.
Forget(next) ==
    /\ phase' = next
    /\ sess' = 0
    /\ toNode' = <<>>
    /\ projectCurrent' = NoAcks
    /\ bindings' = [p \in Project |-> NoBinding]
    /\ projectLegacy' = {}
    /\ applying' = Idle
    /\ work' = {}
    /\ held' = NoMutation

(***************************************************************************)
(* applyProject up to SaveProjectConfig, which commits before anything is  *)
(* applied.  An older generation is dropped, one that this session has     *)
(* applied is answered again, and a different registration of the same     *)
(* generation ends the node.                                               *)
(***************************************************************************)
SaveProjectConfig ==
    LET msg == Head(toNode)
        p == msg.project
        same == msg.gen = config[p].gen
        conflict == same /\ msg.cfg # config[p].cfg
        repeated == same /\ ~conflict /\ projectCurrent[p].gen = msg.gen
        save == msg.gen >= config[p].gen /\ ~conflict /\ ~repeated
    IN  /\ phase = "open"
        /\ applying = Idle
        /\ toNode # <<>>
        /\ msg.type = "config"
        /\ toNode' = Tail(toNode)
        /\ fault' = IF conflict THEN "protocol" ELSE fault
        /\ toServer' = IF repeated /\ Linked
                       THEN Append(toServer, [type |-> "ack", project |-> p,
                                              ack |-> projectCurrent[p]])
                       ELSE toServer
        /\ config' = IF save
                     THEN [config EXCEPT ![p] = [gen |-> msg.gen, cfg |-> msg.cfg]]
                     ELSE config
        /\ projectCurrent' = IF save THEN [projectCurrent EXCEPT ![p] = NoAck]
                                     ELSE projectCurrent
        /\ applying' = IF save THEN [step |-> "saved", project |-> p] ELSE applying
        /\ phase' = IF conflict THEN "closing" ELSE phase
        /\ UNCHANGED <<recordVars, entryVars, hello, sess, opened, ack, appliedAck,
                       bindings, projectLegacy, work, held, submitted, fs>>

(***************************************************************************)
(* applyProject's use of the managed cache: ownership is restored if the   *)
(* cache lacks it, a legacy binding that equals the registration is        *)
(* adopted, and the registration is applied.                               *)
(***************************************************************************)
Prepared(p) ==
    LET owner == appliedAck[p]
        first == IF owner # NoAck /\ ~(Bound(bindings[p]) /\ bindings[p].gen = owner.gen)
                 THEN RestoreOwnership(NodeState, p, owner) ELSE NodeState
    IN  IF p \in projectLegacy /\ Legacy[p] = config[p].cfg
        THEN AdoptLegacy(first, p, Legacy[p]) ELSE first

\* The acknowledgement of a binding, or of a refusal with its code.
Outcome(gen, code, b) ==
    [gen |-> gen, status |-> code,
     dir |-> IF code = "applied" THEN b.dir ELSE None,
     root |-> IF code = "applied" THEN b.root ELSE None]

ApplyBinding ==
    LET p == applying.project
        gen == config[p].gen
        cfg == config[p].cfg
        st == Prepared(p)
        codes == Refusals(st.fs, st.m, p, gen, cfg.path, cfg.root, {})
        done == apply(st, p, gen, cfg.path, cfg.root, {})
    IN  /\ applying.step = "saved"
        /\ phase \in {"open", "closing"}
        /\ bindings' = done.m
        /\ fs' = done.fs
        /\ projectLegacy' = IF Legacy[p] = cfg THEN projectLegacy \ {p} ELSE projectLegacy
        /\ \E code \in IF codes = {} THEN {"applied"} ELSE codes :
              applying' = [step |-> "bound", project |-> p,
                           ack |-> Outcome(gen, code, done.m[p])]
        /\ UNCHANGED <<recordVars, entryVars, netVars, sessionVars, cacheVars,
                       projectCurrent, work, held, submitted, fault>>

\* The session is being cancelled, which apply reports as an invalid path; the
\* root may have been created by then.
ApplyCancelled ==
    LET p == applying.project
        cfg == config[p].cfg
    IN  /\ applying.step = "saved"
        /\ phase = "closing"
        /\ fs' \in {fs, apply(Prepared(p), p, config[p].gen, cfg.path, cfg.root, {}).fs}
        /\ applying' = [step |-> "bound", project |-> p,
                        ack |-> Outcome(config[p].gen, "invalid_path", NoBinding)]
        /\ UNCHANGED <<recordVars, entryVars, netVars, sessionVars, cacheVars,
                       projectCurrent, bindings, projectLegacy, work, held, submitted,
                       fault>>

(***************************************************************************)
(* SaveProjectAck, whatever became of the session, and the answer.         *)
(***************************************************************************)
SaveProjectAck ==
    LET p == applying.project
        a == applying.ack
    IN  /\ applying.step = "bound"
        /\ ~projectAckConflict(ack[p], a)
        /\ ack' = [ack EXCEPT ![p] = a]
        /\ appliedAck' = IF a.status = "applied" THEN [appliedAck EXCEPT ![p] = a]
                                                 ELSE appliedAck
        /\ projectCurrent' = [projectCurrent EXCEPT ![p] = a]
        /\ applying' = Idle
        /\ toServer' = IF Linked /\ phase = "open"
                       THEN Append(toServer, [type |-> "ack", project |-> p, ack |-> a])
                       ELSE toServer
        /\ UNCHANGED <<recordVars, entryVars, hello, toNode, sessionVars, config,
                       bindings, projectLegacy, work, held, submitted, fs, fault>>

\* A changed identity is a journal error; the node exits.
RefuseProjectAck ==
    /\ applying.step = "bound"
    /\ projectAckConflict(ack[applying.project], applying.ack)
    /\ fault' = "identity"
    /\ Forget("down")
    /\ UNCHANGED <<recordVars, entryVars, hello, toServer, opened, cacheVars,
                   submitted, fs>>

ReceiveMutation ==
    /\ phase = "open"
    /\ applying = Idle
    /\ toNode # <<>>
    /\ Head(toNode).type = "mutation"
    /\ toNode' = Tail(toNode)
    /\ work' = work \cup {Head(toNode)}
    /\ UNCHANGED <<recordVars, entryVars, hello, toServer, sessionVars, cacheVars,
                   projectCurrent, bindings, projectLegacy, applying, held, submitted,
                   fs, fault>>

\* Mutant: whatever binding the project has will do.
ResolvableNow(m) ==
    projectCurrent[m.project].status = "applied" /\ Bound(bindings[m.project])

\* The session has applied exactly the mutation's generation.
Resolvable(m) ==
    /\ projectCurrent[m.project].status = "applied"
    /\ projectCurrent[m.project].gen = m.gen
    /\ Bound(bindings[m.project])
    /\ bindings[m.project].gen = m.gen

(***************************************************************************)
(* resolveManaged: a worker takes a mutation and the binding of exactly    *)
(* its generation, or rejects it.  applyProject holds the lock meanwhile.  *)
(***************************************************************************)
resolveManaged(m) ==
    /\ phase \in {"open", "closing"}
    /\ m \in work
    /\ applying = Idle
    /\ held = NoMutation
    /\ work' = work \ {m}
    /\ held' = IF Resolvable(m)
               THEN [type |-> "held", mutation |-> m, binding |-> bindings[m.project]]
               ELSE held
    /\ UNCHANGED <<recordVars, entryVars, netVars, sessionVars, cacheVars,
                   projectCurrent, bindings, projectLegacy, applying, submitted,
                   fs, fault>>

\* The binding is checked once more and a worktree appears in its root, unless
\* the deadline, the coordinator or the session says otherwise by then.
UseBinding ==
    /\ held # NoMutation
    /\ held' = NoMutation
    /\ \/ /\ ValidateWorktreeRoot(fs, held.binding)
          /\ fs' = [fs EXCEPT !.roots[held.binding.root] = "used"]
       \/ fs' = fs
    /\ UNCHANGED <<recordVars, entryVars, netVars, sessionVars, cacheVars,
                   projectCurrent, bindings, projectLegacy, applying, work, submitted,
                   fault>>

CloseSession ==
    /\ phase \in {"greeting", "open"}
    /\ phase' = "closing"
    /\ UNCHANGED <<recordVars, entryVars, netVars, sess, opened, cacheVars,
                   handlerVars, submitted, fs, fault>>

SessionClosed ==
    /\ phase = "closing"
    /\ applying = Idle
    /\ held = NoMutation
    /\ Forget("idle")
    /\ UNCHANGED <<recordVars, entryVars, hello, toServer, opened, cacheVars,
                   submitted, fs, fault>>

NodeCrash ==
    /\ phase # "down"
    /\ Forget("down")
    /\ UNCHANGED <<recordVars, entryVars, hello, toServer, opened, cacheVars,
                   submitted, fs, fault>>

-----------------------------------------------------------------------------
(***************************************************************************)
(* The node's disks.                                                       *)
(***************************************************************************)

Filesystem(next) ==
    /\ fs' = next
    /\ UNCHANGED <<recordVars, entryVars, netVars, sessionVars, cacheVars,
                   handlerVars, submitted, fault>>

\* A checkout becomes unavailable, or available again.
Unmount(d) == d \in fs.online /\ Filesystem([fs EXCEPT !.online = @ \ {d}])

Mount(d) == d \notin fs.online /\ Filesystem([fs EXCEPT !.online = @ \cup {d}])

Repoint(l, d) == fs.target[l] # d /\ Filesystem([fs EXCEPT !.target[l] = d])

-----------------------------------------------------------------------------

CoordinatorStep ==
    \/ \E p \in Project :
          \/ \E cfg \in Config[p] : RegisterProject(p, cfg)
          \/ SubmitMutation(p)
    \/ projectUpdates
    \/ acknowledgeProject
    \/ refuseAcknowledgement
    \/ adoptProjects
    \/ \E m \in outbound : DispatchMutation(m)
    \/ \E s \in hello : BeginSession(s)
    \/ EndSession

NodeStep ==
    \/ NodeStart
    \/ OpenStream
    \/ Registered
    \/ SaveProjectConfig
    \/ ApplyBinding
    \/ ApplyCancelled
    \/ SaveProjectAck
    \/ RefuseProjectAck
    \/ ReceiveMutation
    \/ \E m \in work : resolveManaged(m)
    \/ UseBinding
    \/ CloseSession
    \/ SessionClosed
    \/ NodeCrash

FilesystemStep ==
    \/ \E d \in Removable : Unmount(d) \/ Mount(d)
    \/ \E l \in Path : \E d \in Targets[l] : Repoint(l, d)

Next == CoordinatorStep \/ NodeStep \/ FilesystemStep

Spec == Init /\ [][Next]_vars

(***************************************************************************)
(* Fairness: both session loops go on serving what is ready.               *)
(***************************************************************************)
Fairness ==
    /\ WF_vars(projectUpdates)
    /\ WF_vars(acknowledgeProject)
    /\ WF_vars(refuseAcknowledgement)
    /\ WF_vars(adoptProjects)
    /\ WF_vars(SaveProjectConfig)
    /\ WF_vars(ApplyBinding)
    /\ WF_vars(SaveProjectAck)
    /\ WF_vars(RefuseProjectAck)
    /\ WF_vars(ReceiveMutation)

FairSpec == Spec /\ Fairness

-----------------------------------------------------------------------------
(***************************************************************************)
(* Properties.                                                             *)
(***************************************************************************)

\* A project that the coordinator shows as applied is bound at the node, at
\* the desired generation and to the directories that were acknowledged, as
\* long as the node listens on that stream.
ReadyMeansBound ==
    \A p \in Project :
        Linked /\ phase = "open" /\ Readiness(p) = "applied" =>
            /\ projectCurrent[p] = projectApplied[p]
            /\ bindings[p].gen = desired[p].gen
            /\ bindings[p].dir = projectApplied[p].dir
            /\ bindings[p].root = projectApplied[p].root

\* A mutation acts on the binding it was admitted for, or not at all, however
\* registrations, reconnects and the filesystem move in between.
BindingKept ==
    held # NoMutation =>
        /\ held.binding.dir = held.mutation.ack.dir
        /\ held.binding.root = held.mutation.ack.root

\* The two sides never disagree about what a generation is: no configuration
\* or acknowledgement meets a contradiction, which would end the node; and the
\* node's journal never holds an entry that readNodeProjects would refuse.
GenerationsAgree ==
    /\ fault # "protocol"
    /\ \A p \in Project :
          /\ config[p].gen <= desired[p].gen
          /\ config[p].gen = desired[p].gen => config[p] = desired[p]
          /\ lastAck[p].gen <= ack[p].gen
          /\ ack[p].gen <= config[p].gen
          /\ appliedAck[p].gen <= ack[p].gen
          /\ ack[p].status = "applied" => appliedAck[p] = ack[p]

\* Directories that do not move never end a node.
NoFault == fault = "none"

\* No two projects are applied in one checkout or with one worktree root.
RootsApart ==
    \A p, q \in Project :
        /\ p # q
        /\ projectCurrent[p].status = "applied"
        /\ projectCurrent[q].status = "applied"
        => /\ projectCurrent[p].dir # projectCurrent[q].dir
           /\ projectCurrent[p].root # projectCurrent[q].root

\* Another project is bound to one of the directories or to the root, or its
\* own binding has broken, which refuses every application.
InTheWay(p, dirs, root) ==
    \E q \in Project \ {p} :
        /\ Bound(bindings[q])
        /\ \/ ~ValidateWorktreeRoot(fs, bindings[q])
           \/ bindings[q].dir \in dirs
           \/ bindings[q].root = root

\* Ownership survives: a registration that keeps the project's worktree root
\* is refused by a live session only while a checkout is gone or has moved or
\* another project is in the way (in the root, in the new checkout, or in the
\* one the project had), however full the root is and whatever was refused,
\* interrupted or lost since it was first applied.
OwnershipSurvives ==
    [][\A p \in Project :
          LET dir == Leads(fs, config[p].cfg.path)
          IN  /\ phase = "open"
              /\ applying.step = "saved"
              /\ applying.project = p
              /\ applying'.step = "bound"
              /\ dir \in fs.online
              /\ RootFor(config[p].cfg.root, dir) = appliedAck[p].root
              /\ appliedAck[p].dir \in fs.online
              /\ Bound(bindings[p]) => ValidateWorktreeRoot(fs, bindings[p])
              /\ appliedAck[p].gen = config[p].gen => appliedAck[p].dir = dir
              /\ ~InTheWay(p, {dir, appliedAck[p].dir}, appliedAck[p].root)
              => applying'.ack.status = "applied"]_vars

\* Once a session stays up, every registration is answered on it.
Answered ==
    <>[](Linked /\ phase = "open")
        => <>[](\A p \in Project : projectApplied[p].gen = desired[p].gen)

\* Successful identities at the same revision do not change.
IdentityStands ==
    [][\A p \in Project :
          appliedAck[p].gen > 0 /\ appliedAck'[p].gen = appliedAck[p].gen
            => appliedAck'[p] = appliedAck[p]]_vars
=============================================================================
