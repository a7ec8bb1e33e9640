-------------------------- MODULE CommandDelivery ---------------------------
(***************************************************************************)
(* A command on its way from a controller through the coordinator to one   *)
(* node and back: admission and dispatch (server/commands.go), the node's  *)
(* stream (server/server.go, server/fleet.go, node/node.go), the node's    *)
(* workers (node/commands.go), and the two durable journals.               *)
(*                                                                         *)
(* Both processes crash and restart at any point, streams break on either  *)
(* side without the other noticing, and a message on a broken stream is    *)
(* lost.  Only the journals survive.                                       *)
(*                                                                         *)
(* A command id is fresh (protocol.NewCommandID) and its request never     *)
(* changes, so each id has its request's attributes as constants: KeyOf,   *)
(* the controller's idempotency key; KindOf; and ProjectOf, the project a  *)
(* project mutation names.  Two ids with one key are two attempts at the   *)
(* same request.                                                           *)
(*                                                                         *)
(* Wall clocks: due is the set of commands whose deadline has passed on    *)
(* the coordinator's clock.  The node compares the deadline with its own   *)
(* clock, so what it decides is independent of due.                        *)
(*                                                                         *)
(* A gRPC stream and a Go channel are ordered; the model keeps what they   *)
(* hold in sets and so lets one command overtake another.                  *)
(*                                                                         *)
(* A call that changes nothing (a retry that finds its record, a refused   *)
(* submission, a read) is a stuttering step and has no action.             *)
(***************************************************************************)
EXTENDS NodeJournal, FiniteSets

CONSTANTS
    CommandId,     \* the command ids that may be drawn
    Key,           \* idempotency keys, each with the actor that uses it
    Project,       \* projects a mutation may name
    NoProject,     \* ProjectOf for a command that names none
    KeyOf, KindOf, ProjectOf,
    MaxCommands,   \* maxCommands of the coordinator (4096)
    NodeCapacity,  \* maxCommands of the node journal (4096)
    OutboundCap,   \* capacity of fleetEntry.outbound (16)
    WorkCap,       \* capacity of a worker's queue (16 or 4)
    EphemeralCap,  \* maxEphemeralResults (64)
    MaxStreams     \* bound on the streams a node opens; the code has none

ASSUME RequestAssumption ==
    /\ KeyOf \in [CommandId -> Key]
    /\ KindOf \in [CommandId -> PlainKinds \ {"agent_control"}]
    /\ ProjectOf \in [CommandId -> Project \cup {NoProject}]
    /\ NoProject \notin Project
    /\ \A c \in CommandId : (ProjectOf[c] # NoProject) <=> (KindOf[c] = "project")

ASSUME CapacityAssumption ==
    /\ MaxCommands \in Nat
    /\ NodeCapacity \in Nat
    /\ OutboundCap \in Nat
    /\ WorkCap \in Nat
    /\ EphemeralCap \in Nat
    /\ MaxStreams \in Nat

VARIABLES
    record,     \* coordinator, durable: the journal record of each id
    due,        \* ids whose deadline has passed on the coordinator's clock
    up,         \* the coordinator process runs
    cur,        \* stream of the fleet entry that is current, or 0
    outbound,   \* coordinator: fleetEntry.outbound of the current entry
    hello,      \* streams whose Hello waits at the coordinator
    toNode,     \* commands in flight on the node's stream
    acks,       \* acknowledgements in flight on the node's stream
    toServer,   \* results in flight on the coordinator's current stream
    entry,      \* node, durable: the journal entry of each id
    phase,      \* node: what its session loop is doing
    sess,       \* the stream of the node's session, or 0
    opened,     \* number of streams opened so far
    welcome,    \* the coordinator's HelloAck for sess is in flight
    stage,      \* node, volatile: where a command is between queue and send
    outcome,    \* node, volatile: the result a worker holds for a command
    pending,    \* node: the results this session has still to replay
    ephemeral,  \* node: journal_full rejections not yet acknowledged
    runs,       \* native requests issued for a command
    applied,    \* commands whose requested native state was reached
    fault       \* a journal conflict that the code treats as permanent

coordinatorVars == <<record, due, up, cur, outbound>>
networkVars == <<hello, toNode, acks, toServer>>
sessionVars == <<phase, sess, opened, welcome>>
workVars == <<stage, outcome, pending, ephemeral>>
nativeVars == <<runs, applied>>
vars == <<record, due, up, cur, outbound, hello, toNode, acks, toServer, entry,
          phase, sess, opened, welcome, stage, outcome, pending, ephemeral,
          runs, applied, fault>>

Phases == {"down", "idle", "greeting", "open", "closing"}
Stages == {"none", "queued", "claimed", "ran", "sending"}
NoOutcome == Result("failed", "none")

TypeOK ==
    /\ record \in [CommandId -> Records]
    /\ due \subseteq CommandId
    /\ up \in BOOLEAN
    /\ cur \in Nat
    /\ outbound \subseteq CommandId
    /\ hello \subseteq Nat
    /\ toNode \subseteq CommandId
    /\ acks \subseteq (CommandId \X Statuses)
    /\ toServer \subseteq (CommandId \X Results)
    /\ entry \in [CommandId -> Entries]
    /\ phase \in Phases
    /\ sess \in Nat
    /\ opened \in Nat
    /\ welcome \in BOOLEAN
    /\ stage \in [CommandId -> Stages]
    /\ outcome \in [CommandId -> Results]
    /\ pending \subseteq CommandId
    /\ ephemeral \subseteq CommandId
    /\ runs \in [CommandId -> Nat]
    /\ applied \subseteq CommandId
    /\ fault \in BOOLEAN

Init ==
    /\ record = [c \in CommandId |-> NoRecord]
    /\ due = {}
    /\ up = TRUE
    /\ cur = 0
    /\ outbound = {}
    /\ hello = {}
    /\ toNode = {}
    /\ acks = {}
    /\ toServer = {}
    /\ entry = [c \in CommandId |-> NoEntry]
    /\ phase = "down"
    /\ sess = 0
    /\ opened = 0
    /\ welcome = FALSE
    /\ stage = [c \in CommandId |-> "none"]
    /\ outcome = [c \in CommandId |-> NoOutcome]
    /\ pending = {}
    /\ ephemeral = {}
    /\ runs = [c \in CommandId |-> 0]
    /\ applied = {}
    /\ fault = FALSE

-----------------------------------------------------------------------------
(***************************************************************************)
(* The coordinator.                                                        *)
(***************************************************************************)

Created == {c \in CommandId : record[c].status # "absent"}

\* Mutant: a key may be used again once its command is terminal.
FindCommandActive(k) == {c \in Created : KeyOf[c] = k /\ Active(record[c])}

\* FindCommand: the record this idempotency key already has.
FindCommand(k) == {c \in Created : KeyOf[c] = k}

\* What is sent on the current stream arrives only while it is the stream
\* the node listens to.
Linked == cur # 0 /\ cur = sess

(***************************************************************************)
(* SubmitCommand admits a request whose key has no record, while the node  *)
(* has a current session, its outbound queue has room and the journal has  *)
(* capacity.  Whether the session counts as ready for the kind is up to    *)
(* the environment.                                                        *)
(***************************************************************************)
SubmitCommand(c) ==
    /\ up
    /\ record[c].status = "absent"
    /\ FindCommand(KeyOf[c]) = {}
    /\ cur # 0
    /\ Cardinality(outbound) < OutboundCap
    /\ Cardinality(Created) < MaxCommands
    /\ record' = [record EXCEPT ![c] = AcceptedRecord]
    /\ outbound' = outbound \cup {c}
    /\ UNCHANGED <<due, up, cur, networkVars, entry, sessionVars, workVars,
                   nativeVars, fault>>

\* Time passes the deadline of a command, on the coordinator's clock.
PassDeadline(c) ==
    /\ c \in Created \ due
    /\ due' = due \cup {c}
    /\ UNCHANGED <<record, up, cur, outbound, networkVars, entry, sessionVars,
                   workVars, nativeVars, fault>>

(***************************************************************************)
(* prepareCommand, when authorization or readiness was withdrawn between   *)
(* admission and dispatch.                                                 *)
(***************************************************************************)
PrepareRejected(c) ==
    /\ up /\ cur # 0
    /\ c \in outbound
    /\ authorizationSensitiveCommand(KindOf[c])
    /\ record' = [record EXCEPT ![c] = RejectCommand(@)]
    /\ outbound' = outbound \ {c}
    /\ UNCHANGED <<due, up, cur, networkVars, entry, sessionVars, workVars,
                   nativeVars, fault>>

(***************************************************************************)
(* prepareCommand otherwise: the record is dispatched and the command sent *)
(* on the stream.  The deadline may pass between the two; the command then *)
(* ends timed out and is not sent.                                         *)
(***************************************************************************)
PrepareCommand(c, late) ==
    LET dispatched == DispatchCommand(record[c], c \in due)
        dispatch == record[c].status = "accepted" /\ c \notin due
    IN  /\ up /\ cur # 0
        /\ c \in outbound
        /\ late => dispatch
        /\ outbound' = outbound \ {c}
        /\ record' = [record EXCEPT ![c] =
                        IF late
                        THEN FinishCommand(KindOf[c], dispatched,
                                           Result("timed_out", "deadline_expired"))
                        ELSE dispatched]
        /\ due' = IF late THEN due \cup {c} ELSE due
        /\ toNode' = IF dispatch /\ ~late /\ Linked THEN toNode \cup {c} ELSE toNode
        /\ UNCHANGED <<up, cur, hello, acks, toServer, entry, sessionVars,
                       workVars, nativeVars, fault>>

(***************************************************************************)
(* finishCommand: a result from the current stream is applied and its own  *)
(* status acknowledged.  A conflict ends the stream with                   *)
(* FailedPrecondition, which makes the node give up for good.              *)
(***************************************************************************)
finishCommand(c, result) ==
    LET fails == FinishFails(KindOf[c], record[c], result)
    IN  /\ up /\ cur # 0
        /\ <<c, result>> \in toServer
        /\ toServer' = toServer \ {<<c, result>>}
        /\ record' = [record EXCEPT ![c] = FinishCommand(KindOf[c], @, result)]
        /\ acks' = IF Linked /\ ~fails THEN acks \cup {<<c, result.status>>} ELSE acks
        /\ fault' = (fault \/ fails)
        /\ UNCHANGED <<due, up, cur, outbound, hello, toNode, entry, sessionVars,
                       workVars, nativeVars>>

\* The 500 ms tick of serveCoordinator.
ExpireCommands ==
    /\ up
    /\ \E c \in due : Active(record[c])
    /\ record' = [c \in CommandId |->
                    IF c \in due THEN ExpireCommand(record[c]) ELSE record[c]]
    /\ UNCHANGED <<due, up, cur, outbound, networkVars, entry, sessionVars,
                   workVars, nativeVars, fault>>

(***************************************************************************)
(* Connect, from Hello to HelloAck: beginSession retires the entry the     *)
(* node had, loses its commands and installs the new one.  The Hello of a  *)
(* stream that the node has meanwhile left may still be served.            *)
(***************************************************************************)
BeginSession(s) ==
    /\ up
    /\ s \in hello
    /\ hello' = hello \ {s}
    /\ record' = [c \in CommandId |-> LoseNodeCommand(record[c])]
    /\ cur' = s
    /\ outbound' = {}
    /\ toServer' = {}
    /\ welcome' = (welcome \/ (s = sess /\ phase = "greeting"))
    /\ UNCHANGED <<due, up, toNode, acks, entry, phase, sess, opened, workVars,
                   nativeVars, fault>>

\* The Connect handler returns, for whatever reason, and ends its entry.
EndSession ==
    /\ up /\ cur # 0
    /\ record' = [c \in CommandId |-> LoseNodeCommand(record[c])]
    /\ cur' = 0
    /\ outbound' = {}
    /\ toServer' = {}
    /\ UNCHANGED <<due, up, hello, toNode, acks, entry, sessionVars, workVars,
                   nativeVars, fault>>

\* The coordinator stops without warning; every stream breaks.
CoordinatorCrash ==
    /\ up
    /\ up' = FALSE
    /\ cur' = 0
    /\ outbound' = {}
    /\ hello' = {}
    /\ toServer' = {}
    /\ UNCHANGED <<record, due, toNode, acks, entry, sessionVars, workVars,
                   nativeVars, fault>>

\* openCoordinatorState recovers the commands its predecessor left active.
CoordinatorRestart ==
    /\ ~up
    /\ up' = TRUE
    /\ record' = [c \in CommandId |-> RecoverCommand(record[c])]
    /\ UNCHANGED <<due, cur, outbound, networkVars, entry, sessionVars,
                   workVars, nativeVars, fault>>

-----------------------------------------------------------------------------
(***************************************************************************)
(* The node.                                                               *)
(***************************************************************************)

\* Session ensures have a worker of their own.
Worker(c) == IF KindOf[c] = "session_ensure" THEN "sessionWork" ELSE "work"

Handling == {c \in CommandId : stage[c] \in {"claimed", "ran"}}

QueueLength(w) ==
    Cardinality({c \in CommandId : stage[c] = "queued" /\ Worker(c) = w})

NodeFull == Cardinality({c \in CommandId : HasEntry(entry[c])}) >= NodeCapacity

\* Mutant: a mutation in doubt does not fence its project.
ProjectFencedRunning(c) ==
    /\ ProjectOf[c] # NoProject
    /\ \E d \in CommandId : ProjectOf[d] = ProjectOf[c] /\ entry[d].status = "running"

\* Claim refuses a mutation while another one of its project is unresolved.
ProjectFenced(c) ==
    /\ ProjectOf[c] # NoProject
    /\ \E d \in CommandId : ProjectOf[d] = ProjectOf[c] /\ Unresolved(entry[d])

NodeStart ==
    /\ phase = "down"
    /\ phase' = "idle"
    /\ UNCHANGED <<coordinatorVars, networkVars, entry, sess, opened, welcome,
                   workVars, nativeVars, fault>>

(***************************************************************************)
(* The start of runSession: intents that the previous session or process   *)
(* left behind are recovered before a new stream is opened.                *)
(***************************************************************************)
OpenStream ==
    /\ phase = "idle"
    /\ opened < MaxStreams
    /\ entry' = [c \in CommandId |-> Recover(KindOf[c], entry[c])]
    /\ opened' = opened + 1
    /\ sess' = opened + 1
    /\ phase' = "greeting"
    /\ welcome' = FALSE
    /\ hello' = IF up THEN hello \cup {opened + 1} ELSE hello
    /\ UNCHANGED <<coordinatorVars, toNode, acks, toServer, workVars, nativeVars,
                   fault>>

\* HelloAck arrives and PendingResults is read, once for the session.
Registered ==
    /\ phase = "greeting"
    /\ welcome
    /\ phase' = "open"
    /\ welcome' = FALSE
    /\ pending' = {c \in CommandId : Pending(entry[c])}
    /\ UNCHANGED <<coordinatorVars, networkVars, entry, sess, opened, stage,
                   outcome, ephemeral, nativeVars, fault>>

(***************************************************************************)
(* A command arrives.  A full queue ends the session (ResourceExhausted).  *)
(***************************************************************************)
ReceiveCommand(c) ==
    /\ phase = "open"
    /\ c \in toNode
    /\ toNode' = toNode \ {c}
    /\ IF QueueLength(Worker(c)) < WorkCap
       THEN stage' = [stage EXCEPT ![c] = "queued"] /\ UNCHANGED phase
       ELSE phase' = "closing" /\ UNCHANGED stage
    /\ UNCHANGED <<coordinatorVars, hello, acks, toServer, entry, sess, opened,
                   welcome, outcome, pending, ephemeral, nativeVars, fault>>

\* The result with which Claim answers when it grants no execution.
ClaimResult(c) ==
    IF HasResult(entry[c]) THEN StoredResult(entry[c])
    ELSE IF HasEntry(entry[c]) THEN interruptedCommandResult(KindOf[c])
    ELSE Result("rejected", IF NodeFull THEN "journal_full" ELSE "project_unresolved")

(***************************************************************************)
(* handle, up to the journal's answer.  A new command is granted to the    *)
(* worker by committing an intent.  A full journal rejects it from memory  *)
(* only, and ends the session when too many such rejections are            *)
(* outstanding.                                                            *)
(***************************************************************************)
Claim(c) ==
    LET granted == ~HasEntry(entry[c]) /\ ~NodeFull /\ ~ProjectFenced(c)
        full == ~HasEntry(entry[c]) /\ NodeFull
        overflow == full /\ c \notin ephemeral /\ Cardinality(ephemeral) >= EphemeralCap
    IN  /\ phase = "open"
        /\ stage[c] = "queued"
        /\ \A d \in Handling : Worker(d) # Worker(c)
        /\ stage' = [stage EXCEPT ![c] =
                       IF granted THEN "claimed" ELSE IF overflow THEN "none" ELSE "sending"]
        /\ outcome' = [outcome EXCEPT ![c] =
                       IF granted \/ overflow THEN @ ELSE ClaimResult(c)]
        /\ entry' = [entry EXCEPT ![c] =
                       IF granted THEN Intent
                       ELSE IF full \/ HasResult(@) THEN @
                       ELSE WithResult(ClaimResult(c))]
        /\ ephemeral' = IF full /\ ~overflow THEN ephemeral \cup {c} ELSE ephemeral
        /\ phase' = IF overflow THEN "closing" ELSE phase
        /\ UNCHANGED <<coordinatorVars, networkVars, sess, opened, welcome, pending,
                       nativeVars, fault>>

\* The worker has the result of executing c; requested says that a native
\* request was issued, reached that the requested state is in place.
Executed(c, result, requested, reached) ==
    /\ phase \in {"open", "closing"}
    /\ stage[c] = "claimed"
    /\ stage' = [stage EXCEPT ![c] = "ran"]
    /\ outcome' = [outcome EXCEPT ![c] = result]
    /\ runs' = IF requested THEN [runs EXCEPT ![c] = @ + 1] ELSE runs
    /\ applied' = IF reached THEN applied \cup {c} ELSE applied
    /\ UNCHANGED <<coordinatorVars, networkVars, entry, sessionVars, pending,
                   ephemeral, fault>>

\* The deadline has passed on the node's clock; nothing is requested.
ExecuteExpired(c) ==
    Executed(c, Result("timed_out", "deadline_expired"), FALSE, FALSE)

\* A probe answers pong.
ExecuteProbe(c) ==
    /\ KindOf[c] = "probe"
    /\ Executed(c, Result("succeeded", "done"), TRUE, TRUE)

\* Policy, peer verification, session or native preconditions fail before
\* the native request.
ExecuteRefused(c) ==
    /\ KindOf[c] # "probe"
    /\ Executed(c, Result("rejected", "refused"), FALSE, FALSE)

\* A workspace or session that is already there needs no native request.
ExecutePresent(c) ==
    /\ KindOf[c] # "probe"
    /\ Executed(c, Result("succeeded", "done"), FALSE, TRUE)

(***************************************************************************)
(* The native request is issued.  After it a project mutation only ever    *)
(* succeeds or is uncertain; a session start may also be rejected, because *)
(* the server it started exited or speaks another protocol.                *)
(***************************************************************************)
ExecuteRequest(c) ==
    /\ KindOf[c] # "probe"
    /\ \/ Executed(c, Result("succeeded", "done"), TRUE, TRUE)
       \/ \E reached \in BOOLEAN :
             Executed(c, Result("indeterminate",
                                IF KindOf[c] = "session_ensure"
                                THEN "startup_uncertain" ELSE "outcome_unknown"),
                      TRUE, reached)

ExecuteStartFailed(c) ==
    /\ KindOf[c] = "session_ensure"
    /\ Executed(c, Result("rejected", "refused"), TRUE, FALSE)

(***************************************************************************)
(* handle commits the result.  The session may be closing: the commit does *)
(* not depend on its context, but the result is no longer sent.            *)
(***************************************************************************)
CompleteCommand(c) ==
    /\ phase \in {"open", "closing"}
    /\ stage[c] = "ran"
    /\ entry' = [entry EXCEPT ![c] = Complete(@, outcome[c])]
    /\ stage' = [stage EXCEPT ![c] = IF phase = "open" THEN "sending" ELSE "none"]
    /\ outcome' = [outcome EXCEPT ![c] = IF phase = "open" THEN @ ELSE NoOutcome]
    /\ fault' = (fault \/ CompleteFails(entry[c], outcome[c]))
    /\ UNCHANGED <<coordinatorVars, networkVars, sessionVars, pending, ephemeral,
                   nativeVars>>

(***************************************************************************)
(* handle gives up because its session is closing, before or after the     *)
(* effect, and leaves the durable intent for recovery.  A probe that       *)
(* answered is completed regardless.                                       *)
(***************************************************************************)
AbandonCommand(c) ==
    /\ phase = "closing"
    /\ \/ stage[c] = "claimed"
       \/ stage[c] = "ran" /\ KindOf[c] # "probe"
    /\ stage' = [stage EXCEPT ![c] = "none"]
    /\ outcome' = [outcome EXCEPT ![c] = NoOutcome]
    /\ UNCHANGED <<coordinatorVars, networkVars, entry, sessionVars, pending,
                   ephemeral, nativeVars, fault>>

\* sendOutcome.
SendResult(c) ==
    /\ phase = "open"
    /\ stage[c] = "sending"
    /\ stage' = [stage EXCEPT ![c] = "none"]
    /\ outcome' = [outcome EXCEPT ![c] = NoOutcome]
    /\ toServer' = IF Linked THEN toServer \cup {<<c, outcome[c]>>} ELSE toServer
    /\ UNCHANGED <<coordinatorVars, hello, toNode, acks, entry, sessionVars,
                   pending, ephemeral, nativeVars, fault>>

\* A retained result is replayed.
ReplayResult(c) ==
    /\ phase = "open"
    /\ c \in pending
    /\ pending' = pending \ {c}
    /\ toServer' = IF Linked THEN toServer \cup {<<c, StoredResult(entry[c])>>}
                             ELSE toServer
    /\ UNCHANGED <<coordinatorVars, hello, toNode, acks, entry, sessionVars, stage,
                   outcome, ephemeral, nativeVars, fault>>

(***************************************************************************)
(* acknowledge.  A status that does not match what the node holds is an    *)
(* InvalidArgument, which makes the node give up for good.                 *)
(***************************************************************************)
ReceiveAck(c, status) ==
    /\ phase = "open"
    /\ <<c, status>> \in acks
    /\ acks' = acks \ {<<c, status>>}
    /\ IF c \in ephemeral
       THEN /\ ephemeral' = IF status = "rejected" THEN ephemeral \ {c} ELSE ephemeral
            /\ fault' = (fault \/ status # "rejected")
            /\ UNCHANGED entry
       ELSE /\ entry' = [entry EXCEPT ![c] =
                           IF AcknowledgeFails(@, status) THEN @ ELSE Acknowledge(@)]
            /\ fault' = (fault \/ AcknowledgeFails(entry[c], status))
            /\ UNCHANGED ephemeral
    /\ UNCHANGED <<coordinatorVars, hello, toNode, toServer, sessionVars, stage,
                   outcome, pending, nativeVars>>

\* The stream breaks, or any error ends the session loop; its context is
\* cancelled and its workers are joined.
CloseSession ==
    /\ phase \in {"greeting", "open"}
    /\ phase' = "closing"
    /\ UNCHANGED <<coordinatorVars, networkVars, entry, sess, opened, welcome,
                   workVars, nativeVars, fault>>

\* What a node forgets with its session or its process.
Forget ==
    /\ sess' = 0
    /\ welcome' = FALSE
    /\ toNode' = {}
    /\ acks' = {}
    /\ stage' = [c \in CommandId |-> "none"]
    /\ outcome' = [c \in CommandId |-> NoOutcome]
    /\ pending' = {}
    /\ ephemeral' = {}
    /\ UNCHANGED <<coordinatorVars, hello, toServer, entry, opened, nativeVars, fault>>

\* Every worker has returned; run waits before it reconnects.
SessionClosed ==
    /\ phase = "closing"
    /\ Handling = {}
    /\ phase' = "idle"
    /\ Forget

NodeCrash ==
    /\ phase # "down"
    /\ phase' = "down"
    /\ Forget

-----------------------------------------------------------------------------

CoordinatorStep ==
    \/ \E c \in CommandId :
          \/ SubmitCommand(c)
          \/ PassDeadline(c)
          \/ PrepareRejected(c)
          \/ \E late \in BOOLEAN : PrepareCommand(c, late)
    \/ \E m \in toServer : finishCommand(m[1], m[2])
    \/ ExpireCommands
    \/ \E s \in hello : BeginSession(s)
    \/ EndSession
    \/ CoordinatorCrash
    \/ CoordinatorRestart

WorkerStep(c) ==
    \/ Claim(c)
    \/ ExecuteExpired(c)
    \/ ExecuteProbe(c)
    \/ ExecuteRefused(c)
    \/ ExecutePresent(c)
    \/ ExecuteRequest(c)
    \/ ExecuteStartFailed(c)
    \/ CompleteCommand(c)
    \/ AbandonCommand(c)

NodeStep ==
    \/ NodeStart
    \/ OpenStream
    \/ Registered
    \/ \E c \in CommandId :
          \/ ReceiveCommand(c)
          \/ WorkerStep(c)
          \/ SendResult(c)
          \/ ReplayResult(c)
    \/ \E m \in acks : ReceiveAck(m[1], m[2])
    \/ CloseSession
    \/ SessionClosed
    \/ NodeCrash

Next == CoordinatorStep \/ NodeStep

Spec == Init /\ [][Next]_vars

(***************************************************************************)
(* Fairness.  The coordinator process is restarted, its clock and its tick *)
(* go on, and both session loops keep serving what is ready (Go's select   *)
(* picks at random among the ready cases).  Nothing is assumed of          *)
(* submissions, crashes, disconnects or reconnects.                        *)
(***************************************************************************)
Fairness ==
    /\ WF_vars(CoordinatorRestart)
    /\ WF_vars(ExpireCommands)
    /\ WF_vars(\E m \in toServer : finishCommand(m[1], m[2]))
    /\ WF_vars(\E m \in acks : ReceiveAck(m[1], m[2]))
    /\ \A c \in CommandId :
          /\ WF_vars(PassDeadline(c))
          /\ WF_vars(SendResult(c))
          /\ WF_vars(ReplayResult(c))

FairSpec == Spec /\ Fairness

-----------------------------------------------------------------------------
(***************************************************************************)
(* Properties.                                                             *)
(***************************************************************************)

\* At most one native request is ever issued for an idempotency key, however
\* often the controller retries and whatever crashes (SubmitCommand, Claim,
\* Recover).
AtMostOnce ==
    \A c, d \in CommandId :
        KeyOf[c] = KeyOf[d] /\ runs[c] > 0 /\ runs[d] > 0 => c = d /\ runs[c] = 1

\* The record the controller reads is true: success means the state was
\* reached, and a timeout, an unavailability or a rejection means that no
\* native request was issued (a rejected session ensure excepted).
HonestOutcome ==
    \A c \in CommandId :
        /\ record[c].status = "succeeded" => c \in applied
        /\ \/ record[c].status \in {"timed_out", "unavailable"}
           \/ record[c].status = "rejected" /\ KindOf[c] # "session_ensure"
           => runs[c] = 0

\* No journal ever meets a result or an acknowledgement that contradicts
\* what it stored: the code answers such a conflict by ending the node for
\* good (isPermanentSessionError).
NoConflict == ~fault

\* A result the node has put away as acknowledged is the coordinator's own
\* outcome: both are certain of the same thing or both are in doubt.
AcknowledgedAgrees ==
    \A c \in CommandId : entry[c].delivered => record[c].status = entry[c].status

\* A trail never grows beyond four entries, so no journal operation can
\* fail on its capacity (which would stop the coordinator).
TrailBounded == \A c \in CommandId : record[c].audit <= 4

\* A native request for a project is issued only while no other mutation of
\* the project is in progress or in doubt at the node.
ProjectQuarantine ==
    [][\A c, d \in CommandId :
          /\ runs'[c] # runs[c]
          /\ c # d
          /\ ProjectOf[c] # NoProject
          /\ ProjectOf[c] = ProjectOf[d]
          => ~Unresolved(entry[d])]_vars

\* Neither a conclusive record nor a node's stored result is ever replaced.
DecisionsStand ==
    [][\A c \in CommandId :
          /\ Conclusive(record[c].status) => record'[c] = record[c]
          /\ HasResult(entry[c]) => StoredResult(entry'[c]) = StoredResult(entry[c])]_vars

\* Every admitted command gets a terminal record, even if the node never
\* answers and the coordinator keeps crashing.
Settles ==
    \A c \in CommandId : Active(record[c]) ~> IsTerminalCommand(record[c].status)

\* Once a session stays up, every result the node holds is acknowledged.
Delivered ==
    <>[](up /\ Linked /\ phase = "open")
        => \A c \in CommandId : [](HasResult(entry[c]) => <>(entry[c].delivered))

\* The whole path implements the contract a controller relies on.
Told(status) ==
    CASE status = "absent" -> "nothing"
      [] status \in {"accepted", "running"} -> "pending"
      [] status = "indeterminate" -> "unknown"
      [] status = "succeeded" -> "succeeded"
      [] OTHER -> "refused"

Contract == INSTANCE CommandContract WITH
    Retractable <- {c \in CommandId : KindOf[c] = "session_ensure"},
    told <- [c \in CommandId |-> Told(record[c].status)],
    requests <- runs,
    reached <- applied

ImplementsContract == Contract!CSpec

-----------------------------------------------------------------------------
(***************************************************************************)
(* The inductive invariant behind the safety properties: where the single  *)
(* copy of a command is, and what may be said about it there.              *)
(***************************************************************************)

JournalFull == Result("rejected", "journal_full")

\* Dispatched, and no final answer given.
InDoubt(c) == record[c].status \in {"running", "indeterminate"}

NoMessage(c) ==
    /\ \A r \in Results : <<c, r>> \notin toServer
    /\ \A s \in Statuses : <<c, s>> \notin acks

\* A result of c that is valid for its kind and true.
HonestResult(c, r) ==
    /\ r.status \in {"succeeded", "timed_out", "rejected", "indeterminate"}
    /\ validCommandOutcome(KindOf[c], r.status, r.detail)
    /\ r.status = "succeeded" => c \in applied
    /\ \/ r.status = "timed_out"
       \/ r.status = "rejected" /\ KindOf[c] # "session_ensure"
       => runs[c] = 0

\* Nothing about c has left the coordinator.
Untouched(c) ==
    /\ entry[c].status = "absent"
    /\ stage[c] = "none"
    /\ c \notin toNode
    /\ c \notin ephemeral
    /\ NoMessage(c)

\* The command is travelling to its worker.
InTransit(c) ==
    /\ entry[c].status = "absent"
    /\ c \notin ephemeral
    /\ NoMessage(c)
    /\ InDoubt(c)
    /\ c \in toNode => stage[c] = "none"

\* The node has no entry for c: at most it refused c for lack of room.
AbsentInv(c) ==
    /\ runs[c] = 0
    /\ c \notin applied
    /\ ~entry[c].delivered
    /\ record[c].status \notin {"succeeded", "failed"}
    /\ stage[c] \in {"none", "queued", "sending"}
    /\ stage[c] = "sending" => outcome[c] = JournalFull /\ c \in ephemeral /\ NoMessage(c)
    /\ c \in ephemeral =>
          /\ InDoubt(c) \/ Result(record[c].status, record[c].detail) = JournalFull
          /\ c \notin toNode
          /\ stage[c] # "queued"
    /\ \A r \in Results : <<c, r>> \in toServer =>
          /\ r = JournalFull
          /\ InDoubt(c) \/ Result(record[c].status, record[c].detail) = JournalFull
          /\ stage[c] = "none"
          /\ Linked => c \in ephemeral /\ \A s \in Statuses : <<c, s>> \notin acks
    /\ \A s \in Statuses : <<c, s>> \in acks =>
          s = "rejected" /\ c \in ephemeral /\ stage[c] = "none"

\* The node holds an intent to execute c.
IntentInv(c) ==
    /\ InDoubt(c)
    /\ NoMessage(c)
    /\ c \notin ephemeral
    /\ c \notin toNode
    /\ ~entry[c].delivered
    /\ stage[c] \in {"none", "claimed", "ran"}
    /\ stage[c] = "claimed" => runs[c] = 0 /\ c \notin applied
    /\ stage[c] = "ran" => HonestResult(c, outcome[c])

\* The node holds a result of c.
ResultInv(c) ==
    /\ HonestResult(c, StoredResult(entry[c]))
    /\ InDoubt(c) \/ Result(record[c].status, record[c].detail) = StoredResult(entry[c])
    /\ c \notin ephemeral
    /\ c \notin toNode
    /\ stage[c] \in {"none", "sending"}
    /\ stage[c] = "sending" => outcome[c] = StoredResult(entry[c])
    /\ \A r \in Results : <<c, r>> \in toServer => r = StoredResult(entry[c])
    /\ \A s \in Statuses : <<c, s>> \in acks =>
          s = entry[c].status /\ s = record[c].status
    /\ entry[c].delivered => record[c].status = entry[c].status

\* How long the trail is in each status.
TrailInv(c) ==
    /\ record[c].status = "absent" => record[c].audit = 0
    /\ record[c].status = "accepted" => record[c].audit = 1
    /\ record[c].status = "running" => record[c].audit = 2
    /\ record[c].status = "indeterminate" =>
          \/ record[c].audit = 3
          \/ /\ record[c].audit = 4
             /\ HasResult(entry[c])
             /\ StoredResult(entry[c]) = Result("indeterminate", "startup_uncertain")
             /\ record[c].detail = "startup_uncertain"
    /\ record[c].audit <= 4

CommandInv(c) ==
    /\ record[c].status \in {"absent", "accepted", "unavailable"} => Untouched(c)
    /\ c \in toNode \/ stage[c] = "queued" => InTransit(c)
    /\ entry[c].status = "absent" => AbsentInv(c)
    /\ entry[c].status = "running" => IntentInv(c)
    /\ HasResult(entry[c]) => ResultInv(c)
    /\ c \in pending => HasResult(entry[c])
    /\ runs[c] <= 1
    /\ TrailInv(c)

\* Streams are numbered as they are opened; between sessions the node holds
\* nothing but its journal.
StreamInv ==
    /\ cur <= opened
    /\ sess <= opened
    /\ \A s \in hello : s <= opened
    /\ phase \in {"down", "idle"} =>
          /\ sess = 0
          /\ toNode = {}
          /\ acks = {}
          /\ ephemeral = {}
          /\ pending = {}
          /\ \A c \in CommandId : stage[c] = "none"

KeyInv == \A c, d \in Created : KeyOf[c] = KeyOf[d] => c = d

FenceInv ==
    \A c, d \in CommandId :
        /\ c # d
        /\ ProjectOf[c] # NoProject
        /\ ProjectOf[c] = ProjectOf[d]
        => ~(Unresolved(entry[c]) /\ Unresolved(entry[d]))

\* Everything the safety proofs need at once.
SafetyInv ==
    /\ TypeOK
    /\ StreamInv
    /\ KeyInv
    /\ FenceInv
    /\ ~fault
    /\ \A c \in CommandId : CommandInv(c)
=============================================================================
