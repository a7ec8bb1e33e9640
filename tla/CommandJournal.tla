--------------------------- MODULE CommandJournal ---------------------------
(***************************************************************************)
(* The coordinator's durable command journal (state/commands.go): which    *)
(* status changes a command record admits and what each journal operation  *)
(* does to one record.  Every operation is an SQLite transaction, so it is *)
(* an operator from the record before it to the record after it.           *)
(*                                                                         *)
(* A record is [status, detail, audit]; audit is the number of entries of  *)
(* its audit trail.  Details that no rule tells apart share a name:        *)
(* "done" is every detail of a success, "refused" every detail of a        *)
(* rejection a node decides before its effect.  The lifecycle kinds (agent *)
(* start and stop) carry a staged receipt and have journal rules of their  *)
(* own.                                                                    *)
(***************************************************************************)
EXTENDS Naturals

\* maxCommandAudit.
MaxAudit == 16

LifecycleKinds == {"agent_start", "agent_stop"}

PlainKinds == {"probe", "project", "agent_control", "session_ensure"}

Kinds == PlainKinds \cup LifecycleKinds

Statuses ==
    {"absent", "accepted", "running", "succeeded", "failed", "timed_out",
     "rejected", "indeterminate", "unavailable"}

Details ==
    {"none", "accepted", "dispatched", "done", "deadline_expired", "refused",
     "journal_full", "project_unresolved", "authorization_changed",
     "node_disconnected", "node_restarted", "server_restarted",
     "outcome_unknown", "startup_uncertain"}

Records == [status : Statuses, detail : Details, audit : Nat]

Results ==
    [status : {"succeeded", "failed", "timed_out", "rejected", "indeterminate"},
     detail : Details]

Result(status, detail) == [status |-> status, detail |-> detail]

NoRecord == [status |-> "absent", detail |-> "none", audit |-> 0]

\* CreateCommand inserts an accepted record whose trail has one entry.
AcceptedRecord == [status |-> "accepted", detail |-> "accepted", audit |-> 1]

\* The statuses nothing is expected to follow.
IsTerminalCommand(status) ==
    status \in {"succeeded", "failed", "timed_out", "rejected",
                "indeterminate", "unavailable"}

\* Terminal and certain: the operator may act on it.
Conclusive(status) == IsTerminalCommand(status) /\ status # "indeterminate"

authorizationSensitiveCommand(kind) == kind # "probe"

validCommandTransition(kind, from, to, detail) ==
    \/ /\ kind \in LifecycleKinds
       /\ from \in {"running", "indeterminate"}
       /\ to \in {"failed", "indeterminate"}
    \/ /\ from = "accepted"
       /\ \/ to \in {"running", "timed_out", "unavailable"}
          \/ /\ authorizationSensitiveCommand(kind)
             /\ to = "rejected"
             /\ detail = "authorization_changed"
    \/ /\ from = "running"
       /\ to \in {"succeeded", "timed_out", "rejected", "indeterminate"}
    \/ /\ from = "indeterminate"
       /\ \/ to \in {"succeeded", "timed_out", "rejected"}
          \/ /\ kind = "session_ensure"
             /\ to = "indeterminate"
             /\ detail = "startup_uncertain"

\* Which details a status admits for a kind of command.
validCommandOutcome(kind, status, detail) ==
    \/ kind \in LifecycleKinds /\ IsTerminalCommand(status)
    \/ <<status, detail>> \in
          {<<"accepted", "accepted">>, <<"running", "dispatched">>,
           <<"succeeded", "done">>, <<"timed_out", "deadline_expired">>,
           <<"rejected", "journal_full">>,
           <<"indeterminate", "node_restarted">>,
           <<"indeterminate", "server_restarted">>,
           <<"indeterminate", "node_disconnected">>,
           <<"indeterminate", "deadline_expired">>,
           <<"unavailable", "node_disconnected">>,
           <<"unavailable", "server_restarted">>}
    \/ /\ authorizationSensitiveCommand(kind)
       /\ status = "rejected"
       /\ detail \in {"refused", "authorization_changed"}
    \/ kind = "project" /\ status = "rejected" /\ detail = "project_unresolved"
    \/ /\ kind \in {"project", "agent_control"}
       /\ status = "indeterminate"
       /\ detail = "outcome_unknown"
    \/ /\ kind = "session_ensure"
       /\ status = "indeterminate"
       /\ detail = "startup_uncertain"

(***************************************************************************)
(* transitionCommand either appends to the trail or fails; the caller's    *)
(* transaction is then rolled back.                                        *)
(***************************************************************************)
CanTransition(kind, record, to, detail) ==
    /\ validCommandTransition(kind, record.status, to, detail)
    /\ validCommandOutcome(kind, to, detail)
    /\ record.audit < MaxAudit

transitionCommand(record, to, detail) ==
    [status |-> to, detail |-> detail, audit |-> record.audit + 1]

(***************************************************************************)
(* RejectCommand and DispatchCommand leave a record that is no longer      *)
(* accepted alone.                                                         *)
(***************************************************************************)
RejectCommand(record) ==
    IF record.status = "accepted"
    THEN transitionCommand(record, "rejected", "authorization_changed")
    ELSE record

DispatchCommand(record, expired) ==
    IF record.status # "accepted" THEN record
    ELSE IF expired
         THEN transitionCommand(record, "timed_out", "deadline_expired")
         ELSE transitionCommand(record, "running", "dispatched")

(***************************************************************************)
(* changeActiveCommands: what a lost node, the deadline tick and a restart *)
(* of the coordinator do to a record that is accepted or running.          *)
(***************************************************************************)
Active(record) == record.status \in {"accepted", "running"}

\* Mutant: a running command is ended like one that was never dispatched.
changeActiveCommandCertain(record, acceptedStatus, detail) ==
    IF ~Active(record) THEN record
    ELSE transitionCommand(record, acceptedStatus, detail)

changeActiveCommand(record, acceptedStatus, detail) ==
    IF ~Active(record) THEN record
    ELSE transitionCommand(
             record,
             IF record.status = "running" THEN "indeterminate" ELSE acceptedStatus,
             detail)

\* Mutant: a command that was never dispatched is left in doubt.
LoseNodeCommandInDoubt(record) ==
    changeActiveCommand(record, "indeterminate", "node_disconnected")

LoseNodeCommand(record) ==
    changeActiveCommand(record, "unavailable", "node_disconnected")

\* Mutant: the tick overlooks dispatched commands.
ExpireCommandAccepted(record) ==
    IF record.status = "accepted"
    THEN transitionCommand(record, "timed_out", "deadline_expired")
    ELSE record

ExpireCommand(record) ==
    changeActiveCommand(record, "timed_out", "deadline_expired")

RecoverCommand(record) ==
    changeActiveCommand(record, "unavailable", "server_restarted")

\* Mutant: only an identical result is ignored.
FinishIgnoredIdentical(kind, record, result) ==
    Result(record.status, record.detail) = result

\* Mutant: an uncertain start is recorded as often as it is reported.
FinishIgnoredRepeated(kind, record, result) ==
    /\ result.status = "indeterminate"
    /\ IsTerminalCommand(record.status)
    /\ ~(/\ kind = "session_ensure"
         /\ record.status = "indeterminate"
         /\ result.detail = "startup_uncertain")

(***************************************************************************)
(* FinishCommand applies a node's result.  An uncertain result never       *)
(* replaces a terminal record, except that a session ensure interrupted by *)
(* stream loss takes the more precise startup uncertainty.                 *)
(***************************************************************************)
FinishIgnored(kind, record, result) ==
    \/ /\ result.status = "indeterminate"
       /\ IsTerminalCommand(record.status)
       /\ ~(/\ kind = "session_ensure"
            /\ record.status = "indeterminate"
            /\ record.detail = "node_disconnected"
            /\ result.detail = "startup_uncertain")
    \/ Result(record.status, record.detail) = result

\* ErrCommandConflict, or an exhausted trail.
FinishFails(kind, record, result) ==
    /\ ~FinishIgnored(kind, record, result)
    /\ \/ record.status \notin {"running", "indeterminate"}
       \/ ~CanTransition(kind, record, result.status, result.detail)

\* Mutant: a late result does not resolve doubt.
FinishCommandInTime(kind, record, result) ==
    IF record.status = "running"
    THEN transitionCommand(record, result.status, result.detail)
    ELSE record

FinishCommand(kind, record, result) ==
    IF FinishIgnored(kind, record, result) \/ FinishFails(kind, record, result)
    THEN record
    ELSE transitionCommand(record, result.status, result.detail)

=============================================================================
