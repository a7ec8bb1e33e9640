---------------------------- MODULE NodeJournal -----------------------------
(***************************************************************************)
(* The node's durable command journal (state/node_journal.go).  An entry   *)
(* is [status, detail, delivered]: a running entry is a committed intent   *)
(* to execute, every other status is the entry's stored result, and        *)
(* delivered says that the coordinator acknowledged that result.           *)
(***************************************************************************)
EXTENDS CommandJournal

Entries ==
    [status : {"absent", "running", "succeeded", "failed", "timed_out",
               "rejected", "indeterminate"},
     detail : Details, delivered : BOOLEAN]

NoEntry == [status |-> "absent", detail |-> "none", delivered |-> FALSE]

\* The intent Claim commits before anything is executed.
Intent == [status |-> "running", detail |-> "none", delivered |-> FALSE]

\* writeNodeResult: an entry that holds an undelivered result.
WithResult(result) ==
    [status |-> result.status, detail |-> result.detail, delivered |-> FALSE]

HasEntry(entry) == entry.status # "absent"

HasResult(entry) == entry.status \notin {"absent", "running"}

StoredResult(entry) == Result(entry.status, entry.detail)

\* Mutant: an interrupted intent counts as refused.
interruptedCommandRefused(kind) == Result("rejected", "refused")

\* What an interrupted intent becomes: recoveredLifecycleResult for the kinds
\* without a receipt, that is interruptedCommandResult.
interruptedCommandResult(kind) ==
    Result("indeterminate",
           IF kind = "session_ensure" THEN "startup_uncertain" ELSE "node_restarted")

\* Mutant: recovery overwrites every result that was not acknowledged.
RecoverUndelivered(kind, entry) ==
    IF HasEntry(entry) /\ ~entry.delivered
    THEN WithResult(interruptedCommandResult(kind)) ELSE entry

Recover(kind, entry) ==
    IF entry.status = "running" THEN WithResult(interruptedCommandResult(kind)) ELSE entry

\* Unresolved entries fence their project, acknowledged or not.
Unresolved(entry) == entry.status \in {"running", "indeterminate"}

\* Complete refuses a second, different result.
CompleteFails(entry, result) ==
    \/ ~HasEntry(entry)
    \/ HasResult(entry) /\ StoredResult(entry) # result

Complete(entry, result) ==
    IF entry.status = "running" THEN WithResult(result) ELSE entry

\* Mutant: uncertain results are not replayed.
PendingCertain(entry) ==
    HasResult(entry) /\ ~entry.delivered /\ entry.status # "indeterminate"

\* PendingResults: what a new session replays.
Pending(entry) == HasResult(entry) /\ ~entry.delivered

AcknowledgeFails(entry, status) == ~HasResult(entry) \/ entry.status # status

Acknowledge(entry) == [entry EXCEPT !.delivered = TRUE]

=============================================================================
