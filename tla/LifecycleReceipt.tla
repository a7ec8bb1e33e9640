-------------------------- MODULE LifecycleReceipt --------------------------
(***************************************************************************)
(* The evidence kept about the start or stop of an agent: the receipt that *)
(* the node writes before and after each native effect, what may follow    *)
(* what in it, which outcome of a command it supports, and which commands  *)
(* it keeps apart.  (protocol/lifecycle.go, state/lifecycle.go)            *)
(*                                                                         *)
(* A receipt is a record of the native incarnation it is pinned to and the *)
(* sequence of its events.  The summary of the outcomes and the handle are *)
(* functions of the events: a start knows its terminal once its pane is    *)
(* confirmed.  A start's terminal has the name of the command itself.      *)
(***************************************************************************)
EXTENDS Naturals, Sequences, FiniteSets

CONSTANTS
    Command,     \* command ids
    KindOf,      \* Command -> Kind
    WorkspaceOf, \* the workspace of a start
    TerminalOf,  \* the terminal of a control, an interrupt or a stop
    Prompted,    \* the starts with an initial prompt
    NoReceipt, NoTerminal

Kind == {"start", "stop", "control", "interrupt"}

ASSUME LifecycleAssumption ==
    /\ KindOf \in [Command -> Kind]
    /\ Prompted \subseteq Command
    /\ NoTerminal \notin Command

IsLifecycleCommand(c) == KindOf[c] \in {"start", "stop"}

(* The stages of a command, in the order in which the adapter takes them. *)
StagesOf(c) ==
    CASE KindOf[c] = "start" -> IF c \in Prompted THEN <<"create_pane", "launch", "prompt">>
                                                  ELSE <<"create_pane", "launch">>
      [] KindOf[c] = "stop"  -> <<"close_pane">>
      [] OTHER               -> <<"send">>

StageSet(c) == {StagesOf(c)[i] : i \in DOMAIN StagesOf(c)}

Outcomes == {"not_attempted", "unknown", "confirmed"}

Event == [stage : {"create_pane", "launch", "prompt", "close_pane"},
          before : BOOLEAN, outcome : Outcomes]

Intent(stage)              == [stage |-> stage, before |-> TRUE, outcome |-> "unknown"]
Completion(stage, outcome) == [stage |-> stage, before |-> FALSE, outcome |-> outcome]

(* The outcome of a stage after the first n events of a receipt. *)
OutcomeAfter(events, n, stage) ==
    LET own == {i \in 1..n : events[i].stage = stage}
    IN  IF own = {} THEN "not_attempted"
        ELSE events[CHOOSE i \in own : \A j \in own : j <= i].outcome

LifecycleStageOutcome(r, stage) == OutcomeAfter(r.events, Len(r.events), stage)

(* An intent is the first event of its stage, follows a completion, and comes *)
(* after the stages it needs; a completion directly follows its intent.       *)
ValidateLifecycleReceipt(r, c) ==
    \A i \in 1..Len(r.events) :
        LET e == r.events[i] IN
        /\ e.stage \in StageSet(c)
        /\ e.before =>
             /\ e.outcome = "unknown"
             /\ i > 1 => ~r.events[i - 1].before
             /\ e.stage = "launch" => OutcomeAfter(r.events, i - 1, "create_pane") = "confirmed"
             /\ e.stage = "prompt" => OutcomeAfter(r.events, i - 1, "launch") = "confirmed"
             /\ \A j \in 1..(i - 1) : r.events[j].stage # e.stage
        /\ ~e.before =>
             /\ i > 1
             /\ r.events[i - 1].before
             /\ r.events[i - 1].stage = e.stage

IsPrefixOf(s, t) == Len(s) <= Len(t) /\ SubSeq(t, 1, Len(s)) = s

ValidateLifecycleAdvance(old, next, c) ==
    /\ next # NoReceipt
    /\ ValidateLifecycleReceipt(next, c)
    /\ old # NoReceipt => /\ old.incarnation = next.incarnation
                          /\ IsPrefixOf(old.events, next.events)

LifecycleHasUnknown(r, c) ==
    r # NoReceipt /\ \E s \in StageSet(c) : LifecycleStageOutcome(r, s) = "unknown"

LifecycleHasEffect(r, c) ==
    r # NoReceipt /\ \E s \in StageSet(c) : LifecycleStageOutcome(r, s) # "not_attempted"

LifecycleComplete(r, c) ==
    r # NoReceipt /\ \A s \in StageSet(c) : LifecycleStageOutcome(r, s) = "confirmed"

(* Whether a status may be claimed on the evidence of a receipt.  "own" tells *)
(* the coordinator's own reasons (deadline, disconnection, restart).          *)
ValidateLifecycleResult(status, r, c, own) ==
    CASE status = "succeeded"     -> LifecycleComplete(r, c)
      [] status = "indeterminate" -> r = NoReceipt \/ LifecycleHasUnknown(r, c) \/ own
      [] status = "failed"        -> /\ LifecycleHasEffect(r, c)
                                     /\ ~LifecycleHasUnknown(r, c)
                                     /\ ~LifecycleComplete(r, c)
      [] OTHER                    -> ~LifecycleHasEffect(r, c)

(* Mutant of DerivedStatus: partial evidence is judged before doubt. *)
DerivedStatusHasty(r, c) ==
    IF LifecycleComplete(r, c) THEN {"succeeded"}
    ELSE IF LifecycleHasEffect(r, c) THEN {"failed"}
    ELSE {"rejected", "timed_out"}

(* The outcomes a node may derive from the receipt it finds in its journal at *)
(* the end of a mutation.  Without an effect the error decides.               *)
DerivedStatus(r, c) ==
    IF LifecycleHasUnknown(r, c) THEN {"indeterminate"}
    ELSE IF LifecycleComplete(r, c) THEN {"succeeded"}
    ELSE IF LifecycleHasEffect(r, c) THEN {"failed"}
    ELSE {"rejected", "timed_out"}

(* The outcome of a command whose worker is gone. *)
RecoveredStatus(r, c) ==
    IF ~IsLifecycleCommand(c) THEN "indeterminate"
    ELSE IF LifecycleComplete(r, c) THEN "succeeded"
    ELSE IF LifecycleHasUnknown(r, c) THEN "indeterminate"
    ELSE IF LifecycleHasEffect(r, c) THEN "failed"
    ELSE "rejected"

(* The terminal a start's receipt knows of. *)
ReceiptTerminal(r, c) ==
    IF LifecycleStageOutcome(r, "create_pane") = "confirmed" THEN c ELSE NoTerminal

(* Mutant of Unresolved: only what is still under way counts. *)
UnresolvedActive(status, r, c) == status \in {"accepted", "running"}

Unresolved(status, r, c) ==
    status \in {"accepted", "running", "indeterminate"} \/ LifecycleHasUnknown(r, c)

(* Whether an earlier command that is not settled keeps "current" away.  An   *)
(* incarnation 0 is one that is not known: it is taken for any.               *)
LifecycleConflict(prior, r, status, priorScope, current, scope) ==
    /\ prior # current
    /\ Unresolved(status, r, prior)
    /\ priorScope = 0 \/ scope = 0 \/ priorScope = scope
    /\ \/ /\ KindOf[current] = "start"
          /\ KindOf[prior] = "start"
          /\ WorkspaceOf[current] = WorkspaceOf[prior]
       \/ /\ KindOf[current] = "control"
          /\ KindOf[prior] \in {"control", "stop"}
          /\ TerminalOf[current] = TerminalOf[prior]
       \/ /\ KindOf[current] = "control"
          /\ KindOf[prior] = "start"
          /\ r # NoReceipt => ReceiptTerminal(r, prior) \in {NoTerminal, TerminalOf[current]}
=============================================================================
