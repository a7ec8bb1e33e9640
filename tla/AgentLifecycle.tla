--------------------------- MODULE AgentLifecycle ---------------------------
(***************************************************************************)
(* Starting, stopping and controlling the agents of one node, from the     *)
(* coordinator's record to the native effects.  The coordinator admits     *)
(* a command behind a fence and sends it; one of three workers of the node *)
(* claims it behind a second fence, pins it to a native incarnation, and   *)
(* takes its stages one by one, each between an intent and a completion in *)
(* the journal.  Progress and results travel on different channels, are    *)
(* lost with the stream, and only the results are sent again.              *)
(*   (server/lifecycle.go, state/commands.go, state/lifecycle*.go,         *)
(*    state/node_journal.go, node/lifecycle.go, node/agents.go,            *)
(*    node/node.go, herdr/lifecycle*.go, herdr/agent.go)                   *)
(*                                                                         *)
(* Queues never fill here, and the identity and authorization checks that  *)
(* admit a stream are those of the other modules.  A precondition that is  *)
(* refused (a project, a workspace, a busy or a changed agent) is one      *)
(* nondeterministic refusal.                                               *)
(***************************************************************************)
EXTENDS LifecycleReceipt

CONSTANTS
    Unpinned,          \* the commands for the default session, whose incarnation
                       \* only the node knows
    Native,            \* the terminals of agents that nobody started from here
    MaxCommands,       \* the records the coordinator keeps
    MaxProgress,       \* the capacity of the progress channel
    MaxIncarnation,    \* bound: native servers over time
    MaxStreams         \* bound: streams over time

ASSUME BoundAssumption ==
    /\ Unpinned \subseteq Command
    /\ Native \cap Command = {} /\ NoTerminal \notin Native
    /\ MaxCommands \in Nat /\ MaxProgress \in Nat
    /\ MaxIncarnation \in Nat \ {0}
    /\ MaxStreams \in Nat

VARIABLES
    rec,          \* the coordinator's record of each command
    journal,      \* the node's entry of each command
    work,         \* what each worker of the stream is doing
    toNode,       \* commands sent and not yet claimed
    progress,     \* receipts sent and not yet handled, oldest first
    results,      \* the commands whose result is on its way
    up,           \* the stream: is it open, and how many there were
    incarnation,  \* the native server's incarnation
    terminals,    \* the starts whose terminal exists in this incarnation
    did,          \* the stages whose native effect happened, for each command
    repeated,     \* an effect happened a second time
    refused       \* the coordinator refused what the node reported

vars == <<rec, journal, work, toNode, progress, results, up, incarnation, terminals,
          did, repeated, refused>>

native == <<incarnation, terminals, did, repeated>>
messages == <<toNode, progress, results>>

Workers == {"lifecycle", "interrupt", "ordinary"}
WorkerFor(c) == CASE KindOf[c] = "start" -> "lifecycle"
                  [] KindOf[c] \in {"stop", "interrupt"} -> "interrupt"
                  [] OTHER -> "ordinary"

Idle == [id |-> NoTerminal, step |-> "idle", outcome |-> "not_attempted"]
At(c, step) == [id |-> c, step |-> step, outcome |-> "not_attempted"]

Open == {"accepted", "running", "indeterminate"}

Init ==
    /\ rec = [c \in Command |-> [status |-> "none", receipt |-> NoReceipt, scope |-> 0, told |-> FALSE]]
    /\ journal = [c \in Command |-> [status |-> "none", receipt |-> NoReceipt, scope |-> 0]]
    /\ work = [w \in Workers |-> Idle]
    /\ toNode = {} /\ progress = <<>> /\ results = {}
    /\ up = [open |-> TRUE, count |-> 0]
    /\ incarnation = 1
    /\ terminals = Native
    /\ did = [c \in Command |-> {}]
    /\ repeated = FALSE /\ refused = FALSE

-----------------------------------------------------------------------------
(* The coordinator. *)

KnownScope(r, scope) == IF r # NoReceipt THEN r.incarnation ELSE scope

CoordinatorFenced(c, scope) ==
    \E p \in Command :
        /\ rec[p].status \in Open
        /\ LifecycleConflict(p, rec[p].receipt, rec[p].status,
                             KnownScope(rec[p].receipt, rec[p].scope), c, scope)

(* A stop or a control names a terminal that was reported. *)
Submit(c) ==
    /\ up.open
    /\ rec[c].status = "none"
    /\ Cardinality({p \in Command : rec[p].status # "none"}) < MaxCommands
    /\ KindOf[c] # "start" => TerminalOf[c] \in terminals
    /\ LET scope == IF c \in Unpinned THEN 0 ELSE incarnation IN
       /\ ~CoordinatorFenced(c, scope)
       /\ rec' = [rec EXCEPT ![c].status = "accepted", ![c].scope = scope]
    /\ UNCHANGED <<journal, work, messages, up, native, refused>>

Dispatch(c) ==
    /\ up.open
    /\ rec[c].status = "accepted"
    /\ rec' = [rec EXCEPT ![c].status = "running"]
    /\ toNode' = toNode \cup {c}
    /\ UNCHANGED <<journal, work, progress, results, up, native, refused>>

(* The deadline passes, or the authorization is withdrawn before the command *)
(* is sent.                                                                  *)
Expire(c) ==
    /\ \/ /\ rec[c].status = "accepted"
          /\ \E s \in {"timed_out", "rejected"} : rec' = [rec EXCEPT ![c].status = s]
       \/ /\ rec[c].status = "running"
          /\ rec' = [rec EXCEPT ![c].status = "indeterminate"]
    /\ UNCHANGED <<journal, work, messages, up, native, refused>>

AfterStream(r) ==
    CASE r.status = "accepted" -> [r EXCEPT !.status = "unavailable"]
      [] r.status = "running"  -> [r EXCEPT !.status = "indeterminate"]
      [] OTHER                 -> r

StreamLost(open) ==
    /\ up' = [up EXCEPT !.open = open]
    /\ rec' = [c \in Command |-> AfterStream(rec[c])]
    /\ toNode' = {} /\ progress' = <<>> /\ results' = {}

(* The stream ends or the coordinator restarts.  The node's workers run on, *)
(* with a cancelled context.                                                *)
StreamEnds ==
    /\ up.open
    /\ StreamLost(FALSE)
    /\ UNCHANGED <<journal, work, native, refused>>

(* What the coordinator cannot accept ends the stream, and the node with it. *)
Refuse == /\ refused' = TRUE
          /\ StreamLost(FALSE)

(* Mutant of Overtaken: progress that a result overtook counts as new. *)
OvertakenNever(old, r) == FALSE

(* Progress and results travel on different channels: what arrives may be an *)
(* earlier part of what is known.                                            *)
Overtaken(old, r) == old # NoReceipt /\ Len(r.events) <= Len(old.events)

SaveCommandProgress ==
    /\ up.open /\ progress # <<>>
    /\ LET c == Head(progress).id
           r == Head(progress).receipt
           old == rec[c].receipt
       IN  IF Overtaken(old, r)
           THEN IF ValidateLifecycleAdvance(r, old, c)
                THEN /\ progress' = Tail(progress)
                     /\ UNCHANGED <<rec, toNode, results, up, refused>>
                ELSE Refuse
           ELSE IF rec[c].status \in {"running", "indeterminate"} /\ ValidateLifecycleAdvance(old, r, c)
                THEN /\ progress' = Tail(progress)
                     /\ rec' = [rec EXCEPT ![c].receipt = r]
                     /\ UNCHANGED <<toNode, results, up, refused>>
                ELSE Refuse
    /\ UNCHANGED <<journal, work, native>>

FinishTo(c, next) ==
    /\ rec' = [rec EXCEPT ![c] = next]
    /\ results' = results \ {c}
    /\ UNCHANGED <<toNode, progress, up, refused>>

finishLifecycleRecord(c) ==
    LET old  == rec[c]
        next == [old EXCEPT !.status = journal[c].status, !.receipt = journal[c].receipt, !.told = TRUE]
    IN  IF old = next THEN FinishTo(c, old)
        ELSE IF /\ old.status \in {"running", "indeterminate"}
                /\ IF next.receipt # NoReceipt
                   THEN ValidateLifecycleAdvance(old.receipt, next.receipt, c)
                   ELSE old.receipt = NoReceipt
                /\ ValidateLifecycleResult(next.status, next.receipt, c, FALSE)
             THEN FinishTo(c, next)
             ELSE Refuse

finishOtherRecord(c) ==
    LET old == rec[c] IN
    IF \/ journal[c].status = "indeterminate" /\ old.status \notin {"none", "accepted", "running"}
       \/ old.status = journal[c].status
    THEN FinishTo(c, old)
    ELSE IF old.status \in {"running", "indeterminate"}
         THEN FinishTo(c, [old EXCEPT !.status = journal[c].status, !.told = TRUE])
         ELSE Refuse

FinishCommand(c) ==
    /\ up.open /\ c \in results
    /\ IF IsLifecycleCommand(c) THEN finishLifecycleRecord(c) ELSE finishOtherRecord(c)
    /\ UNCHANGED <<journal, work, native>>

-----------------------------------------------------------------------------
(* The node's journal. *)

NodeFenced(c, scope) ==
    \E p \in Command :
        /\ journal[p].status \in {"running", "indeterminate"}
        /\ ~(journal[p].scope # 0 /\ scope # 0 /\ journal[p].scope # scope)
        /\ LifecycleConflict(p, journal[p].receipt, journal[p].status,
                             KnownScope(journal[p].receipt, rec[p].scope), c, scope)

(* A worker takes a command: it is refused behind the fence, or its intent *)
(* is stored before anything else.                                         *)
Claim(c) ==
    /\ up.open /\ c \in toNode
    /\ work[WorkerFor(c)] = Idle
    /\ journal[c].status = "none"
    /\ toNode' = toNode \ {c}
    /\ IF NodeFenced(c, rec[c].scope)
       THEN /\ journal' = [journal EXCEPT ![c].status = "rejected"]
            /\ results' = results \cup {c}
            /\ UNCHANGED work
       ELSE /\ journal' = [journal EXCEPT ![c].status = "running"]
            /\ work' = [work EXCEPT ![WorkerFor(c)] = At(c, "begin")]
            /\ UNCHANGED results
    /\ UNCHANGED <<rec, progress, up, native, refused>>

(* The scope and the receipt of a command, once it is allowed through the *)
(* fence for the incarnation it is pinned to.                             *)
SaveLifecycle(c, r) ==
    /\ ValidateLifecycleAdvance(journal[c].receipt, r, c)
    /\ ~NodeFenced(c, r.incarnation)
    /\ journal' = [journal EXCEPT ![c].receipt = r, ![c].scope = r.incarnation]

PinAgentCommand(c) ==
    /\ ~NodeFenced(c, incarnation)
    /\ journal[c].scope \in {0, incarnation}
    /\ journal' = [journal EXCEPT ![c].scope = incarnation]

(* A worker waits for room in the channel as long as its context lasts: then *)
(* the hook fails, with its receipt stored.                                  *)
Room == up.open => Len(progress) < MaxProgress

SendProgress(c, r) ==
    /\ Room
    /\ progress' = IF up.open THEN Append(progress, [id |-> c, receipt |-> r]) ELSE progress

SetStep(c, step) == work' = [work EXCEPT ![WorkerFor(c)] = At(c, step)]
Working(c, step) == work[WorkerFor(c)].id = c /\ work[WorkerFor(c)].step = step

(* The session is that of the incarnation the command asked for, if any. *)
SessionResolves(c) == rec[c].scope \in {0, incarnation}

LastStage(r) == r.events[Len(r.events)].stage

(* The stage that a receipt leaves to do next. *)
NextStage(c) ==
    LET todo == {i \in DOMAIN StagesOf(c) : \A e \in DOMAIN journal[c].receipt.events :
                    journal[c].receipt.events[e].stage # StagesOf(c)[i]}
    IN  IF todo = {} THEN NoTerminal
        ELSE StagesOf(c)[CHOOSE i \in todo : \A j \in todo : i <= j]

Release(c) == work' = [work EXCEPT ![WorkerFor(c)] = Idle]

(* The mutation of a start or stop: the initial checkpoint, or a refusal. *)
(* A context that ended since the claim leaves the intent alone.          *)
Begin(c) ==
    /\ IsLifecycleCommand(c) /\ Working(c, "begin")
    /\ \/ ~up.open /\ Release(c) /\ UNCHANGED journal
       \/ SetStep(c, "finish") /\ UNCHANGED journal
       \/ /\ up.open /\ SessionResolves(c)
          /\ SaveLifecycle(c, [incarnation |-> incarnation, events |-> <<>>])
          /\ SetStep(c, "ready")
    /\ UNCHANGED <<rec, messages, up, native, refused>>

(* The hook before an effect.  The intent may be stored even when the caller *)
(* is told that it was not; a check that fails comes before the intent.      *)
Intend(c) ==
    /\ IsLifecycleCommand(c) /\ Working(c, "ready")
    /\ LET r    == journal[c].receipt
           next == [r EXCEPT !.events = Append(@, Intent(NextStage(c)))]
       IN  \/ SetStep(c, "finish") /\ UNCHANGED <<journal, progress>>
           \/ /\ up.open /\ NextStage(c) # NoTerminal
              /\ SaveLifecycle(c, next)
              /\ \/ SetStep(c, "effect") /\ SendProgress(c, next)
                 \/ SetStep(c, "finish") /\ UNCHANGED progress
    /\ UNCHANGED <<rec, toNode, results, up, native, refused>>

(* What a stage does to the native server. *)
Perform(c, stage) ==
    /\ did' = [did EXCEPT ![c] = @ \cup {stage}]
    /\ repeated' = (repeated \/ stage \in did[c])
    /\ terminals' = CASE stage = "create_pane" -> terminals \cup {c}
                      [] stage = "close_pane"  -> terminals \ {TerminalOf[c]}
                      [] OTHER                 -> terminals
    /\ UNCHANGED incarnation

TargetThere(c, stage) == KindOf[c] # "start" \/ stage # "create_pane" =>
    (IF KindOf[c] = "start" THEN c ELSE TerminalOf[c]) \in terminals

(* The guarded effect: the session and the target are looked at once more,  *)
(* and only what fails before the request counts as not attempted.  What    *)
(* the server did is known for certain when its answer says so.             *)
EffectWith(c, answers) ==
    /\ IsLifecycleCommand(c) /\ Working(c, "effect")
    /\ LET stage == LastStage(journal[c].receipt)
           Observe(outcome) == work' = [work EXCEPT ![WorkerFor(c)].step = "record",
                                                    ![WorkerFor(c)].outcome = outcome]
       IN  \/ Observe("not_attempted") /\ UNCHANGED native
           \/ /\ up.open /\ incarnation = journal[c].receipt.incarnation
              /\ TargetThere(c, stage)
              /\ \/ Observe("unknown") /\ UNCHANGED native
                 \/ Perform(c, stage) /\ \E o \in answers : Observe(o)
    /\ UNCHANGED <<rec, journal, messages, up, refused>>

(* Mutant of Effect: a request without an answer counts as not attempted. *)
EffectDenied(c) == EffectWith(c, {"not_attempted", "confirmed"})

Effect(c) == EffectWith(c, {"unknown", "confirmed"})

(* The hook after an effect, with a context of its own. *)
Record(c) ==
    /\ IsLifecycleCommand(c) /\ Working(c, "record")
    /\ LET r       == journal[c].receipt
           outcome == work[WorkerFor(c)].outcome
           next    == [r EXCEPT !.events = Append(@, Completion(LastStage(r), outcome))]
       IN  \/ SetStep(c, "finish") /\ UNCHANGED <<journal, progress>>
           \/ /\ SaveLifecycle(c, next)
              /\ \/ SendProgress(c, next)
                    /\ SetStep(c, IF outcome = "confirmed" THEN "ready" ELSE "finish")
                 \/ ~Room /\ SetStep(c, "finish") /\ UNCHANGED progress
    /\ UNCHANGED <<rec, toNode, results, up, native, refused>>

Complete(c, status) ==
    /\ journal' = [journal EXCEPT ![c].status = status]
    /\ results' = IF up.open THEN results \cup {c} ELSE results
    /\ Release(c)

(* The end of a start or stop: the journal's own receipt is the evidence. *)
Finish(c) ==
    /\ IsLifecycleCommand(c) /\ Working(c, "finish")
    /\ \E s \in DerivedStatus(journal[c].receipt, c) : Complete(c, s)
    /\ UNCHANGED <<rec, toNode, progress, up, native, refused>>

-----------------------------------------------------------------------------
(* A control is pinned when it begins and again right before it is sent. *)

(* A context that ends leaves the intent to the recovery. *)
Abandon(c) ==
    /\ ~up.open
    /\ Release(c)
    /\ UNCHANGED <<journal, results>>

RefuseControl(c) == \E s \in {"rejected", "timed_out"} : Complete(c, s)

PinControl(c, from, to) ==
    /\ ~IsLifecycleCommand(c) /\ Working(c, from)
    /\ \/ Abandon(c)
       \/ up.open /\ RefuseControl(c)
       \/ /\ up.open /\ SessionResolves(c) /\ TargetThere(c, "send")
          /\ PinAgentCommand(c)
          /\ SetStep(c, to)
          /\ UNCHANGED results
    /\ UNCHANGED <<rec, toNode, progress, up, native, refused>>

BeginControl(c) == PinControl(c, "begin", "pinned")
PinAgain(c)     == PinControl(c, "pinned", "effect")

(* The keys or the prompt go out, or the request fails on the way. *)
SendControl(c) ==
    /\ ~IsLifecycleCommand(c) /\ Working(c, "effect")
    /\ \/ UNCHANGED native /\ work' = [work EXCEPT ![WorkerFor(c)].step = "finish",
                                                   ![WorkerFor(c)].outcome = "unknown"]
       \/ /\ incarnation = journal[c].scope /\ TerminalOf[c] \in terminals
          /\ Perform(c, "send")
          /\ \E o \in {"unknown", "confirmed"} :
                work' = [work EXCEPT ![WorkerFor(c)].step = "finish", ![WorkerFor(c)].outcome = o]
    /\ UNCHANGED <<rec, journal, messages, up, refused>>

(* A context that ended since leaves even a confirmed control to recovery, *)
(* and so does one that cannot be confirmed of the same session.           *)
FinishControl(c) ==
    /\ ~IsLifecycleCommand(c) /\ Working(c, "finish")
    /\ \/ Abandon(c)
       \/ up.open /\ Complete(c, "indeterminate")
       \/ /\ up.open /\ work[WorkerFor(c)].outcome = "confirmed"
          /\ incarnation = journal[c].scope
          /\ Complete(c, "succeeded")
    /\ UNCHANGED <<rec, toNode, progress, up, native, refused>>

-----------------------------------------------------------------------------
(* Crashes, restarts and reconnections. *)

NodeCrashes ==
    /\ StreamLost(FALSE)
    /\ \E w \in Workers : work[w] # Idle
    /\ work' = [w \in Workers |-> Idle]
    /\ UNCHANGED <<journal, native, refused>>

(* A node whose workers are done recovers its journal, connects, and sends *)
(* every result that is not acknowledged; an acknowledgement may be lost.  *)
Connect ==
    /\ ~up.open /\ up.count < MaxStreams /\ ~refused
    /\ \A w \in Workers : work[w] = Idle
    /\ up' = [open |-> TRUE, count |-> up.count + 1]
    /\ journal' = [c \in Command |->
                     IF journal[c].status = "running"
                     THEN [journal[c] EXCEPT !.status = RecoveredStatus(journal[c].receipt, c)]
                     ELSE journal[c]]
    /\ results' = {c \in Command : journal[c].status # "none"}
    /\ UNCHANGED <<rec, work, toNode, progress, native, refused>>

NativeRestart ==
    /\ incarnation < MaxIncarnation
    /\ incarnation' = incarnation + 1
    /\ terminals' = {}
    /\ UNCHANGED <<rec, journal, work, messages, up, did, repeated, refused>>

Next ==
    \/ \E c \in Command :
        \/ Submit(c) \/ Dispatch(c) \/ Expire(c) \/ FinishCommand(c)
        \/ Claim(c) \/ Begin(c) \/ Intend(c) \/ Effect(c) \/ Record(c) \/ Finish(c)
        \/ BeginControl(c) \/ PinAgain(c) \/ SendControl(c) \/ FinishControl(c)
    \/ SaveCommandProgress \/ StreamEnds \/ NodeCrashes \/ Connect \/ NativeRestart

Spec == Init /\ [][Next]_vars

-----------------------------------------------------------------------------
(* Properties. *)

(* No native effect of a start or a stop happens twice, and none is ever     *)
(* denied: the journal, which is all that survives a crash, never says       *)
(* "not attempted" of an effect that happened, and never confirms one that   *)
(* did not.  (The two hooks around an effect, and the reload at the end.)    *)
EffectsRemembered ==
    /\ ~repeated
    /\ \A c \in Command : IsLifecycleCommand(c) =>
         IF journal[c].receipt = NoReceipt THEN did[c] = {}
         ELSE \A s \in StageSet(c) :
                LET outcome == LifecycleStageOutcome(journal[c].receipt, s)
                IN  /\ s \in did[c] => outcome # "not_attempted"
                    /\ outcome = "confirmed" => s \in did[c]

Agrees(status, c) ==
    CASE status = "succeeded" -> did[c] = StageSet(c)
      [] status = "failed"    -> did[c] # {} /\ did[c] # StageSet(c)
      [] status \in {"rejected", "timed_out", "unavailable"} -> did[c] = {}
      [] OTHER                -> TRUE

(* What is said at the end is true of the native server: success means that  *)
(* every stage happened, failure that some did and some did not, and every   *)
(* other conclusion that none did.  It holds of the node's result and of the *)
(* coordinator's record, whatever was lost, repeated or recovered between.   *)
HonestLifecycle == \A c \in Command : Agrees(journal[c].status, c) /\ Agrees(rec[c].status, c)

Unsettled(c) == journal[c].status \in {"running", "indeterminate"}

(* The commands that must not act on one native thing while the outcome of   *)
(* the other is open.                                                        *)
Rivals(a, b) ==
    \/ /\ KindOf[a] = "start" /\ KindOf[b] = "start"
       /\ WorkspaceOf[a] = WorkspaceOf[b]
    \/ /\ KindOf[a] = "control" /\ KindOf[b] = "control"
       /\ TerminalOf[a] = TerminalOf[b]
    \/ /\ KindOf[a] = "control" /\ KindOf[b] = "start"
       /\ TerminalOf[a] = b

(* Two rival commands that the node has let through to one native            *)
(* incarnation are never open at once, although they run in different        *)
(* workers and the first may be long gone.                                   *)
Apart ==
    \A a, b \in Command :
        (Unsettled(a) /\ Unsettled(b) /\ a # b /\ Rivals(a, b) /\ journal[a].scope # 0)
            => journal[a].scope # journal[b].scope

(* The coordinator never refuses what the node reports of a command, and its *)
(* receipt is always one the node's journal once had: late progress, a       *)
(* result that overtakes it and a replay after a reconnection all agree.     *)
Reconcilable ==
    /\ ~refused
    /\ \A c \in Command : rec[c].receipt # NoReceipt =>
         /\ journal[c].receipt # NoReceipt
         /\ rec[c].receipt.incarnation = journal[c].receipt.incarnation
         /\ IsPrefixOf(rec[c].receipt.events, journal[c].receipt.events)
=============================================================================
