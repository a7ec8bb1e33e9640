------------------------ MODULE AgentLifecycleProofs ------------------------
(***************************************************************************)
(* EffectsRemembered, HonestLifecycle, Apart and Reconcilable for any      *)
(* number of commands, incarnations, streams and pieces of progress.       *)
(*                                                                         *)
(* An event changes the outcome of its own stage only, so the evidence of  *)
(* a receipt is followed event by event.  For each command the invariant   *)
(* says what its journal entry shows of what was done, what its worker may *)
(* rely on at each step, and how the coordinator's record lags behind the  *)
(* entry; for pairs of rivals, which of the two passed the fence last.     *)
(* From it: conclusions stand, and the whole implements CommandContract.   *)
(***************************************************************************)
EXTENDS AgentLifecycle, ManagedRequests, FiniteSetTheorems, WellFoundedInduction, TLAPS

Final    == {"succeeded", "failed", "rejected", "timed_out", "unavailable"}
Statuses == {"none", "accepted", "running", "indeterminate"} \cup Final
Receipts == [incarnation : Nat, events : Seq(Event)]
Steps    == {"idle", "begin", "ready", "effect", "record", "finish", "pinned"}

TypeInv ==
    /\ rec \in [Command -> [status : Statuses, receipt : Receipts \cup {NoReceipt},
                            scope : Nat, told : BOOLEAN]]
    /\ journal \in [Command -> [status : Statuses, receipt : Receipts \cup {NoReceipt}, scope : Nat]]
    /\ work \in [Workers -> [id : Command \cup {NoTerminal}, step : Steps, outcome : Outcomes]]
    /\ toNode \subseteq Command /\ results \subseteq Command
    /\ progress \in Seq([id : Command, receipt : Receipts])
    /\ up \in [open : BOOLEAN, count : Nat]
    /\ incarnation \in Nat \ {0}
    /\ did \in [Command -> SUBSET {"create_pane", "launch", "prompt", "close_pane", "send"}]

(* What a receipt and the effects that happened say of each other. *)
Evidence(r, d, c) ==
    IF r = NoReceipt THEN d = {}
    ELSE \A s \in StageSet(c) :
           /\ s \in d => LifecycleStageOutcome(r, s) # "not_attempted"
           /\ LifecycleStageOutcome(r, s) = "confirmed" => s \in d

EntryOk(c) ==
    LET j == journal[c] IN
    /\ did[c] \subseteq StageSet(c)
    /\ IsLifecycleCommand(c) => Evidence(j.receipt, did[c], c)
    /\ j.status = "none" => j.receipt = NoReceipt /\ j.scope = 0 /\ did[c] = {}
    /\ j.status \notin {"accepted", "unavailable"}
    /\ Agrees(j.status, c)
    /\ IsLifecycleCommand(c) /\ j.status \notin {"none", "running"} =>
          ValidateLifecycleResult(j.status, j.receipt, c, FALSE)
    /\ j.receipt # NoReceipt =>
          /\ IsLifecycleCommand(c) /\ ValidateLifecycleReceipt(j.receipt, c)
          /\ j.scope = j.receipt.incarnation
    /\ j.receipt = NoReceipt /\ j.scope # 0 =>
          ~IsLifecycleCommand(c) /\ rec[c].scope \in {0, j.scope}

(* Of an earlier state of the entry's receipt. *)
Earlier(r, c) ==
    /\ r # NoReceipt /\ journal[c].receipt # NoReceipt
    /\ ValidateLifecycleReceipt(r, c)
    /\ r.incarnation = journal[c].receipt.incarnation
    /\ IsPrefixOf(r.events, journal[c].receipt.events)

RecordOk(c) ==
    LET r == rec[c]
        j == journal[c] IN
    /\ c \in toNode => r.status \in {"running", "indeterminate"} /\ j.status = "none"
    /\ c \in results => j.status \notin {"none", "running"}
    /\ j.status # "none" => r.status \notin {"none", "accepted"}
    /\ r.status \in Final =>
          IF j.status = "none" THEN r.status \in {"rejected", "timed_out", "unavailable"}
          ELSE /\ r.status = j.status
               /\ IsLifecycleCommand(c) => r.receipt = j.receipt /\ r.told = TRUE
    /\ r.receipt # NoReceipt => Earlier(r.receipt, c)

LastEvent(c) == journal[c].receipt.events[Len(journal[c].receipt.events)]

(* What the worker that has the command may rely on. *)
WorkOk(c) ==
    LET w == work[WorkerFor(c)] IN
    w.id = c =>
       /\ journal[c].status = "running"
       /\ w.step = "begin" => journal[c].receipt = NoReceipt /\ did[c] = {}
       /\ IsLifecycleCommand(c) =>
            /\ w.step \in {"begin", "ready", "effect", "record", "finish"}
            /\ w.step \in {"ready", "effect", "record"} => journal[c].receipt # NoReceipt
            /\ w.step \in {"effect", "record"} =>
                  /\ journal[c].receipt.events # <<>>
                  /\ LastEvent(c).stage \in StageSet(c) /\ LastEvent(c).outcome = "unknown"
            /\ w.step = "effect" => LastEvent(c).stage \notin did[c]
            /\ w.step = "record" =>
                  /\ w.outcome = "confirmed" => LastEvent(c).stage \in did[c]
                  /\ w.outcome = "not_attempted" => LastEvent(c).stage \notin did[c]
       /\ ~IsLifecycleCommand(c) =>
            /\ w.step \in {"begin", "pinned", "effect", "finish"}
            /\ w.step # "finish" => did[c] = {}
            /\ w.step = "finish" /\ w.outcome = "confirmed" => did[c] = StageSet(c)

ProgressOk ==
    \A i \in 1..Len(progress) : Earlier(progress[i].receipt, progress[i].id)

(* A terminal of a start was created under its receipt, and a control was *)
(* pinned when its terminal was there.                                    *)
TargetsOk ==
    /\ \A t \in terminals \cap Command : journal[t].receipt # NoReceipt
    /\ \A c \in Command :
          KindOf[c] = "control" /\ journal[c].scope # 0 /\ TerminalOf[c] \in Command =>
             journal[TerminalOf[c]].receipt # NoReceipt

CommandOk(c) == EntryOk(c) /\ RecordOk(c) /\ WorkOk(c)

LifecycleInv ==
    /\ TypeInv
    /\ \A c \in Command : CommandOk(c)
    /\ ProgressOk /\ TargetsOk /\ Apart
    /\ repeated = FALSE /\ refused = FALSE
-----------------------------------------------------------------------------
(* The least and the greatest of some numbers. *)

Less == {p \in Nat \X Nat : p[1] < p[2]}

LEMMA Least ==
    ASSUME NEW S \in SUBSET Nat, S # {}
    PROVE  \E i \in S : \A j \in S : i <= j
<1>1. IsWellFoundedOn(Less, Nat)
  <2>1. OpToRel(<, Nat) = Less
      BY Zenon DEF OpToRel, Less
  <2> QED  BY <2>1, NatLessThanWellFounded, Zenon
<1>2. PICK x \in S : \A y \in S : ~(<<y, x>> \in Less)
    BY <1>1, WFMin
<1>3. ASSUME NEW y \in S PROVE x <= y
  <2>1. ~(<<y, x>> \in Less)
      BY <1>2
  <2> QED  BY <2>1 DEF Less
<1> QED  BY <1>3

LEMMA Greatest ==
    ASSUME NEW n \in Nat, NEW S \in SUBSET (1..n), S # {}
    PROVE  \E i \in S : \A j \in S : j <= i
<1> DEFINE T == {n - i : i \in S}
<1>1. T \in SUBSET Nat /\ T # {}
  <2>1. PICK i \in S : TRUE
      OBVIOUS
  <2>2. n - i \in T
      OBVIOUS
  <2>3. \A k \in S : n - k \in Nat
      OBVIOUS
  <2> QED  BY <2>2, <2>3
<1>2. PICK t \in T : \A u \in T : t <= u
  <2> HIDE DEF T
  <2> QED  BY <1>1, Least
<1>3. PICK i \in S : t = n - i
    OBVIOUS
<1>4. ASSUME NEW j \in S PROVE j <= i
  <2>1. n - j \in T
      OBVIOUS
  <2>2. n - i <= n - j
      BY <1>2, <1>3, <2>1
  <2> QED  BY <2>2
<1> QED  BY <1>4

-----------------------------------------------------------------------------
(* The outcome of a stage, event by event. *)

Own(E, n, s) == {i \in 1..n : E[i].stage = s}
Last(S)      == CHOOSE i \in S : \A j \in S : j <= i

LEMMA LastIn ==
    ASSUME NEW n \in Nat, NEW S \in SUBSET (1..n), S # {}
    PROVE  Last(S) \in S /\ \A j \in S : j <= Last(S)
  BY Greatest DEF Last

LEMMA OutcomeIs ==
    ASSUME NEW E, NEW n, NEW s
    PROVE  OutcomeAfter(E, n, s) = IF Own(E, n, s) = {} THEN "not_attempted"
                                   ELSE E[Last(Own(E, n, s))].outcome
  BY Zenon DEF OutcomeAfter, Own, Last

LEMMA OutcomeType ==
    ASSUME NEW E \in Seq(Event), NEW s
    PROVE  OutcomeAfter(E, Len(E), s) \in Outcomes
<1>1. CASE Own(E, Len(E), s) = {}
    BY <1>1, OutcomeIs DEF Outcomes
<1>2. CASE Own(E, Len(E), s) # {}
  <2>1. Own(E, Len(E), s) \in SUBSET (1..Len(E)) /\ Len(E) \in Nat
      BY DEF Own
  <2>2. Last(Own(E, Len(E), s)) \in 1..Len(E)
      BY <1>2, <2>1, LastIn
  <2>3. E[Last(Own(E, Len(E), s))] \in Event
      BY <2>2
  <2> QED  BY <1>2, <2>3, OutcomeIs DEF Event
<1> QED  BY <1>1, <1>2

LEMMA OutcomeNone ==
    ASSUME NEW E \in Seq(Event), NEW s, \A i \in 1..Len(E) : E[i].stage # s
    PROVE  OutcomeAfter(E, Len(E), s) = "not_attempted"
  BY OutcomeIs DEF Own

(* An event decides its own stage and no other. *)
LEMMA OutcomeAppend ==
    ASSUME NEW E \in Seq(Event), NEW e \in Event, NEW s
    PROVE  /\ Append(E, e) \in Seq(Event)
           /\ OutcomeAfter(Append(E, e), Len(Append(E, e)), s) =
                IF s = e.stage THEN e.outcome ELSE OutcomeAfter(E, Len(E), s)
<1> DEFINE F == Append(E, e)
           n == Len(E)
<1>1. /\ F \in Seq(Event) /\ Len(F) = n + 1 /\ n \in Nat /\ F[n + 1] = e
      /\ \A i \in 1..n : F[i] = E[i]
    OBVIOUS
<1> HIDE DEF F, n
<1>2. CASE s = e.stage
  <2>1. n + 1 \in Own(F, n + 1, s) /\ Own(F, n + 1, s) \in SUBSET (1..(n + 1)) /\ n + 1 \in Nat
      BY <1>1, <1>2 DEF Own
  <2>2. Last(Own(F, n + 1, s)) \in 1..(n + 1) /\ n + 1 <= Last(Own(F, n + 1, s))
      BY <2>1, LastIn
  <2>3. Last(Own(F, n + 1, s)) = n + 1
      BY <1>1, <2>2
  <2> QED  BY <1>1, <1>2, <2>1, <2>3, OutcomeIs DEF F
<1>3. CASE s # e.stage
  <2>1. Own(F, n + 1, s) = Own(E, n, s) /\ Own(E, n, s) \in SUBSET (1..n)
      BY <1>1, <1>3 DEF Own
  <2>2. CASE Own(E, n, s) = {}
      BY <1>1, <1>3, <2>1, <2>2, OutcomeIs DEF F, n
  <2>3. CASE Own(E, n, s) # {}
    <3>1. Last(Own(E, n, s)) \in 1..n
        BY <1>1, <2>1, <2>3, LastIn
    <3>2. F[Last(Own(E, n, s))] = E[Last(Own(E, n, s))]
        BY <1>1, <3>1
    <3> QED  BY <1>1, <1>3, <2>1, <2>3, <3>2, OutcomeIs DEF F, n
  <2> QED  BY <2>2, <2>3
<1> QED  BY <1>1, <1>2, <1>3 DEF F

(* The last event is the outcome of its stage. *)
LEMMA OutcomeLast ==
    ASSUME NEW E \in Seq(Event), E # <<>>
    PROVE  OutcomeAfter(E, Len(E), E[Len(E)].stage) = E[Len(E)].outcome
<1> DEFINE n == Len(E)
           s == E[Len(E)].stage
<1>0. n \in Nat \ {0}
    OBVIOUS
<1>1. n \in Nat /\ n \in Own(E, n, s) /\ Own(E, n, s) \in SUBSET (1..n)
    BY <1>0 DEF Own
<1>2. Last(Own(E, n, s)) \in 1..n /\ n <= Last(Own(E, n, s))
  <2> HIDE DEF n, s
  <2> QED  BY <1>1, LastIn
<1>3. Last(Own(E, n, s)) = n
    BY <1>1, <1>2
<1> QED  BY <1>1, <1>3, OutcomeIs

-----------------------------------------------------------------------------
(* Prefixes. *)

LEMMA PrefixIs ==
    ASSUME NEW T, NEW s \in Seq(T), NEW t \in Seq(T)
    PROVE  IsPrefixOf(s, t) <=> Len(s) <= Len(t) /\ \A i \in 1..Len(s) : s[i] = t[i]
<1>1. ASSUME Len(s) <= Len(t)
      PROVE  /\ SubSeq(t, 1, Len(s)) \in Seq(T) /\ Len(SubSeq(t, 1, Len(s))) = Len(s)
             /\ \A i \in 1..Len(s) : SubSeq(t, 1, Len(s))[i] = t[i]
    BY <1>1
<1>2. ASSUME NEW u \in Seq(T), Len(u) = Len(s)
      PROVE  u = s <=> \A i \in 1..Len(s) : s[i] = u[i]
    BY <1>2
<1> QED  BY <1>1, <1>2 DEF IsPrefixOf

LEMMA PrefixTransitive ==
    ASSUME NEW T, NEW s \in Seq(T), NEW t \in Seq(T), NEW u \in Seq(T),
           IsPrefixOf(s, t), IsPrefixOf(t, u)
    PROVE  IsPrefixOf(s, u)
<1>1. Len(s) \in Nat /\ Len(t) \in Nat /\ Len(u) \in Nat
    OBVIOUS
<1> QED  BY <1>1, PrefixIs

LEMMA PrefixSame == ASSUME NEW T, NEW s \in Seq(T) PROVE IsPrefixOf(s, s)
  BY PrefixIs

LEMMA PrefixAppend ==
    ASSUME NEW T, NEW s \in Seq(T), NEW e \in T
    PROVE  IsPrefixOf(s, Append(s, e))
<1>1. /\ Append(s, e) \in Seq(T) /\ Len(s) <= Len(Append(s, e))
      /\ \A i \in 1..Len(s) : s[i] = Append(s, e)[i]
    OBVIOUS
<1> QED  BY <1>1, PrefixIs

(* Of two prefixes of one sequence the shorter is a prefix of the longer. *)
LEMMA PrefixesNest ==
    ASSUME NEW T, NEW s \in Seq(T), NEW t \in Seq(T), NEW u \in Seq(T),
           IsPrefixOf(s, u), IsPrefixOf(t, u), Len(s) <= Len(t)
    PROVE  IsPrefixOf(s, t)
<1>1. Len(s) \in Nat /\ Len(t) \in Nat /\ Len(u) \in Nat
    OBVIOUS
<1> QED  BY <1>1, PrefixIs
-----------------------------------------------------------------------------
(* What a receipt supports. *)

LEMMA StageFacts ==
    ASSUME NEW c \in Command
    PROVE  /\ StageSet(c) # {}
           /\ IsLifecycleCommand(c) => StageSet(c) \subseteq {"create_pane", "launch", "prompt", "close_pane"}
           /\ ~IsLifecycleCommand(c) => StageSet(c) = {"send"}
           /\ WorkerFor(c) \in Workers
           /\ DOMAIN StagesOf(c) \subseteq Nat
<1>1. KindOf[c] \in Kind
    BY LifecycleAssumption
<1>2. \/ StagesOf(c) = <<"create_pane", "launch", "prompt">> /\ IsLifecycleCommand(c)
      \/ StagesOf(c) = <<"create_pane", "launch">> /\ IsLifecycleCommand(c)
      \/ StagesOf(c) = <<"close_pane">> /\ IsLifecycleCommand(c)
      \/ StagesOf(c) = <<"send">> /\ ~IsLifecycleCommand(c)
    BY <1>1 DEF StagesOf, IsLifecycleCommand, Kind
<1>3. WorkerFor(c) \in Workers
    BY <1>1 DEF WorkerFor, Workers, Kind
<1> QED  BY <1>2, <1>3 DEF StageSet

(* What is concluded from a receipt is true of the effects. *)
LEMMA JudgedHonestly ==
    ASSUME NEW c \in Command, IsLifecycleCommand(c), NEW r \in Receipts \cup {NoReceipt},
           did[c] \subseteq StageSet(c), Evidence(r, did[c], c),
           NEW s \in DerivedStatus(r, c) \cup {RecoveredStatus(r, c)}
    PROVE  /\ s \in {"succeeded", "failed", "rejected", "timed_out", "indeterminate"}
           /\ Agrees(s, c)
           /\ ValidateLifecycleResult(s, r, c, FALSE)
<1>0. StageSet(c) # {}
    BY StageFacts
<1>1. CASE r = NoReceipt
  <2>1. s \in {"rejected", "timed_out"} /\ did[c] = {} /\ ~LifecycleHasEffect(r, c)
      BY <1>1 DEF DerivedStatus, RecoveredStatus, LifecycleHasUnknown, LifecycleComplete,
                  LifecycleHasEffect, Evidence
  <2> QED  BY <2>1 DEF Agrees, ValidateLifecycleResult
<1>2. CASE r # NoReceipt
  <2> DEFINE O(t) == LifecycleStageOutcome(r, t)
  <2>1. /\ LifecycleHasUnknown(r, c) <=> \E t \in StageSet(c) : O(t) = "unknown"
        /\ LifecycleHasEffect(r, c) <=> \E t \in StageSet(c) : O(t) # "not_attempted"
        /\ LifecycleComplete(r, c) <=> \A t \in StageSet(c) : O(t) = "confirmed"
      BY <1>2 DEF LifecycleHasUnknown, LifecycleHasEffect, LifecycleComplete
  <2>2. \A t \in StageSet(c) : O(t) \in Outcomes
      BY <1>2, OutcomeType DEF LifecycleStageOutcome, Receipts
  <2>3. \A t \in StageSet(c) : (t \in did[c] => O(t) # "not_attempted") /\ (O(t) = "confirmed" => t \in did[c])
      BY <1>2 DEF Evidence
  <2> HIDE DEF O
  <2>4. CASE LifecycleHasUnknown(r, c)
    <3>1. s = "indeterminate"
      <4>1. ~LifecycleComplete(r, c)
          BY <1>0, <2>1, <2>4
      <4>2. DerivedStatus(r, c) = {"indeterminate"} /\ RecoveredStatus(r, c) = "indeterminate"
          BY <2>4, <4>1 DEF DerivedStatus, RecoveredStatus
      <4> QED  BY <4>2
    <3> QED  BY <2>4, <3>1 DEF Agrees, ValidateLifecycleResult
  <2>5. CASE ~LifecycleHasUnknown(r, c) /\ LifecycleComplete(r, c)
    <3>1. s = "succeeded"
      <4>1. DerivedStatus(r, c) = {"succeeded"} /\ RecoveredStatus(r, c) = "succeeded"
          BY <2>5 DEF DerivedStatus, RecoveredStatus
      <4> QED  BY <4>1
    <3>2. did[c] = StageSet(c)
        BY <2>1, <2>3, <2>5
    <3> QED  BY <2>5, <3>1, <3>2 DEF Agrees, ValidateLifecycleResult
  <2>6. CASE ~LifecycleHasUnknown(r, c) /\ ~LifecycleComplete(r, c) /\ LifecycleHasEffect(r, c)
    <3>1. s = "failed"
      <4>1. DerivedStatus(r, c) = {"failed"} /\ RecoveredStatus(r, c) = "failed"
          BY <2>6 DEF DerivedStatus, RecoveredStatus
      <4> QED  BY <4>1
    <3>2. did[c] # {} /\ did[c] # StageSet(c)
        BY <2>1, <2>2, <2>3, <2>6 DEF Outcomes
    <3> QED  BY <2>6, <3>1, <3>2 DEF Agrees, ValidateLifecycleResult
  <2>7. CASE ~LifecycleHasUnknown(r, c) /\ ~LifecycleComplete(r, c) /\ ~LifecycleHasEffect(r, c)
    <3>1. s \in {"rejected", "timed_out"}
      <4>1. DerivedStatus(r, c) = {"rejected", "timed_out"} /\ RecoveredStatus(r, c) = "rejected"
          BY <2>7 DEF DerivedStatus, RecoveredStatus
      <4> QED  BY <4>1
    <3>2. did[c] = {}
        BY <2>1, <2>3, <2>7
    <3> QED  BY <2>7, <3>1, <3>2 DEF Agrees, ValidateLifecycleResult
  <2> QED  BY <2>4, <2>5, <2>6, <2>7
<1> QED  BY <1>1, <1>2

-----------------------------------------------------------------------------
(* Steps that concern one command. *)

Records == [status : Statuses, receipt : Receipts \cup {NoReceipt}, scope : Nat, told : BOOLEAN]
Entries == [status : Statuses, receipt : Receipts \cup {NoReceipt}, scope : Nat]
Works   == [id : Command \cup {NoTerminal}, step : Steps, outcome : Outcomes]

LEMMA Untouched ==
    ASSUME NEW v \in Command, CommandOk(v),
           rec'[v] = rec[v], journal'[v] = journal[v], did'[v] = did[v],
           v \in toNode' => v \in toNode, v \in results' => v \in results,
           work'[WorkerFor(v)] = work[WorkerFor(v)] \/ work'[WorkerFor(v)].id # v
    PROVE  CommandOk(v)'
<1>1. EntryOk(v)'
    BY DEF CommandOk, EntryOk, Agrees
<1>2. RecordOk(v)'
    BY DEF CommandOk, RecordOk, Earlier
<1>3. WorkOk(v)'
    BY DEF CommandOk, WorkOk, LastEvent
<1> QED  BY <1>1, <1>2, <1>3 DEF CommandOk

LEMMA OneCommand ==
    ASSUME LifecycleInv, NEW c \in Command,
           \A v \in Command \ {c} :
              /\ rec'[v] = rec[v] /\ journal'[v] = journal[v] /\ did'[v] = did[v]
              /\ v \in toNode' => v \in toNode
              /\ v \in results' => v \in results
              /\ work'[WorkerFor(v)] = work[WorkerFor(v)] \/ work'[WorkerFor(v)].id # v,
           TypeInv', CommandOk(c)', ProgressOk', TargetsOk', Apart',
           repeated' = FALSE, refused' = FALSE
    PROVE  LifecycleInv'
<1>1. ASSUME NEW v \in Command PROVE CommandOk(v)'
  <2>1. CASE v = c
      BY <2>1
  <2>2. CASE v # c
      BY <2>2, Untouched DEF LifecycleInv
  <2> QED  BY <2>1, <2>2
<1> QED  BY <1>1 DEF LifecycleInv

LEMMA LifecycleInit == Init => LifecycleInv
<1> SUFFICES ASSUME Init PROVE LifecycleInv
    OBVIOUS
<1>1. TypeInv
    BY BoundAssumption DEF Init, TypeInv, Idle, Statuses, Steps, Outcomes, Workers
<1>2. ASSUME NEW c \in Command PROVE CommandOk(c)
  <2>1. /\ rec[c] = [status |-> "none", receipt |-> NoReceipt, scope |-> 0, told |-> FALSE]
        /\ journal[c] = [status |-> "none", receipt |-> NoReceipt, scope |-> 0]
        /\ did[c] = {} /\ c \notin toNode /\ c \notin results
        /\ work[WorkerFor(c)].id # c
      BY StageFacts, LifecycleAssumption DEF Init, Idle
  <2>2. EntryOk(c)
      BY <2>1 DEF EntryOk, Evidence, Agrees
  <2>3. RecordOk(c)
      BY <2>1 DEF RecordOk, Final
  <2> QED  BY <2>1, <2>2, <2>3 DEF CommandOk, WorkOk
<1>3. ProgressOk /\ TargetsOk /\ Apart /\ repeated = FALSE /\ refused = FALSE
    BY BoundAssumption DEF Init, ProgressOk, TargetsOk, Apart, Unsettled
<1> QED  BY <1>1, <1>2, <1>3 DEF LifecycleInv

-----------------------------------------------------------------------------
(* The coordinator. *)

(* Nothing changes on the node, and the record of one command changes. *)
LEMMA RecordChanges ==
    ASSUME LifecycleInv, NEW c \in Command, NEW r \in Records,
           rec' = [rec EXCEPT ![c] = r],
           r.scope = rec[c].scope \/ journal[c].status = "none",
           UNCHANGED <<journal, work, native, refused>>,
           toNode' \subseteq toNode \cup {c}, results' \subseteq results,
           progress' \in Seq([id : Command, receipt : Receipts]), ProgressOk',
           up' = up, RecordOk(c)'
    PROVE  LifecycleInv'
<1>0. /\ TypeInv /\ CommandOk(c) /\ \A v \in Command : WorkerFor(v) \in Workers
      /\ journal' = journal /\ work' = work /\ incarnation' = incarnation /\ terminals' = terminals
      /\ did' = did /\ repeated' = repeated /\ refused' = refused
    BY StageFacts DEF LifecycleInv, native
<1>1. TypeInv'
    BY <1>0 DEF TypeInv, Records
<1>2. CommandOk(c)'
  <2>1. rec'[c] = r
      BY <1>0 DEF TypeInv
  <2>2. EntryOk(c)'
      BY <1>0, <2>1 DEF CommandOk, EntryOk, Agrees
  <2>3. WorkOk(c)'
      BY <1>0 DEF CommandOk, WorkOk, LastEvent
  <2> QED  BY <2>2, <2>3 DEF CommandOk
<1>3. TargetsOk' /\ Apart'
    BY <1>0 DEF LifecycleInv, TargetsOk, Apart, Unsettled
<1>4. \A v \in Command \ {c} : rec'[v] = rec[v]
    BY <1>0 DEF TypeInv
<1> QED  BY <1>0, <1>1, <1>2, <1>3, <1>4, OneCommand DEF LifecycleInv

LEMMA SubmitKeeps == ASSUME LifecycleInv, NEW c \in Command, Submit(c) PROVE LifecycleInv'
<1> DEFINE k == IF c \in Unpinned THEN 0 ELSE incarnation
           r == [rec[c] EXCEPT !.status = "accepted", !.scope = k]
<1>0. /\ TypeInv /\ CommandOk(c) /\ rec[c] \in Records /\ rec[c].status = "none"
      /\ UNCHANGED <<journal, work, toNode, progress, results, up, native, refused>>
    BY DEF LifecycleInv, TypeInv, Submit, messages, Records
<1>1. r \in Records
    BY <1>0 DEF Records, TypeInv, Statuses
<1>2. rec' = [rec EXCEPT ![c] = r]
    BY <1>0 DEF Submit, TypeInv, Records
<1>3. journal[c].status = "none"
    BY <1>0 DEF CommandOk, RecordOk
<1>4. RecordOk(c)'
  <2>1. rec'[c].status = "accepted" /\ rec'[c].receipt = rec[c].receipt
      BY <1>0, <1>2 DEF TypeInv, Records
  <2> QED  BY <1>0, <1>3, <2>1 DEF CommandOk, RecordOk, Final, Earlier
<1>5. ProgressOk' /\ progress' \in Seq([id : Command, receipt : Receipts])
    BY <1>0 DEF LifecycleInv, ProgressOk, Earlier, TypeInv
<1> HIDE DEF r
<1> QED  BY <1>0, <1>1, <1>2, <1>3, <1>4, <1>5, RecordChanges

(* The status alone changes. *)
LEMMA StatusKeeps ==
    ASSUME LifecycleInv, NEW c \in Command, NEW s \in Statuses,
           rec' = [rec EXCEPT ![c].status = s],
           UNCHANGED <<journal, work, progress, results, up, native, refused>>,
           toNode' \subseteq toNode \cup {c},
           c \in toNode' => s \in {"running", "indeterminate"} /\ journal[c].status = "none",
           journal[c].status # "none" => s \notin {"none", "accepted"} \cup Final,
           s \in Final => s \in {"rejected", "timed_out", "unavailable"}
    PROVE  LifecycleInv'
<1> DEFINE r == [rec[c] EXCEPT !.status = s]
<1>0. /\ TypeInv /\ CommandOk(c) /\ rec[c] \in Records
    BY DEF LifecycleInv, TypeInv, Records
<1>1. r \in Records /\ r.scope = rec[c].scope /\ r.status = s /\ r.receipt = rec[c].receipt
    BY <1>0 DEF Records
<1>2. rec' = [rec EXCEPT ![c] = r] /\ rec'[c] = r
    BY <1>0 DEF TypeInv, Records
<1> HIDE DEF r
<1>3. RecordOk(c)'
    BY <1>0, <1>1, <1>2 DEF CommandOk, RecordOk, Final, Earlier
<1>4. ProgressOk' /\ progress' \in Seq([id : Command, receipt : Receipts])
    BY <1>0 DEF LifecycleInv, ProgressOk, Earlier, TypeInv
<1> QED  BY <1>1, <1>2, <1>3, <1>4, RecordChanges

LEMMA DispatchKeeps == ASSUME LifecycleInv, NEW c \in Command, Dispatch(c) PROVE LifecycleInv'
<1>1. journal[c].status = "none"
    BY DEF Dispatch, LifecycleInv, CommandOk, RecordOk
<1> QED  BY <1>1, StatusKeeps DEF Dispatch, Statuses, Final

LEMMA ExpireKeeps == ASSUME LifecycleInv, NEW c \in Command, Expire(c) PROVE LifecycleInv'
<1>0. /\ UNCHANGED <<journal, work, toNode, progress, results, up, native, refused>>
      /\ CommandOk(c)
    BY DEF Expire, messages, LifecycleInv
<1>1. CASE rec[c].status = "accepted"
  <2>1. PICK s \in {"timed_out", "rejected"} : rec' = [rec EXCEPT ![c].status = s]
      BY <1>1 DEF Expire
  <2>2. journal[c].status = "none" /\ c \notin toNode
      BY <1>0, <1>1 DEF CommandOk, RecordOk
  <2> QED  BY <1>0, <2>1, <2>2, StatusKeeps DEF Statuses, Final
<1>2. CASE rec[c].status = "running"
  <2>1. rec' = [rec EXCEPT ![c].status = "indeterminate"]
      BY <1>2 DEF Expire
  <2>2. c \in toNode => journal[c].status = "none"
      BY <1>0 DEF CommandOk, RecordOk
  <2> QED  BY <1>0, <2>1, <2>2, StatusKeeps DEF Statuses, Final
<1> QED  BY <1>1, <1>2 DEF Expire
(* The stream is lost, and perhaps the node with it. *)
LEMMA StreamLostKeeps ==
    ASSUME LifecycleInv, StreamLost(FALSE), UNCHANGED <<journal, native, refused>>,
           work' \in {work, [w \in Workers |-> Idle]}
    PROVE  LifecycleInv'
<1>0. /\ TypeInv /\ journal' = journal /\ did' = did /\ terminals' = terminals
      /\ incarnation' = incarnation /\ repeated' = repeated /\ refused' = refused
      /\ toNode' = {} /\ results' = {} /\ progress' = <<>>
      /\ rec' = [c \in Command |-> AfterStream(rec[c])]
      /\ up' = [up EXCEPT !.open = FALSE]
    BY DEF LifecycleInv, native, StreamLost
<1>1. ASSUME NEW c \in Command
      PROVE  /\ rec'[c] \in Records
             /\ rec'[c].receipt = rec[c].receipt /\ rec'[c].scope = rec[c].scope
             /\ rec'[c].told = rec[c].told
             /\ \/ rec'[c].status = rec[c].status /\ rec[c].status \notin {"accepted", "running"}
                \/ rec[c].status = "accepted" /\ rec'[c].status = "unavailable"
                \/ rec[c].status = "running" /\ rec'[c].status = "indeterminate"
  <2>1. rec'[c] = AfterStream(rec[c]) /\ rec[c] \in Records
      BY <1>0 DEF TypeInv, Records
  <2> QED  BY <2>1 DEF AfterStream, Records, Statuses, Final
<1>2. TypeInv'
  <2>1. rec' \in [Command -> Records]
      BY <1>0, <1>1
  <2>2. work' \in [Workers -> Works]
      BY <1>0 DEF TypeInv, Works, Idle, Steps, Outcomes
  <2>3. up' \in [open : BOOLEAN, count : Nat]
      BY <1>0 DEF TypeInv
  <2> QED  BY <1>0, <2>1, <2>2, <2>3 DEF TypeInv, Records, Works
<1>3. ASSUME NEW c \in Command PROVE CommandOk(c)'
  <2>0. CommandOk(c) /\ WorkerFor(c) \in Workers
      BY StageFacts DEF LifecycleInv
  <2>1. EntryOk(c)'
      BY <1>0, <1>1, <2>0 DEF CommandOk, EntryOk, Agrees
  <2>2. RecordOk(c)'
      BY <1>0, <1>1, <2>0 DEF CommandOk, RecordOk, Final, Earlier
  <2>3. WorkOk(c)'
    <3>1. CASE work' = work
        BY <1>0, <2>0, <3>1 DEF CommandOk, WorkOk, LastEvent
    <3>2. CASE work' = [w \in Workers |-> Idle]
        BY <2>0, <3>2, LifecycleAssumption DEF WorkOk, Idle
    <3> QED  BY <3>1, <3>2
  <2> QED  BY <2>1, <2>2, <2>3 DEF CommandOk
<1>4. ProgressOk' /\ TargetsOk' /\ Apart'
    BY <1>0 DEF LifecycleInv, ProgressOk, TargetsOk, Apart, Unsettled
<1> QED  BY <1>0, <1>2, <1>3, <1>4 DEF LifecycleInv

LEMMA StreamEndsKeeps == ASSUME LifecycleInv, StreamEnds \/ NodeCrashes PROVE LifecycleInv'
  BY StreamLostKeeps DEF StreamEnds, NodeCrashes

(* Progress is new, or it is an earlier part of what is known: it is never *)
(* refused.                                                                *)
LEMMA ProgressKeeps == ASSUME LifecycleInv, SaveCommandProgress PROVE LifecycleInv'
<1>0. /\ TypeInv /\ progress # <<>> /\ progress \in Seq([id : Command, receipt : Receipts])
      /\ UNCHANGED <<journal, work, native>>
    BY DEF SaveCommandProgress, LifecycleInv, TypeInv
<1>1. PICK c \in Command, r \in Receipts : Head(progress).id = c /\ Head(progress).receipt = r
  <2> DEFINE M == [id : Command, receipt : Receipts]
  <2>1. progress \in Seq(M) /\ progress # <<>>
      BY <1>0
  <2> HIDE DEF M
  <2>2. Head(progress) \in M
      BY <2>1
  <2> QED  BY <2>2 DEF M
<1>2. Earlier(r, c) /\ CommandOk(c) /\ rec[c] \in Records
  <2>1. progress[1] = Head(progress) /\ 1 \in 1..Len(progress)
      BY <1>0
  <2> QED  BY <1>0, <1>1, <2>1 DEF LifecycleInv, ProgressOk, TypeInv, Records
<1>3. /\ Tail(progress) \in Seq([id : Command, receipt : Receipts])
      /\ \A i \in 1..Len(Tail(progress)) : Earlier(Tail(progress)[i].receipt, Tail(progress)[i].id)
  <2>1. \A i \in 1..Len(Tail(progress)) : i + 1 \in 1..Len(progress) /\ Tail(progress)[i] = progress[i + 1]
      BY <1>0
  <2> QED  BY <1>0, <2>1 DEF LifecycleInv, ProgressOk
<1>4. rec[c].receipt # NoReceipt => Earlier(rec[c].receipt, c) /\ rec[c].receipt \in Receipts
    BY <1>2 DEF CommandOk, RecordOk, Records
<1>5. journal[c].receipt \in Receipts /\ journal[c].receipt # NoReceipt
    BY <1>0, <1>2 DEF Earlier, TypeInv
<1>6. CASE Overtaken(rec[c].receipt, r)
  <2>1. ValidateLifecycleAdvance(r, rec[c].receipt, c)
    <3>1. /\ rec[c].receipt # NoReceipt /\ Len(r.events) <= Len(rec[c].receipt.events)
          /\ r.events \in Seq(Event) /\ rec[c].receipt.events \in Seq(Event)
          /\ journal[c].receipt.events \in Seq(Event)
        BY <1>4, <1>5, <1>6 DEF Overtaken, Receipts
    <3>2. IsPrefixOf(r.events, rec[c].receipt.events)
        BY <1>2, <1>4, <3>1, PrefixesNest DEF Earlier
    <3> QED  BY <1>2, <1>4, <3>1, <3>2 DEF ValidateLifecycleAdvance, Earlier
  <2>2. progress' = Tail(progress) /\ UNCHANGED <<rec, toNode, results, up, refused>>
      BY <1>1, <1>6, <2>1 DEF SaveCommandProgress
  <2>3. rec' = [rec EXCEPT ![c] = rec[c]]
      BY <1>0, <2>2 DEF TypeInv
  <2>4. RecordOk(c)'
      BY <1>0, <1>2, <2>2 DEF CommandOk, RecordOk, Earlier
  <2>5. ProgressOk'
      BY <1>0, <1>3, <2>2 DEF ProgressOk, Earlier
  <2> QED  BY <1>0, <1>2, <1>3, <2>2, <2>3, <2>4, <2>5, RecordChanges
<1>7. CASE ~Overtaken(rec[c].receipt, r)
  <2>1. rec[c].receipt # NoReceipt => Len(rec[c].receipt.events) <= Len(r.events)
    <3> SUFFICES ASSUME rec[c].receipt # NoReceipt
                 PROVE  Len(rec[c].receipt.events) <= Len(r.events)
        OBVIOUS
    <3>1. r.events \in Seq(Event) /\ rec[c].receipt.events \in Seq(Event)
        BY <1>4 DEF Receipts
    <3>2. Len(r.events) \in Nat /\ Len(rec[c].receipt.events) \in Nat
        BY <3>1
    <3> QED  BY <1>7, <3>2 DEF Overtaken
  <2>2. rec[c].status \in {"running", "indeterminate"}
    <3>1. journal[c].status # "none"
        BY <1>2, <1>5 DEF CommandOk, EntryOk
    <3>2. IsLifecycleCommand(c)
        BY <1>2, <1>5 DEF CommandOk, EntryOk
    <3>3. rec[c].status \notin Final
      <4>1. SUFFICES ASSUME rec[c].status \in Final PROVE FALSE
          OBVIOUS
      <4>2. rec[c].receipt = journal[c].receipt
          BY <1>2, <3>1, <3>2, <4>1 DEF CommandOk, RecordOk
      <4>3. Len(r.events) <= Len(rec[c].receipt.events)
          BY <1>2, <4>2 DEF Earlier, IsPrefixOf
      <4> QED  BY <1>5, <1>7, <4>2, <4>3 DEF Overtaken
    <3> QED  BY <1>2, <3>1, <3>3 DEF CommandOk, RecordOk, Records, Statuses
  <2>3. ValidateLifecycleAdvance(rec[c].receipt, r, c)
    <3>1. CASE rec[c].receipt = NoReceipt
        BY <1>2, <3>1 DEF ValidateLifecycleAdvance, Earlier
    <3>2. CASE rec[c].receipt # NoReceipt
      <4>1. /\ r.events \in Seq(Event) /\ rec[c].receipt.events \in Seq(Event)
            /\ journal[c].receipt.events \in Seq(Event)
          BY <1>4, <1>5, <3>2 DEF Receipts
      <4>2. IsPrefixOf(rec[c].receipt.events, r.events)
          BY <1>2, <1>4, <2>1, <3>2, <4>1, PrefixesNest DEF Earlier
      <4> QED  BY <1>2, <1>4, <3>2, <4>2 DEF ValidateLifecycleAdvance, Earlier
    <3> QED  BY <3>1, <3>2
  <2> DEFINE next == [rec[c] EXCEPT !.receipt = r]
  <2>4. /\ progress' = Tail(progress) /\ UNCHANGED <<toNode, results, up, refused>>
        /\ rec' = [rec EXCEPT ![c].receipt = r]
      BY <1>1, <1>7, <2>2, <2>3 DEF SaveCommandProgress
  <2>5. /\ next \in Records /\ next.scope = rec[c].scope /\ next.status = rec[c].status /\ next.receipt = r
        /\ rec' = [rec EXCEPT ![c] = next] /\ rec'[c] = next
      BY <1>0, <1>2, <2>4 DEF TypeInv, Records
  <2> HIDE DEF next
  <2>6. RecordOk(c)'
      BY <1>0, <1>2, <2>2, <2>4, <2>5 DEF CommandOk, RecordOk, Earlier, Final
  <2>7. ProgressOk'
      BY <1>0, <1>3, <2>4 DEF ProgressOk, Earlier
  <2> QED  BY <1>0, <1>3, <2>4, <2>5, <2>6, <2>7, RecordChanges
<1> QED  BY <1>6, <1>7

(* A result is never refused. *)
LEMMA FinishCommandKeeps == ASSUME LifecycleInv, NEW c \in Command, FinishCommand(c) PROVE LifecycleInv'
<1>0. /\ TypeInv /\ CommandOk(c) /\ rec[c] \in Records /\ c \in results
      /\ UNCHANGED <<journal, work, native>>
      /\ journal[c].status \notin {"none", "running"}
      /\ journal[c].status \in Statuses /\ journal[c].receipt \in Receipts \cup {NoReceipt}
    BY DEF LifecycleInv, TypeInv, FinishCommand, Records, CommandOk, RecordOk
<1>1. rec[c].status \in {"running", "indeterminate"} \/ rec[c].status = journal[c].status
    BY <1>0 DEF CommandOk, RecordOk, Records, Statuses
<1>2. ASSUME NEW n \in Records, FinishTo(c, n), n.scope = rec[c].scope,
             \/ n = rec[c]
             \/ /\ n.status = journal[c].status
                /\ IsLifecycleCommand(c) => n.receipt = journal[c].receipt /\ n.told = TRUE
                /\ ~IsLifecycleCommand(c) => n.receipt = rec[c].receipt
      PROVE  LifecycleInv'
  <2>1. /\ rec' = [rec EXCEPT ![c] = n] /\ results' \subseteq results
        /\ UNCHANGED <<toNode, progress, up, refused>> /\ rec'[c] = n
      BY <1>0, <1>2 DEF FinishTo, TypeInv
  <2>2. ProgressOk' /\ progress' \in Seq([id : Command, receipt : Receipts])
      BY <1>0, <2>1 DEF LifecycleInv, ProgressOk, Earlier, TypeInv
  <2>3. RecordOk(c)'
    <3>1. CASE n = rec[c]
        BY <1>0, <2>1, <3>1 DEF CommandOk, RecordOk, Earlier
    <3>2. CASE n # rec[c]
      <4>1. n.receipt # NoReceipt => Earlier(n.receipt, c)
        <5>1. CASE n.receipt = rec[c].receipt
            BY <1>0, <5>1 DEF CommandOk, RecordOk
        <5>2. CASE n.receipt = journal[c].receipt /\ n.receipt # NoReceipt
          <6>1. journal[c].receipt.events \in Seq(Event)
              BY <1>0, <5>2 DEF Receipts
          <6>2. IsPrefixOf(n.receipt.events, journal[c].receipt.events)
              BY <5>2, <6>1, PrefixSame
          <6> QED  BY <1>0, <5>2, <6>2 DEF CommandOk, EntryOk, Earlier
        <5> QED  BY <1>2, <3>2, <5>1, <5>2
      <4>2. n.status \notin {"none", "accepted"}
          BY <1>0, <1>2, <3>2 DEF CommandOk, EntryOk
      <4> QED  BY <1>0, <1>2, <2>1, <3>2, <4>1, <4>2 DEF CommandOk, RecordOk, Earlier
    <3> QED  BY <3>1, <3>2
  <2> QED  BY <1>0, <1>2, <2>1, <2>2, <2>3, RecordChanges
<1>3. CASE IsLifecycleCommand(c)
  <2> DEFINE next == [rec[c] EXCEPT !.status = journal[c].status, !.receipt = journal[c].receipt, !.told = TRUE]
  <2>1. /\ next \in Records /\ next.scope = rec[c].scope /\ next.status = journal[c].status
        /\ next.receipt = journal[c].receipt /\ next.told = TRUE
      BY <1>0 DEF Records
  <2>2. CASE rec[c] = next
    <3>1. FinishTo(c, rec[c])
        BY <1>3, <2>2 DEF FinishCommand, finishLifecycleRecord
    <3> QED  BY <1>0, <1>2, <3>1
  <2>3. CASE rec[c] # next
    <3>1. rec[c].status \in {"running", "indeterminate"}
      <4>1. rec[c].status \notin Final
        <5>1. SUFFICES ASSUME rec[c].status \in Final PROVE FALSE
            OBVIOUS
        <5>2. rec[c].status = journal[c].status /\ rec[c].receipt = journal[c].receipt /\ rec[c].told = TRUE
            BY <1>0, <1>3, <5>1 DEF CommandOk, RecordOk
        <5> QED  BY <1>0, <2>1, <2>3, <5>2 DEF Records
      <4> QED  BY <1>0, <4>1 DEF CommandOk, RecordOk, Records, Statuses
    <3>2. IF next.receipt # NoReceipt THEN ValidateLifecycleAdvance(rec[c].receipt, next.receipt, c)
          ELSE rec[c].receipt = NoReceipt
        BY <1>0, <2>1 DEF CommandOk, EntryOk, RecordOk, Earlier, ValidateLifecycleAdvance
    <3>3. ValidateLifecycleResult(next.status, next.receipt, c, FALSE)
        BY <1>0, <1>3, <2>1 DEF CommandOk, EntryOk
    <3>4. FinishTo(c, next)
        BY <1>3, <2>3, <3>1, <3>2, <3>3 DEF FinishCommand, finishLifecycleRecord
    <3> HIDE DEF next
    <3> QED  BY <1>2, <1>3, <2>1, <3>4
  <2> QED  BY <2>2, <2>3
<1>4. CASE ~IsLifecycleCommand(c)
  <2> DEFINE next == [rec[c] EXCEPT !.status = journal[c].status, !.told = TRUE]
  <2>1. /\ next \in Records /\ next.scope = rec[c].scope /\ next.status = journal[c].status
        /\ next.receipt = rec[c].receipt
      BY <1>0 DEF Records
  <2>2. FinishTo(c, rec[c]) \/ FinishTo(c, next)
      BY <1>1, <1>4 DEF FinishCommand, finishOtherRecord
  <2> HIDE DEF next
  <2> QED  BY <1>0, <1>2, <1>4, <2>1, <2>2
<1> QED  BY <1>3, <1>4
-----------------------------------------------------------------------------
(* The node.  A step of a worker changes the entry of its command, what was *)
(* done for it, and the worker.                                             *)

(* Receipts are only added to. *)
LEMMA EarlierKept ==
    ASSUME NEW v \in Command, NEW r \in Receipts, Earlier(r, v),
           journal[v].receipt \in Receipts, journal'[v].receipt \in Receipts,
           journal'[v].receipt # NoReceipt,
           journal'[v].receipt.incarnation = journal[v].receipt.incarnation,
           IsPrefixOf(journal[v].receipt.events, journal'[v].receipt.events)
    PROVE  Earlier(r, v)'
<1>1. /\ r.events \in Seq(Event) /\ journal[v].receipt.events \in Seq(Event)
      /\ journal'[v].receipt.events \in Seq(Event)
    BY DEF Receipts
<1>2. IsPrefixOf(r.events, journal'[v].receipt.events)
    BY <1>1, PrefixTransitive DEF Earlier
<1> QED  BY <1>2 DEF Earlier

(* What every step of the node keeps to. *)
LEMMA WorkerStep ==
    ASSUME LifecycleInv, NEW c \in Command, NEW j \in Entries, NEW w \in Works,
           w.id \in {c, NoTerminal},
           journal' = [journal EXCEPT ![c] = j],
           work' = [work EXCEPT ![WorkerFor(c)] = w],
           did' \in [Command -> SUBSET {"create_pane", "launch", "prompt", "close_pane", "send"}],
           \A v \in Command \ {c} : did'[v] = did[v],
           UNCHANGED <<rec, up, incarnation, refused>>, repeated' = FALSE,
           toNode' \subseteq toNode, results' \subseteq results \cup {c},
           progress' \in Seq([id : Command, receipt : Receipts]), ProgressOk',
           EntryOk(c)', WorkOk(c)',
           c \in toNode' => j.status = "none",
           c \in results' => j.status \notin {"none", "running"},
           rec[c].status \notin {"none", "accepted"} \cup Final,
           journal[c].receipt # NoReceipt =>
              /\ j.receipt # NoReceipt /\ j.receipt.incarnation = journal[c].receipt.incarnation
              /\ IsPrefixOf(journal[c].receipt.events, j.receipt.events),
           TargetsOk', Apart'
    PROVE  LifecycleInv'
<1>0. /\ TypeInv /\ CommandOk(c) /\ WorkerFor(c) \in Workers /\ \A v \in Command : WorkerFor(v) \in Workers
      /\ rec' = rec /\ up' = up /\ incarnation' = incarnation /\ refused' = FALSE
    BY StageFacts DEF LifecycleInv
<1>1. TypeInv'
  <2>1. journal' \in [Command -> Entries]
      BY <1>0 DEF TypeInv, Entries
  <2>2. work' \in [Workers -> Works]
      BY <1>0 DEF TypeInv, Works
  <2> QED  BY <1>0, <2>1, <2>2 DEF TypeInv, Entries, Works
<1>2. journal'[c] = j /\ \A v \in Command \ {c} : journal'[v] = journal[v]
    BY <1>0 DEF TypeInv
<1>3. ASSUME NEW v \in Command \ {c}
      PROVE  work'[WorkerFor(v)] = work[WorkerFor(v)] \/ work'[WorkerFor(v)].id # v
  <2>1. CASE WorkerFor(v) = WorkerFor(c)
      BY <1>0, <2>1, LifecycleAssumption DEF TypeInv
  <2>2. CASE WorkerFor(v) # WorkerFor(c)
      BY <1>0, <2>2 DEF TypeInv
  <2> QED  BY <2>1, <2>2
<1>4. RecordOk(c)'
  <2>1. rec[c].receipt # NoReceipt => Earlier(rec[c].receipt, c)'
    <3>1. SUFFICES ASSUME rec[c].receipt # NoReceipt PROVE Earlier(rec[c].receipt, c)'
        OBVIOUS
    <3>2. PICK r : r = rec[c].receipt
        OBVIOUS
    <3>3. Earlier(r, c) /\ r \in Receipts /\ journal[c].receipt \in Receipts /\ journal[c].receipt # NoReceipt
        BY <1>0, <3>1, <3>2 DEF CommandOk, RecordOk, Earlier, TypeInv
    <3>4. j.receipt \in Receipts /\ j.receipt # NoReceipt
        BY <3>3 DEF Entries
    <3>5. Earlier(r, c)'
        BY <1>2, <3>3, <3>4, EarlierKept
    <3> QED  BY <1>0, <3>2, <3>5
  <2> QED  BY <1>0, <1>2, <2>1 DEF CommandOk, RecordOk, Final
<1> QED  BY <1>0, <1>1, <1>2, <1>3, <1>4, OneCommand DEF CommandOk

(* Earlier progress stays earlier when a receipt is added to. *)
LEMMA ProgressStays ==
    ASSUME LifecycleInv, NEW c \in Command, NEW j \in Entries,
           journal' = [journal EXCEPT ![c] = j],
           journal[c].receipt # NoReceipt =>
              /\ j.receipt # NoReceipt /\ j.receipt.incarnation = journal[c].receipt.incarnation
              /\ IsPrefixOf(journal[c].receipt.events, j.receipt.events),
           NEW m \in [id : Command, receipt : Receipts], Earlier(m.receipt, m.id)
    PROVE  Earlier(m.receipt, m.id)'
<1>0. /\ journal \in [Command -> Entries] /\ m.id \in Command /\ m.receipt \in Receipts
      /\ journal[m.id].receipt # NoReceipt
    BY DEF LifecycleInv, TypeInv, Entries, Earlier
<1>1. CASE m.id = c
  <2>1. journal'[c] = j
      BY <1>0
  <2>2. journal[c].receipt \in Receipts /\ j.receipt \in Receipts /\ j.receipt # NoReceipt
      BY <1>0, <1>1 DEF Entries
  <2> QED  BY <1>0, <1>1, <2>1, <2>2, EarlierKept
<1>2. CASE m.id # c
    BY <1>0, <1>2 DEF Earlier
<1> QED  BY <1>1, <1>2

(* Progress that is there already, and perhaps what was just stored. *)
LEMMA ProgressGrows ==
    ASSUME LifecycleInv, NEW c \in Command, NEW j \in Entries,
           journal' = [journal EXCEPT ![c] = j],
           journal[c].receipt # NoReceipt =>
              /\ j.receipt # NoReceipt /\ j.receipt.incarnation = journal[c].receipt.incarnation
              /\ IsPrefixOf(journal[c].receipt.events, j.receipt.events),
           \/ progress' = progress
           \/ /\ progress' = Append(progress, [id |-> c, receipt |-> j.receipt])
              /\ j.receipt # NoReceipt /\ ValidateLifecycleReceipt(j.receipt, c)
    PROVE  progress' \in Seq([id : Command, receipt : Receipts]) /\ ProgressOk'
<1> DEFINE M == [id : Command, receipt : Receipts]
<1>0. progress \in Seq(M) /\ journal'[c] = j
    BY DEF LifecycleInv, TypeInv, Entries
<1>1. \A m \in M : Earlier(m.receipt, m.id) => Earlier(m.receipt, m.id)'
    BY ProgressStays
<1>2. ASSUME NEW i \in 1..Len(progress)
      PROVE  \E m \in M : m = progress[i] /\ Earlier(m.receipt, m.id)'
  <2>0. progress[i] \in M
    <3> HIDE DEF M
    <3> QED  BY <1>0
  <2>1. PICK m \in M : m = progress[i]
      BY <2>0
  <2>2. Earlier(m.receipt, m.id)
      BY <2>1 DEF LifecycleInv, ProgressOk
  <2> QED  BY <1>1, <2>1, <2>2
<1>3. CASE progress' = progress
  <2>1. \A i \in 1..Len(progress') : \E m \in M : m = progress'[i] /\ Earlier(m.receipt, m.id)'
      BY <1>2, <1>3
  <2>2. progress' \in Seq(M)
      BY <1>0, <1>3
  <2> HIDE DEF M
  <2>3. ProgressOk'
      BY <2>1 DEF ProgressOk, Earlier
  <2> QED  BY <2>2, <2>3 DEF M
<1>4. CASE progress' # progress
  <2>1. PICK n : n = [id |-> c, receipt |-> j.receipt]
      OBVIOUS
  <2>2. /\ progress' = Append(progress, n) /\ j.receipt \in Receipts /\ n \in M
        /\ n.id = c /\ n.receipt = j.receipt
      BY <1>4, <2>1 DEF Entries
  <2>3. Earlier(n.receipt, n.id)'
    <3>1. IsPrefixOf(j.receipt.events, j.receipt.events)
        BY <2>2, PrefixSame DEF Receipts
    <3> QED  BY <1>0, <1>4, <2>2, <3>1 DEF Earlier
  <2> HIDE DEF M
  <2>4. /\ progress' \in Seq(M) /\ Len(progress') = Len(progress) + 1 /\ Len(progress) \in Nat
        /\ progress'[Len(progress) + 1] = n
        /\ \A i \in 1..Len(progress) : progress'[i] = progress[i]
      BY <1>0, <2>2
  <2>5. \A i \in 1..Len(progress') : \E m \in M : m = progress'[i] /\ Earlier(m.receipt, m.id)'
    <3> SUFFICES ASSUME NEW i \in 1..Len(progress')
                 PROVE  \E m \in M : m = progress'[i] /\ Earlier(m.receipt, m.id)'
        OBVIOUS
    <3>1. i \in 1..Len(progress) \/ i = Len(progress) + 1
        BY <2>4
    <3> QED  BY <1>2, <2>2, <2>3, <2>4, <3>1
  <2> QED  BY <2>4, <2>5 DEF ProgressOk, Earlier, M
<1> QED  BY <1>3, <1>4

(* A command with a worker is running, and its record is open. *)
LEMMA WorkerFacts ==
    ASSUME LifecycleInv, NEW c \in Command, work[WorkerFor(c)].id = c
    PROVE  /\ WorkOk(c) /\ EntryOk(c) /\ WorkerFor(c) \in Workers
           /\ journal[c] \in Entries /\ journal[c].status = "running"
           /\ work \in [Workers -> Works] /\ journal \in [Command -> Entries]
           /\ rec[c].status \notin {"none", "accepted"} \cup Final
           /\ c \notin toNode /\ c \notin results
<1>1. CommandOk(c) /\ TypeInv /\ WorkerFor(c) \in Workers
    BY StageFacts DEF LifecycleInv
<1>2. journal[c].status = "running"
    BY <1>1 DEF CommandOk, WorkOk
<1>3. rec[c].status \notin {"none", "accepted"} \cup Final
    BY <1>1, <1>2 DEF CommandOk, RecordOk, Final
<1>4. c \notin toNode /\ c \notin results
    BY <1>1, <1>2 DEF CommandOk, RecordOk
<1> QED  BY <1>1, <1>2, <1>3, <1>4 DEF CommandOk, TypeInv, Entries, Works

(* Rivals stay apart when a command does not come closer to another one. *)
LEMMA ApartFrame ==
    ASSUME LifecycleInv, NEW c \in Command, NEW j,
           journal' = [journal EXCEPT ![c] = j],
           \/ j.scope = 0
           \/ /\ j.scope = journal[c].scope
              /\ j.status \in {"running", "indeterminate"} => Unsettled(c)
    PROVE  Apart'
<1>0. /\ Apart /\ journal \in [Command -> Entries]
    BY DEF LifecycleInv, TypeInv, Entries
<1>1. journal'[c] = j /\ \A v \in Command \ {c} : journal'[v] = journal[v]
    BY <1>0
<1> SUFFICES ASSUME NEW a \in Command, NEW b \in Command,
                    Unsettled(a)', Unsettled(b)', a # b, Rivals(a, b), journal'[a].scope # 0
             PROVE  journal'[a].scope # journal'[b].scope
    BY DEF Apart, Rivals
<1>2. CASE j.scope = 0 /\ c \in {a, b}
    BY <1>1, <1>2
<1>3. CASE ~(j.scope = 0 /\ c \in {a, b})
  <2>1. /\ journal'[a].scope = journal[a].scope /\ journal'[b].scope = journal[b].scope
        /\ Unsettled(a) /\ Unsettled(b)
      BY <1>1, <1>3 DEF Unsettled
  <2> QED  BY <1>0, <2>1 DEF Apart
<1> QED  BY <1>2, <1>3

(* The fence: a command that passes it joins no rival in its incarnation. *)
LEMMA ApartFence ==
    ASSUME LifecycleInv, NEW c \in Command, NEW j, NEW k \in Nat,
           journal' = [journal EXCEPT ![c] = j], j.scope = k, k # 0,
           ~NodeFenced(c, k), Unsettled(c),
           KindOf[c] = "start" => journal[c].receipt = NoReceipt
    PROVE  Apart'
<1>0. /\ Apart /\ TargetsOk /\ journal \in [Command -> Entries] /\ \A v \in Command : EntryOk(v)
    BY DEF LifecycleInv, TypeInv, Entries, CommandOk
<1>1. journal'[c] = j /\ \A v \in Command \ {c} : journal'[v] = journal[v]
    BY <1>0
<1>2. ASSUME NEW p \in Command, p # c, Unsettled(p), journal[p].scope = k
      PROVE  ~Rivals(c, p) /\ ~Rivals(p, c)
  <2>1. KnownScope(journal[p].receipt, rec[p].scope) \in {0, k}
      BY <1>0, <1>2 DEF EntryOk, KnownScope
  <2>2. ~LifecycleConflict(p, journal[p].receipt, journal[p].status,
                           KnownScope(journal[p].receipt, rec[p].scope), c, k)
      BY <1>2 DEF NodeFenced, Unsettled
  <2>3. Unresolved(journal[p].status, journal[p].receipt, p)
      BY <1>2 DEF Unresolved, Unsettled
  <2>4. ReceiptTerminal(journal[p].receipt, p) \in {NoTerminal, p}
      BY DEF ReceiptTerminal
  <2>5. ~Rivals(c, p)
      BY <1>2, <2>1, <2>2, <2>3, <2>4 DEF LifecycleConflict, Rivals
  <2>6. ~(KindOf[p] = "control" /\ KindOf[c] = "start" /\ TerminalOf[p] = c)
      BY <1>0, <1>2 DEF TargetsOk
  <2> QED  BY <2>5, <2>6 DEF Rivals
<1> SUFFICES ASSUME NEW a \in Command, NEW b \in Command,
                    Unsettled(a)', Unsettled(b)', a # b, Rivals(a, b), journal'[a].scope # 0
             PROVE  journal'[a].scope # journal'[b].scope
    BY DEF Apart, Rivals
<1>3. CASE a = c
  <2>1. Unsettled(b) /\ journal'[b].scope = journal[b].scope
      BY <1>1, <1>3 DEF Unsettled
  <2> QED  BY <1>1, <1>2, <1>3, <2>1
<1>4. CASE b = c
  <2>1. Unsettled(a) /\ journal'[a].scope = journal[a].scope
      BY <1>1, <1>4 DEF Unsettled
  <2> QED  BY <1>1, <1>2, <1>4, <2>1
<1>5. CASE c \notin {a, b}
  <2>1. /\ journal'[a].scope = journal[a].scope /\ journal'[b].scope = journal[b].scope
        /\ Unsettled(a) /\ Unsettled(b)
      BY <1>1, <1>5 DEF Unsettled
  <2> QED  BY <1>0, <2>1 DEF Apart
<1> QED  BY <1>3, <1>4, <1>5

LEMMA TargetsKept ==
    ASSUME LifecycleInv, NEW c \in Command, NEW j,
           journal' = [journal EXCEPT ![c] = j],
           journal[c].receipt # NoReceipt => j.receipt # NoReceipt,
           terminals' \subseteq terminals \cup {c},
           c \in terminals' => c \in terminals \/ j.receipt # NoReceipt,
           KindOf[c] = "control" /\ j.scope # 0 =>
              journal[c].scope # 0 \/ TerminalOf[c] \in terminals
    PROVE  TargetsOk'
<1>0. TargetsOk /\ journal \in [Command -> Entries]
    BY DEF LifecycleInv, TypeInv, Entries
<1>1. journal'[c] = j /\ \A v \in Command \ {c} : journal'[v] = journal[v]
    BY <1>0
<1>2. \A v \in Command : journal[v].receipt # NoReceipt => journal'[v].receipt # NoReceipt
    BY <1>1
<1>3. ASSUME NEW t \in terminals' \cap Command PROVE journal'[t].receipt # NoReceipt
    BY <1>0, <1>1, <1>2 DEF TargetsOk
<1>4. ASSUME NEW v \in Command, KindOf[v] = "control", journal'[v].scope # 0, TerminalOf[v] \in Command
      PROVE  journal'[TerminalOf[v]].receipt # NoReceipt
    BY <1>0, <1>1, <1>2, <1>4 DEF TargetsOk
<1> QED  BY <1>3, <1>4 DEF TargetsOk

LEMMA ClaimKeeps == ASSUME LifecycleInv, NEW c \in Command, Claim(c) PROVE LifecycleInv'
<1>0. /\ TypeInv /\ CommandOk(c) /\ WorkerFor(c) \in Workers
      /\ c \in toNode /\ work[WorkerFor(c)] = Idle /\ toNode' = toNode \ {c}
      /\ rec' = rec /\ progress' = progress /\ up' = up /\ refused' = refused
      /\ incarnation' = incarnation /\ terminals' = terminals /\ did' = did /\ repeated' = repeated
    BY StageFacts DEF LifecycleInv, Claim, native
<1>1. /\ journal[c].status = "none" /\ journal[c].receipt = NoReceipt /\ journal[c].scope = 0
      /\ did[c] = {} /\ rec[c].status \in {"running", "indeterminate"} /\ journal[c] \in Entries
    BY <1>0 DEF CommandOk, RecordOk, EntryOk, TypeInv, Entries
<1>2. PICK s \in {"rejected", "running"}, w \in {Idle, At(c, "begin")} :
           /\ journal' = [journal EXCEPT ![c].status = s]
           /\ work' = [work EXCEPT ![WorkerFor(c)] = w]
           /\ s = "rejected" => w = Idle /\ results' = results \cup {c}
           /\ s = "running" => w = At(c, "begin") /\ results' = results
  <2>1. work = [work EXCEPT ![WorkerFor(c)] = Idle]
      BY <1>0 DEF TypeInv
  <2> QED  BY <2>1 DEF Claim
<1>3. PICK j \in Entries : /\ journal' = [journal EXCEPT ![c] = j] /\ j.status = s
                           /\ j.receipt = NoReceipt /\ j.scope = 0
  <2> DEFINE j == [journal[c] EXCEPT !.status = s]
  <2>1. j \in Entries /\ j.status = s /\ j.receipt = NoReceipt /\ j.scope = 0
      BY <1>1 DEF Entries, Statuses, Final
  <2>2. journal' = [journal EXCEPT ![c] = j]
      BY <1>0, <1>2 DEF TypeInv, Entries
  <2> QED  BY <2>1, <2>2
<1>4. /\ w \in Works /\ w.id \in {c, NoTerminal} /\ journal'[c] = j /\ work'[WorkerFor(c)] = w
      /\ s = "running" => w.step = "begin"
      /\ s = "rejected" => w.id = NoTerminal
    BY <1>0, <1>2, <1>3 DEF TypeInv, Works, Idle, At, Steps, Outcomes
<1>5. EntryOk(c)'
    BY <1>0, <1>1, <1>3, <1>4 DEF EntryOk, Evidence, Agrees, ValidateLifecycleResult, LifecycleHasEffect
<1>6. WorkOk(c)'
    BY <1>0, <1>1, <1>2, <1>3, <1>4, LifecycleAssumption DEF WorkOk
<1>7. progress' \in Seq([id : Command, receipt : Receipts]) /\ ProgressOk'
    BY <1>0, <1>1, <1>3, ProgressGrows
<1>8. TargetsOk' /\ Apart'
    BY <1>0, <1>1, <1>3, TargetsKept, ApartFrame
<1>9. /\ did' \in [Command -> SUBSET {"create_pane", "launch", "prompt", "close_pane", "send"}]
      /\ \A v \in Command \ {c} : did'[v] = did[v]
      /\ repeated' = FALSE
    BY <1>0 DEF TypeInv, LifecycleInv
<1>10. /\ c \in results' => j.status \notin {"none", "running"}
       /\ results' \subseteq results \cup {c} /\ c \notin toNode' /\ toNode' \subseteq toNode
       /\ rec[c].status \notin {"none", "accepted"} \cup Final
    BY <1>0, <1>1, <1>2, <1>3 DEF CommandOk, RecordOk, Final
<1> QED  BY <1>0, <1>1, <1>2, <1>3, <1>4, <1>5, <1>6, <1>7, <1>8, <1>9, <1>10, WorkerStep

(* A step of the worker that has the command. *)
LEMMA WorkerMoves ==
    ASSUME LifecycleInv, NEW c \in Command, work[WorkerFor(c)].id = c,
           NEW j \in Entries, NEW w \in Works, w.id \in {c, NoTerminal},
           journal' = [journal EXCEPT ![c] = j],
           work' = [work EXCEPT ![WorkerFor(c)] = w],
           UNCHANGED <<rec, up, incarnation, refused, toNode>>, repeated' = FALSE,
           did' \in [Command -> SUBSET {"create_pane", "launch", "prompt", "close_pane", "send"}],
           \A v \in Command \ {c} : did'[v] = did[v],
           terminals' \subseteq terminals \cup {c},
           c \in terminals' => c \in terminals \/ j.receipt # NoReceipt,
           KindOf[c] = "control" /\ j.scope # 0 =>
              journal[c].scope # 0 \/ TerminalOf[c] \in terminals,
           \/ results' = results
           \/ results' = results \cup {c} /\ j.status \notin {"none", "running"},
           \/ progress' = progress
           \/ /\ progress' = Append(progress, [id |-> c, receipt |-> j.receipt])
              /\ j.receipt # NoReceipt /\ ValidateLifecycleReceipt(j.receipt, c),
           journal[c].receipt # NoReceipt =>
              /\ j.receipt # NoReceipt /\ j.receipt.incarnation = journal[c].receipt.incarnation
              /\ IsPrefixOf(journal[c].receipt.events, j.receipt.events),
           EntryOk(c)', WorkOk(c)', Apart'
    PROVE  LifecycleInv'
<1>1. /\ rec[c].status \notin {"none", "accepted"} \cup Final
      /\ c \notin toNode /\ c \notin results
    BY WorkerFacts
<1>2. progress' \in Seq([id : Command, receipt : Receipts]) /\ ProgressOk'
    BY ProgressGrows
<1>3. TargetsOk'
    BY TargetsKept
<1>4. /\ toNode' \subseteq toNode /\ results' \subseteq results \cup {c}
      /\ c \in toNode' => j.status = "none"
      /\ c \in results' => j.status \notin {"none", "running"}
    BY <1>1
<1> QED  BY <1>1, <1>2, <1>3, <1>4, WorkerStep

(* The entry does not change. *)
LEMMA EntryStays ==
    ASSUME LifecycleInv, NEW c \in Command, work[WorkerFor(c)].id = c, journal' = journal
    PROVE  /\ journal' = [journal EXCEPT ![c] = journal[c]] /\ Apart'
           /\ journal[c].receipt # NoReceipt =>
                 IsPrefixOf(journal[c].receipt.events, journal[c].receipt.events)
<1>0. journal \in [Command -> Entries] /\ journal[c] \in Entries
    BY WorkerFacts
<1>1. journal' = [journal EXCEPT ![c] = journal[c]]
    BY <1>0
<1>2. PICK j : j = journal[c]
    OBVIOUS
<1>3. Apart'
    BY <1>1, <1>2, ApartFrame DEF Unsettled
<1>4. journal[c].receipt # NoReceipt => journal[c].receipt.events \in Seq(Event)
    BY <1>0 DEF Entries, Receipts
<1> QED  BY <1>1, <1>3, <1>4, PrefixSame

(* Only the worker changes. *)
LEMMA MovesOn ==
    ASSUME LifecycleInv, NEW c \in Command, work[WorkerFor(c)].id = c,
           NEW w \in Works, w.id \in {c, NoTerminal},
           work' = [work EXCEPT ![WorkerFor(c)] = w],
           UNCHANGED <<journal, rec, toNode, progress, results, up, native, refused>>,
           WorkOk(c)'
    PROVE  LifecycleInv'
<1>0. /\ journal' = journal /\ did' = did /\ terminals' = terminals /\ rec' = rec
      /\ incarnation' = incarnation /\ repeated' = repeated
    BY DEF native
<1>1. EntryOk(c) /\ journal[c] \in Entries
    BY WorkerFacts
<1>2. EntryOk(c)'
    BY <1>0, <1>1 DEF EntryOk, Agrees
<1>3. /\ did' \in [Command -> SUBSET {"create_pane", "launch", "prompt", "close_pane", "send"}]
      /\ repeated' = FALSE
    BY <1>0 DEF LifecycleInv, TypeInv
<1>4. PICK j \in Entries : j = journal[c]
    BY <1>1
<1>5. /\ journal' = [journal EXCEPT ![c] = j] /\ Apart'
      /\ journal[c].receipt # NoReceipt => IsPrefixOf(journal[c].receipt.events, j.receipt.events)
    BY <1>0, <1>4, EntryStays
<1> QED  BY <1>0, <1>2, <1>3, <1>4, <1>5, WorkerMoves

(* A worker that only changes its step. *)
LEMMA Stepping ==
    ASSUME LifecycleInv, NEW c \in Command, NEW s \in Steps, SetStep(c, s)
    PROVE  /\ At(c, s) \in Works /\ At(c, s).id = c /\ At(c, s).step = s
           /\ work' = [work EXCEPT ![WorkerFor(c)] = At(c, s)]
           /\ work'[WorkerFor(c)] = At(c, s)
<1>1. work \in [Workers -> Works] /\ WorkerFor(c) \in Workers
    BY StageFacts DEF LifecycleInv, TypeInv, Works
<1>2. At(c, s) \in Works /\ At(c, s).id = c /\ At(c, s).step = s
    BY DEF At, Works, Outcomes
<1>3. work' = [work EXCEPT ![WorkerFor(c)] = At(c, s)]
    BY DEF SetStep
<1> QED  BY <1>1, <1>2, <1>3

LEMMA Releasing ==
    ASSUME LifecycleInv, NEW c \in Command, Release(c)
    PROVE  /\ Idle \in Works /\ Idle.id = NoTerminal
           /\ work' = [work EXCEPT ![WorkerFor(c)] = Idle]
           /\ WorkOk(c)'
<1>1. work \in [Workers -> Works] /\ WorkerFor(c) \in Workers
    BY StageFacts DEF LifecycleInv, TypeInv, Works
<1>2. Idle \in Works /\ Idle.id = NoTerminal
    BY DEF Idle, Works, Outcomes, Steps
<1>3. work' = [work EXCEPT ![WorkerFor(c)] = Idle]
    BY DEF Release
<1>4. work'[WorkerFor(c)] = Idle
    BY <1>1, <1>3
<1> QED  BY <1>2, <1>3, <1>4, LifecycleAssumption DEF WorkOk

(* The mutation is over, and its outcome is judged next. *)
LEMMA ToFinish ==
    ASSUME LifecycleInv, NEW c \in Command, work[WorkerFor(c)].id = c, IsLifecycleCommand(c),
           SetStep(c, "finish"),
           UNCHANGED <<journal, rec, toNode, progress, results, up, native, refused>>
    PROVE  LifecycleInv'
<1>1. /\ At(c, "finish") \in Works /\ At(c, "finish").id = c /\ At(c, "finish").step = "finish"
      /\ work' = [work EXCEPT ![WorkerFor(c)] = At(c, "finish")]
      /\ work'[WorkerFor(c)] = At(c, "finish")
    BY Stepping DEF Steps
<1>2. WorkOk(c)'
    BY <1>1, WorkerFacts DEF WorkOk
<1> QED  BY <1>1, <1>2, MovesOn

(* The end of a command. *)
LEMMA Completed ==
    ASSUME LifecycleInv, NEW c \in Command, work[WorkerFor(c)].id = c, 
           NEW s \in {"succeeded", "failed", "rejected", "timed_out", "indeterminate"},
           Complete(c, s), Agrees(s, c),
           IsLifecycleCommand(c) => ValidateLifecycleResult(s, journal[c].receipt, c, FALSE),
           UNCHANGED <<rec, toNode, progress, up, native, refused>>
    PROVE  LifecycleInv'
<1>0. /\ did' = did /\ terminals' = terminals /\ rec' = rec
      /\ incarnation' = incarnation /\ repeated' = repeated
    BY DEF native
<1>1. /\ EntryOk(c) /\ journal[c] \in Entries /\ journal \in [Command -> Entries]
      /\ journal[c].status = "running"
    BY WorkerFacts
<1>2. PICK j \in Entries : /\ journal' = [journal EXCEPT ![c] = j] /\ j.status = s
                           /\ j.receipt = journal[c].receipt /\ j.scope = journal[c].scope
  <2> DEFINE j == [journal[c] EXCEPT !.status = s]
  <2>1. j \in Entries /\ j.status = s /\ j.receipt = journal[c].receipt /\ j.scope = journal[c].scope
      BY <1>1 DEF Entries, Statuses, Final
  <2>2. journal' = [journal EXCEPT ![c] = j]
      BY <1>1 DEF Complete, Entries
  <2> QED  BY <2>1, <2>2
<1>3. journal'[c] = j
    BY <1>1, <1>2
<1>4. EntryOk(c)'
  <2>1. Agrees(s, c)'
      BY <1>0 DEF Agrees
  <2> QED  BY <1>0, <1>1, <1>2, <1>3, <2>1 DEF EntryOk
<1>5. Apart'
    BY <1>1, <1>2, ApartFrame DEF Unsettled
<1>6. /\ did' \in [Command -> SUBSET {"create_pane", "launch", "prompt", "close_pane", "send"}]
      /\ repeated' = FALSE
    BY <1>0 DEF LifecycleInv, TypeInv
<1>7. journal[c].receipt # NoReceipt => IsPrefixOf(journal[c].receipt.events, j.receipt.events)
  <2>1. journal[c].receipt # NoReceipt => journal[c].receipt.events \in Seq(Event)
      BY <1>1 DEF Entries, Receipts
  <2> QED  BY <1>2, <2>1, PrefixSame
<1>8. /\ Idle \in Works /\ Idle.id = NoTerminal
      /\ work' = [work EXCEPT ![WorkerFor(c)] = Idle] /\ WorkOk(c)'
    BY Releasing DEF Complete
<1>9. results' = results \/ (results' = results \cup {c} /\ j.status \notin {"none", "running"})
    BY <1>2 DEF Complete
<1> QED  BY <1>0, <1>2, <1>4, <1>5, <1>6, <1>7, <1>8, <1>9, WorkerMoves

(* A receipt is stored, and no effect happens. *)
LEMMA Stored ==
    ASSUME LifecycleInv, NEW c \in Command, work[WorkerFor(c)].id = c, IsLifecycleCommand(c),
           NEW r \in Receipts, SaveLifecycle(c, r),
           journal[c].receipt = NoReceipt => r.incarnation # 0,
           NEW s \in Steps, SetStep(c, s),
           UNCHANGED <<rec, toNode, results, up, native, refused>>,
           \/ progress' = progress
           \/ progress' = Append(progress, [id |-> c, receipt |-> r]),
           Evidence(r, did[c], c), s # "begin",
           WorkOk(c)'
    PROVE  LifecycleInv'
<1>0. /\ did' = did /\ terminals' = terminals /\ rec' = rec
      /\ incarnation' = incarnation /\ repeated' = repeated
    BY DEF native
<1>1. /\ EntryOk(c) /\ journal[c] \in Entries /\ journal \in [Command -> Entries]
      /\ journal[c].status = "running"
    BY WorkerFacts
<1>2. PICK j \in Entries : /\ journal' = [journal EXCEPT ![c] = j] /\ j.status = "running"
                           /\ j.receipt = r /\ j.scope = r.incarnation
  <2> DEFINE j == [journal[c] EXCEPT !.receipt = r, !.scope = r.incarnation]
  <2>1. j \in Entries /\ j.status = "running" /\ j.receipt = r /\ j.scope = r.incarnation
      BY <1>1 DEF Entries, Receipts
  <2>2. journal' = [journal EXCEPT ![c] = j]
      BY <1>1 DEF SaveLifecycle, Entries
  <2> QED  BY <2>1, <2>2
<1>3. journal'[c] = j
    BY <1>1, <1>2
<1>4. /\ r # NoReceipt /\ ValidateLifecycleReceipt(r, c) /\ ~NodeFenced(c, r.incarnation)
      /\ journal[c].receipt # NoReceipt =>
            /\ r.incarnation = journal[c].receipt.incarnation
            /\ IsPrefixOf(journal[c].receipt.events, r.events)
    BY DEF SaveLifecycle, ValidateLifecycleAdvance
<1>5. EntryOk(c)'
    BY <1>0, <1>1, <1>2, <1>3, <1>4 DEF EntryOk, Agrees
<1>6. Apart'
  <2>1. CASE journal[c].receipt = NoReceipt
    <3>1. Unsettled(c) /\ r.incarnation \in Nat
        BY <1>1 DEF Unsettled, Receipts
    <3> QED  BY <1>2, <1>4, <2>1, <3>1, ApartFence
  <2>2. CASE journal[c].receipt # NoReceipt
    <3>1. j.scope = journal[c].scope /\ Unsettled(c)
        BY <1>1, <1>2, <1>4, <2>2 DEF EntryOk, Unsettled
    <3> QED  BY <1>2, <3>1, ApartFrame
  <2> QED  BY <2>1, <2>2
<1>7. /\ did' \in [Command -> SUBSET {"create_pane", "launch", "prompt", "close_pane", "send"}]
      /\ repeated' = FALSE /\ KindOf[c] # "control"
    BY <1>0 DEF LifecycleInv, TypeInv, IsLifecycleCommand
<1>8. /\ At(c, s) \in Works /\ At(c, s).id = c
      /\ work' = [work EXCEPT ![WorkerFor(c)] = At(c, s)]
    BY Stepping
<1> QED  BY <1>0, <1>2, <1>4, <1>5, <1>6, <1>7, <1>8, WorkerMoves

LEMMA BeginKeeps == ASSUME LifecycleInv, NEW c \in Command, Begin(c) PROVE LifecycleInv'
<1>0. /\ IsLifecycleCommand(c) /\ work[WorkerFor(c)].id = c /\ work[WorkerFor(c)].step = "begin"
      /\ UNCHANGED <<rec, toNode, progress, results, up, native, refused>>
    BY DEF Begin, Working, messages
<1>1. CASE Release(c) /\ UNCHANGED journal
    BY <1>0, <1>1, Releasing, MovesOn
<1>2. CASE SetStep(c, "finish") /\ UNCHANGED journal
    BY <1>0, <1>2, ToFinish
<1>3. CASE /\ SaveLifecycle(c, [incarnation |-> incarnation, events |-> <<>>])
           /\ SetStep(c, "ready")
  <2>1. PICK r \in Receipts : /\ r = [incarnation |-> incarnation, events |-> <<>>]
                              /\ r.incarnation # 0 /\ r.events = <<>>
    <3>1. incarnation \in Nat /\ incarnation # 0 /\ <<>> \in Seq(Event)
        BY DEF LifecycleInv, TypeInv
    <3>2. [incarnation |-> incarnation, events |-> <<>>] \in Receipts
        BY <3>1 DEF Receipts
    <3> QED  BY <3>1, <3>2
  <2>2. did[c] = {} /\ journal[c].receipt = NoReceipt
      BY <1>0, WorkerFacts DEF WorkOk
  <2>3. Evidence(r, did[c], c)
    <3>0. r # NoReceipt
        BY <1>3, <2>1 DEF SaveLifecycle, ValidateLifecycleAdvance
    <3>1. PICK E \in Seq(Event) : E = <<>>
      <4>1. <<>> \in Seq(Event)
          OBVIOUS
      <4> QED  BY <4>1, Zenon
    <3>2. \A i \in 1..Len(E) : FALSE
        BY <3>1
    <3>3. \A s \in StageSet(c) : OutcomeAfter(E, Len(E), s) = "not_attempted"
        BY <3>2, OutcomeNone
    <3>4. r.events = E
        BY <2>1, <3>1
    <3> QED  BY <2>2, <3>0, <3>3, <3>4 DEF Evidence, LifecycleStageOutcome
  <2>4. WorkOk(c)'
    <3>1. work'[WorkerFor(c)].step = "ready"
        BY <1>3, Stepping DEF Steps
    <3>2. journal'[c].status = "running" /\ journal'[c].receipt # NoReceipt
      <4>1. /\ journal \in [Command -> Entries] /\ journal[c].status = "running"
            /\ journal' = [journal EXCEPT ![c].receipt = r, ![c].scope = r.incarnation]
            /\ r # NoReceipt
          BY <1>0, <1>3, <2>1, WorkerFacts DEF SaveLifecycle, ValidateLifecycleAdvance
      <4> QED  BY <4>1 DEF Entries
    <3> QED  BY <1>0, <3>1, <3>2 DEF WorkOk
  <2>5. "ready" \in Steps /\ "ready" # "begin" /\ SaveLifecycle(c, r)
      BY <1>3, <2>1 DEF Steps
  <2> QED  BY <1>0, <1>3, <2>1, <2>3, <2>4, <2>5, Stored
<1> QED  BY <1>1, <1>2, <1>3 DEF Begin

(* An event more on a receipt. *)
LEMMA ReceiptAppend ==
    ASSUME NEW r \in Receipts, NEW n \in Receipts, NEW e \in Event,
           n.events = Append(r.events, e)
    PROVE  /\ n.events # <<>> /\ n.events[Len(n.events)] = e
           /\ \A s : LifecycleStageOutcome(n, s) =
                       IF s = e.stage THEN e.outcome ELSE LifecycleStageOutcome(r, s)
<1>1. r.events \in Seq(Event)
    BY DEF Receipts
<1>2. n.events # <<>> /\ n.events[Len(n.events)] = e
    BY <1>1
<1>3. ASSUME NEW s
      PROVE  LifecycleStageOutcome(n, s) =
               IF s = e.stage THEN e.outcome ELSE LifecycleStageOutcome(r, s)
  <2>1. OutcomeAfter(Append(r.events, e), Len(Append(r.events, e)), s) =
          IF s = e.stage THEN e.outcome ELSE OutcomeAfter(r.events, Len(r.events), s)
      BY <1>1, OutcomeAppend
  <2> QED  BY <2>1 DEF LifecycleStageOutcome
<1> QED  BY <1>2, <1>3

Todo(E, c) == {i \in DOMAIN StagesOf(c) : \A e \in DOMAIN E : E[e].stage # StagesOf(c)[i]}
First(S)   == CHOOSE i \in S : \A j \in S : i <= j

(* The next stage is one of the command's, and nothing is known of it. *)
LEMMA NextStageFresh ==
    ASSUME NEW c \in Command, NextStage(c) # NoTerminal, journal[c].receipt \in Receipts
    PROVE  /\ NextStage(c) \in StageSet(c)
           /\ LifecycleStageOutcome(journal[c].receipt, NextStage(c)) = "not_attempted"
<1>1. PICK E : E = journal[c].receipt.events
    OBVIOUS
<1>2. PICK todo : todo = Todo(E, c)
    OBVIOUS
<1>3. NextStage(c) = IF todo = {} THEN NoTerminal ELSE StagesOf(c)[First(todo)]
  <2>1. NextStage(c) = IF Todo(journal[c].receipt.events, c) = {} THEN NoTerminal
                       ELSE StagesOf(c)[First(Todo(journal[c].receipt.events, c))]
      BY Zenon DEF NextStage, Todo, First
  <2> QED  BY <1>1, <1>2, <2>1
<1>4. todo # {} /\ todo \in SUBSET Nat
  <2>1. DOMAIN StagesOf(c) \subseteq Nat
      BY StageFacts
  <2>2. todo # {}
      BY <1>3
  <2>3. \A i \in todo : i \in DOMAIN StagesOf(c)
      BY <1>2 DEF Todo
  <2> QED  BY <2>1, <2>2, <2>3
<1>5. First(todo) \in todo
  <2>1. \E i \in todo : \A j \in todo : i <= j
      BY <1>4, Least
  <2> QED  BY <2>1 DEF First
<1>6. E \in Seq(Event)
    BY <1>1 DEF Receipts
<1>7. /\ NextStage(c) = StagesOf(c)[First(todo)] /\ First(todo) \in DOMAIN StagesOf(c)
      /\ \A e \in DOMAIN E : E[e].stage # NextStage(c)
    BY <1>2, <1>3, <1>4, <1>5 DEF Todo
<1>8. OutcomeAfter(E, Len(E), NextStage(c)) = "not_attempted"
  <2>1. DOMAIN E = 1..Len(E)
      BY <1>6
  <2> QED  BY <1>6, <1>7, <2>1, OutcomeNone
<1> QED  BY <1>1, <1>7, <1>8 DEF StageSet, LifecycleStageOutcome

(* What a worker between "begin" and the end has. *)
LEMMA StartedFacts ==
    ASSUME LifecycleInv, NEW c \in Command, work[WorkerFor(c)].id = c, IsLifecycleCommand(c),
           work[WorkerFor(c)].step \in {"ready", "effect", "record"}
    PROVE  /\ journal[c].receipt # NoReceipt /\ journal[c].receipt \in Receipts
           /\ Evidence(journal[c].receipt, did[c], c) /\ did[c] \subseteq StageSet(c)
           /\ StageSet(c) \subseteq {"create_pane", "launch", "prompt", "close_pane"}
           /\ journal \in [Command -> Entries] /\ journal[c].status = "running"
<1>1. /\ WorkOk(c) /\ EntryOk(c) /\ journal[c] \in Entries
      /\ journal \in [Command -> Entries] /\ journal[c].status = "running"
    BY WorkerFacts
<1>2. journal[c].receipt # NoReceipt /\ journal[c].receipt \in Receipts
    BY <1>1 DEF WorkOk, Entries
<1> QED  BY <1>1, <1>2, StageFacts DEF EntryOk

(* What the entry is once a receipt is stored. *)
LEMMA SavedEntry ==
    ASSUME NEW c \in Command, journal \in [Command -> Entries], NEW r, SaveLifecycle(c, r)
    PROVE  /\ journal'[c].receipt = r /\ journal'[c].status = journal[c].status /\ r # NoReceipt
<1>1. journal' = [journal EXCEPT ![c].receipt = r, ![c].scope = r.incarnation] /\ r # NoReceipt
    BY DEF SaveLifecycle, ValidateLifecycleAdvance
<1>2. journal'[c] = [journal[c] EXCEPT !.receipt = r, !.scope = r.incarnation] /\ journal[c] \in Entries
    BY <1>1
<1> QED  BY <1>1, <1>2 DEF Entries

LEMMA IntendKeeps == ASSUME LifecycleInv, NEW c \in Command, Intend(c) PROVE LifecycleInv'
<1>0. /\ IsLifecycleCommand(c) /\ work[WorkerFor(c)].id = c /\ work[WorkerFor(c)].step = "ready"
      /\ UNCHANGED <<rec, toNode, results, up, native, refused>>
    BY DEF Intend, Working
<1>1. CASE SetStep(c, "finish") /\ UNCHANGED <<journal, progress>>
    BY <1>0, <1>1, ToFinish
<1> DEFINE e == Intent(NextStage(c))
           next == [journal[c].receipt EXCEPT !.events = Append(@, e)]
<1>2. ASSUME NextStage(c) # NoTerminal, SaveLifecycle(c, next),
             NEW s \in {"effect", "finish"}, SetStep(c, s),
             \/ progress' = progress
             \/ progress' = Append(progress, [id |-> c, receipt |-> next])
      PROVE  LifecycleInv'
  <2>1. /\ journal[c].receipt # NoReceipt /\ journal[c].receipt \in Receipts
        /\ Evidence(journal[c].receipt, did[c], c) /\ did[c] \subseteq StageSet(c)
        /\ StageSet(c) \subseteq {"create_pane", "launch", "prompt", "close_pane"}
        /\ journal \in [Command -> Entries] /\ journal[c].status = "running"
      BY <1>0, StartedFacts
  <2>2. /\ NextStage(c) \in StageSet(c)
        /\ LifecycleStageOutcome(journal[c].receipt, NextStage(c)) = "not_attempted"
      BY <1>2, <2>1, NextStageFresh
  <2>3. NextStage(c) \notin did[c]
      BY <2>1, <2>2 DEF Evidence
  <2>4. e \in Event /\ e.stage = NextStage(c) /\ e.outcome = "unknown"
    <3>1. NextStage(c) \in {"create_pane", "launch", "prompt", "close_pane"}
        BY <2>1, <2>2
    <3> QED  BY <3>1 DEF Intent, Event, Outcomes
  <2> HIDE DEF e
  <2>5. PICK r : r = next
      OBVIOUS
  <2>6. /\ r \in Receipts /\ r.events # <<>> /\ r.events[Len(r.events)] = e
        /\ \A t : LifecycleStageOutcome(r, t) =
                    IF t = e.stage THEN e.outcome ELSE LifecycleStageOutcome(journal[c].receipt, t)
    <3>1. PICK q \in Receipts : q = journal[c].receipt
        BY <2>1
    <3>2. PICK v \in Event : v = e
        BY <2>4
    <3>3. r = [q EXCEPT !.events = Append(q.events, v)] /\ q.events \in Seq(Event)
        BY <2>5, <3>1, <3>2 DEF Receipts
    <3>4. Append(q.events, v) \in Seq(Event)
        BY <3>3
    <3>5. r \in Receipts /\ r.events = Append(q.events, v)
        BY <3>3, <3>4 DEF Receipts
    <3>6. /\ r.events # <<>> /\ r.events[Len(r.events)] = v
          /\ \A t : LifecycleStageOutcome(r, t) =
                      IF t = v.stage THEN v.outcome ELSE LifecycleStageOutcome(q, t)
        BY <3>5, ReceiptAppend
    <3> QED  BY <3>1, <3>2, <3>5, <3>6, Zenon
  <2> HIDE DEF next
  <2>7. /\ journal'[c].receipt = r /\ journal'[c].status = "running" /\ r # NoReceipt
      BY <1>2, <2>1, <2>5, SavedEntry
  <2>8. Evidence(r, did[c], c)
    <3>1. \A t \in StageSet(c) : t \in did[c] => LifecycleStageOutcome(r, t) # "not_attempted"
        BY <2>1, <2>4, <2>5, <2>6 DEF Evidence
    <3>2. \A t \in StageSet(c) : LifecycleStageOutcome(r, t) = "confirmed" => t \in did[c]
        BY <2>1, <2>4, <2>5, <2>6 DEF Evidence
    <3> QED  BY <2>7, <3>1, <3>2 DEF Evidence
  <2>9. WorkOk(c)'
    <3>1. work'[WorkerFor(c)].step = s /\ s \in Steps
        BY <1>2, Stepping DEF Steps
    <3>2. LastEvent(c)' = e /\ journal'[c].receipt.events # <<>>
        BY <2>5, <2>6, <2>7 DEF LastEvent
    <3>3. did' = did
        BY <1>0 DEF native
    <3> QED  BY <1>0, <2>2, <2>3, <2>4, <2>7, <3>1, <3>2, <3>3 DEF WorkOk
  <2>10. s \in Steps /\ s # "begin" /\ SaveLifecycle(c, r)
         /\ (progress' = progress \/ progress' = Append(progress, [id |-> c, receipt |-> r]))
      BY <1>2, <2>1, <2>5, <2>6 DEF Steps
  <2>11. SetStep(c, s)
      BY <1>2
  <2> QED  BY <1>0, <2>1, <2>6, <2>8, <2>9, <2>10, <2>11, Stored
<1>3. CASE ~(SetStep(c, "finish") /\ UNCHANGED <<journal, progress>>)
  <2>1. /\ NextStage(c) # NoTerminal /\ SaveLifecycle(c, next)
        /\ \/ SetStep(c, "effect") /\ SendProgress(c, next)
           \/ SetStep(c, "finish") /\ UNCHANGED progress
      BY <1>3 DEF Intend
  <2>2. SendProgress(c, next) => \/ progress' = progress
                                 \/ progress' = Append(progress, [id |-> c, receipt |-> next])
      BY DEF SendProgress
  <2> HIDE DEF next
  <2> QED  BY <1>2, <2>1, <2>2
<1> QED  BY <1>1, <1>3

(* An effect, or a failure before it, is observed. *)
LEMMA EffectKeeps == ASSUME LifecycleInv, NEW c \in Command, Effect(c) PROVE LifecycleInv'
<1> DEFINE W == work[WorkerFor(c)]
           stage == LastStage(journal[c].receipt)
           Seen(o) == [W EXCEPT !.step = "record", !.outcome = o]
<1>0. /\ IsLifecycleCommand(c) /\ W.id = c /\ W.step = "effect"
      /\ rec' = rec /\ journal' = journal /\ toNode' = toNode /\ progress' = progress
      /\ results' = results /\ up' = up /\ refused' = refused
    BY DEF Effect, EffectWith, Working, messages
<1>1. /\ journal[c].receipt # NoReceipt /\ journal[c].receipt \in Receipts
      /\ Evidence(journal[c].receipt, did[c], c) /\ did[c] \subseteq StageSet(c)
      /\ StageSet(c) \subseteq {"create_pane", "launch", "prompt", "close_pane"}
      /\ journal[c].status = "running" /\ journal[c] \in Entries
      /\ work \in [Workers -> Works] /\ WorkerFor(c) \in Workers /\ EntryOk(c)
    BY <1>0, StartedFacts, WorkerFacts
<1>2. /\ journal[c].receipt.events # <<>> /\ LastEvent(c).stage = stage
      /\ stage \in StageSet(c) /\ LastEvent(c).outcome = "unknown" /\ stage \notin did[c]
    BY <1>0, WorkerFacts DEF WorkOk, LastEvent, LastStage
<1>3. LifecycleStageOutcome(journal[c].receipt, stage) = "unknown"
  <2>1. PICK E \in Seq(Event) : E = journal[c].receipt.events
      BY <1>1 DEF Receipts
  <2>2. OutcomeAfter(E, Len(E), E[Len(E)].stage) = E[Len(E)].outcome
      BY <1>2, <2>1, OutcomeLast
  <2> QED  BY <1>2, <2>1, <2>2 DEF LastEvent, LifecycleStageOutcome
<1> HIDE DEF stage
<1>4. ASSUME NEW o \in Outcomes,
             work' = [work EXCEPT ![WorkerFor(c)].step = "record", ![WorkerFor(c)].outcome = o],
             \/ UNCHANGED native /\ o # "confirmed"
             \/ Perform(c, stage) /\ o # "not_attempted"
      PROVE  LifecycleInv'
  <2>1. W \in Works
      BY <1>1
  <2>2. PICK w \in Works : /\ w.id = c /\ w.step = "record" /\ w.outcome = o
                           /\ work' = [work EXCEPT ![WorkerFor(c)] = w]
    <3>1. Seen(o) \in Works /\ Seen(o).id = c /\ Seen(o).step = "record" /\ Seen(o).outcome = o
        BY <1>0, <2>1 DEF Works, Steps
    <3>2. work' = [work EXCEPT ![WorkerFor(c)] = Seen(o)]
        BY <1>1, <1>4, <2>1 DEF Works
    <3> QED  BY <3>1, <3>2
  <2>3. work'[WorkerFor(c)] = w
      BY <1>1, <2>2
  <2>4. /\ did' \in [Command -> SUBSET {"create_pane", "launch", "prompt", "close_pane", "send"}]
        /\ \A v \in Command \ {c} : did'[v] = did[v]
        /\ did'[c] = did[c] \/ did'[c] = did[c] \cup {stage}
        /\ o = "confirmed" => stage \in did'[c]
        /\ o = "not_attempted" => did'[c] = did[c]
        /\ repeated' = FALSE /\ incarnation' = incarnation
        /\ terminals' \subseteq terminals \cup {c}
    <3>0. /\ did \in [Command -> SUBSET {"create_pane", "launch", "prompt", "close_pane", "send"}]
          /\ repeated = FALSE
        BY DEF LifecycleInv, TypeInv
    <3>1. CASE UNCHANGED native /\ o # "confirmed"
        BY <3>0, <3>1 DEF native
    <3>2. CASE Perform(c, stage) /\ o # "not_attempted"
      <4>1. stage \in {"create_pane", "launch", "prompt", "close_pane"}
          BY <1>1, <1>2
      <4>2. /\ did' = [did EXCEPT ![c] = did[c] \cup {stage}] /\ incarnation' = incarnation
            /\ repeated' = (repeated \/ stage \in did[c])
          BY <3>2 DEF Perform
      <4>3. terminals' \subseteq terminals \cup {c}
          BY <3>2, <4>1 DEF Perform
      <4>4. repeated' = FALSE
          BY <1>2, <3>0, <4>2
      <4> QED  BY <3>0, <3>2, <4>1, <4>2, <4>3, <4>4
    <3> QED  BY <1>4, <3>1, <3>2
  <2>5. EntryOk(c)'
    <3>1. did'[c] \subseteq StageSet(c)
        BY <1>1, <1>2, <2>4
    <3>2. Evidence(journal[c].receipt, did'[c], c)
        BY <1>1, <1>2, <1>3, <2>4 DEF Evidence
    <3> QED  BY <1>0, <1>1, <3>1, <3>2 DEF EntryOk, Agrees
  <2>6. WorkOk(c)'
    <3>1. LastEvent(c)' = LastEvent(c)
        BY <1>0 DEF LastEvent
    <3> QED  BY <1>0, <1>1, <1>2, <2>2, <2>3, <2>4, <3>1 DEF WorkOk
  <2>7. PICK j \in Entries : j = journal[c]
      BY <1>1
  <2>8. /\ journal' = [journal EXCEPT ![c] = j] /\ Apart'
        /\ IsPrefixOf(journal[c].receipt.events, j.receipt.events)
      BY <1>0, <1>1, <2>7, EntryStays
  <2>9. w.id \in {c, NoTerminal} /\ work[WorkerFor(c)].id = c /\ KindOf[c] # "control"
      BY <1>0, <2>2 DEF IsLifecycleCommand
  <2> HIDE DEF W
  <2> QED  BY <1>0, <1>1, <2>2, <2>4, <2>5, <2>6, <2>7, <2>8, <2>9, WorkerMoves
<1>5. PICK o \in Outcomes :
         /\ work' = [work EXCEPT ![WorkerFor(c)].step = "record", ![WorkerFor(c)].outcome = o]
         /\ \/ UNCHANGED native /\ o # "confirmed"
            \/ Perform(c, stage) /\ o # "not_attempted"
    BY DEF Effect, EffectWith, stage, Outcomes
<1> QED  BY <1>4, <1>5

(* The completion is stored, and agrees with what was observed. *)
LEMMA RecordKeeps == ASSUME LifecycleInv, NEW c \in Command, Record(c) PROVE LifecycleInv'
<1> DEFINE W == work[WorkerFor(c)]
           e == Completion(LastStage(journal[c].receipt), W.outcome)
           next == [journal[c].receipt EXCEPT !.events = Append(@, e)]
<1>0. /\ IsLifecycleCommand(c) /\ W.id = c /\ W.step = "record"
      /\ UNCHANGED <<rec, toNode, results, up, native, refused>>
    BY DEF Record, Working
<1>1. CASE SetStep(c, "finish") /\ UNCHANGED <<journal, progress>>
    BY <1>0, <1>1, ToFinish
<1>2. ASSUME SaveLifecycle(c, next), NEW s \in {"ready", "finish"}, SetStep(c, s),
             \/ progress' = progress
             \/ progress' = Append(progress, [id |-> c, receipt |-> next])
      PROVE  LifecycleInv'
  <2>1. /\ journal[c].receipt # NoReceipt /\ journal[c].receipt \in Receipts
        /\ Evidence(journal[c].receipt, did[c], c)
        /\ StageSet(c) \subseteq {"create_pane", "launch", "prompt", "close_pane"}
        /\ journal \in [Command -> Entries] /\ journal[c].status = "running"
      BY <1>0, StartedFacts
  <2>2. /\ e.stage \in StageSet(c) /\ e.outcome = W.outcome
        /\ W.outcome = "confirmed" => e.stage \in did[c]
        /\ W.outcome = "not_attempted" => e.stage \notin did[c]
      BY <1>0, WorkerFacts DEF WorkOk, LastEvent, LastStage, Completion
  <2>3. e \in Event
    <3>1. e.stage \in {"create_pane", "launch", "prompt", "close_pane"} /\ e.stage = LastStage(journal[c].receipt)
        BY <2>1, <2>2 DEF Completion
    <3>2. W.outcome \in Outcomes
        BY <1>0, WorkerFacts DEF Works
    <3> QED  BY <3>1, <3>2 DEF Completion, Event
  <2> HIDE DEF e
  <2>4. PICK r : r = next
      OBVIOUS
  <2>5. PICK q \in Receipts, v \in Event : q = journal[c].receipt /\ v = e
      BY <2>1, <2>3
  <2>6. r = [q EXCEPT !.events = Append(q.events, v)] /\ q.events \in Seq(Event)
      BY <2>4, <2>5 DEF Receipts
  <2>7. Append(q.events, v) \in Seq(Event)
      BY <2>6
  <2>8. r \in Receipts /\ r.events = Append(q.events, v)
      BY <2>6, <2>7 DEF Receipts
  <2>9. \A t : LifecycleStageOutcome(r, t) =
                 IF t = v.stage THEN v.outcome ELSE LifecycleStageOutcome(q, t)
      BY <2>8, ReceiptAppend
  <2> HIDE DEF next, W
  <2>10. /\ journal'[c].receipt = r /\ journal'[c].status = "running" /\ r # NoReceipt
      BY <1>2, <2>1, <2>4, SavedEntry
  <2>11. Evidence(r, did[c], c)
    <3>1. \A t \in StageSet(c) : t \in did[c] => LifecycleStageOutcome(r, t) # "not_attempted"
        BY <2>1, <2>2, <2>5, <2>9 DEF Evidence
    <3>2. \A t \in StageSet(c) : LifecycleStageOutcome(r, t) = "confirmed" => t \in did[c]
        BY <2>1, <2>2, <2>5, <2>9 DEF Evidence
    <3> QED  BY <2>10, <3>1, <3>2 DEF Evidence
  <2>12. WorkOk(c)'
    <3>1. work'[WorkerFor(c)].step = s /\ s \in Steps
        BY <1>2, Stepping DEF Steps
    <3> QED  BY <1>0, <2>10, <3>1 DEF WorkOk
  <2>13. s \in Steps /\ s # "begin" /\ SaveLifecycle(c, r) /\ SetStep(c, s)
         /\ (progress' = progress \/ progress' = Append(progress, [id |-> c, receipt |-> r]))
         /\ work[WorkerFor(c)].id = c
      BY <1>0, <1>2, <2>4 DEF Steps, W
  <2> QED  BY <1>0, <2>1, <2>8, <2>11, <2>12, <2>13, Stored
<1>3. CASE ~(SetStep(c, "finish") /\ UNCHANGED <<journal, progress>>)
  <2>1. /\ SaveLifecycle(c, next)
        /\ \/ SendProgress(c, next) /\ SetStep(c, IF W.outcome = "confirmed" THEN "ready" ELSE "finish")
           \/ SetStep(c, "finish") /\ UNCHANGED progress
      BY <1>3 DEF Record
  <2>2. SendProgress(c, next) => \/ progress' = progress
                                 \/ progress' = Append(progress, [id |-> c, receipt |-> next])
      BY DEF SendProgress
  <2> HIDE DEF next, W
  <2>3. CASE W.outcome = "confirmed"
      BY <1>2, <2>1, <2>2, <2>3
  <2>4. CASE W.outcome # "confirmed"
      BY <1>2, <2>1, <2>2, <2>4
  <2> QED  BY <2>3, <2>4
<1> QED  BY <1>1, <1>3

LEMMA FinishKeeps == ASSUME LifecycleInv, NEW c \in Command, Finish(c) PROVE LifecycleInv'
<1>0. /\ IsLifecycleCommand(c) /\ work[WorkerFor(c)].id = c
      /\ UNCHANGED <<rec, toNode, progress, up, native, refused>>
    BY DEF Finish, Working
<1>1. PICK s \in DerivedStatus(journal[c].receipt, c) : Complete(c, s)
    BY DEF Finish
<1>2. /\ journal[c].receipt \in Receipts \cup {NoReceipt} /\ did[c] \subseteq StageSet(c)
      /\ Evidence(journal[c].receipt, did[c], c)
    BY <1>0, WorkerFacts DEF EntryOk, Entries
<1>3. /\ s \in {"succeeded", "failed", "rejected", "timed_out", "indeterminate"}
      /\ Agrees(s, c) /\ ValidateLifecycleResult(s, journal[c].receipt, c, FALSE)
    BY <1>0, <1>2, JudgedHonestly
<1> QED  BY <1>0, <1>1, <1>3, Completed

(* Controls. *)
LEMMA ControlFacts ==
    ASSUME LifecycleInv, NEW c \in Command, work[WorkerFor(c)].id = c, ~IsLifecycleCommand(c)
    PROVE  /\ journal[c].receipt = NoReceipt /\ StageSet(c) = {"send"} /\ KindOf[c] # "start"
           /\ work[WorkerFor(c)].step # "finish" => did[c] = {}
           /\ work[WorkerFor(c)].step = "finish" /\ work[WorkerFor(c)].outcome = "confirmed" =>
                 did[c] = StageSet(c)
  BY WorkerFacts, StageFacts DEF WorkOk, EntryOk, IsLifecycleCommand

LEMMA AbandonKeeps ==
    ASSUME LifecycleInv, NEW c \in Command, work[WorkerFor(c)].id = c, Abandon(c),
           UNCHANGED <<rec, toNode, progress, up, native, refused>>
    PROVE  LifecycleInv'
  BY Releasing, MovesOn DEF Abandon

LEMMA PinKeeps ==
    ASSUME LifecycleInv, NEW c \in Command, NEW from \in Steps, NEW to \in {"pinned", "effect"},
           from \in {"begin", "pinned"}, PinControl(c, from, to)
    PROVE  LifecycleInv'
<1>0. /\ ~IsLifecycleCommand(c) /\ work[WorkerFor(c)].id = c /\ work[WorkerFor(c)].step = from
      /\ UNCHANGED <<rec, toNode, progress, up, native, refused>>
    BY DEF PinControl, Working
<1>1. /\ journal[c].receipt = NoReceipt /\ StageSet(c) = {"send"} /\ KindOf[c] # "start"
      /\ did[c] = {}
    BY <1>0, ControlFacts
<1>2. CASE Abandon(c)
    BY <1>0, <1>2, AbandonKeeps
<1>3. CASE RefuseControl(c)
  <2>1. PICK s \in {"rejected", "timed_out"} : Complete(c, s)
      BY <1>3 DEF RefuseControl
  <2>2. Agrees(s, c)
      BY <1>1 DEF Agrees
  <2> QED  BY <1>0, <2>1, <2>2, Completed
<1>4. CASE /\ SessionResolves(c) /\ TargetThere(c, "send") /\ PinAgentCommand(c)
           /\ SetStep(c, to) /\ UNCHANGED results
  <2>0. /\ did' = did /\ terminals' = terminals /\ rec' = rec
        /\ incarnation' = incarnation /\ repeated' = repeated
      BY <1>0 DEF native
  <2>1. /\ EntryOk(c) /\ journal[c] \in Entries /\ journal \in [Command -> Entries]
        /\ journal[c].status = "running"
      BY <1>0, WorkerFacts
  <2>2. incarnation \in Nat /\ incarnation # 0
      BY DEF LifecycleInv, TypeInv
  <2>3. PICK j \in Entries : /\ journal' = [journal EXCEPT ![c] = j] /\ j.status = "running"
                             /\ j.receipt = NoReceipt /\ j.scope = incarnation
    <3> DEFINE j == [journal[c] EXCEPT !.scope = incarnation]
    <3>1. j \in Entries /\ j.status = "running" /\ j.receipt = NoReceipt /\ j.scope = incarnation
        BY <1>1, <2>1, <2>2 DEF Entries
    <3>2. journal' = [journal EXCEPT ![c] = j]
        BY <1>4, <2>1 DEF PinAgentCommand, Entries
    <3> QED  BY <3>1, <3>2
  <2>4. journal'[c] = j
      BY <2>1, <2>3
  <2>5. EntryOk(c)'
      BY <1>0, <1>1, <1>4, <2>0, <2>1, <2>2, <2>3, <2>4 DEF EntryOk, Agrees, SessionResolves
  <2>6. Apart'
    <3>1. Unsettled(c) /\ ~NodeFenced(c, incarnation)
        BY <1>4, <2>1 DEF Unsettled, PinAgentCommand
    <3>2. PICK k \in Nat : k = incarnation
        BY <2>2
    <3> QED  BY <1>1, <2>2, <2>3, <3>1, <3>2, ApartFence
  <2>7. TerminalOf[c] \in terminals
      BY <1>1, <1>4 DEF TargetThere
  <2>8. /\ did' \in [Command -> SUBSET {"create_pane", "launch", "prompt", "close_pane", "send"}]
        /\ repeated' = FALSE
      BY <2>0 DEF LifecycleInv, TypeInv
  <2>9. /\ At(c, to) \in Works /\ At(c, to).id = c /\ At(c, to).step = to
        /\ work' = [work EXCEPT ![WorkerFor(c)] = At(c, to)]
        /\ work'[WorkerFor(c)] = At(c, to)
      BY <1>4, Stepping DEF Steps
  <2>10. WorkOk(c)'
      BY <1>0, <1>1, <2>0, <2>3, <2>4, <2>9 DEF WorkOk
  <2> QED  BY <1>0, <1>1, <1>4, <2>0, <2>3, <2>5, <2>6, <2>7, <2>8, <2>9, <2>10, WorkerMoves
<1> QED  BY <1>2, <1>3, <1>4 DEF PinControl

LEMMA SendControlKeeps == ASSUME LifecycleInv, NEW c \in Command, SendControl(c) PROVE LifecycleInv'
<1> DEFINE W == work[WorkerFor(c)]
           Sent(o) == [W EXCEPT !.step = "finish", !.outcome = o]
<1>0. /\ ~IsLifecycleCommand(c) /\ W.id = c /\ W.step = "effect"
      /\ rec' = rec /\ journal' = journal /\ toNode' = toNode /\ progress' = progress
      /\ results' = results /\ up' = up /\ refused' = refused
    BY DEF SendControl, Working, messages
<1>1. /\ journal[c].receipt = NoReceipt /\ StageSet(c) = {"send"} /\ did[c] = {}
      /\ EntryOk(c) /\ journal[c] \in Entries /\ journal[c].status = "running"
      /\ work \in [Workers -> Works] /\ WorkerFor(c) \in Workers
    BY <1>0, ControlFacts, WorkerFacts
<1>2. PICK o \in Outcomes :
         /\ work' = [work EXCEPT ![WorkerFor(c)].step = "finish", ![WorkerFor(c)].outcome = o]
         /\ \/ UNCHANGED native /\ o # "confirmed"
            \/ Perform(c, "send")
    BY DEF SendControl, Outcomes
<1>3. W \in Works
    BY <1>1
<1>4. PICK w \in Works : /\ w.id = c /\ w.step = "finish" /\ w.outcome = o
                         /\ work' = [work EXCEPT ![WorkerFor(c)] = w]
  <2>1. Sent(o) \in Works /\ Sent(o).id = c /\ Sent(o).step = "finish" /\ Sent(o).outcome = o
      BY <1>0, <1>3 DEF Works, Steps
  <2>2. work' = [work EXCEPT ![WorkerFor(c)] = Sent(o)]
      BY <1>1, <1>2, <1>3 DEF Works
  <2> QED  BY <2>1, <2>2
<1>5. work'[WorkerFor(c)] = w
    BY <1>1, <1>4
<1>6. /\ did' \in [Command -> SUBSET {"create_pane", "launch", "prompt", "close_pane", "send"}]
      /\ \A v \in Command \ {c} : did'[v] = did[v]
      /\ did'[c] \subseteq StageSet(c)
      /\ o = "confirmed" => did'[c] = StageSet(c)
      /\ repeated' = FALSE /\ incarnation' = incarnation /\ terminals' = terminals
  <2>0. /\ did \in [Command -> SUBSET {"create_pane", "launch", "prompt", "close_pane", "send"}]
        /\ repeated = FALSE
      BY DEF LifecycleInv, TypeInv
  <2>1. CASE UNCHANGED native /\ o # "confirmed"
      BY <1>1, <2>0, <2>1 DEF native
  <2>2. CASE Perform(c, "send")
    <3>1. /\ did' = [did EXCEPT ![c] = did[c] \cup {"send"}] /\ incarnation' = incarnation
          /\ repeated' = (repeated \/ "send" \in did[c])
        BY <2>2 DEF Perform
    <3>2. terminals' = terminals
        BY <2>2 DEF Perform
    <3>3. repeated' = FALSE
        BY <1>1, <2>0, <3>1
    <3> QED  BY <1>1, <2>0, <3>1, <3>2, <3>3
  <2> QED  BY <1>2, <2>1, <2>2
<1>7. EntryOk(c)'
    BY <1>0, <1>1, <1>6 DEF EntryOk, Agrees
<1>8. WorkOk(c)'
    BY <1>0, <1>1, <1>4, <1>5, <1>6 DEF WorkOk
<1>9. PICK j \in Entries : j = journal[c]
    BY <1>1
<1>10. journal' = [journal EXCEPT ![c] = j] /\ Apart'
    BY <1>0, <1>9, EntryStays
<1>11. /\ w.id \in {c, NoTerminal} /\ work[WorkerFor(c)].id = c
       /\ KindOf[c] = "control" /\ j.scope # 0 => journal[c].scope # 0
    BY <1>0, <1>4, <1>9
<1> HIDE DEF W
<1> QED  BY <1>0, <1>1, <1>4, <1>6, <1>7, <1>8, <1>9, <1>10, <1>11, WorkerMoves

LEMMA FinishControlKeeps == ASSUME LifecycleInv, NEW c \in Command, FinishControl(c) PROVE LifecycleInv'
<1>0. /\ ~IsLifecycleCommand(c) /\ work[WorkerFor(c)].id = c /\ work[WorkerFor(c)].step = "finish"
      /\ UNCHANGED <<rec, toNode, progress, up, native, refused>>
    BY DEF FinishControl, Working
<1>1. CASE Abandon(c)
    BY <1>0, <1>1, AbandonKeeps
<1>2. CASE Complete(c, "indeterminate")
  <2>1. Agrees("indeterminate", c)
      BY DEF Agrees
  <2> QED  BY <1>0, <1>2, <2>1, Completed
<1>3. CASE work[WorkerFor(c)].outcome = "confirmed" /\ Complete(c, "succeeded")
  <2>1. Agrees("succeeded", c)
      BY <1>0, <1>3, ControlFacts DEF Agrees
  <2> QED  BY <1>0, <1>3, <2>1, Completed
<1> QED  BY <1>1, <1>2, <1>3 DEF FinishControl
-----------------------------------------------------------------------------
(* Recovery and native restarts. *)

LEMMA ConnectKeeps == ASSUME LifecycleInv, Connect PROVE LifecycleInv'
<1>0. /\ TypeInv /\ rec' = rec /\ work' = work /\ toNode' = toNode /\ progress' = progress
      /\ refused' = refused /\ incarnation' = incarnation /\ terminals' = terminals
      /\ did' = did /\ repeated' = repeated
      /\ \A w \in Workers : work[w] = Idle
      /\ results' = {c \in Command : journal[c].status # "none"}
      /\ up' = [open |-> TRUE, count |-> up.count + 1]
      /\ journal' = [c \in Command |->
                       IF journal[c].status = "running"
                       THEN [journal[c] EXCEPT !.status = RecoveredStatus(journal[c].receipt, c)]
                       ELSE journal[c]]
    BY DEF LifecycleInv, Connect, native
<1>1. ASSUME NEW c \in Command
      PROVE  /\ journal'[c] \in Entries
             /\ journal'[c].receipt = journal[c].receipt /\ journal'[c].scope = journal[c].scope
             /\ IF journal[c].status = "running"
                THEN /\ journal'[c].status \in {"succeeded", "failed", "rejected", "timed_out", "indeterminate"}
                     /\ Agrees(journal'[c].status, c)
                     /\ IsLifecycleCommand(c) =>
                          ValidateLifecycleResult(journal'[c].status, journal[c].receipt, c, FALSE)
                ELSE journal'[c].status = journal[c].status
  <2>1. journal[c] \in Entries /\ EntryOk(c)
      BY <1>0 DEF TypeInv, Entries, LifecycleInv, CommandOk
  <2>2. CASE journal[c].status = "running"
    <3>1. PICK s : s = RecoveredStatus(journal[c].receipt, c)
        OBVIOUS
    <3>2. /\ s \in {"succeeded", "failed", "rejected", "timed_out", "indeterminate"}
          /\ Agrees(s, c)
          /\ IsLifecycleCommand(c) => ValidateLifecycleResult(s, journal[c].receipt, c, FALSE)
      <4>1. CASE IsLifecycleCommand(c)
          BY <2>1, <3>1, <4>1, JudgedHonestly DEF EntryOk, Entries
      <4>2. CASE ~IsLifecycleCommand(c)
          BY <3>1, <4>2 DEF RecoveredStatus, Agrees
      <4> QED  BY <4>1, <4>2
    <3>3. journal'[c] = [journal[c] EXCEPT !.status = s]
        BY <1>0, <2>2, <3>1
    <3>4. /\ journal'[c] \in Entries /\ journal'[c].status = s
          /\ journal'[c].receipt = journal[c].receipt /\ journal'[c].scope = journal[c].scope
        BY <2>1, <3>2, <3>3 DEF Entries, Statuses, Final
    <3> QED  BY <2>2, <3>2, <3>4
  <2>3. CASE journal[c].status # "running"
      BY <1>0, <2>1, <2>3
  <2> QED  BY <2>2, <2>3
<1>2. TypeInv'
  <2>1. journal' \in [Command -> Entries]
      BY <1>0, <1>1
  <2>2. up' \in [open : BOOLEAN, count : Nat]
      BY <1>0 DEF TypeInv
  <2>3. results' \subseteq Command
      BY <1>0
  <2> QED  BY <1>0, <2>1, <2>2, <2>3 DEF TypeInv, Entries
<1>3. ASSUME NEW c \in Command PROVE CommandOk(c)'
  <2>0. CommandOk(c) /\ WorkerFor(c) \in Workers
      BY StageFacts DEF LifecycleInv
  <2>1. EntryOk(c)'
    <3>1. CASE journal[c].status = "running"
      <4>1. PICK s : s = journal'[c].status
          OBVIOUS
      <4>2. s \in {"succeeded", "failed", "rejected", "timed_out", "indeterminate"} /\ Agrees(s, c)
          BY <1>1, <3>1, <4>1
      <4>3. Agrees(s, c)'
          BY <1>0, <4>2 DEF Agrees
      <4>4. IsLifecycleCommand(c) => ValidateLifecycleResult(s, journal'[c].receipt, c, FALSE)
          BY <1>1, <3>1, <4>1
      <4>5. /\ did'[c] = did[c] /\ journal'[c].receipt = journal[c].receipt
            /\ journal'[c].scope = journal[c].scope /\ rec'[c] = rec[c]
          BY <1>0, <1>1
      <4> QED  BY <2>0, <3>1, <4>1, <4>2, <4>3, <4>4, <4>5 DEF CommandOk, EntryOk
    <3>2. CASE journal[c].status # "running"
        BY <1>0, <1>1, <2>0, <3>2 DEF CommandOk, EntryOk, Agrees
    <3> QED  BY <3>1, <3>2
  <2>2. RecordOk(c)'
    <3>1. /\ c \in toNode' => rec'[c].status \in {"running", "indeterminate"} /\ journal'[c].status = "none"
          /\ c \in results' => journal'[c].status \notin {"none", "running"}
          /\ journal'[c].status # "none" => rec'[c].status \notin {"none", "accepted"}
        BY <1>0, <1>1, <2>0 DEF CommandOk, RecordOk
    <3>2. rec'[c].status \in Final =>
            IF journal'[c].status = "none" THEN rec'[c].status \in {"rejected", "timed_out", "unavailable"}
            ELSE /\ rec'[c].status = journal'[c].status
                 /\ IsLifecycleCommand(c) => rec'[c].receipt = journal'[c].receipt /\ rec'[c].told = TRUE
        BY <1>0, <1>1, <2>0 DEF CommandOk, RecordOk, Final
    <3>3. rec'[c].receipt # NoReceipt => Earlier(rec[c].receipt, c)'
        BY <1>0, <1>1, <2>0 DEF CommandOk, RecordOk, Earlier
    <3> QED  BY <1>0, <3>1, <3>2, <3>3 DEF RecordOk
  <2>3. WorkOk(c)'
      BY <1>0, <2>0, LifecycleAssumption DEF WorkOk, Idle
  <2> QED  BY <2>1, <2>2, <2>3 DEF CommandOk
<1>4. ProgressOk'
  <2>1. \A i \in 1..Len(progress) : progress[i].id \in Command /\ Earlier(progress[i].receipt, progress[i].id)
    <3>1. \A i \in 1..Len(progress) : progress[i] \in [id : Command, receipt : Receipts]
      <4> DEFINE M == [id : Command, receipt : Receipts]
      <4>1. progress \in Seq(M)
          BY <1>0 DEF TypeInv
      <4> HIDE DEF M
      <4>2. \A i \in 1..Len(progress) : progress[i] \in M
          BY <4>1
      <4> QED  BY <4>2 DEF M
    <3> QED  BY <3>1 DEF LifecycleInv, ProgressOk
  <2> QED  BY <1>0, <1>1, <2>1 DEF ProgressOk, Earlier
<1>5. TargetsOk' /\ Apart'
  <2>1. TargetsOk /\ Apart /\ \A c \in Command : Unsettled(c)' => Unsettled(c)
      BY <1>1 DEF LifecycleInv, Unsettled
  <2>2. TargetsOk'
      BY <1>0, <1>1, <2>1 DEF TargetsOk
  <2>3. Apart'
    <3> SUFFICES ASSUME NEW a \in Command, NEW b \in Command,
                        Unsettled(a)', Unsettled(b)', a # b, Rivals(a, b), journal'[a].scope # 0
                 PROVE  journal'[a].scope # journal'[b].scope
        BY DEF Apart, Rivals
    <3>1. Unsettled(a) /\ Unsettled(b)
        BY <2>1
    <3>2. journal'[a].scope = journal[a].scope /\ journal'[b].scope = journal[b].scope
        BY <1>1
    <3> QED  BY <2>1, <3>1, <3>2 DEF Apart
  <2> QED  BY <2>2, <2>3
<1> QED  BY <1>0, <1>2, <1>3, <1>4, <1>5 DEF LifecycleInv

LEMMA NativeRestartKeeps == ASSUME LifecycleInv, NativeRestart PROVE LifecycleInv'
<1>0. /\ TypeInv /\ UNCHANGED <<rec, journal, work, toNode, progress, results, up, did, repeated, refused>>
      /\ incarnation' = incarnation + 1 /\ terminals' = {}
    BY DEF LifecycleInv, NativeRestart, messages
<1>1. TypeInv'
    BY <1>0 DEF TypeInv
<1>2. ASSUME NEW c \in Command PROVE CommandOk(c)'
    BY <1>0, Untouched DEF LifecycleInv
<1>3. ProgressOk' /\ TargetsOk' /\ Apart'
    BY <1>0 DEF LifecycleInv, ProgressOk, TargetsOk, Apart, Earlier, Unsettled
<1> QED  BY <1>0, <1>1, <1>2, <1>3 DEF LifecycleInv

LEMMA LifecycleStutter == ASSUME LifecycleInv, UNCHANGED vars PROVE LifecycleInv'
<1>0. /\ TypeInv
      /\ UNCHANGED <<rec, journal, work, toNode, progress, results, up, incarnation, terminals,
                     did, repeated, refused>>
    BY DEF LifecycleInv, vars
<1>1. TypeInv'
    BY <1>0 DEF TypeInv
<1>2. ASSUME NEW c \in Command PROVE CommandOk(c)'
    BY <1>0, Untouched DEF LifecycleInv
<1>3. ProgressOk' /\ TargetsOk' /\ Apart'
    BY <1>0 DEF LifecycleInv, ProgressOk, TargetsOk, Apart, Earlier, Unsettled
<1> QED  BY <1>0, <1>1, <1>2, <1>3 DEF LifecycleInv

LEMMA LifecycleStep == LifecycleInv /\ [Next]_vars => LifecycleInv'
<1> SUFFICES ASSUME LifecycleInv, [Next]_vars PROVE LifecycleInv'
    OBVIOUS
<1>1. ASSUME NEW c \in Command, Submit(c) \/ Dispatch(c) \/ Expire(c) \/ FinishCommand(c)
      PROVE  LifecycleInv'
    BY <1>1, SubmitKeeps, DispatchKeeps, ExpireKeeps, FinishCommandKeeps
<1>2. ASSUME NEW c \in Command, Claim(c) \/ Begin(c) \/ Intend(c) \/ Effect(c) \/ Record(c) \/ Finish(c)
      PROVE  LifecycleInv'
    BY <1>2, ClaimKeeps, BeginKeeps, IntendKeeps, EffectKeeps, RecordKeeps, FinishKeeps
<1>3. ASSUME NEW c \in Command, BeginControl(c) \/ PinAgain(c) PROVE LifecycleInv'
    BY <1>3, PinKeeps DEF BeginControl, PinAgain, Steps
<1>4. ASSUME NEW c \in Command, SendControl(c) \/ FinishControl(c) PROVE LifecycleInv'
    BY <1>4, SendControlKeeps, FinishControlKeeps
<1>5. CASE SaveCommandProgress \/ StreamEnds \/ NodeCrashes \/ Connect \/ NativeRestart
    BY <1>5, ProgressKeeps, StreamEndsKeeps, ConnectKeeps, NativeRestartKeeps
<1>6. CASE UNCHANGED vars
    BY <1>6, LifecycleStutter
<1> QED  BY <1>1, <1>2, <1>3, <1>4, <1>5, <1>6 DEF Next

(* The inductive invariant of starts, stops and controls. *)
THEOREM LifecycleInvariant == Spec => []LifecycleInv
  BY LifecycleInit, LifecycleStep, PTL DEF Spec

(* No effect of a start or a stop happens twice, and the node's journal never *)
(* denies one that happened nor confirms one that did not: the intent is      *)
(* stored before the request, the completion after the answer.                *)
THEOREM EffectsRememberedAlways == Spec => []EffectsRemembered
<1>1. LifecycleInv => EffectsRemembered
    BY DEF LifecycleInv, CommandOk, EntryOk, Evidence, EffectsRemembered
<1> QED  BY <1>1, LifecycleInvariant, PTL

LEMMA LifecycleHonest == LifecycleInv => HonestLifecycle
<1> SUFFICES ASSUME LifecycleInv, NEW c \in Command
             PROVE  Agrees(journal[c].status, c) /\ Agrees(rec[c].status, c)
    BY DEF HonestLifecycle
<1>1. EntryOk(c) /\ RecordOk(c) /\ rec[c].status \in Statuses
    BY DEF LifecycleInv, CommandOk, TypeInv
<1>2. Agrees(journal[c].status, c)
    BY <1>1 DEF EntryOk
<1>3. CASE rec[c].status \notin Final
  <2>1. rec[c].status \in {"none", "accepted", "running", "indeterminate"}
      BY <1>1, <1>3 DEF Statuses
  <2>2. Agrees(rec[c].status, c)
      BY <2>1 DEF Agrees
  <2> QED  BY <1>2, <2>2
<1>4. CASE rec[c].status \in Final /\ journal[c].status = "none"
    BY <1>1, <1>4 DEF Agrees, EntryOk, RecordOk
<1>5. CASE rec[c].status \in Final /\ journal[c].status # "none"
    BY <1>1, <1>2, <1>5 DEF RecordOk
<1> QED  BY <1>2, <1>3, <1>4, <1>5

(* The conclusion about a command, on the node and on the coordinator, is     *)
(* true of the native server, after any crash, loss, replay or recovery.      *)
THEOREM HonestLifecycleAlways == Spec => []HonestLifecycle
<1> QED  BY LifecycleHonest, LifecycleInvariant, PTL

(* Two rival commands are never open in one native incarnation: the journal's *)
(* fence keeps the second out until the outcome of the first is known.        *)
THEOREM ApartAlways == Spec => []Apart
<1>1. LifecycleInv => Apart
    BY DEF LifecycleInv
<1> QED  BY <1>1, LifecycleInvariant, PTL

(* The coordinator refuses no progress and no result, and its receipt is      *)
(* always one the node's journal had.                                         *)
THEOREM ReconcilableAlways == Spec => []Reconcilable
<1>1. LifecycleInv => Reconcilable
    BY DEF LifecycleInv, CommandOk, RecordOk, Earlier, Reconcilable
<1> QED  BY <1>1, LifecycleInvariant, PTL
-----------------------------------------------------------------------------
(***************************************************************************)
(* The whole life of a start, a stop or a control implements the contract  *)
(* that the delivery of commands implements: AgentContract's Report is     *)
(* what the coordinator writes, its Act an effect on the native server.    *)
(* Only a start may be refused after its first effect (failed).            *)
(***************************************************************************)
AnswerOf(status) ==
    CASE status = "none" -> "nothing"
      [] status \in {"accepted", "running"} -> "pending"
      [] status = "indeterminate" -> "unknown"
      [] status = "succeeded" -> "succeeded"
      [] OTHER -> "refused"

AgentContract == INSTANCE CommandContract WITH
    CommandId   <- Command,
    KeyOf       <- [c \in Command |-> c],
    Retractable <- {c \in Command : KindOf[c] = "start"},
    told        <- [c \in Command |-> AnswerOf(rec[c].status)],
    requests    <- [c \in Command |-> IF did[c] = {} THEN 0 ELSE 1],
    reached     <- {c \in Command : did[c] = StageSet(c)}

ImplementsAgentContract == AgentContract!CSpec

(* What was concluded stands: a conclusive record of the coordinator and a *)
(* result in the node's journal are never written again, whatever arrives  *)
(* late, twice or after a restart (state/commands.go, state/lifecycle.go). *)
ConclusionsStand ==
    [][\A c \in Command :
          /\ rec[c].status \in Final => rec'[c] = rec[c]
          /\ journal[c].status \notin {"none", "running"} => journal'[c] = journal[c]]_vars

(* How the status of a record may change. *)
Later(old, new) ==
    \/ new = old
    \/ old = "accepted" /\ new = "running"
    \/ old \in Open /\ new \in {"indeterminate"} \cup Final

LEMMA LostLater ==
    ASSUME LifecycleInv, StreamLost(FALSE), NEW x \in Command
    PROVE  /\ Later(rec[x].status, rec'[x].status)
           /\ rec[x].status \in Final => rec'[x] = rec[x]
<1>1. rec[x] \in Records /\ rec'[x] = AfterStream(rec[x])
    BY DEF LifecycleInv, TypeInv, Records, StreamLost
<1> QED  BY <1>1 DEF AfterStream, Later, Open, Final, Records, Statuses

(* One record takes the value r. *)
LEMMA OneLater ==
    ASSUME LifecycleInv, NEW c \in Command, NEW r, rec' = [rec EXCEPT ![c] = r],
           r = rec[c] \/ (Later(rec[c].status, r.status) /\ rec[c].status \notin Final),
           NEW x \in Command
    PROVE  /\ Later(rec[x].status, rec'[x].status)
           /\ rec[x].status \in Final => rec'[x] = rec[x]
<1>1. rec'[x] = IF x = c THEN r ELSE rec[x]
    BY DEF LifecycleInv, TypeInv
<1> QED  BY <1>1 DEF Later

LEMMA StatusLater ==
    ASSUME LifecycleInv, NEW c \in Command, NEW s, rec' = [rec EXCEPT ![c].status = s],
           Later(rec[c].status, s), rec[c].status \notin Final, NEW x \in Command
    PROVE  /\ Later(rec[x].status, rec'[x].status)
           /\ rec[x].status \in Final => rec'[x] = rec[x]
<1>1. PICK r : r = [rec[c] EXCEPT !.status = s]
    OBVIOUS
<1>2. rec' = [rec EXCEPT ![c] = r] /\ r.status = s
    BY <1>1 DEF LifecycleInv, TypeInv
<1> QED  BY <1>2, OneLater

LEMMA FinishLater ==
    ASSUME LifecycleInv, NEW c \in Command, FinishCommand(c), NEW x \in Command
    PROVE  /\ Later(rec[x].status, rec'[x].status)
           /\ rec[x].status \in Final => rec'[x] = rec[x]
<1>0. /\ CommandOk(c) /\ c \in results /\ rec[c] \in Records
      /\ journal[c].status \in {"indeterminate"} \cup Final
    BY DEF LifecycleInv, TypeInv, FinishCommand, Records, CommandOk, RecordOk, EntryOk,
           Statuses, Final
<1>1. CASE IsLifecycleCommand(c)
  <2>1. PICK n : n = [rec[c] EXCEPT !.status = journal[c].status, !.receipt = journal[c].receipt,
                                    !.told = TRUE]
      OBVIOUS
  <2>2. n.status = journal[c].status
      BY <1>0, <2>1 DEF Records
  <2>3. \/ rec' = [rec EXCEPT ![c] = rec[c]]
        \/ rec' = [rec EXCEPT ![c] = n] /\ rec[c].status \in {"running", "indeterminate"}
        \/ StreamLost(FALSE)
      BY <1>1, <2>1 DEF FinishCommand, finishLifecycleRecord, FinishTo, Refuse
  <2>4. Later(rec[c].status, n.status) \/ rec[c].status \notin {"running", "indeterminate"}
      BY <1>0, <2>2 DEF Later, Open
  <2>5. rec[c].status \in {"running", "indeterminate"} => rec[c].status \notin Final
      BY DEF Final
  <2> QED  BY <2>3, <2>4, <2>5, OneLater, LostLater
<1>2. CASE ~IsLifecycleCommand(c)
  <2>1. PICK n : n = [rec[c] EXCEPT !.status = journal[c].status, !.told = TRUE]
      OBVIOUS
  <2>2. n.status = journal[c].status
      BY <1>0, <2>1 DEF Records
  <2>3. \/ rec' = [rec EXCEPT ![c] = rec[c]]
        \/ rec' = [rec EXCEPT ![c] = n] /\ rec[c].status \in {"running", "indeterminate"}
        \/ StreamLost(FALSE)
      BY <1>2, <2>1 DEF FinishCommand, finishOtherRecord, FinishTo, Refuse
  <2>4. Later(rec[c].status, n.status) \/ rec[c].status \notin {"running", "indeterminate"}
      BY <1>0, <2>2 DEF Later, Open
  <2>5. rec[c].status \in {"running", "indeterminate"} => rec[c].status \notin Final
      BY DEF Final
  <2> QED  BY <2>3, <2>4, <2>5, OneLater, LostLater
<1> QED  BY <1>1, <1>2

LEMMA ProgressLater ==
    ASSUME LifecycleInv, SaveCommandProgress, NEW x \in Command
    PROVE  /\ Later(rec[x].status, rec'[x].status)
           /\ rec[x].status \in Final => rec'[x] = rec[x]
<1>1. PICK c \in Command : Head(progress).id = c
  <2> DEFINE M == [id : Command, receipt : Receipts]
  <2>1. progress \in Seq(M) /\ progress # <<>>
      BY DEF SaveCommandProgress, LifecycleInv, TypeInv
  <2> HIDE DEF M
  <2>2. Head(progress) \in M
      BY <2>1
  <2> QED  BY <2>2 DEF M
<1>2. PICK r : r = [rec[c] EXCEPT !.receipt = Head(progress).receipt]
    OBVIOUS
<1>3. rec[c] \in Records /\ r.status = rec[c].status
    BY <1>2 DEF LifecycleInv, TypeInv, Records
<1>4. \/ rec' = rec
      \/ rec' = [rec EXCEPT ![c] = r] /\ rec[c].status \in {"running", "indeterminate"}
      \/ StreamLost(FALSE)
    BY <1>1, <1>2, <1>3 DEF SaveCommandProgress, Refuse, LifecycleInv, TypeInv
<1> QED  BY <1>3, <1>4, OneLater, LostLater DEF Later, Final

(* Every step but a submission moves the records on, or leaves them. *)
LEMMA RecordsMove ==
    ASSUME LifecycleInv, [Next]_vars, \A c \in Command : ~Submit(c), NEW x \in Command
    PROVE  /\ Later(rec[x].status, rec'[x].status)
           /\ rec[x].status \in Final => rec'[x] = rec[x]
<1>1. ASSUME rec' = rec PROVE Later(rec[x].status, rec'[x].status) /\ rec'[x] = rec[x]
    BY <1>1 DEF Later
<1>2. ASSUME NEW c \in Command, Dispatch(c) \/ Expire(c)
      PROVE  /\ Later(rec[x].status, rec'[x].status)
             /\ rec[x].status \in Final => rec'[x] = rec[x]
  <2>1. PICK s \in {"running", "timed_out", "rejected", "indeterminate"} :
           /\ rec' = [rec EXCEPT ![c].status = s]
           /\ \/ rec[c].status = "accepted" /\ s # "indeterminate"
              \/ rec[c].status = "running" /\ s = "indeterminate"
      BY <1>2 DEF Dispatch, Expire
  <2>2. Later(rec[c].status, s) /\ rec[c].status \notin Final
      BY <2>1 DEF Later, Open, Final
  <2> QED  BY <2>1, <2>2, StatusLater
<1>3. ASSUME NEW c \in Command, Claim(c) \/ Begin(c) \/ Intend(c) \/ Effect(c) \/ Record(c) \/ Finish(c)
      PROVE  rec' = rec
    BY <1>3 DEF Claim, Begin, Intend, Effect, EffectWith, Record, Finish
<1>4. ASSUME NEW c \in Command, BeginControl(c) \/ PinAgain(c) \/ SendControl(c) \/ FinishControl(c)
      PROVE  rec' = rec
    BY <1>4 DEF BeginControl, PinAgain, PinControl, SendControl, FinishControl
<1>5. CASE StreamEnds \/ NodeCrashes
    BY <1>5, LostLater DEF StreamEnds, NodeCrashes
<1>6. CASE Connect \/ NativeRestart \/ UNCHANGED vars
  <2>1. rec' = rec
      BY <1>6 DEF Connect, NativeRestart, vars
  <2> QED  BY <1>1, <2>1
<1> QED  BY <1>1, <1>2, <1>3, <1>4, <1>5, <1>6, FinishLater, ProgressLater DEF Next

LEMMA EntriesStand ==
    ASSUME LifecycleInv, [Next]_vars, NEW x \in Command, journal[x].status \notin {"none", "running"}
    PROVE  journal'[x] = journal[x]
<1>1. journal \in [Command -> Entries]
    BY DEF LifecycleInv, TypeInv, Entries
<1>3. ASSUME NEW c \in Command, Submit(c) \/ Dispatch(c) \/ Expire(c) \/ FinishCommand(c)
      PROVE  journal' = journal
    BY <1>3 DEF Submit, Dispatch, Expire, FinishCommand
<1>4. ASSUME NEW c \in Command, Claim(c) PROVE journal'[x] = journal[x]
    BY <1>4 DEF Claim, LifecycleInv, TypeInv
<1>5. ASSUME NEW c \in Command, Begin(c) \/ Intend(c) \/ Effect(c) \/ Record(c) \/ Finish(c)
      PROVE  journal'[x] = journal[x]
  <2>1. work[WorkerFor(c)].id = c
      BY <1>5 DEF Begin, Intend, Effect, EffectWith, Record, Finish, Working
  <2>2. c # x
      BY <2>1, WorkerFacts
  <2>3. CASE Begin(c)
      BY <1>1, <2>2, <2>3 DEF Begin, SaveLifecycle
  <2>4. CASE Intend(c)
      BY <1>1, <2>2, <2>4 DEF Intend, SaveLifecycle
  <2>5. CASE Effect(c)
      BY <2>5 DEF Effect, EffectWith
  <2>6. CASE Record(c)
      BY <1>1, <2>2, <2>6 DEF Record, SaveLifecycle
  <2>7. CASE Finish(c)
      BY <1>1, <2>2, <2>7 DEF Finish, Complete
  <2> QED  BY <1>5, <2>3, <2>4, <2>5, <2>6, <2>7
<1>6. ASSUME NEW c \in Command, BeginControl(c) \/ PinAgain(c) \/ SendControl(c) \/ FinishControl(c)
      PROVE  journal'[x] = journal[x]
  <2>1. work[WorkerFor(c)].id = c
      BY <1>6 DEF BeginControl, PinAgain, PinControl, SendControl, FinishControl, Working
  <2>2. c # x
      BY <2>1, WorkerFacts
  <2>3. CASE BeginControl(c) \/ PinAgain(c)
      BY <1>1, <2>2, <2>3 DEF BeginControl, PinAgain, PinControl, Abandon, RefuseControl, Complete,
                        PinAgentCommand
  <2>4. CASE SendControl(c)
      BY <2>4 DEF SendControl
  <2>5. CASE FinishControl(c)
      BY <1>1, <2>2, <2>5 DEF FinishControl, Abandon, Complete
  <2> QED  BY <1>6, <2>3, <2>4, <2>5
<1>7. CASE SaveCommandProgress \/ StreamEnds \/ NodeCrashes \/ NativeRestart \/ UNCHANGED vars
    BY <1>7 DEF SaveCommandProgress, StreamEnds, NodeCrashes, NativeRestart, vars
<1>8. CASE Connect
    BY <1>1, <1>8 DEF Connect
<1> QED  BY <1>3, <1>4, <1>5, <1>6, <1>7, <1>8 DEF Next

LEMMA SubmitStands ==
    ASSUME LifecycleInv, NEW c \in Command, Submit(c), NEW x \in Command, rec[x].status \in Final
    PROVE  rec'[x] = rec[x]
<1>1. c # x /\ rec \in [Command -> Records]
    BY DEF Submit, Final, LifecycleInv, TypeInv, Records
<1> QED  BY <1>1 DEF Submit

(* A conclusion of the coordinator and a result in the node's journal are  *)
(* never changed: what arrives late or again finds a record that is over   *)
(* (server/lifecycle.go), a worker writes to its running entry only, and   *)
(* the recovery at a start only to entries that were running               *)
(* (state/node_journal.go).                                                *)
THEOREM ConclusionsStandAlways == Spec => ConclusionsStand
<1>1. ASSUME LifecycleInv, [Next]_vars, NEW c \in Command
      PROVE  /\ rec[c].status \in Final => rec'[c] = rec[c]
             /\ journal[c].status \notin {"none", "running"} => journal'[c] = journal[c]
  <2>1. CASE \E d \in Command : Submit(d)
      BY <1>1, <2>1, SubmitStands, EntriesStand
  <2>2. CASE \A d \in Command : ~Submit(d)
      BY <1>1, <2>2, RecordsMove, EntriesStand
  <2> QED  BY <2>1, <2>2
<1>2. LifecycleInv /\ [Next]_vars =>
        [\A c \in Command :
          /\ rec[c].status \in Final => rec'[c] = rec[c]
          /\ journal[c].status \notin {"none", "running"} => journal'[c] = journal[c]]_vars
    BY <1>1
<1> QED  BY <1>2, LifecycleInvariant, PTL DEF Spec, ConclusionsStand

toldBar == [c \in Command |-> AnswerOf(rec[c].status)]
requestsBar == [c \in Command |-> IF did[c] = {} THEN 0 ELSE 1]
reachedBar == {c \in Command : did[c] = StageSet(c)}

LEMMA ContractStarts == Init => AgentContract!CInit
<1> SUFFICES ASSUME Init PROVE AgentContract!CInit
    OBVIOUS
<1>1. \A c \in Command : rec[c].status = "none" /\ did[c] = {} /\ StageSet(c) # {}
    BY StageFacts DEF Init
<1>2. toldBar = [c \in Command |-> "nothing"]
    BY <1>1 DEF toldBar, AnswerOf
<1>3. requestsBar = [c \in Command |-> 0] /\ reachedBar = {}
    BY <1>1 DEF requestsBar, reachedBar
<1> QED  BY <1>2, <1>3 DEF AgentContract!CInit, toldBar, requestsBar, reachedBar

LEMMA ContractAdmits ==
    ASSUME LifecycleInv, NEW c \in Command, Submit(c)
    PROVE  AgentContract!Admit(c)
<1>1. /\ rec \in [Command -> Records] /\ rec[c].status = "none" /\ did' = did
      /\ rec'[c].status = "accepted" /\ \A x \in Command \ {c} : rec'[x] = rec[x]
    BY DEF LifecycleInv, TypeInv, Records, Submit, native
<1>2. toldBar[c] = "nothing"
    BY <1>1 DEF toldBar, AnswerOf
<1>3. toldBar' = [toldBar EXCEPT ![c] = "pending"]
    BY <1>1 DEF toldBar, AnswerOf
<1>4. requestsBar' = requestsBar /\ reachedBar' = reachedBar
    BY <1>1 DEF requestsBar, reachedBar
<1>5. \A d \in Command : [x \in Command |-> x][d] = [x \in Command |-> x][c] => toldBar[d] = "nothing"
    BY <1>2
<1> QED  BY <1>3, <1>4, <1>5 DEF AgentContract!Admit, toldBar, requestsBar, reachedBar

(* A step that only the coordinator's records show. *)
LEMMA ContractReports ==
    ASSUME LifecycleInv, LifecycleInv', did' = did,
           \A x \in Command : Later(rec[x].status, rec'[x].status)
    PROVE  AgentContract!Report
<1>1. requestsBar' = requestsBar /\ reachedBar' = reachedBar
    BY DEF requestsBar, reachedBar
<1>2. ASSUME NEW c \in Command, rec'[c].status # rec[c].status, toldBar'[c] # toldBar[c]
      PROVE  AgentContract!MayReport(c, toldBar'[c])
  <2>1. /\ did[c] \subseteq StageSet(c) /\ Agrees(rec'[c].status, c)
        /\ toldBar[c] = AnswerOf(rec[c].status) /\ toldBar'[c] = AnswerOf(rec'[c].status)
    <3>1. HonestLifecycle'
        BY LifecycleHonest, PTL
    <3>2. Agrees(rec[c].status, c)'
        BY <3>1 DEF HonestLifecycle
    <3>3. Agrees(rec'[c].status, c)
        BY <3>2 DEF Agrees
    <3>4. did[c] \subseteq StageSet(c)
        BY DEF LifecycleInv, CommandOk, EntryOk
    <3>5. toldBar[c] = AnswerOf(rec[c].status) /\ toldBar'[c] = AnswerOf(rec'[c].status)
        BY DEF toldBar
    <3> QED  BY <3>3, <3>4, <3>5
  <2>2. /\ rec[c].status \in Open
        /\ rec'[c].status \in {"indeterminate"} \cup Final
    <3>1. ~(rec[c].status = "accepted" /\ rec'[c].status = "running")
        BY <1>2, <2>1 DEF AnswerOf
    <3> QED  BY <1>2, <3>1 DEF Later
  <2>3. toldBar[c] \in {"pending", "unknown"}
      BY <2>1, <2>2 DEF AnswerOf, Open
  <2>4. CASE rec'[c].status = "indeterminate"
    <3>1. toldBar'[c] = "unknown" /\ toldBar[c] = "pending"
        BY <1>2, <2>1, <2>3, <2>4 DEF AnswerOf
    <3> QED  BY <3>1 DEF AgentContract!MayReport, toldBar
  <2>5. CASE rec'[c].status = "succeeded"
    <3>1. toldBar'[c] = "succeeded" /\ c \in reachedBar
        BY <2>1, <2>5 DEF AnswerOf, Agrees, reachedBar
    <3> QED  BY <2>3, <3>1 DEF AgentContract!MayReport, toldBar, reachedBar
  <2>6. CASE rec'[c].status \in Final \ {"succeeded"}
    <3>1. toldBar'[c] = "refused"
        BY <2>1, <2>6 DEF AnswerOf, Final
    <3>2. did[c] = {} \/ KindOf[c] = "start"
      <4>1. CASE rec'[c].status # "failed"
          BY <2>1, <2>6, <4>1 DEF Agrees, Final
      <4>2. CASE rec'[c].status = "failed"
        <5>1. did[c] # {} /\ did[c] # StageSet(c)
            BY <2>1, <4>2 DEF Agrees
        <5>2. StageSet(c) # {"close_pane"} /\ StageSet(c) # {"send"}
            BY <2>1, <5>1
        <5>3. KindOf[c] = "start"
          <6>1. KindOf[c] = "stop" => StageSet(c) = {"close_pane"}
            <7>1. KindOf[c] = "stop" => StagesOf(c) = <<"close_pane">>
                BY DEF StagesOf
            <7> QED  BY <7>1 DEF StageSet
          <6>2. KindOf[c] \in {"control", "interrupt"} => StageSet(c) = {"send"}
              BY StageFacts DEF IsLifecycleCommand
          <6> QED  BY <5>2, <6>1, <6>2, LifecycleAssumption DEF Kind
        <5> QED  BY <5>3
      <4> QED  BY <4>1, <4>2
    <3>3. requestsBar[c] = 0 \/ c \in {x \in Command : KindOf[x] = "start"}
        BY <3>2 DEF requestsBar
    <3> QED  BY <2>3, <3>1, <3>3 DEF AgentContract!MayReport, toldBar, requestsBar
  <2> QED  BY <2>2, <2>4, <2>5, <2>6
<1>3. ASSUME NEW c \in Command, rec'[c].status = rec[c].status PROVE toldBar'[c] = toldBar[c]
    BY <1>3 DEF toldBar
<1>4. toldBar' = [c \in Command |-> toldBar'[c]]
    BY DEF toldBar
<1>5. \A c \in Command : toldBar'[c] = toldBar[c] \/ AgentContract!MayReport(c, toldBar'[c])
    BY <1>2, <1>3
<1> QED  BY <1>1, <1>4, <1>5 DEF AgentContract!Report, toldBar, requestsBar, reachedBar

(* An effect of a command that nobody has been told the end of. *)
LEMMA ContractActs ==
    ASSUME LifecycleInv, LifecycleInv', NEW c \in Command, work[WorkerFor(c)].id = c, rec' = rec,
           NEW s, did' = [did EXCEPT ![c] = @ \cup {s}]
    PROVE  AgentContract!Act(c)
<1>1. toldBar[c] \in {"pending", "unknown"} /\ toldBar' = toldBar
  <2>1. rec[c].status \in {"running", "indeterminate"}
      BY WorkerFacts DEF LifecycleInv, TypeInv, Statuses
  <2> QED  BY <2>1 DEF toldBar, AnswerOf
<1>2. /\ did \in [Command -> SUBSET {"create_pane", "launch", "prompt", "close_pane", "send"}]
      /\ did[c] \subseteq StageSet(c) /\ did'[c] \subseteq StageSet(c)
    BY DEF LifecycleInv, TypeInv, CommandOk, EntryOk
<1>3. did'[c] = did[c] \cup {s} /\ \A x \in Command \ {c} : did'[x] = did[x]
    BY <1>2
<1>4. \/ requestsBar[c] = 0 /\ requestsBar' = [requestsBar EXCEPT ![c] = 1]
      \/ requestsBar' = requestsBar
    BY <1>3 DEF requestsBar
<1>5. reachedBar' \in {reachedBar, reachedBar \cup {c}}
  <2>1. c \in reachedBar => c \in reachedBar'
      BY <1>2, <1>3 DEF reachedBar
  <2>2. \A x : x # c => (x \in reachedBar' <=> x \in reachedBar)
      BY <1>3 DEF reachedBar
  <2> QED  BY <2>1, <2>2
<1> QED  BY <1>1, <1>4, <1>5 DEF AgentContract!Act, toldBar, requestsBar, reachedBar

LEMMA ContractSteps ==
    LifecycleInv /\ LifecycleInv' /\ [Next]_vars => [AgentContract!CNext]_(AgentContract!cvars)
<1> SUFFICES ASSUME LifecycleInv, LifecycleInv', [Next]_vars
             PROVE  AgentContract!CNext \/ UNCHANGED AgentContract!cvars
    OBVIOUS
<1>1. ASSUME NEW c \in Command, Submit(c) PROVE AgentContract!CNext
    BY <1>1, ContractAdmits DEF AgentContract!CNext
<1>2. ASSUME NEW c \in Command, Effect(c) \/ SendControl(c), did' # did PROVE AgentContract!CNext
  <2>1. work[WorkerFor(c)].id = c /\ rec' = rec
      BY <1>2 DEF Effect, EffectWith, SendControl, Working
  <2>2. PICK s : did' = [did EXCEPT ![c] = @ \cup {s}]
      BY <1>2 DEF Effect, EffectWith, SendControl, Perform, native
  <2> QED  BY <2>1, <2>2, ContractActs DEF AgentContract!CNext
<1>3. CASE did' = did /\ \A c \in Command : ~Submit(c)
  <2>1. \A x \in Command : Later(rec[x].status, rec'[x].status)
      BY <1>3, RecordsMove
  <2> QED  BY <1>3, <2>1, ContractReports DEF AgentContract!CNext
<1>4. ASSUME did' # did PROVE \E c \in Command : Effect(c) \/ SendControl(c)
  <2>1. ~UNCHANGED native /\ ~UNCHANGED vars /\ ~NativeRestart
      BY <1>4 DEF native, vars, NativeRestart
  <2>2. \A c \in Command : ~(Submit(c) \/ Dispatch(c) \/ Expire(c) \/ FinishCommand(c))
      BY <2>1 DEF Submit, Dispatch, Expire, FinishCommand
  <2>3. \A c \in Command : ~(Claim(c) \/ Begin(c) \/ Intend(c) \/ Record(c) \/ Finish(c))
      BY <2>1 DEF Claim, Begin, Intend, Record, Finish
  <2>4. \A c \in Command : ~(BeginControl(c) \/ PinAgain(c) \/ FinishControl(c))
      BY <2>1 DEF BeginControl, PinAgain, PinControl, FinishControl
  <2>5. ~(SaveCommandProgress \/ StreamEnds \/ NodeCrashes \/ Connect)
      BY <2>1 DEF SaveCommandProgress, StreamEnds, NodeCrashes, Connect
  <2> QED  BY <2>1, <2>2, <2>3, <2>4, <2>5 DEF Next
<1> QED  BY <1>1, <1>2, <1>3, <1>4

(* Whoever submits a start, a stop or a control may rely on what           *)
(* CommandContract says: one record, an effect only while the outcome is   *)
(* open, success only when every stage happened, and a refusal only when   *)
(* nothing did, except of a start that failed on the way                   *)
(* (server/lifecycle.go, node/lifecycle.go).                               *)
THEOREM AgentContractHolds == Spec => ImplementsAgentContract
BY ContractStarts, ContractSteps, LifecycleInvariant, PTL
   DEF Spec, ImplementsAgentContract, AgentContract!CSpec
-----------------------------------------------------------------------------
(***************************************************************************)
(* The requests behind agent start and agent stop.  What is in a file of   *)
(* the ledger never changes once it is written, a command that has         *)
(* succeeded never changes, and the receipt of a start's pane stays: what  *)
(* was true of a request when it was made stays true of its file, of the   *)
(* process that took it from there, and of its command.                    *)
(***************************************************************************)
Commands == [by : Computer, key : Nat, stage : Stages, body : Bodies,
             status : {"open", "failed", "succeeded"}, receipt : Nat]
RunSteps == {"idle", "persist", "write", "original", "resolve", "readStop", "find",
             "submit", "wait", "project", "pinned"}
Runs     == [step : RunSteps, wish : Wish \cup {Nothing}, stage : Stages, body : Bodies,
             key : Nat, inc : Nat]

RequestTypes ==
    /\ home \in [Operator -> Computer]
    /\ ledger \in [Computer -> [Stages -> Files \cup {Torn, Nothing}]]
    /\ ledgerLock \in [Computer -> Operator \cup {Nothing}]
    /\ run \in [Operator -> Runs]
    /\ records \subseteq Commands
    /\ session \in Nat \ {0} /\ generation \in Nat /\ given \in Nat /\ keys \in Nat

Made(c, stage) == ledger[c][stage] \in Files

(* What stands behind a request of each stage. *)
Founded(c, stage, body) ==
    /\ stage = "workspace" =>
          /\ body.wish = Nothing
          /\ \E s \in records : /\ s.by = c /\ s.stage = "session" /\ s.status = "succeeded"
                                /\ s.receipt = body.inc
    /\ stage = "start" =>
          /\ Made(c, "intent") /\ ledger[c]["intent"].body.wish = body.wish
          /\ \E s \in records : /\ s.by = c /\ s.stage = "session" /\ s.status = "succeeded"
                                /\ s.receipt = body.inc
          /\ \E w \in records : /\ w.by = c /\ w.stage = "workspace" /\ w.status = "succeeded"
                                /\ w.body = [body EXCEPT !.wish = Nothing]
    /\ stage = "stop" => body.inc # 0 /\ \E n \in Named : n.receipt = body.inc

LedgerOk ==
    \A c \in Computer, stage \in Stages : Made(c, stage) =>
       /\ ledger[c][stage].key <= keys
       /\ Founded(c, stage, ledger[c][stage].body)
       /\ \A other \in Stages \ {stage, "intent"} :
             stage # "intent" /\ Made(c, other) => ledger[c][other].key # ledger[c][stage].key

(* What a process relies on at each step. *)
RunFits(o, r) ==
    /\ r.key <= keys
    /\ r.step = "write" => ledgerLock[home[o]] = o /\ File(o, r.stage) = Torn
    /\ r.step \in {"persist", "write", "submit", "wait"} => Founded(home[o], r.stage, r.body)
    /\ r.step \in {"persist", "write"} /\ r.stage = "intent" => r.body.wish = r.wish
    /\ r.step \in {"original", "resolve", "project", "pinned"} => r.stage # "stop"
    /\ r.step \in {"readStop", "find"} => r.stage = "stop"
    /\ r.step \in {"submit", "wait"} =>
          r.stage # "intent" /\ File(o, r.stage) = [key |-> r.key, body |-> r.body]
    /\ /\ r.step # "idle" /\ r.stage # "stop"
       /\ r.step \in {"persist", "write"} => r.stage # "intent"
       => Made(home[o], "intent") /\ File(o, "intent").body.wish = r.wish
    /\ r.step = "project" =>
          \E s \in records : /\ s.by = home[o] /\ s.stage = "session" /\ s.status = "succeeded"
                             /\ s.receipt = r.inc
    /\ r.step = "pinned" =>
          /\ Founded(home[o], "workspace", r.body)
          /\ \E w \in records : /\ w.by = home[o] /\ w.stage = "workspace" /\ w.status = "succeeded"
                                /\ w.body = r.body

(* A key that is not in the ledger yet is nobody else's. *)
Fresh(o) == run[o].step \in {"persist", "write"} /\ run[o].stage # "intent"

KeyFresh(o) ==
    Fresh(o) =>
       /\ \A stage \in Stages \ {"intent"} : Made(home[o], stage) => File(o, stage).key # run[o].key
       /\ \A p \in Operator \ {o} : Fresh(p) => run[p].key # run[o].key

RunOk(o) == RunFits(o, run[o]) /\ KeyFresh(o)

RecordsOk ==
    /\ \A a, b \in Named : a = b
    /\ \A r \in records : /\ r.stage # "intent"
                          /\ ledger[r.by][r.stage] = [key |-> r.key, body |-> r.body]

RequestsInv == RequestTypes /\ LedgerOk /\ RecordsOk /\ \A o \in Operator : RunOk(o)

LEMMA RequestsStart == RequestsInit => RequestsInv
<1> SUFFICES ASSUME RequestsInit PROVE RequestsInv
    OBVIOUS
<1>1. Resting \in Runs /\ Resting.step = "idle" /\ Resting.key = 0
    BY DEF Resting, Runs, RunSteps, NoBody, Bodies, Stages
<1>2. RequestTypes
    BY <1>1 DEF RequestsInit, RequestTypes
<1>3. \A c \in Computer, stage \in Stages : ~Made(c, stage)
    BY RequestAssumption DEF RequestsInit, Made
<1>4. LedgerOk /\ RecordsOk
    BY <1>3 DEF LedgerOk, RecordsOk, Named, RequestsInit
<1>5. ASSUME NEW o \in Operator PROVE RunOk(o)
  <2>1. run[o].step = "idle" /\ run[o].key = 0 /\ keys = 0
      BY <1>1 DEF RequestsInit
  <2> QED  BY <2>1 DEF RunOk, RunFits, KeyFresh, Fresh
<1> QED  BY <1>2, <1>4, <1>5 DEF RequestsInv

(* Nothing that a request was founded on is taken back. *)
Kept ==
    /\ home' = home
    /\ \A s \in records : s.status = "succeeded" => s \in records'
    /\ \A n \in Named : n.receipt # 0 => \E m \in Named' : m.receipt = n.receipt
    /\ \A c \in Computer, stage \in Stages : Made(c, stage) => ledger'[c][stage] = ledger[c][stage]
    /\ keys \in Nat /\ keys' \in Nat /\ keys <= keys'

LEMMA FoundedKept ==
    ASSUME RequestTypes, Kept, NEW c \in Computer, NEW stage \in Stages, NEW body \in Bodies,
           Founded(c, stage, body)
    PROVE  Founded(c, stage, body)'
<1>1. "intent" \in Stages
    BY DEF Stages
<1>2. stage = "start" => Made(c, "intent")' /\ ledger'[c]["intent"] = ledger[c]["intent"]
    BY <1>1 DEF Founded, Kept, Made
<1>3. \A s \in records : s.status = "succeeded" => s \in records'
    BY DEF Kept
<1>4. stage = "stop" => body.inc # 0 /\ \E n \in Named' : n.receipt = body.inc
  <2>1. SUFFICES ASSUME stage = "stop" PROVE body.inc # 0 /\ \E n \in Named' : n.receipt = body.inc
      OBVIOUS
  <2>2. body.inc # 0 /\ \E n \in Named : n.receipt = body.inc
      BY <2>1 DEF Founded
  <2> QED  BY <2>2 DEF Kept
<1> QED  BY <1>2, <1>3, <1>4 DEF Founded

LEMMA RunKept ==
    ASSUME RequestTypes, Kept, NEW o \in Operator, NEW r \in Runs, RunFits(o, r),
           r.step = "write" => ledgerLock'[home[o]] = o /\ ledger'[home[o]][r.stage] = Torn
    PROVE  RunFits(o, r)'
<1>1. /\ home' = home /\ home[o] \in Computer /\ r.stage \in Stages /\ r.body \in Bodies
      /\ "intent" \in Stages /\ "workspace" \in Stages
      /\ r.key \in Nat /\ r.key <= keys'
    BY DEF Kept, RequestTypes, Runs, Stages, RunFits
<1>2. Founded(home[o], r.stage, r.body) => Founded(home[o], r.stage, r.body)'
    BY <1>1, FoundedKept
<1>3. Founded(home[o], "workspace", r.body) => Founded(home[o], "workspace", r.body)'
    BY <1>1, FoundedKept
<1>4. \A stage \in Stages : Made(home[o], stage) =>
          Made(home[o], stage)' /\ ledger'[home[o]][stage] = ledger[home[o]][stage]
    BY <1>1 DEF Kept, Made
<1>5. r.step \in {"submit", "wait"} => File(o, r.stage)' = [key |-> r.key, body |-> r.body]
  <2>1. [key |-> r.key, body |-> r.body] \in Files
      BY <1>1 DEF Files
  <2> QED  BY <1>1, <1>4, <2>1 DEF RunFits, File, Made
<1>6. Made(home[o], "intent") /\ File(o, "intent").body.wish = r.wish
      => Made(home[o], "intent")' /\ File(o, "intent")'.body.wish = r.wish
    BY <1>1, <1>4 DEF File
<1>7. \A s \in records : s.status = "succeeded" => s \in records'
    BY DEF Kept
<1>8. r.step = "write" => ledgerLock'[home[o]] = o /\ File(o, r.stage)' = Torn
    BY <1>1 DEF File
<1>9. r.step \in {"persist", "write", "submit", "wait"} => Founded(home[o], r.stage, r.body)'
    BY <1>2 DEF RunFits
<1>10. r.step = "pinned" => Founded(home[o], "workspace", r.body)'
    BY <1>3 DEF RunFits
<1>11. /\ r.step = "project" =>
            \E s \in records' : /\ s.by = home[o] /\ s.stage = "session" /\ s.status = "succeeded"
                                /\ s.receipt = r.inc
       /\ r.step = "pinned" =>
            \E w \in records' : /\ w.by = home[o] /\ w.stage = "workspace" /\ w.status = "succeeded"
                                /\ w.body = r.body
    BY <1>7 DEF RunFits
<1> HIDE DEF Kept
<1> QED  BY <1>1, <1>5, <1>6, <1>8, <1>9, <1>10, <1>11 DEF RunFits

LEMMA LedgerKept == ASSUME RequestTypes, Kept, LedgerOk, ledger' = ledger PROVE LedgerOk'
<1> SUFFICES ASSUME NEW c \in Computer, NEW stage \in Stages, Made(c, stage)
             PROVE  /\ ledger[c][stage].key <= keys'
                    /\ Founded(c, stage, ledger[c][stage].body)'
                    /\ \A other \in Stages \ {stage, "intent"} :
                          stage # "intent" /\ Made(c, other) => ledger[c][other].key # ledger[c][stage].key
    BY DEF LedgerOk, Made, Founded
<1>1. PICK f \in Files : f = ledger[c][stage]
    BY DEF Made
<1>2. Founded(c, stage, f.body) /\ f.body \in Bodies /\ f.key \in Nat
    BY <1>1 DEF LedgerOk, Files
<1>3. Founded(c, stage, f.body)'
    BY <1>2, FoundedKept
<1>4. f.key <= keys'
    BY <1>1, <1>2 DEF LedgerOk, Kept
<1> QED  BY <1>1, <1>3, <1>4 DEF LedgerOk, Founded

(* One process moves, and the ledger stays. *)
LEMMA OneRun ==
    ASSUME RequestsInv, Kept, NEW o \in Operator, NEW r \in Runs,
           ledger' = ledger, run' = [run EXCEPT ![o] = r],
           ledgerLock' \in [Computer -> Operator \cup {Nothing}],
           \A p \in Operator \ {o} :
              ledgerLock[home[p]] = p => ledgerLock'[home[p]] = p,
           records' \subseteq Commands, RecordsOk',
           session' = session, generation' = generation, given' \in Nat,
           r.step # "write", RunFits(o, r)',
           r.step = "persist" /\ r.stage # "intent" => r.key > keys
    PROVE  RequestsInv'
<1>0. /\ RequestTypes /\ LedgerOk /\ run \in [Operator -> Runs] /\ home' = home
      /\ keys \in Nat /\ keys' \in Nat /\ keys <= keys'
    BY DEF RequestsInv, RequestTypes, Kept
<1>1. RequestTypes'
    BY <1>0 DEF RequestTypes
<1>2. LedgerOk'
    BY <1>0, LedgerKept
<1>3. run'[o] = r /\ \A p \in Operator \ {o} : run'[p] = run[p]
    BY <1>0
<1>4. ASSUME NEW p \in Operator, NEW s \in Runs, s = run'[p] PROVE RunFits(p, s)'
  <2>1. CASE p = o
    <3>1. s = r
        BY <1>3, <1>4, <2>1
    <3> QED  BY <2>1, <3>1
  <2>2. CASE p # o
    <3>2. RunFits(p, s)
        BY <1>3, <1>4, <2>2 DEF RequestsInv, RunOk
    <3>3. s.step = "write" => ledgerLock'[home[p]] = p /\ ledger'[home[p]][s.stage] = Torn
        BY <2>2, <3>2 DEF RunFits, File
    <3> QED  BY <1>0, <3>2, <3>3, RunKept
  <2> QED  BY <2>1, <2>2
<1>5. ASSUME NEW p \in Operator PROVE KeyFresh(p)'
  <2>0. \A q \in Operator : run[q].key <= keys /\ run[q].key \in Nat /\ KeyFresh(q)
      BY <1>0 DEF RequestsInv, RunOk, RunFits, Runs
  <2>1. r.key \in Nat
      BY DEF Runs
  <2>2. \A q \in Operator \ {o} : Fresh(q)' <=> Fresh(q)
      BY <1>3 DEF Fresh
  <2>3. Fresh(o)' => r.key > keys
      BY <1>3 DEF Fresh
  <2>4. \A stage \in Stages : Made(home[p], stage)' => Made(home[p], stage)
      BY <1>0 DEF Made
  <2>5. CASE p = o
    <3>1. \A stage \in Stages : Made(home[p], stage) => ledger[home[p]][stage].key <= keys /\ ledger[home[p]][stage].key \in Nat
        BY <1>0 DEF LedgerOk, RequestTypes, Made, Files
    <3> QED  BY <1>0, <1>3, <2>0, <2>1, <2>2, <2>3, <2>5, <3>1 DEF KeyFresh, File, Made
  <2>6. CASE p # o
      BY <1>0, <1>3, <2>0, <2>1, <2>2, <2>3, <2>6 DEF KeyFresh, File, Made
  <2> QED  BY <2>5, <2>6
<1>6. \A p \in Operator : RunOk(p)'
  <2> SUFFICES ASSUME NEW p \in Operator PROVE RunOk(p)'
      OBVIOUS
  <2>1. PICK s \in Runs : s = run'[p]
      BY <1>1 DEF RequestTypes
  <2>2. RunFits(p, s)'
      BY <1>4, <2>1
  <2> QED  BY <1>5, <2>1, <2>2 DEF RunOk
<1> QED  BY <1>1, <1>2, <1>6 DEF RequestsInv

(* Only the processes, the locks and the counters change. *)
LEMMA RecordsStay ==
    ASSUME RequestsInv, UNCHANGED <<home, ledger, records>>, keys' \in Nat, keys <= keys'
    PROVE  Kept /\ RecordsOk' /\ records' \subseteq Commands
<1>1. RecordsOk'
    BY DEF RequestsInv, RecordsOk, Named
<1>2. Kept
    BY DEF RequestsInv, RequestTypes, Kept, Named
<1> QED  BY <1>1, <1>2 DEF RequestsInv, RequestTypes

(* A process that goes on without a request of its own. *)
LEMMA Moves ==
    ASSUME RequestsInv, NEW o \in Operator, NEW r \in Runs, run' = [run EXCEPT ![o] = r],
           UNCHANGED <<home, ledger, ledgerLock, records, keys, session, generation>>,
           given' \in Nat, r.step # "write", RunFits(o, r),
           r.step = "persist" => r.stage = "intent"
    PROVE  RequestsInv'
<1>1. Kept /\ RecordsOk' /\ records' \subseteq Commands /\ keys \in Nat
    BY RecordsStay DEF RequestsInv, RequestTypes
<1>2. RequestTypes /\ ledgerLock' \in [Computer -> Operator \cup {Nothing}]
    BY DEF RequestsInv, RequestTypes
<1>3. RunFits(o, r)'
    BY <1>1, <1>2, RunKept
<1> QED  BY <1>1, <1>2, <1>3, OneRun

LEMMA RestingFits ==
    /\ Resting \in Runs /\ Resting.step = "idle" /\ Resting.key = 0 /\ NoBody \in Bodies
    /\ RequestsInv => \A o \in Operator : RunFits(o, Resting)
<1>1. Resting \in Runs /\ Resting.step = "idle" /\ Resting.key = 0 /\ NoBody \in Bodies
    BY DEF Resting, Runs, RunSteps, NoBody, Bodies, Stages
<1>2. RequestsInv => keys \in Nat
    BY DEF RequestsInv, RequestTypes
<1> QED  BY <1>1, <1>2 DEF RunFits

LEMMA Rests ==
    ASSUME RequestsInv, NEW o \in Operator, Over(o), Still,
           UNCHANGED <<ledger, ledgerLock, records, keys>>
    PROVE  RequestsInv'
  BY RestingFits, Moves DEF Over, Still, RequestsInv, RequestTypes

(* A new request, with a key of its own. *)
LEMMA Saves ==
    ASSUME RequestsInv, NEW o \in Operator, NEW stage \in Stages, NEW body \in Bodies,
           stage # "intent", Save(o, stage, body), Still,
           UNCHANGED <<ledger, ledgerLock, records>>,
           Founded(home[o], stage, body),
           stage # "stop" => Made(home[o], "intent") /\ File(o, "intent").body.wish = run[o].wish
    PROVE  RequestsInv'
<1>0. /\ run \in [Operator -> Runs] /\ run[o] \in Runs /\ keys \in Nat /\ keys' = keys + 1
      /\ RequestTypes /\ home[o] \in Computer /\ home' = home /\ given' \in Nat
      /\ ledgerLock' \in [Computer -> Operator \cup {Nothing}]
    BY DEF RequestsInv, RequestTypes, Save, Still
<1>1. PICK r \in Runs : /\ run' = [run EXCEPT ![o] = r] /\ r.step = "persist" /\ r.stage = stage
                        /\ r.body = body /\ r.key = keys + 1 /\ r.wish = run[o].wish
  <2> DEFINE r == [run[o] EXCEPT !.step = "persist", !.stage = stage, !.body = body, !.key = keys + 1]
  <2>1. /\ r \in Runs /\ r.step = "persist" /\ r.stage = stage /\ r.body = body /\ r.key = keys + 1
        /\ r.wish = run[o].wish
    <3>1. PICK q \in Runs : q = run[o]
        BY <1>0
    <3>2. keys + 1 \in Nat /\ "persist" \in RunSteps
        BY <1>0 DEF RunSteps
    <3>3. PICK a \in Runs : a = [q EXCEPT !.step = "persist", !.stage = stage]
        BY <3>2 DEF Runs
    <3>4. PICK b \in Runs : b = [a EXCEPT !.body = body, !.key = keys + 1]
        BY <3>2 DEF Runs
    <3>5. a.step = "persist" /\ a.stage = stage /\ a.wish = q.wish
        BY <3>3 DEF Runs
    <3>6. b.step = a.step /\ b.stage = a.stage /\ b.wish = a.wish /\ b.body = body /\ b.key = keys + 1
        BY <3>4 DEF Runs
    <3>7. r = b
        BY <3>1, <3>3, <3>4 DEF Runs
    <3> QED  BY <3>1, <3>5, <3>6, <3>7
  <2>2. run' = [run EXCEPT ![o] = r]
      BY <1>0 DEF Save, Runs
  <2> QED  BY <2>1, <2>2
<1>2. Kept /\ RecordsOk' /\ records' \subseteq Commands
    BY <1>0, RecordsStay
<1>3. Founded(home[o], stage, body)'
    BY <1>0, <1>2, FoundedKept
<1>4. RunFits(o, r)'
    BY <1>0, <1>1, <1>3 DEF RunFits, Made, File
<1>5. /\ session' = session /\ generation' = generation /\ r.key > keys /\ r.step # "write"
      /\ \A p \in Operator \ {o} : ledgerLock[home[p]] = p => ledgerLock'[home[p]] = p
    BY <1>0, <1>1 DEF Still
<1> QED  BY <1>0, <1>1, <1>2, <1>4, <1>5, OneRun

(* A process that only changes its step, and what it is to rely on there. *)
LEMMA StepRun ==
    ASSUME RequestsInv, NEW o \in Operator, NEW step \in RunSteps
    PROVE  /\ run[o] \in Runs /\ RunFits(o, run[o]) /\ home[o] \in Computer
           /\ [run[o] EXCEPT !.step = step] \in Runs
           /\ [run EXCEPT ![o].step = step] = [run EXCEPT ![o] = [run[o] EXCEPT !.step = step]]
           /\ [run[o] EXCEPT !.step = step].step = step
           /\ [run[o] EXCEPT !.step = step].stage = run[o].stage
           /\ [run[o] EXCEPT !.step = step].body = run[o].body
           /\ [run[o] EXCEPT !.step = step].key = run[o].key
           /\ [run[o] EXCEPT !.step = step].wish = run[o].wish
           /\ [run[o] EXCEPT !.step = step].inc = run[o].inc
<1>1. run \in [Operator -> Runs] /\ run[o] \in Runs /\ RunFits(o, run[o]) /\ home[o] \in Computer
    BY DEF RequestsInv, RequestTypes, RunOk
<1> QED  BY <1>1 DEF Runs

LEMMA StartAgentKeeps ==
    ASSUME RequestsInv, NEW o \in Operator, NEW wish \in Wish, StartAgent(o, wish)
    PROVE  RequestsInv'
<1> DEFINE b == [NoBody EXCEPT !.wish = wish]
           r == [Resting EXCEPT !.step = "persist", !.wish = wish, !.body = b]
<1>1. b \in Bodies /\ b.wish = wish
    BY DEF NoBody, Bodies
<1>2. /\ r \in Runs /\ r.step = "persist" /\ r.wish = wish /\ r.body = b /\ r.stage = "intent"
      /\ r.key = 0
  <2> HIDE DEF b
  <2> QED  BY <1>1 DEF Resting, Runs, RunSteps, Stages
<1>3. /\ run' = [run EXCEPT ![o] = r] /\ given' \in Nat /\ keys \in Nat
      /\ UNCHANGED <<home, ledger, ledgerLock, records, keys, session, generation>>
    BY DEF StartAgent, RequestsInv, RequestTypes
<1> HIDE DEF r
<1>4. RunFits(o, r)
    BY <1>1, <1>2, <1>3 DEF RunFits, Founded
<1> QED  BY <1>2, <1>3, <1>4, Moves

LEMMA StopAgentKeeps == ASSUME RequestsInv, NEW o \in Operator, StopAgent(o) PROVE RequestsInv'
<1> DEFINE r == [Resting EXCEPT !.step = "readStop", !.stage = "stop", !.inc = session]
<1>1. session \in Nat
    BY DEF RequestsInv, RequestTypes
<1>2. r \in Runs /\ r.step = "readStop" /\ r.stage = "stop" /\ r.key = 0
    BY <1>1 DEF Resting, Runs, RunSteps, Stages, NoBody, Bodies
<1>3. /\ run' = [run EXCEPT ![o] = r] /\ given' \in Nat /\ keys \in Nat
      /\ UNCHANGED <<home, ledger, ledgerLock, records, keys, session, generation>>
    BY DEF StopAgent, RequestsInv, RequestTypes
<1> HIDE DEF r
<1>4. RunFits(o, r)
    BY <1>2, <1>3 DEF RunFits
<1> QED  BY <1>2, <1>3, <1>4, Moves

(* What is in a file of the ledger. *)
LEMMA FileFacts ==
    ASSUME RequestsInv, NEW o \in Operator, NEW stage \in Stages
    PROVE  /\ File(o, stage) \notin {Nothing, Torn} <=> Made(home[o], stage)
           /\ Made(home[o], stage) =>
                 /\ File(o, stage) \in Files
                 /\ File(o, stage).key \in Nat /\ File(o, stage).body \in Bodies
                 /\ File(o, stage).key <= keys
                 /\ File(o, stage) = [key |-> File(o, stage).key, body |-> File(o, stage).body]
                 /\ Founded(home[o], stage, File(o, stage).body)
<1>1. ledger[home[o]][stage] \in Files \cup {Torn, Nothing} /\ home[o] \in Computer
    BY DEF RequestsInv, RequestTypes
<1>2. File(o, stage) \notin {Nothing, Torn} <=> Made(home[o], stage)
    BY <1>1, RequestAssumption DEF File, Made
<1>3. PICK f : f = File(o, stage)
    OBVIOUS
<1>4. Made(home[o], stage) => f \in Files /\ f.key <= keys /\ Founded(home[o], stage, f.body)
    BY <1>1, <1>3 DEF RequestsInv, LedgerOk, File, Made
<1>5. f \in Files => f.key \in Nat /\ f.body \in Bodies /\ f = [key |-> f.key, body |-> f.body]
    BY DEF Files
<1> QED  BY <1>2, <1>3, <1>4, <1>5

(* The request that is kept is taken. *)
LEMMA TakesKept ==
    ASSUME RequestsInv, NEW o \in Operator, NEW r \in Runs, run' = [run EXCEPT ![o] = r],
           UNCHANGED <<ledger, ledgerLock, records, keys>>, Still,
           r.step = "submit", r.stage # "intent", Made(home[o], r.stage),
           r.key = File(o, r.stage).key, r.body = File(o, r.stage).body,
           r.stage # "stop" => Made(home[o], "intent") /\ File(o, "intent").body.wish = r.wish
    PROVE  RequestsInv'
<1>1. /\ File(o, r.stage) = [key |-> r.key, body |-> r.body]
      /\ Founded(home[o], r.stage, r.body) /\ r.key <= keys
  <2>1. r.stage \in Stages
      BY DEF Runs
  <2> QED  BY <2>1, FileFacts
<1>2. RunFits(o, r)
    BY <1>1 DEF RunFits
<1>3. given' \in Nat
    BY DEF Still, RequestsInv, RequestTypes
<1> QED  BY <1>2, <1>3, Moves DEF Still

LEMMA ReadOriginalKeeps == ASSUME RequestsInv, NEW o \in Operator, ReadOriginal(o) PROVE RequestsInv'
<1>0. /\ run[o].step = "original" /\ Still /\ UNCHANGED <<ledger, ledgerLock, records, keys>>
      /\ run[o] \in Runs /\ RunFits(o, run[o]) /\ "start" \in Stages
    BY StepRun DEF ReadOriginal, Doing, Stages, RunSteps
<1>1. Made(home[o], "intent") /\ File(o, "intent").body.wish = run[o].wish /\ run[o].stage # "stop"
    BY <1>0 DEF RunFits
<1>2. CASE run' = [run EXCEPT ![o].step = "resolve"]
  <2>1. PICK r \in Runs : /\ run' = [run EXCEPT ![o] = r] /\ r.step = "resolve"
                          /\ r.stage = run[o].stage /\ r.key = run[o].key /\ r.wish = run[o].wish
      BY <1>2, StepRun DEF RunSteps
  <2>2. RunFits(o, r)
      BY <1>0, <1>1, <2>1 DEF RunFits
  <2> QED  BY <1>0, <2>1, <2>2, Moves DEF Still, RequestsInv, RequestTypes
<1>3. CASE Over(o)
    BY <1>0, <1>3, Rests
<1>4. CASE File(o, "start") \notin {Nothing, Torn} /\ Resume(o, "start")
  <2>1. Made(home[o], "start") /\ File(o, "start").key \in Nat /\ File(o, "start").body \in Bodies
      BY <1>0, <1>4, FileFacts
  <2>2. PICK k \in Nat, b \in Bodies : k = File(o, "start").key /\ b = File(o, "start").body
      BY <2>1
  <2> DEFINE q == [run[o] EXCEPT !.step = "submit", !.stage = "start"]
             r == [q EXCEPT !.key = k, !.body = b]
  <2>3. q \in Runs /\ q.step = "submit" /\ q.stage = "start" /\ q.wish = run[o].wish
      BY <1>0 DEF Runs, RunSteps
  <2>4. run' = [run EXCEPT ![o] = r]
      BY <1>0, <1>4, <2>2 DEF Resume, Runs, RequestsInv, RequestTypes
  <2> HIDE DEF q
  <2>5. r \in Runs /\ r.step = "submit" /\ r.stage = "start" /\ r.wish = run[o].wish /\ r.key = k /\ r.body = b
      BY <2>3 DEF Runs
  <2> HIDE DEF r
  <2> QED  BY <1>0, <1>1, <2>1, <2>2, <2>4, <2>5, TakesKept
<1> QED  BY <1>2, <1>3, <1>4 DEF ReadOriginal

LEMMA ResolveNameKeeps == ASSUME RequestsInv, NEW o \in Operator, ResolveName(o) PROVE RequestsInv'
<1>0. /\ run[o].step = "resolve" /\ Still /\ UNCHANGED <<ledger, ledgerLock, records>>
      /\ run[o] \in Runs /\ RunFits(o, run[o]) /\ "session" \in Stages
    BY StepRun DEF ResolveName, Doing, Stages, RunSteps
<1>1. Made(home[o], "intent") /\ File(o, "intent").body.wish = run[o].wish
    BY <1>0 DEF RunFits
<1>2. CASE Save(o, "session", NoBody)
  <2>1. Founded(home[o], "session", NoBody)
      BY DEF Founded
  <2> QED  BY <1>0, <1>1, <1>2, <2>1, RestingFits, Saves
<1>3. CASE Over(o) /\ UNCHANGED keys
    BY <1>0, <1>3, Rests
<1> QED  BY <1>2, <1>3 DEF ResolveName

LEMMA ReadStopKeeps == ASSUME RequestsInv, NEW o \in Operator, ReadStop(o) PROVE RequestsInv'
<1>0. /\ run[o].step = "readStop" /\ Still /\ UNCHANGED <<ledger, ledgerLock, records, keys>>
      /\ run[o] \in Runs /\ RunFits(o, run[o]) /\ "stop" \in Stages /\ run[o].stage = "stop"
    BY StepRun DEF ReadStop, Doing, Stages, RunSteps, RunFits
<1>2. CASE run' = [run EXCEPT ![o].step = "find"]
  <2>1. PICK r \in Runs : /\ run' = [run EXCEPT ![o] = r] /\ r.step = "find"
                          /\ r.stage = run[o].stage /\ r.key = run[o].key
      BY <1>2, StepRun DEF RunSteps
  <2>2. RunFits(o, r)
      BY <1>0, <2>1 DEF RunFits
  <2> QED  BY <1>0, <2>1, <2>2, Moves DEF Still, RequestsInv, RequestTypes
<1>3. CASE Over(o)
    BY <1>0, <1>3, Rests
<1>4. CASE File(o, "stop") \notin {Nothing, Torn} /\ Resume(o, "stop")
  <2>1. Made(home[o], "stop") /\ File(o, "stop").key \in Nat /\ File(o, "stop").body \in Bodies
      BY <1>0, <1>4, FileFacts
  <2>2. PICK k \in Nat, b \in Bodies : k = File(o, "stop").key /\ b = File(o, "stop").body
      BY <2>1
  <2> DEFINE q == [run[o] EXCEPT !.step = "submit", !.stage = "stop"]
             r == [q EXCEPT !.key = k, !.body = b]
  <2>3. q \in Runs /\ q.step = "submit" /\ q.stage = "stop"
      BY <1>0 DEF Runs, RunSteps
  <2>4. run' = [run EXCEPT ![o] = r]
      BY <1>0, <1>4, <2>2 DEF Resume, Runs, RequestsInv, RequestTypes
  <2> HIDE DEF q
  <2>5. r \in Runs /\ r.step = "submit" /\ r.stage = "stop" /\ r.key = k /\ r.body = b
      BY <2>3 DEF Runs
  <2> HIDE DEF r
  <2> QED  BY <1>0, <2>1, <2>2, <2>4, <2>5, TakesKept
<1> QED  BY <1>2, <1>3, <1>4 DEF ReadStop

LEMMA FindHandleKeeps == ASSUME RequestsInv, NEW o \in Operator, FindHandle(o) PROVE RequestsInv'
<1>0. /\ run[o].step = "find" /\ Still /\ UNCHANGED <<ledger, ledgerLock, records>>
      /\ run[o] \in Runs /\ "stop" \in Stages
    BY StepRun DEF FindHandle, Doing, Stages, RunSteps
<1>1. CASE Over(o) /\ UNCHANGED keys
    BY <1>0, <1>1, Rests
<1>2. ASSUME NEW n \in Named, n.receipt # 0, Save(o, "stop", [NoBody EXCEPT !.inc = n.receipt])
      PROVE  RequestsInv'
  <2>1. PICK b \in Bodies : b = [NoBody EXCEPT !.inc = n.receipt] /\ b.inc = n.receipt
      BY <1>2 DEF NoBody, Bodies, Named, RequestsInv, RequestTypes, Commands
  <2>2. Founded(home[o], "stop", b)
      BY <1>2, <2>1 DEF Founded
  <2>3. Save(o, "stop", b)
      BY <1>2, <2>1
  <2> QED  BY <1>0, <2>1, <2>2, <2>3, Saves
<1> QED  BY <1>1, <1>2 DEF FindHandle

LEMMA WaitProjectKeeps == ASSUME RequestsInv, NEW o \in Operator, WaitProject(o) PROVE RequestsInv'
<1>0. /\ run[o].step = "project" /\ Still /\ UNCHANGED <<ledger, ledgerLock, records>>
      /\ run[o] \in Runs /\ RunFits(o, run[o]) /\ "workspace" \in Stages /\ generation \in Nat
    BY StepRun DEF WaitProject, Doing, Stages, RunSteps, RequestsInv, RequestTypes
<1>1. PICK b \in Bodies : /\ b = [NoBody EXCEPT !.inc = run[o].inc, !.gen = generation]
                          /\ b.inc = run[o].inc /\ b.wish = Nothing
  <2>1. PICK i \in Nat : i = run[o].inc
      BY <1>0 DEF Runs
  <2>2. PICK n \in Bodies : n = NoBody /\ n.wish = Nothing
      BY RestingFits DEF NoBody
  <2>3. PICK b \in Bodies : b = [n EXCEPT !.inc = i, !.gen = generation]
      BY <1>0 DEF Bodies
  <2>4. b.inc = i /\ b.wish = Nothing
      BY <2>2, <2>3 DEF Bodies
  <2> QED  BY <2>1, <2>2, <2>3, <2>4
<1>2. Founded(home[o], "workspace", b)
    BY <1>0, <1>1 DEF Founded, RunFits
<1>3. Save(o, "workspace", b)
    BY <1>1 DEF WaitProject
<1>4. Made(home[o], "intent") /\ File(o, "intent").body.wish = run[o].wish
    BY <1>0 DEF RunFits
<1> QED  BY <1>0, <1>2, <1>3, <1>4, Saves

LEMMA SaveStartKeeps == ASSUME RequestsInv, NEW o \in Operator, SaveStart(o) PROVE RequestsInv'
<1>0. /\ run[o].step = "pinned" /\ Still /\ UNCHANGED <<ledger, ledgerLock, records>>
      /\ run[o] \in Runs /\ RunFits(o, run[o]) /\ "start" \in Stages
    BY StepRun DEF SaveStart, Doing, Stages, RunSteps
<1>1. PICK q \in Bodies : q = run[o].body
    BY <1>0 DEF Runs
<1>2. Founded(home[o], "workspace", q)
    BY <1>0, <1>1 DEF RunFits
<1>3. PICK b \in Bodies : /\ b = [q EXCEPT !.wish = run[o].wish]
                          /\ b.inc = q.inc /\ b.wish = run[o].wish
                          /\ [b EXCEPT !.wish = Nothing] = q
  <2>1. run[o].wish \in Wish \cup {Nothing} /\ q.wish = Nothing
      BY <1>0, <1>2 DEF Runs, Founded
  <2>2. PICK w \in Wish \cup {Nothing} : w = run[o].wish
      BY <2>1
  <2>3. PICK b \in Bodies : b = [q EXCEPT !.wish = w]
      BY DEF Bodies
  <2>4. b.inc = q.inc /\ b.wish = w /\ [b EXCEPT !.wish = q.wish] = q
      BY <2>3 DEF Bodies
  <2> QED  BY <2>1, <2>2, <2>3, <2>4
<1>4. Made(home[o], "intent") /\ File(o, "intent").body.wish = run[o].wish
    BY <1>0 DEF RunFits
<1>5. \E w \in records : /\ w.by = home[o] /\ w.stage = "workspace" /\ w.status = "succeeded"
                         /\ w.body = q
    BY <1>0, <1>1 DEF RunFits
<1>6. Founded(home[o], "start", b)
    BY <1>2, <1>3, <1>4, <1>5 DEF Founded, File
<1>7. Save(o, "start", b)
    BY <1>1, <1>3 DEF SaveStart
<1> QED  BY <1>0, <1>4, <1>6, <1>7, Saves

LEMMA GiveUpKeeps == ASSUME RequestsInv, NEW o \in Operator, GiveUp(o) PROVE RequestsInv'
<1>0. /\ UNCHANGED <<ledger, records, keys>> /\ Still /\ run' = [run EXCEPT ![o] = Resting]
      /\ ledgerLock' = [c \in Computer |-> IF ledgerLock[c] = o THEN Nothing ELSE ledgerLock[c]]
      /\ RequestTypes /\ keys \in Nat
    BY DEF GiveUp, Over, RequestsInv, RequestTypes
<1>1. Kept /\ RecordsOk' /\ records' \subseteq Commands
    BY <1>0, RecordsStay DEF Still
<1>2. /\ ledgerLock' \in [Computer -> Operator \cup {Nothing}]
      /\ \A p \in Operator \ {o} : ledgerLock[home[p]] = p => ledgerLock'[home[p]] = p
    BY <1>0 DEF RequestTypes
<1>3. RunFits(o, Resting)'
  <2>1. Resting \in Runs /\ RunFits(o, Resting) /\ Resting.step = "idle"
      BY RestingFits
  <2> QED  BY <1>0, <1>1, <2>1, RunKept
<1>4. given' \in Nat /\ session' = session /\ generation' = generation
    BY <1>0 DEF Still, RequestTypes
<1> QED  BY <1>0, <1>1, <1>2, <1>3, <1>4, RestingFits, OneRun

(* A command's request is in its computer's ledger. *)
LEMMA RecordFacts ==
    ASSUME RequestsInv, NEW r \in records
    PROVE  /\ r \in Commands /\ r.by \in Computer /\ r.stage \in Stages /\ r.stage # "intent"
           /\ r.key \in Nat /\ r.body \in Bodies /\ r.receipt \in Nat
           /\ Made(r.by, r.stage)
           /\ ledger[r.by][r.stage].key = r.key /\ ledger[r.by][r.stage].body = r.body
<1>1. r \in Commands
    BY DEF RequestsInv, RequestTypes
<1>2. /\ r.by \in Computer /\ r.stage \in Stages /\ r.key \in Nat /\ r.body \in Bodies
      /\ r.receipt \in Nat
    BY <1>1 DEF Commands
<1>3. PICK f : f = [key |-> r.key, body |-> r.body]
    OBVIOUS
<1>4. f \in Files /\ f.key = r.key /\ f.body = r.body
    BY <1>2, <1>3 DEF Files
<1>5. ledger[r.by][r.stage] = f /\ r.stage # "intent"
    BY <1>3 DEF RequestsInv, RecordsOk
<1> QED  BY <1>1, <1>2, <1>4, <1>5 DEF Made

(* A file of the ledger changes, in the hands of one process. *)
LEMMA WritesFile ==
    ASSUME RequestsInv, RequestTypes', Kept, LedgerOk', NEW o \in Operator, NEW r \in Runs,
           UNCHANGED records, run' = [run EXCEPT ![o] = r], RunFits(o, r)',
           \A p \in Operator \ {o} : run[p].step = "write" =>
              ledgerLock'[home[p]] = p /\ ledger'[home[p]][run[p].stage] = Torn,
           \A p \in Operator : KeyFresh(p)'
    PROVE  RequestsInv'
<1>1. run \in [Operator -> Runs] /\ RequestTypes
    BY DEF RequestsInv, RequestTypes
<1>2. ASSUME NEW p \in Operator PROVE RunOk(p)'
  <2>1. PICK s \in Runs : s = run'[p]
      BY DEF RequestTypes
  <2>2. RunFits(p, s)'
    <3>1. CASE p = o
      <4>1. s = r
          BY <1>1, <2>1, <3>1
      <4> QED  BY <3>1, <4>1
    <3>2. CASE p # o
      <4>1. s = run[p] /\ RunFits(p, s)
          BY <1>1, <2>1, <3>2 DEF RequestsInv, RunOk
      <4> QED  BY <1>1, <3>2, <4>1, RunKept
    <3> QED  BY <3>1, <3>2
  <2> QED  BY <2>1, <2>2 DEF RunOk
<1>3. RecordsOk'
  <2>1. Named' = Named
      BY DEF Named
  <2>2. ASSUME NEW c \in records
        PROVE  c.stage # "intent" /\ ledger'[c.by][c.stage] = [key |-> c.key, body |-> c.body]
    <3>1. ledger'[c.by][c.stage] = ledger[c.by][c.stage] /\ c.stage # "intent"
        BY RecordFacts DEF Kept
    <3> QED  BY <3>1 DEF RequestsInv, RecordsOk
  <2> QED  BY <2>1, <2>2 DEF RequestsInv, RecordsOk
<1> QED  BY <1>2, <1>3 DEF RequestsInv

(* managedPersist begins a file that is not there. *)
LEMMA PersistBegins ==
    ASSUME RequestsInv, NEW o \in Operator, Doing(o, "persist"), ledgerLock[home[o]] = Nothing,
           File(o, run[o].stage) = Nothing,
           ledger' = [ledger EXCEPT ![home[o]][run[o].stage] = Torn],
           ledgerLock' = [ledgerLock EXCEPT ![home[o]] = o],
           run' = [run EXCEPT ![o].step = "write"],
           UNCHANGED <<records, keys>>, Still
    PROVE  RequestsInv'
<1>0. /\ run \in [Operator -> Runs] /\ home[o] \in Computer /\ RequestTypes /\ keys \in Nat
      /\ LedgerOk /\ \A p \in Operator : RunFits(p, run[p]) /\ KeyFresh(p)
    BY DEF RequestsInv, RequestTypes, RunOk
<1>1. PICK q \in Runs : q = run[o]
    BY <1>0
<1>2. q.step = "persist" /\ q.stage \in Stages /\ RunFits(o, q)
    BY <1>0, <1>1 DEF Doing, Runs
<1>3. PICK r \in Runs : /\ run' = [run EXCEPT ![o] = r] /\ r.step = "write" /\ r.stage = q.stage
                        /\ r.body = q.body /\ r.key = q.key /\ r.wish = q.wish
  <2>1. PICK r \in Runs : /\ run' = [run EXCEPT ![o] = r] /\ r.step = "write"
                          /\ r.stage = run[o].stage /\ r.body = run[o].body
                          /\ r.key = run[o].key /\ r.wish = run[o].wish
      BY StepRun DEF RunSteps
  <2> QED  BY <1>1, <2>1
<1>4. /\ ledger' \in [Computer -> [Stages -> Files \cup {Torn, Nothing}]]
      /\ \A c \in Computer, stage \in Stages :
            IF c = home[o] /\ stage = q.stage
            THEN ledger[c][stage] = Nothing /\ ledger'[c][stage] = Torn
            ELSE ledger'[c][stage] = ledger[c][stage]
    BY <1>0, <1>1, <1>2 DEF RequestTypes, File
<1>5. \A c \in Computer, stage \in Stages :
         /\ Made(c, stage)' <=> Made(c, stage)
         /\ Made(c, stage) => ledger'[c][stage] = ledger[c][stage]
    BY <1>4, RequestAssumption DEF Made
<1>6. Kept
    BY <1>0, <1>5 DEF Kept, Still, Named
<1>7. RequestTypes'
  <2>1. run' \in [Operator -> Runs] /\ ledgerLock' \in [Computer -> Operator \cup {Nothing}]
      BY <1>0, <1>3 DEF RequestTypes
  <2> QED  BY <1>0, <1>4, <2>1 DEF RequestTypes, Still
<1>8. LedgerOk'
  <2> SUFFICES ASSUME NEW c \in Computer, NEW stage \in Stages, Made(c, stage)',
                      NEW f \in Files, f = ledger'[c][stage]
               PROVE  /\ f.key <= keys' /\ Founded(c, stage, f.body)'
                      /\ \A other \in Stages \ {stage, "intent"} :
                            stage # "intent" /\ Made(c, other)' => ledger'[c][other].key # f.key
      BY DEF LedgerOk, Founded, Made
  <2>1. f = ledger[c][stage] /\ Made(c, stage)
      BY <1>5
  <2>2. Founded(c, stage, f.body) /\ f.body \in Bodies /\ f.key \in Nat /\ f.key <= keys
      BY <1>0, <2>1 DEF LedgerOk, Files
  <2>3. Founded(c, stage, f.body)'
      BY <1>0, <1>6, <2>2, FoundedKept
  <2>4. \A other \in Stages \ {stage, "intent"} :
           stage # "intent" /\ Made(c, other)' => ledger'[c][other].key # f.key
      BY <1>0, <1>5, <2>1 DEF LedgerOk
  <2> QED  BY <1>0, <2>2, <2>3, <2>4 DEF Still
<1>9. RunFits(o, r)'
  <2>1. RunFits(o, q)'
      BY <1>0, <1>2, <1>6, RunKept
  <2>2. ledgerLock'[home[o]] = o /\ ledger'[home[o]][r.stage] = Torn /\ home' = home
      BY <1>0, <1>2, <1>3, <1>4 DEF RequestTypes, Still
  <2> QED  BY <1>2, <1>3, <2>1, <2>2 DEF RunFits, File
<1>10. ASSUME NEW p \in Operator \ {o}, run[p].step = "write"
       PROVE  ledgerLock'[home[p]] = p /\ ledger'[home[p]][run[p].stage] = Torn
  <2>1. /\ ledgerLock[home[p]] = p /\ ledger[home[p]][run[p].stage] = Torn
        /\ home[p] \in Computer /\ run[p].stage \in Stages
    <3>1. PICK s \in Runs : s = run[p]
        BY <1>0
    <3>2. RunFits(p, s) /\ s.step = "write" /\ s.stage \in Stages
        BY <1>0, <1>10, <3>1 DEF Runs
    <3> QED  BY <1>0, <3>1, <3>2 DEF RunFits, File, RequestTypes
  <2>2. home[p] # home[o]
      BY <2>1, RequestAssumption
  <2> QED  BY <1>0, <1>4, <2>1, <2>2 DEF RequestTypes
<1>11. ASSUME NEW p \in Operator PROVE KeyFresh(p)'
  <2>1. \A x \in Operator : run'[x].stage = run[x].stage /\ run'[x].key = run[x].key
                            /\ (Fresh(x)' <=> Fresh(x))
      BY <1>0, <1>1, <1>2, <1>3 DEF Fresh
  <2>2. home' = home /\ home[p] \in Computer
      BY <1>0 DEF Still, RequestTypes
  <2> QED  BY <1>0, <1>5, <2>1, <2>2 DEF KeyFresh, File
<1> QED  BY <1>3, <1>6, <1>7, <1>8, <1>9, <1>10, <1>11, WritesFile

LEMMA PersistKeeps == ASSUME RequestsInv, NEW o \in Operator, Persist(o) PROVE RequestsInv'
<1>0. /\ run[o].step = "persist" /\ Still /\ UNCHANGED <<records, keys>>
      /\ run[o] \in Runs /\ RunFits(o, run[o]) /\ run[o].stage \in Stages
      /\ "original" \in RunSteps /\ "submit" \in RunSteps
    BY StepRun DEF Persist, Doing, RunSteps, Runs
<1>1. PICK kept : kept = File(o, run[o].stage)
    OBVIOUS
<1>2. CASE /\ kept = Nothing /\ run' = [run EXCEPT ![o].step = "write"]
           /\ ledger' = [ledger EXCEPT ![home[o]][run[o].stage] = Torn]
           /\ ledgerLock' = [ledgerLock EXCEPT ![home[o]] = o]
    BY <1>0, <1>1, <1>2, PersistBegins DEF Persist
<1>3. CASE /\ kept \notin {Nothing, Torn} /\ kept.body = run[o].body
           /\ run' = [run EXCEPT ![o].step = AfterPersist(run[o].stage), ![o].key = kept.key]
           /\ UNCHANGED <<ledger, ledgerLock>>
  <2>1. /\ Made(home[o], run[o].stage) /\ kept \in Files /\ kept.key \in Nat /\ kept.key <= keys
      BY <1>0, <1>1, <1>3, FileFacts
  <2>2. PICK k \in Nat, step \in RunSteps : k = kept.key /\ step = AfterPersist(run[o].stage)
      BY <1>0, <2>1 DEF AfterPersist
  <2>3. PICK r \in Runs : /\ r = [run[o] EXCEPT !.step = step, !.key = k]
                          /\ r.step = step /\ r.key = k /\ r.stage = run[o].stage
                          /\ r.body = run[o].body /\ r.wish = run[o].wish
    <3>1. PICK q \in Runs : q = run[o]
        BY <1>0
    <3>2. PICK r \in Runs : r = [q EXCEPT !.step = step, !.key = k]
        BY DEF Runs
    <3>3. /\ r.step = step /\ r.key = k /\ r.stage = q.stage
          /\ r.body = q.body /\ r.wish = q.wish
        BY <3>2 DEF Runs
    <3> QED  BY <3>1, <3>2, <3>3
  <2>4. run' = [run EXCEPT ![o] = r]
      BY <1>0, <1>3, <2>2, <2>3 DEF RequestsInv, RequestTypes, Runs
  <2>5. CASE run[o].stage = "intent"
    <3>1. r.step = "original" /\ r.stage = "intent" /\ r.key <= keys
        BY <2>1, <2>2, <2>3, <2>5 DEF AfterPersist
    <3>2. Made(home[o], "intent") /\ File(o, "intent").body.wish = r.wish
        BY <1>0, <1>1, <1>3, <2>1, <2>3, <2>5 DEF RunFits
    <3>3. RunFits(o, r)
        BY <3>1, <3>2 DEF RunFits
    <3> QED  BY <1>0, <1>3, <2>4, <3>1, <3>3, Moves DEF Still, RequestsInv, RequestTypes
  <2>6. CASE run[o].stage # "intent"
    <3>1. r.step = "submit" /\ r.stage # "intent"
        BY <2>2, <2>3, <2>6 DEF AfterPersist
    <3>2. r.stage # "stop" => Made(home[o], "intent") /\ File(o, "intent").body.wish = r.wish
        BY <1>0, <2>3, <2>6 DEF RunFits
    <3>3. /\ Made(home[o], r.stage) /\ r.key = File(o, r.stage).key
          /\ r.body = File(o, r.stage).body
        BY <1>1, <1>3, <2>1, <2>2, <2>3
    <3> QED  BY <1>0, <1>3, <2>4, <3>1, <3>2, <3>3, TakesKept
  <2> QED  BY <2>5, <2>6
<1>4. CASE Over(o) /\ UNCHANGED <<ledger, ledgerLock>>
    BY <1>0, <1>4, Rests
<1> QED  BY <1>0, <1>1, <1>2, <1>3, <1>4 DEF Persist, Preserved

(* managedPersist finishes the file: it is what the process made, and stays. *)
LEMMA FinishWriteKeeps == ASSUME RequestsInv, NEW o \in Operator, FinishWrite(o) PROVE RequestsInv'
<1>0. /\ run \in [Operator -> Runs] /\ home[o] \in Computer /\ RequestTypes /\ keys \in Nat
      /\ LedgerOk /\ \A p \in Operator : RunFits(p, run[p]) /\ KeyFresh(p)
      /\ Still /\ UNCHANGED <<records, keys>> /\ home' = home
    BY DEF RequestsInv, RequestTypes, RunOk, FinishWrite, Still
<1>1. PICK q \in Runs : q = run[o]
    BY <1>0
<1>2. /\ q.step = "write" /\ q.stage \in Stages /\ q.key \in Nat /\ q.body \in Bodies
      /\ RunFits(o, q)
    BY <1>0, <1>1 DEF FinishWrite, Doing, Runs
<1>3. PICK f \in Files : f = [key |-> q.key, body |-> q.body] /\ f.key = q.key /\ f.body = q.body
  <2>1. PICK f : f = [key |-> q.key, body |-> q.body]
      OBVIOUS
  <2>2. f \in Files /\ f.key = q.key /\ f.body = q.body
      BY <1>2, <2>1 DEF Files
  <2> QED  BY <2>1, <2>2
<1>4. /\ ledgerLock[home[o]] = o /\ ledger[home[o]][q.stage] = Torn /\ q.key <= keys
      /\ Founded(home[o], q.stage, q.body)
    BY <1>2 DEF RunFits, File
<1>5. /\ ledger' \in [Computer -> [Stages -> Files \cup {Torn, Nothing}]]
      /\ \A c \in Computer, stage \in Stages :
            IF c = home[o] /\ stage = q.stage
            THEN ledger[c][stage] = Torn /\ ledger'[c][stage] = f
            ELSE ledger'[c][stage] = ledger[c][stage]
  <2>1. ledger' = [ledger EXCEPT ![home[o]][q.stage] = f]
      BY <1>1, <1>3 DEF FinishWrite
  <2> QED  BY <1>0, <1>2, <1>4, <2>1 DEF RequestTypes
<1>6. \A c \in Computer, stage \in Stages :
         /\ Made(c, stage)' <=> (Made(c, stage) \/ (c = home[o] /\ stage = q.stage))
         /\ Made(c, stage) => ledger'[c][stage] = ledger[c][stage]
    BY <1>5, RequestAssumption DEF Made
<1>7. Kept
    BY <1>0, <1>6 DEF Kept, Still, Named
<1>8. PICK r \in Runs : /\ run' = [run EXCEPT ![o] = r] /\ r.step = AfterPersist(q.stage)
                        /\ r.stage = q.stage
                        /\ r.body = q.body /\ r.key = q.key /\ r.wish = q.wish
  <2>1. PICK step \in RunSteps : step = AfterPersist(q.stage)
      BY DEF RunSteps, AfterPersist
  <2>2. PICK r \in Runs : r = [q EXCEPT !.step = step]
      BY DEF Runs
  <2>3. /\ r.step = step /\ r.stage = q.stage /\ r.body = q.body /\ r.key = q.key
        /\ r.wish = q.wish
      BY <2>2 DEF Runs
  <2>4. run' = [run EXCEPT ![o] = r]
      BY <1>0, <1>1, <2>1, <2>2 DEF FinishWrite, Runs
  <2> QED  BY <2>1, <2>3, <2>4
<1>9. RequestTypes'
  <2>1. run' \in [Operator -> Runs] /\ ledgerLock' \in [Computer -> Operator \cup {Nothing}]
      BY <1>0, <1>8 DEF RequestTypes, FinishWrite
  <2> QED  BY <1>0, <1>5, <2>1 DEF RequestTypes, Still
<1>10. \A stage \in Stages \ {"intent", q.stage} :
          q.stage # "intent" /\ Made(home[o], stage) => ledger[home[o]][stage].key # q.key
    BY <1>0, <1>1, <1>2 DEF KeyFresh, Fresh, File
<1>11. LedgerOk'
  <2> SUFFICES ASSUME NEW c \in Computer, NEW stage \in Stages, Made(c, stage)',
                      NEW g \in Files, g = ledger'[c][stage]
               PROVE  /\ g.key <= keys' /\ Founded(c, stage, g.body)'
                      /\ \A other \in Stages \ {stage, "intent"} :
                            stage # "intent" /\ Made(c, other)' => ledger'[c][other].key # g.key
      BY DEF LedgerOk, Founded, Made
  <2>1. /\ g.key <= keys /\ Founded(c, stage, g.body) /\ g.body \in Bodies
        /\ c # home[o] \/ stage # q.stage => Made(c, stage) /\ g = ledger[c][stage]
        /\ c = home[o] /\ stage = q.stage => g.key = q.key
    <3>1. CASE c = home[o] /\ stage = q.stage
        BY <1>2, <1>3, <1>4, <1>5, <3>1
    <3>2. CASE ~(c = home[o] /\ stage = q.stage)
      <4>1. Made(c, stage) /\ g = ledger[c][stage]
          BY <1>5, <1>6, <3>2
      <4> QED  BY <1>0, <3>2, <4>1 DEF LedgerOk, Files
    <3> QED  BY <3>1, <3>2
  <2>2. Founded(c, stage, g.body)'
      BY <1>0, <1>7, <2>1, FoundedKept
  <2>3. ASSUME NEW other \in Stages \ {stage, "intent"}, stage # "intent", Made(c, other)'
        PROVE  ledger'[c][other].key # g.key
    <3>1. CASE c = home[o] /\ stage = q.stage
        BY <1>5, <1>6, <1>10, <2>1, <2>3, <3>1
    <3>2. CASE c = home[o] /\ other = q.stage
        BY <1>3, <1>5, <1>6, <1>10, <2>1, <2>3, <3>2
    <3>3. CASE c # home[o] \/ (stage # q.stage /\ other # q.stage)
        BY <1>0, <1>5, <1>6, <2>1, <2>3, <3>3 DEF LedgerOk
    <3> QED  BY <3>1, <3>2, <3>3
  <2> QED  BY <1>0, <2>1, <2>2, <2>3
<1>12. RunFits(o, r)'
  <2>1. PICK t \in Runs : /\ t.step = "persist" /\ t.stage = q.stage /\ t.body = q.body
                          /\ t.key = q.key /\ t.wish = q.wish
    <3>1. PICK t \in Runs : t = [q EXCEPT !.step = "persist"]
        BY DEF Runs, RunSteps
    <3> QED  BY <3>1 DEF Runs
  <2>2. RunFits(o, t)
      BY <1>2, <2>1 DEF RunFits
  <2>3. RunFits(o, t)'
      BY <1>0, <1>7, <2>1, <2>2, RunKept
  <2>4. File(o, r.stage)' = [key |-> r.key, body |-> r.body] /\ Made(home[o], r.stage)'
        /\ File(o, r.stage)'.body = r.body
      BY <1>0, <1>2, <1>3, <1>5, <1>6, <1>8 DEF File
  <2>5. CASE q.stage = "intent"
    <3>1. r.step = "original" /\ r.stage = "intent" /\ r.body.wish = r.wish
        BY <1>2, <1>8, <2>5 DEF AfterPersist, RunFits
    <3> QED  BY <1>0, <1>4, <1>8, <2>4, <3>1 DEF RunFits
  <2>6. CASE q.stage # "intent"
    <3>1. r.step = "submit" /\ r.stage # "intent"
        BY <1>8, <2>6 DEF AfterPersist
    <3> QED  BY <1>0, <1>8, <2>1, <2>3, <2>4, <3>1 DEF RunFits
  <2> QED  BY <2>5, <2>6
<1>13. ASSUME NEW p \in Operator \ {o}, run[p].step = "write"
       PROVE  ledgerLock'[home[p]] = p /\ ledger'[home[p]][run[p].stage] = Torn
  <2>1. /\ ledgerLock[home[p]] = p /\ ledger[home[p]][run[p].stage] = Torn
        /\ home[p] \in Computer /\ run[p].stage \in Stages
    <3>1. PICK s \in Runs : s = run[p]
        BY <1>0
    <3>2. RunFits(p, s) /\ s.step = "write" /\ s.stage \in Stages
        BY <1>0, <1>13, <3>1 DEF Runs
    <3> QED  BY <1>0, <3>1, <3>2 DEF RunFits, File, RequestTypes
  <2>2. home[p] # home[o]
      BY <1>4, <2>1
  <2> QED  BY <1>0, <1>5, <2>1, <2>2 DEF RequestTypes, FinishWrite
<1>14. ASSUME NEW p \in Operator PROVE KeyFresh(p)'
  <2>1. /\ \A x \in Operator : run'[x].stage = run[x].stage /\ run'[x].key = run[x].key
        /\ \A x \in Operator \ {o} : Fresh(x)' <=> Fresh(x)
        /\ ~Fresh(o)' /\ (q.stage # "intent" => Fresh(o))
      BY <1>0, <1>1, <1>2, <1>8 DEF Fresh, AfterPersist
  <2>2. home[p] \in Computer
      BY <1>0 DEF RequestTypes
  <2>3. CASE p = o
      BY <2>1, <2>3 DEF KeyFresh
  <2>4. CASE p # o
    <3>1. SUFFICES ASSUME Fresh(p)' PROVE KeyFresh(p)'
        BY DEF KeyFresh
    <3>2. /\ \A stage \in Stages \ {"intent"} :
                Made(home[p], stage) => ledger[home[p]][stage].key # run[p].key
          /\ \A x \in Operator \ {p} : Fresh(x) => run[x].key # run[p].key
        BY <1>0, <2>1, <2>4, <3>1 DEF KeyFresh, File
    <3>3. ASSUME NEW stage \in Stages \ {"intent"}, Made(home[p], stage)'
          PROVE  ledger'[home[p]][stage].key # run[p].key
      <4>1. CASE home[p] = home[o] /\ stage = q.stage
        <5>1. Fresh(o) /\ o \in Operator \ {p}
            BY <2>1, <2>4, <3>3, <4>1
        <5>2. run[o].key # run[p].key
            BY <3>2, <5>1
        <5>3. ledger'[home[p]][stage].key = run[o].key
            BY <1>1, <1>3, <1>5, <2>2, <3>3, <4>1
        <5> QED  BY <5>2, <5>3
      <4>2. CASE ~(home[p] = home[o] /\ stage = q.stage)
        <5>1. stage \in Stages /\ Made(home[p], stage)
            BY <1>0, <1>6, <2>2, <3>3, <4>2 DEF Made
        <5>2. ledger'[home[p]][stage] = ledger[home[p]][stage]
            BY <1>6, <2>2, <5>1
        <5> QED  BY <3>2, <5>1, <5>2
      <4> QED  BY <4>1, <4>2
    <3>4. \A x \in Operator \ {p} : Fresh(x)' => run'[x].key # run'[p].key
        BY <2>1, <3>2
    <3>5. run'[p].key = run[p].key
        BY <2>1
    <3> QED  BY <1>0, <3>3, <3>4, <3>5 DEF KeyFresh, File
  <2> QED  BY <2>3, <2>4
<1> QED  BY <1>0, <1>7, <1>8, <1>9, <1>11, <1>12, <1>13, <1>14, WritesFile

LEMMA SubmitRequestKeeps == ASSUME RequestsInv, NEW o \in Operator, SubmitRequest(o) PROVE RequestsInv'
<1>0. /\ run[o].step = "submit" /\ Still /\ UNCHANGED <<ledger, ledgerLock, keys>>
      /\ run \in [Operator -> Runs] /\ run[o] \in Runs /\ RunFits(o, run[o]) /\ home[o] \in Computer
      /\ RequestTypes /\ keys \in Nat /\ given' \in Nat
    BY DEF SubmitRequest, Doing, RequestsInv, RequestTypes, RunOk, Still
<1>1. PICK q \in Runs : q = run[o]
    BY <1>0
<1>2. /\ q.stage \in Stages /\ q.key \in Nat /\ q.body \in Bodies /\ q.key <= keys /\ q.stage # "intent"
      /\ ledger[home[o]][q.stage] = [key |-> q.key, body |-> q.body]
    BY <1>0, <1>1 DEF Runs, RunFits, File
<1>3. PICK r \in Runs : /\ [run EXCEPT ![o].step = "wait"] = [run EXCEPT ![o] = r]
                        /\ r.step = "wait" /\ RunFits(o, r)
  <2>1. PICK r \in Runs : r = [q EXCEPT !.step = "wait"]
      BY DEF Runs, RunSteps
  <2>2. /\ r.step = "wait" /\ r.stage = q.stage /\ r.body = q.body /\ r.key = q.key
        /\ r.wish = q.wish
      BY <2>1 DEF Runs
  <2>3. RunFits(o, r)
      BY <1>0, <1>1, <2>2 DEF RunFits
  <2>4. [run EXCEPT ![o].step = "wait"] = [run EXCEPT ![o] = r]
      BY <1>0, <1>1, <2>1 DEF Runs
  <2> QED  BY <2>2, <2>3, <2>4
<1>4. CASE run' = [run EXCEPT ![o].step = "wait"] /\ UNCHANGED records
  <2>1. run' = [run EXCEPT ![o] = r]
      BY <1>3, <1>4
  <2> QED  BY <1>0, <1>3, <1>4, <2>1, Moves DEF Still
<1>5. CASE /\ checkNamedAgentClaim(o) /\ records' = records \cup {NewCommand(o)}
           /\ run' \in {[run EXCEPT ![o].step = "wait"], [run EXCEPT ![o] = Resting]}
  <2>1. PICK n : n = NewCommand(o)
      OBVIOUS
  <2>2. /\ n \in Commands /\ n.by = home[o] /\ n.key = q.key /\ n.stage = q.stage /\ n.body = q.body
      BY <1>0, <1>1, <1>2, <2>1 DEF NewCommand, Commands
  <2>3. records' = records \cup {n} /\ records' \subseteq Commands
      BY <1>0, <1>5, <2>1, <2>2 DEF RequestTypes
  <2>4. Kept
      BY <1>0, <2>3 DEF Kept, Still, Named
  <2>5. RecordsOk'
    <3>1. ASSUME NEW c \in records
          PROVE  c.stage # "intent" /\ ledger[c.by][c.stage] = [key |-> c.key, body |-> c.body]
        BY DEF RequestsInv, RecordsOk
    <3>2. n.stage # "intent" /\ ledger[n.by][n.stage] = [key |-> n.key, body |-> n.body]
        BY <1>2, <2>2
    <3>3. \A a, b \in Named' : a = b
      <4>1. CASE n.stage = "start"
        <5>1. Named = {}
            BY <1>1, <1>5, <2>2, <4>1 DEF checkNamedAgentClaim
        <5> QED  BY <2>3, <5>1 DEF Named
      <4>2. CASE n.stage # "start"
        <5>1. Named' = Named
            BY <2>3, <4>2 DEF Named
        <5> QED  BY <5>1 DEF RequestsInv, RecordsOk
      <4> QED  BY <4>1, <4>2
    <3>4. ASSUME NEW c \in records'
          PROVE  c.stage # "intent" /\ ledger'[c.by][c.stage] = [key |-> c.key, body |-> c.body]
      <4>1. c = n \/ c \in records
          BY <2>3
      <4> QED  BY <1>0, <3>1, <3>2, <4>1
    <3> QED  BY <3>3, <3>4 DEF RecordsOk
  <2>6. ASSUME NEW s \in Runs, run' = [run EXCEPT ![o] = s], RunFits(o, s), s.step \in {"wait", "idle"}
        PROVE  RequestsInv'
    <3>1. RunFits(o, s)'
        BY <1>0, <2>4, <2>6, RunKept
    <3>2. ledgerLock' \in [Computer -> Operator \cup {Nothing}] /\ session' = session /\ generation' = generation
        BY <1>0 DEF RequestTypes, Still
    <3> QED  BY <1>0, <2>3, <2>4, <2>5, <2>6, <3>1, <3>2, OneRun
  <2>7. RequestsInv' \/ run' = [run EXCEPT ![o] = Resting]
      BY <1>3, <1>5, <2>6
  <2> QED  BY <2>6, <2>7, RestingFits
<1>6. CASE Over(o) /\ UNCHANGED records
    BY <1>0, <1>6, Rests
<1> QED  BY <1>4, <1>5, <1>6 DEF SubmitRequest

(* The command with a process's key is the one it asked for. *)
LEMMA WaitCommandKeeps == ASSUME RequestsInv, NEW o \in Operator, WaitCommand(o) PROVE RequestsInv'
<1>0. /\ run[o].step = "wait" /\ Still /\ UNCHANGED <<ledger, ledgerLock, records, keys>>
      /\ run \in [Operator -> Runs] /\ run[o] \in Runs /\ RunFits(o, run[o]) /\ home[o] \in Computer
      /\ given' \in Nat /\ LedgerOk
    BY DEF WaitCommand, Doing, RequestsInv, RequestTypes, RunOk, Still
<1>1. PICK q \in Runs : q = run[o]
    BY <1>0
<1>2. /\ q.stage \in Stages /\ q.key \in Nat /\ q.body \in Bodies /\ q.key <= keys /\ q.stage # "intent"
      /\ ledger[home[o]][q.stage] = [key |-> q.key, body |-> q.body]
      /\ Founded(home[o], q.stage, q.body)
      /\ q.stage # "stop" => Made(home[o], "intent") /\ File(o, "intent").body.wish = q.wish
    BY <1>0, <1>1 DEF Runs, RunFits, File
<1>3. ASSUME NEW c \in Mine(o)
      PROVE  /\ c \in records /\ c.by = home[o] /\ c.stage = q.stage /\ c.body = q.body
             /\ c.receipt \in Nat
  <2>1. c \in records /\ c.by = home[o] /\ c.key = q.key
      BY <1>1 DEF Mine
  <2>2. PICK f : f = [key |-> q.key, body |-> q.body]
      OBVIOUS
  <2>3. f \in Files /\ f.key = q.key /\ f.body = q.body
      BY <1>2, <2>2 DEF Files
  <2>4. /\ c.stage \in Stages /\ c.stage # "intent" /\ Made(home[o], c.stage) /\ c.receipt \in Nat
        /\ ledger[home[o]][c.stage].key = q.key /\ ledger[home[o]][c.stage].body = c.body
      BY <2>1, RecordFacts
  <2>5. Made(home[o], q.stage) /\ ledger[home[o]][q.stage] = f
      BY <1>2, <2>2, <2>3 DEF Made
  <2>6. c.stage = q.stage
      BY <1>0, <1>2, <2>3, <2>4, <2>5 DEF LedgerOk
  <2> QED  BY <2>1, <2>3, <2>4, <2>5, <2>6
<1>4. ASSUME NEW c \in Mine(o), c.status = "succeeded", c.stage = "session",
             run' = [run EXCEPT ![o].step = "project", ![o].inc = c.receipt]
      PROVE  RequestsInv'
  <2>1. PICK i \in Nat : i = c.receipt
      BY <1>3
  <2>2. PICK r \in Runs : r = [q EXCEPT !.step = "project", !.inc = i]
      BY DEF Runs, RunSteps
  <2>3. r.step = "project" /\ r.inc = i /\ r.stage = q.stage /\ r.key = q.key /\ r.wish = q.wish
      BY <2>2 DEF Runs
  <2>4. run' = [run EXCEPT ![o] = r]
      BY <1>0, <1>1, <1>4, <2>1, <2>2 DEF Runs
  <2>5. c \in records /\ c.by = home[o] /\ c.stage = q.stage
      BY <1>3
  <2>6. RunFits(o, r)
      BY <1>2, <1>4, <2>1, <2>3, <2>5 DEF RunFits
  <2> QED  BY <1>0, <2>3, <2>4, <2>6, Moves DEF Still
<1>5. ASSUME NEW c \in Mine(o), c.status = "succeeded", c.stage = "workspace",
             run' = [run EXCEPT ![o].step = "pinned"]
      PROVE  RequestsInv'
  <2>2. PICK r \in Runs : r = [q EXCEPT !.step = "pinned"]
      BY DEF Runs, RunSteps
  <2>3. r.step = "pinned" /\ r.stage = q.stage /\ r.body = q.body /\ r.key = q.key /\ r.wish = q.wish
      BY <2>2 DEF Runs
  <2>4. run' = [run EXCEPT ![o] = r]
      BY <1>0, <1>1, <1>5, <2>2 DEF Runs
  <2>5. c \in records /\ c.by = home[o] /\ c.stage = q.stage /\ c.body = q.body
      BY <1>3
  <2>6. RunFits(o, r)
      BY <1>2, <1>5, <2>3, <2>5 DEF RunFits
  <2> QED  BY <1>0, <2>3, <2>4, <2>6, Moves DEF Still
<1>6. CASE Over(o)
    BY <1>0, <1>6, Rests
<1> QED  BY <1>4, <1>5, <1>6 DEF WaitCommand

(* No process and no file changes. *)
LEMMA ProcessesStay ==
    ASSUME RequestsInv, Kept, UNCHANGED <<ledger, ledgerLock, run, keys>>,
           records' \subseteq Commands, RecordsOk',
           session' \in Nat \ {0}, generation' \in Nat, given' \in Nat
    PROVE  RequestsInv'
<1>1. /\ RequestTypes /\ LedgerOk /\ run \in [Operator -> Runs] /\ home' = home
    BY DEF RequestsInv, RequestTypes, Kept
<1>2. RequestTypes' /\ LedgerOk'
    BY <1>1, LedgerKept DEF RequestTypes
<1>3. ASSUME NEW p \in Operator PROVE RunOk(p)'
  <2>1. PICK s \in Runs : s = run[p]
      BY <1>1
  <2>2. RunFits(p, s) /\ KeyFresh(p)
      BY <2>1 DEF RequestsInv, RunOk
  <2>3. RunFits(p, s)'
      BY <1>1, <2>2, RunKept DEF RunFits, File
  <2>4. KeyFresh(p)'
      BY <1>1, <2>2 DEF KeyFresh, Fresh, Made, File
  <2> QED  BY <2>1, <2>3, <2>4 DEF RunOk
<1> QED  BY <1>2, <1>3 DEF RequestsInv

(* The node's answer to a command: what it asked for stays, and so does a     *)
(* receipt that it has.                                                       *)
LEMMA ExecuteKeeps == ASSUME RequestsInv, NEW c \in records, Execute(c) PROVE RequestsInv'
<1>0. /\ UNCHANGED <<home, ledger, ledgerLock, run, session, generation, given, keys>>
      /\ c.status = "open" /\ c \in Commands /\ RequestTypes /\ RecordsOk
    BY DEF Execute, RequestsInv, RequestTypes
<1>1. PICK status \in {"open", "failed", "succeeded"}, receipt \in Nat :
         /\ Update(c, status, receipt)
         /\ c.stage = "start" /\ c.receipt # 0 => receipt = c.receipt
  <2>1. c.receipt \in Nat /\ session \in Nat
      BY <1>0 DEF Commands, RequestTypes
  <2> QED  BY <2>1 DEF Execute
<1>2. PICK d \in Commands : d = [c EXCEPT !.status = status, !.receipt = receipt]
    BY <1>0 DEF Commands
<1>3. /\ d.by = c.by /\ d.key = c.key /\ d.stage = c.stage /\ d.body = c.body /\ d.receipt = receipt
    BY <1>0, <1>2 DEF Commands
<1>4. records' = (records \ {c}) \cup {d} /\ records' \subseteq Commands
    BY <1>0, <1>1, <1>2 DEF Update, RequestTypes
<1>5. Kept
  <2>1. ASSUME NEW n \in Named, n.receipt # 0 PROVE \E m \in Named' : m.receipt = n.receipt
    <3>1. CASE n = c
        BY <1>1, <1>3, <1>4, <2>1, <3>1 DEF Named
    <3>2. CASE n # c
        BY <1>4, <2>1, <3>2 DEF Named
    <3> QED  BY <3>1, <3>2
  <2>2. \A s \in records : s.status = "succeeded" => s \in records'
      BY <1>0, <1>4
  <2> QED  BY <1>0, <2>1, <2>2 DEF Kept, RequestTypes
<1>6. RecordsOk'
  <2>1. \A a, b \in Named' : a = b
      BY <1>0, <1>3, <1>4 DEF RecordsOk, Named
  <2>2. ASSUME NEW r \in records'
        PROVE  r.stage # "intent" /\ ledger'[r.by][r.stage] = [key |-> r.key, body |-> r.body]
    <3>1. PICK s \in records : s.by = r.by /\ s.key = r.key /\ s.stage = r.stage /\ s.body = r.body
        BY <1>3, <1>4
    <3>2. s.stage # "intent" /\ ledger[s.by][s.stage] = [key |-> s.key, body |-> s.body]
        BY <1>0 DEF RecordsOk
    <3> QED  BY <1>0, <3>1, <3>2
  <2> QED  BY <2>1, <2>2 DEF RecordsOk
<1> QED  BY <1>0, <1>4, <1>5, <1>6, ProcessesStay DEF RequestTypes

(* A session or a project that changes under way takes nothing back. *)
LEMMA AroundKeeps ==
    ASSUME RequestsInv, ReplaceSession \/ RegisterAgain \/ UNCHANGED requestVars
    PROVE  RequestsInv'
<1>1. /\ UNCHANGED <<home, ledger, ledgerLock, run, records, given, keys>>
      /\ session' \in Nat \ {0} /\ generation' \in Nat /\ given' \in Nat /\ keys \in Nat
    BY DEF ReplaceSession, RegisterAgain, requestVars, RequestsInv, RequestTypes
<1>2. Kept /\ RecordsOk' /\ records' \subseteq Commands
    BY <1>1, RecordsStay
<1> QED  BY <1>1, <1>2, ProcessesStay

LEMMA RequestsStep == RequestsInv /\ [RequestsNext]_requestVars => RequestsInv'
<1> SUFFICES ASSUME RequestsInv, [RequestsNext]_requestVars PROVE RequestsInv'
    OBVIOUS
<1>1. CASE \E o \in Operator :
              \/ \E wish \in Wish : StartAgent(o, wish)
              \/ StopAgent(o) \/ Persist(o) \/ FinishWrite(o) \/ ReadOriginal(o)
              \/ ResolveName(o) \/ ReadStop(o) \/ FindHandle(o) \/ SubmitRequest(o)
              \/ WaitCommand(o) \/ WaitProject(o) \/ SaveStart(o) \/ GiveUp(o)
    BY <1>1, StartAgentKeeps, StopAgentKeeps, PersistKeeps, FinishWriteKeeps, ReadOriginalKeeps,
       ResolveNameKeeps, ReadStopKeeps, FindHandleKeeps, SubmitRequestKeeps, WaitCommandKeeps,
       WaitProjectKeeps, SaveStartKeeps, GiveUpKeeps
<1>2. CASE \E r \in records : Execute(r)
    BY <1>2, ExecuteKeeps
<1>3. CASE ReplaceSession \/ RegisterAgain \/ UNCHANGED requestVars
    BY <1>3, AroundKeeps
<1> QED  BY <1>1, <1>2, <1>3 DEF RequestsNext

(* The requests, the processes that made them and the commands that came of   *)
(* them agree: the inductive invariant of the managed requests.               *)
THEOREM RequestsInvariant == RequestsSpec => []RequestsInv
  BY RequestsStart, RequestsStep, PTL DEF RequestsSpec

(* However often a start or stop is repeated, interrupted and given on other  *)
(* computers, the name is started once, from the receipts of its own          *)
(* computer's earlier stages, and a stop is for the pane of that start.       *)
THEOREM StartedOnceAlways == RequestsSpec => []StartedOnce
<1>1. RequestsInv => StartedOnce
  <2> SUFFICES ASSUME RequestsInv PROVE StartedOnce
      OBVIOUS
  <2>1. Cardinality(Named) <= 1
    <3>1. CASE Named = {}
        BY <3>1, FS_EmptySet
    <3>2. CASE Named # {}
      <4>1. PICK n : Named = {n}
          BY <3>2 DEF RequestsInv, RecordsOk
      <4> QED  BY <4>1, FS_Singleton
    <3> QED  BY <3>1, <3>2
  <2>2. ASSUME NEW r \in records PROVE ledger[r.by][r.stage] = [key |-> r.key, body |-> r.body]
      BY DEF RequestsInv, RecordsOk
  <2>3. ASSUME NEW r \in records PROVE Founded(r.by, r.stage, r.body)
      BY RecordFacts DEF RequestsInv, LedgerOk
  <2>4. ASSUME NEW r \in Named
        PROVE  /\ ledger[r.by]["intent"].body.wish = r.body.wish
               /\ \E s \in records : /\ s.by = r.by /\ s.stage = "session"
                                     /\ s.status = "succeeded" /\ s.receipt = r.body.inc
               /\ \E w \in records : /\ w.by = r.by /\ w.stage = "workspace"
                                     /\ w.status = "succeeded"
                                     /\ w.body = [r.body EXCEPT !.wish = Nothing]
      BY <2>3 DEF Named, Founded
  <2>5. \A r \in records : r.stage = "stop" => r.body.inc # 0 /\ \E n \in Named : n.receipt = r.body.inc
      BY <2>3 DEF Founded
  <2> QED  BY <2>1, <2>2, <2>4, <2>5 DEF StartedOnce
<1> QED  BY <1>1, RequestsInvariant, PTL
=============================================================================
