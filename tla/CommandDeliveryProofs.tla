----------------------- MODULE CommandDeliveryProofs ------------------------
(***************************************************************************)
(* Machine-checked proofs about CommandDelivery, for every set of commands *)
(* and every value of the capacities.                                      *)
(***************************************************************************)
EXTENDS CommandDelivery, CommandJournalProofs

-----------------------------------------------------------------------------
(***************************************************************************)
(* The node's journal operations map entries to entries.                   *)
(***************************************************************************)

\* The node's journal operations keep entries entries.
LEMMA EntryTypes ==
    /\ NoEntry \in Entries
    /\ Intent \in Entries
    /\ \A x \in Results : WithResult(x) \in Entries
    /\ \A e \in Entries : HasResult(e) => StoredResult(e) \in Results
    /\ \A e \in Entries : Acknowledge(e) \in Entries
    /\ \A e \in Entries, x \in Results : Complete(e, x) \in Entries
    /\ \A k \in Kinds : interruptedCommandResult(k) \in Results
    /\ \A e \in Entries, k \in Kinds : Recover(k, e) \in Entries
<1>1. \A x \in Results : WithResult(x) \in Entries
  BY DEF WithResult, Results, Entries
<1>2. \A k \in Kinds : interruptedCommandResult(k) \in Results
  BY DEF interruptedCommandResult, Result, Results, Details
<1> QED
  BY <1>1, <1>2 DEF NoEntry, Intent, Entries, Details, HasResult, StoredResult, Result, Results,
     Acknowledge, Complete, Recover

\* Every command has a kind.
LEMMA KindType == \A c \in CommandId : KindOf[c] \in Kinds
BY RequestAssumption DEF Kinds, PlainKinds

-----------------------------------------------------------------------------
(***************************************************************************)
(* Type correctness.                                                       *)
(***************************************************************************)

\* The initial state has the declared types.
LEMMA TypeInit == Init => TypeOK
<1>1. NoRecord \in Records
  BY DEF NoRecord, Records, Statuses, Details
<1>2. NoOutcome \in Results
  BY DEF NoOutcome, Result, Results, Details
<1> SUFFICES ASSUME Init PROVE TypeOK
  OBVIOUS
<1>3. record \in [CommandId -> Records] /\ entry \in [CommandId -> Entries]
  BY <1>1, EntryTypes DEF Init
<1>4. outcome \in [CommandId -> Results] /\ runs \in [CommandId -> Nat]
  BY <1>2 DEF Init
<1>5. stage \in [CommandId -> Stages] /\ phase \in Phases
  BY DEF Init, Stages, Phases
<1>6. up \in BOOLEAN /\ welcome \in BOOLEAN /\ fault \in BOOLEAN
  BY DEF Init
<1>7. cur \in Nat /\ sess \in Nat /\ opened \in Nat
  BY DEF Init
<1>8. /\ due = {} /\ outbound = {} /\ hello = {} /\ toNode = {} /\ acks = {}
      /\ toServer = {} /\ pending = {} /\ ephemeral = {} /\ applied = {}
  BY DEF Init
<1> QED
  BY <1>3, <1>4, <1>5, <1>6, <1>7, <1>8 DEF TypeOK

\* Steps of the coordinator keep the types.
LEMMA TypeCoordinator == TypeOK /\ CoordinatorStep => TypeOK'
<1> SUFFICES ASSUME TypeOK, CoordinatorStep PROVE TypeOK'
  OBVIOUS
<1> USE DEF coordinatorVars, networkVars, sessionVars, workVars, nativeVars
<1>0. \A c \in CommandId : record[c] \in Records
  BY DEF TypeOK
<1>1. ASSUME NEW c \in CommandId, SubmitCommand(c) PROVE TypeOK'
  <2>1. AcceptedRecord \in Records
    BY DEF AcceptedRecord, Records, Statuses, Details
  <2> QED BY <1>1, <2>1 DEF SubmitCommand, TypeOK
<1>2. ASSUME NEW c \in CommandId, PassDeadline(c) PROVE TypeOK'
  BY <1>2 DEF PassDeadline, TypeOK
<1>3. ASSUME NEW c \in CommandId, PrepareRejected(c) PROVE TypeOK'
  BY <1>0, <1>3, RecordTypes DEF PrepareRejected, TypeOK
<1>4. ASSUME NEW c \in CommandId, NEW late \in BOOLEAN, PrepareCommand(c, late) PROVE TypeOK'
  <2> DEFINE d == DispatchCommand(record[c], c \in due)
  <2> DEFINE f == FinishCommand(KindOf[c], d, Result("timed_out", "deadline_expired"))
  <2>1. d \in Records
    <3>1. (c \in due) \in BOOLEAN
      OBVIOUS
    <3> HIDE DEF d
    <3> QED BY <1>0, <3>1, RecordTypes DEF d
  <2>2. Result("timed_out", "deadline_expired") \in Results
    BY DEF Result, Results, Details
  <2> HIDE DEF d
  <2>3. f \in Records
    BY <2>1, <2>2, RecordTypes, KindType
  <2>4. record' = [record EXCEPT ![c] = IF late THEN f ELSE d]
    BY <1>4 DEF PrepareCommand, d
  <2>5. record' \in [CommandId -> Records]
    <3> HIDE DEF f
    <3> QED BY <2>1, <2>3, <2>4 DEF TypeOK
  <2> QED BY <1>4, <2>5 DEF PrepareCommand, TypeOK
<1>5. ASSUME NEW m \in toServer, finishCommand(m[1], m[2]) PROVE TypeOK'
  <2>1. m[1] \in CommandId /\ m[2] \in Results
    BY DEF TypeOK
  <2>2. FinishCommand(KindOf[m[1]], record[m[1]], m[2]) \in Records
    BY <1>0, <2>1, RecordTypes, KindType
  <2>3. record' = [record EXCEPT ![m[1]] = FinishCommand(KindOf[m[1]], record[m[1]], m[2])]
    BY <1>5 DEF finishCommand
  <2>4. record' \in [CommandId -> Records]
    BY <2>1, <2>2, <2>3 DEF TypeOK
  <2>5. acks' \subseteq (CommandId \X Statuses)
    BY <1>5, <2>1 DEF finishCommand, TypeOK, Results, Statuses
  <2>6. fault' \in BOOLEAN
    BY <1>5 DEF finishCommand
  <2> QED BY <1>5, <2>4, <2>5, <2>6 DEF finishCommand, TypeOK
<1>6. ASSUME ExpireCommands PROVE TypeOK'
  BY <1>0, <1>6, RecordTypes DEF ExpireCommands, TypeOK
<1>7. ASSUME NEW s \in hello, BeginSession(s) PROVE TypeOK'
  <2>1. record' \in [CommandId -> Records]
    BY <1>0, <1>7, RecordTypes DEF BeginSession
  <2>2. welcome' \in BOOLEAN
    BY <1>7 DEF BeginSession
  <2> QED BY <1>7, <2>1, <2>2 DEF BeginSession, TypeOK
<1>8. ASSUME EndSession PROVE TypeOK'
  BY <1>0, <1>8, RecordTypes DEF EndSession, TypeOK
<1>9. ASSUME CoordinatorCrash PROVE TypeOK'
  BY <1>9 DEF CoordinatorCrash, TypeOK
<1>10. ASSUME CoordinatorRestart PROVE TypeOK'
  BY <1>0, <1>10, RecordTypes DEF CoordinatorRestart, TypeOK
<1> QED
  BY <1>1, <1>2, <1>3, <1>4, <1>5, <1>6, <1>7, <1>8, <1>9, <1>10 DEF CoordinatorStep


\* Steps of a node keep the types, given that what it replays are results.
LEMMA TypeNode ==
    TypeOK /\ (\A c \in pending : HasResult(entry[c])) /\ NodeStep => TypeOK'
<1> SUFFICES ASSUME TypeOK, \A c \in pending : HasResult(entry[c]), NodeStep PROVE TypeOK'
  OBVIOUS
<1> USE DEF coordinatorVars, networkVars, sessionVars, workVars, nativeVars
<1>0. \A c \in CommandId : entry[c] \in Entries /\ outcome[c] \in Results /\ KindOf[c] \in Kinds
  BY KindType DEF TypeOK
<1>n. NoOutcome \in Results
  BY DEF NoOutcome, Result, Results, Details
<1>e. ASSUME NEW c \in CommandId, NEW r \in Results, NEW x \in BOOLEAN, NEW y \in BOOLEAN,
             Executed(c, r, x, y)
      PROVE  TypeOK'
  <2>1. runs' \in [CommandId -> Nat]
    BY <1>e DEF Executed, TypeOK
  <2> QED BY <1>e, <2>1 DEF Executed, TypeOK, Stages
<1>r. /\ Result("timed_out", "deadline_expired") \in Results
      /\ Result("succeeded", "done") \in Results
      /\ Result("rejected", "refused") \in Results
      /\ Result("indeterminate", "startup_uncertain") \in Results
      /\ Result("indeterminate", "outcome_unknown") \in Results
      /\ Result("rejected", "journal_full") \in Results
      /\ Result("rejected", "project_unresolved") \in Results
  BY DEF Result, Results, Details
<1>f. ASSUME Forget, phase' \in Phases PROVE TypeOK'
  BY <1>f, <1>n DEF Forget, TypeOK, Stages
<1>1. ASSUME NodeStart PROVE TypeOK'
  BY <1>1 DEF NodeStart, TypeOK, Phases
<1>2. ASSUME OpenStream PROVE TypeOK'
  <2>1. entry' \in [CommandId -> Entries]
    BY <1>0, <1>2, EntryTypes DEF OpenStream
  <2>2. hello' \subseteq Nat
    <3>1. opened + 1 \in Nat
      BY DEF TypeOK
    <3> QED BY <1>2, <3>1 DEF OpenStream, TypeOK
  <2>3. opened' \in Nat /\ sess' \in Nat /\ phase' \in Phases
    BY <1>2 DEF OpenStream, TypeOK, Phases
  <2>4. welcome' \in BOOLEAN
    BY <1>2 DEF OpenStream
  <2> QED BY <1>2, <2>1, <2>2, <2>3, <2>4 DEF OpenStream, TypeOK
<1>3. ASSUME Registered PROVE TypeOK'
  BY <1>3 DEF Registered, TypeOK, Phases
<1>4. ASSUME NEW c \in CommandId, ReceiveCommand(c) PROVE TypeOK'
  BY <1>4 DEF ReceiveCommand, TypeOK, Phases, Stages
<1>5. ASSUME NEW c \in CommandId, Claim(c) PROVE TypeOK'
  <2>1. ClaimResult(c) \in Results
    BY <1>0, <1>r, EntryTypes DEF ClaimResult
  <2>2. entry' \in [CommandId -> Entries]
    BY <1>0, <1>5, <2>1, EntryTypes DEF Claim, TypeOK
  <2>3. outcome' \in [CommandId -> Results]
    BY <1>0, <1>5, <2>1 DEF Claim, TypeOK
  <2>4. stage' \in [CommandId -> Stages]
    BY <1>5 DEF Claim, TypeOK, Stages
  <2>5. phase' \in Phases /\ ephemeral' \subseteq CommandId
    BY <1>5 DEF Claim, TypeOK, Phases
  <2> QED BY <1>5, <2>2, <2>3, <2>4, <2>5 DEF Claim, TypeOK
<1>6. ASSUME NEW c \in CommandId, ExecuteExpired(c) PROVE TypeOK'
  BY <1>6, <1>e, <1>r DEF ExecuteExpired
<1>7. ASSUME NEW c \in CommandId, ExecuteProbe(c) PROVE TypeOK'
  BY <1>7, <1>e, <1>r DEF ExecuteProbe
<1>8. ASSUME NEW c \in CommandId, ExecuteRefused(c) PROVE TypeOK'
  BY <1>8, <1>e, <1>r DEF ExecuteRefused
<1>9. ASSUME NEW c \in CommandId, ExecutePresent(c) PROVE TypeOK'
  BY <1>9, <1>e, <1>r DEF ExecutePresent
<1>10. ASSUME NEW c \in CommandId, ExecuteRequest(c) PROVE TypeOK'
  BY <1>10, <1>e, <1>r DEF ExecuteRequest
<1>11. ASSUME NEW c \in CommandId, ExecuteStartFailed(c) PROVE TypeOK'
  BY <1>11, <1>e, <1>r DEF ExecuteStartFailed
<1>12. ASSUME NEW c \in CommandId, CompleteCommand(c) PROVE TypeOK'
  <2>1. entry' \in [CommandId -> Entries]
    BY <1>0, <1>12, EntryTypes DEF CompleteCommand, TypeOK
  <2>2. fault' \in BOOLEAN
    BY <1>12 DEF CompleteCommand
  <2> QED BY <1>0, <1>n, <1>12, <2>1, <2>2 DEF CompleteCommand, TypeOK, Stages
<1>13. ASSUME NEW c \in CommandId, AbandonCommand(c) PROVE TypeOK'
  BY <1>n, <1>13 DEF AbandonCommand, TypeOK, Stages
<1>14. ASSUME NEW c \in CommandId, SendResult(c) PROVE TypeOK'
  BY <1>0, <1>n, <1>14 DEF SendResult, TypeOK, Stages
<1>15. ASSUME NEW c \in CommandId, ReplayResult(c) PROVE TypeOK'
  <2>1. StoredResult(entry[c]) \in Results
    BY <1>0, <1>15, EntryTypes DEF ReplayResult
  <2> QED BY <1>15, <2>1 DEF ReplayResult, TypeOK
<1>16. ASSUME NEW m \in acks, ReceiveAck(m[1], m[2]) PROVE TypeOK'
  <2>1. m[1] \in CommandId
    BY DEF TypeOK
  <2>2. entry' \in [CommandId -> Entries]
    <3>1. Acknowledge(entry[m[1]]) \in Entries
      BY <1>0, <2>1, EntryTypes
    <3>2. CASE m[1] \in ephemeral
      BY <1>16, <3>2 DEF ReceiveAck, TypeOK
    <3>3. CASE m[1] \notin ephemeral
      BY <1>0, <1>16, <2>1, <3>1, <3>3 DEF ReceiveAck, TypeOK
    <3> QED BY <3>2, <3>3
  <2>4. ephemeral' \subseteq CommandId
    BY <1>16 DEF ReceiveAck, TypeOK
  <2>3. fault' \in BOOLEAN
    BY <1>16 DEF ReceiveAck
  <2> QED BY <1>16, <2>1, <2>2, <2>3, <2>4 DEF ReceiveAck, TypeOK
<1>17. ASSUME CloseSession PROVE TypeOK'
  BY <1>17 DEF CloseSession, TypeOK, Phases
<1>18. ASSUME SessionClosed PROVE TypeOK'
  BY <1>18, <1>f DEF SessionClosed, Phases
<1>19. ASSUME NodeCrash PROVE TypeOK'
  BY <1>19, <1>f DEF NodeCrash, Phases
<1> QED
  BY <1>1, <1>2, <1>3, <1>4, <1>5, <1>6, <1>7, <1>8, <1>9, <1>10, <1>11, <1>12, <1>13,
     <1>14, <1>15, <1>16, <1>17, <1>18, <1>19 DEF NodeStep, WorkerStep

-----------------------------------------------------------------------------
(***************************************************************************)
(* SafetyInv is an inductive invariant of CommandDelivery, and implies its *)
(* safety properties.                                                      *)
(***************************************************************************)

(***************************************************************************)
(* The parts of the invariant that are not about a single command.         *)
(***************************************************************************)

\* Streams are numbered in the order they are opened, and a node between
\* sessions holds only its journal.
LEMMA StreamStep == TypeOK /\ StreamInv /\ Next => StreamInv'
<1> SUFFICES ASSUME TypeOK, StreamInv, Next PROVE StreamInv'
  OBVIOUS
<1> USE DEF coordinatorVars, networkVars, sessionVars, workVars, nativeVars
<1>1. ASSUME CoordinatorStep PROVE StreamInv'
  <2>0. /\ sess' = sess /\ opened' = opened /\ phase' = phase
        /\ stage' = stage /\ ephemeral' = ephemeral /\ pending' = pending
    BY <1>1 DEF CoordinatorStep, SubmitCommand, PassDeadline, PrepareRejected, PrepareCommand,
       finishCommand, ExpireCommands, BeginSession, EndSession, CoordinatorCrash,
       CoordinatorRestart
  <2>1. cur' \in {0, cur} \cup hello /\ hello' \subseteq hello
    BY <1>1 DEF CoordinatorStep, SubmitCommand, PassDeadline, PrepareRejected, PrepareCommand,
       finishCommand, ExpireCommands, BeginSession, EndSession, CoordinatorCrash,
       CoordinatorRestart
  <2>2. sess = 0 => toNode' \subseteq toNode /\ acks' \subseteq acks
    BY <1>1 DEF CoordinatorStep, SubmitCommand, PassDeadline, PrepareRejected, PrepareCommand,
       finishCommand, ExpireCommands, BeginSession, EndSession, CoordinatorCrash,
       CoordinatorRestart, Linked
  <2> QED BY <2>0, <2>1, <2>2 DEF StreamInv, TypeOK
<1>2. ASSUME NodeStep, cur' = cur PROVE StreamInv'
  <2>1. CASE NodeStart
    BY <2>1 DEF NodeStart, StreamInv
  <2>2. CASE OpenStream
    BY <2>2 DEF OpenStream, StreamInv, TypeOK
  <2>3. CASE Registered
    BY <2>3 DEF Registered, StreamInv
  <2>4. ASSUME NEW c \in CommandId,
               ReceiveCommand(c) \/ WorkerStep(c) \/ SendResult(c) \/ ReplayResult(c)
        PROVE  StreamInv'
    <3>1. /\ sess' = sess /\ opened' = opened /\ hello' = hello
          /\ phase' \in {"open", "closing"}
      BY <2>4 DEF ReceiveCommand, WorkerStep, SendResult, ReplayResult, Claim, Executed,
         ExecuteExpired, ExecuteProbe, ExecuteRefused, ExecutePresent, ExecuteRequest,
         ExecuteStartFailed, CompleteCommand, AbandonCommand
    <3> QED BY <1>2, <3>1 DEF StreamInv
  <2>5. ASSUME NEW m \in acks, ReceiveAck(m[1], m[2]) PROVE StreamInv'
    BY <2>5 DEF ReceiveAck, StreamInv
  <2>6. CASE CloseSession
    BY <2>6 DEF CloseSession, StreamInv
  <2>7. CASE SessionClosed \/ NodeCrash
    <3>1. /\ sess' = 0 /\ opened' = opened /\ hello' = hello /\ toNode' = {} /\ acks' = {}
          /\ ephemeral' = {} /\ pending' = {}
      BY <2>7 DEF SessionClosed, NodeCrash, Forget
    <3>2. \A c \in CommandId : stage'[c] = "none"
      BY <2>7 DEF SessionClosed, NodeCrash, Forget
    <3> QED BY <1>2, <3>1, <3>2 DEF StreamInv, TypeOK
  <2> QED BY <1>2, <2>1, <2>2, <2>3, <2>4, <2>5, <2>6, <2>7 DEF NodeStep
<1>3. NodeStep => cur' = cur
  BY DEF NodeStep, NodeStart, OpenStream, Registered, ReceiveCommand, WorkerStep, Claim, Executed,
     ExecuteExpired, ExecuteProbe, ExecuteRefused, ExecutePresent, ExecuteRequest,
     ExecuteStartFailed, CompleteCommand, AbandonCommand, SendResult, ReplayResult, ReceiveAck,
     CloseSession, SessionClosed, NodeCrash, Forget
<1> QED BY <1>1, <1>2, <1>3 DEF Next

\* A node never touches the coordinator's state.
LEMMA NodeFrame == NodeStep => UNCHANGED coordinatorVars
BY DEF NodeStep, NodeStart, OpenStream, Registered, ReceiveCommand, WorkerStep, Claim, Executed,
   ExecuteExpired, ExecuteProbe, ExecuteRefused, ExecutePresent, ExecuteRequest,
   ExecuteStartFailed, CompleteCommand, AbandonCommand, SendResult, ReplayResult, ReceiveAck,
   CloseSession, SessionClosed, NodeCrash, Forget, coordinatorVars, networkVars, sessionVars,
   workVars, nativeVars

\* The coordinator never touches the node's state.
LEMMA CoordinatorFrame ==
    CoordinatorStep =>
        UNCHANGED <<entry, phase, sess, opened, workVars, nativeVars>>
BY DEF CoordinatorStep, SubmitCommand, PassDeadline, PrepareRejected, PrepareCommand,
   finishCommand, ExpireCommands, BeginSession, EndSession, CoordinatorCrash, CoordinatorRestart,
   coordinatorVars, networkVars, sessionVars, workVars, nativeVars

\* What the coordinator's journal operations do to a record.
LEMMA RecordSteps ==
    ASSUME NEW r \in Records
    PROVE  /\ r.status # "accepted" => RejectCommand(r) = r
           /\ \A e \in BOOLEAN : r.status # "accepted" => DispatchCommand(r, e) = r
           /\ ~Active(r) =>
                 LoseNodeCommand(r) = r /\ ExpireCommand(r) = r /\ RecoverCommand(r) = r
           /\ \A k \in Kinds, x \in Results :
                 r.status \notin {"running", "indeterminate"} => FinishCommand(k, r, x) = r
BY DEF RejectCommand, DispatchCommand, Active, LoseNodeCommand, ExpireCommand, RecoverCommand,
   changeActiveCommand, FinishCommand, FinishFails

\* How a record may move: an open one forward, a conclusive one nowhere.
RecordMoves(d) ==
    \/ record'[d] = record[d]
    \/ /\ record[d].status \in {"accepted", "running", "indeterminate"}
       /\ record'[d].status \notin {"absent", "accepted"}
       /\ record[d].status = "indeterminate" => record'[d].status # "running"

\* Every step but a submission moves every record that way.
LEMMA RecordsMove ==
    ASSUME TypeOK, CoordinatorStep,
           \A c \in CommandId : ~SubmitCommand(c),
           NEW d \in CommandId
    PROVE  RecordMoves(d)
<1> USE DEF coordinatorVars, networkVars, sessionVars, workVars, nativeVars
<1>0. /\ record[d] \in Records
      /\ KindOf[d] \in Kinds
      /\ record \in [CommandId -> Records]
  BY KindType DEF TypeOK
<1>f. ASSUME NEW r \in Records, NEW x \in Results
      PROVE  \/ FinishCommand(KindOf[d], r, x) = r
             \/ /\ r.status \in {"running", "indeterminate"}
                /\ FinishCommand(KindOf[d], r, x).status \notin {"absent", "accepted", "running"}
  <2>1. x.status \notin {"absent", "accepted", "running"}
    BY DEF Results
  <2>2. CASE r.status \in {"running", "indeterminate"}
    BY <2>1, <2>2 DEF FinishCommand, transitionCommand
  <2>3. CASE r.status \notin {"running", "indeterminate"}
    BY <1>0, <2>3, RecordSteps
  <2> QED BY <2>2, <2>3
<1>1. ASSUME NEW c \in CommandId, PassDeadline(c) PROVE RecordMoves(d)
  BY <1>1 DEF PassDeadline, RecordMoves
<1>2. ASSUME NEW c \in CommandId, PrepareRejected(c) PROVE RecordMoves(d)
  <2>1. record'[d] = record[d] \/ record'[d] = RejectCommand(record[d])
    BY <1>0, <1>2 DEF PrepareRejected
  <2> QED BY <2>1 DEF RecordMoves, RejectCommand, transitionCommand
<1>3. ASSUME NEW c \in CommandId, NEW late \in BOOLEAN, PrepareCommand(c, late)
      PROVE  RecordMoves(d)
  <2>1. CASE c # d
    BY <1>0, <1>3, <2>1 DEF PrepareCommand, RecordMoves
  <2>2. CASE c = d /\ record[d].status # "accepted"
    <3>1. late = FALSE
      BY <1>3, <2>2 DEF PrepareCommand
    <3>2. record'[d] = DispatchCommand(record[d], d \in due)
      BY <1>0, <1>3, <2>2, <3>1 DEF PrepareCommand
    <3> QED BY <2>2, <3>2 DEF DispatchCommand, RecordMoves
  <2>3. CASE c = d /\ record[d].status = "accepted"
    <3> DEFINE q == DispatchCommand(record[d], d \in due)
    <3> DEFINE x == Result("timed_out", "deadline_expired")
    <3>1. q.status \in {"timed_out", "running"} /\ q \in Records
      <4>1. (d \in due) \in BOOLEAN
        OBVIOUS
      <4>2. q \in Records
        BY <1>0, <4>1, RecordTypes
      <4> QED BY <2>3, <4>2 DEF DispatchCommand, transitionCommand
    <3>2. x \in Results
      BY DEF Result, Results, Details
    <3>3. record'[d] = IF late THEN FinishCommand(KindOf[d], q, x) ELSE q
      BY <1>0, <1>3, <2>3 DEF PrepareCommand
    <3> HIDE DEF q, x
    <3>4. record'[d].status \notin {"absent", "accepted"}
      BY <1>f, <3>1, <3>2, <3>3
    <3> QED BY <2>3, <3>4 DEF RecordMoves
  <2> QED BY <2>1, <2>2, <2>3
<1>4. ASSUME NEW m \in toServer, finishCommand(m[1], m[2]) PROVE RecordMoves(d)
  <2>1. m[1] \in CommandId /\ m[2] \in Results
    BY DEF TypeOK
  <2>2. record' = [record EXCEPT ![m[1]] = FinishCommand(KindOf[m[1]], record[m[1]], m[2])]
    BY <1>4 DEF finishCommand
  <2>3. record'[d] = record[d] \/ record'[d] = FinishCommand(KindOf[d], record[d], m[2])
    BY <1>0, <2>1, <2>2
  <2> QED BY <1>0, <1>f, <2>1, <2>3 DEF RecordMoves
<1>5. ASSUME ExpireCommands \/ EndSession \/ CoordinatorRestart \/ CoordinatorCrash
             \/ \E s \in hello : BeginSession(s)
      PROVE  RecordMoves(d)
  <2>1. \/ record'[d] = record[d]
        \/ \E s \in {"unavailable", "timed_out"}, x \in Details :
              record'[d] = changeActiveCommand(record[d], s, x)
    BY <1>5 DEF ExpireCommands, EndSession, CoordinatorRestart, CoordinatorCrash, BeginSession,
       LoseNodeCommand, ExpireCommand, RecoverCommand, Details
  <2>2. ASSUME NEW s \in {"unavailable", "timed_out"}, NEW x,
               record'[d] = changeActiveCommand(record[d], s, x)
        PROVE  RecordMoves(d)
    <3>1. CASE ~Active(record[d])
      BY <2>2, <3>1 DEF RecordMoves, changeActiveCommand
    <3>2. CASE Active(record[d])
      <4>1. record'[d].status \in {"indeterminate", s}
        BY <2>2, <3>2 DEF changeActiveCommand, transitionCommand
      <4> QED BY <3>2, <4>1 DEF RecordMoves, Active
    <3> QED BY <3>1, <3>2
  <2> QED BY <2>1, <2>2 DEF RecordMoves
<1> QED BY <1>1, <1>2, <1>3, <1>4, <1>5 DEF CoordinatorStep

\* One key has at most one record.
LEMMA KeyStep == TypeOK /\ KeyInv /\ Next => KeyInv'
<1> SUFFICES ASSUME TypeOK, KeyInv, Next PROVE KeyInv'
  OBVIOUS
<1>1. CASE NodeStep
  <2>1. record' = record
    BY <1>1, NodeFrame DEF coordinatorVars
  <2> QED BY <2>1 DEF KeyInv, Created
<1>2. ASSUME NEW c \in CommandId, SubmitCommand(c) PROVE KeyInv'
  <2>1. Created' = Created \cup {c}
    BY <1>2 DEF SubmitCommand, Created, AcceptedRecord, TypeOK
  <2>2. \A d \in Created : KeyOf[d] # KeyOf[c]
    BY <1>2 DEF SubmitCommand, FindCommand
  <2> QED BY <2>1, <2>2 DEF KeyInv
<1>3. CASE CoordinatorStep /\ \A c \in CommandId : ~SubmitCommand(c)
  <2>1. Created' \subseteq Created
    BY <1>3, RecordsMove DEF Created, RecordMoves
  <2> QED BY <2>1 DEF KeyInv
<1> QED BY <1>1, <1>2, <1>3 DEF Next

\* At most one mutation of a project is in progress or in doubt.
LEMMA FenceStep == TypeOK /\ FenceInv /\ Next => FenceInv'
<1> SUFFICES ASSUME TypeOK, FenceInv, Next PROVE FenceInv'
  OBVIOUS
<1> USE DEF coordinatorVars, networkVars, sessionVars, workVars, nativeVars
<1>0. entry \in [CommandId -> Entries]
  BY DEF TypeOK
<1>1. ASSUME \A c \in CommandId : Unresolved(entry'[c]) => Unresolved(entry[c])
      PROVE  FenceInv'
  BY <1>1 DEF FenceInv
<1>2. ASSUME entry' = entry PROVE FenceInv'
  BY <1>1, <1>2
<1>3. CASE OpenStream
  <2>1. \A c \in CommandId : entry'[c] = Recover(KindOf[c], entry[c])
    BY <1>3 DEF OpenStream
  <2> QED BY <1>1, <2>1 DEF Recover, Unresolved
<1>4. ASSUME NEW c \in CommandId, Claim(c) PROVE FenceInv'
  <2> DEFINE granted == ~HasEntry(entry[c]) /\ ~NodeFull /\ ~ProjectFenced(c)
  <2>1. entry' = [entry EXCEPT ![c] =
                    IF granted THEN Intent
                    ELSE IF (~HasEntry(entry[c]) /\ NodeFull) \/ HasResult(entry[c]) THEN entry[c]
                    ELSE WithResult(ClaimResult(c))]
    BY <1>4 DEF Claim
  <2>2. CASE granted
    <3>1. \A d \in CommandId : d # c => entry'[d] = entry[d]
      BY <1>0, <2>1
    <3>2. ProjectOf[c] # NoProject =>
             \A d \in CommandId : ProjectOf[d] = ProjectOf[c] => ~Unresolved(entry[d])
      BY <2>2 DEF ProjectFenced
    <3> QED BY <3>1, <3>2 DEF FenceInv
  <2>3. CASE ~granted
    <3>1. \A d \in CommandId : d # c => entry'[d] = entry[d]
      BY <1>0, <2>1
    <3>2. CASE HasEntry(entry[c])
      <4>1. HasResult(entry[c]) => entry'[c] = entry[c]
        BY <1>0, <2>1, <3>2
      <4>2. ~HasResult(entry[c]) => Unresolved(entry[c])
        BY <3>2 DEF HasEntry, HasResult, Unresolved
      <4> QED BY <1>1, <3>1, <4>1, <4>2
    <3>3. CASE ~HasEntry(entry[c])
      <4>1. ClaimResult(c).status = "rejected"
        BY <3>3 DEF ClaimResult, HasEntry, HasResult, Result
      <4>2. entry'[c] = entry[c] \/ entry'[c] = WithResult(ClaimResult(c))
        BY <1>0, <2>1, <2>3
      <4>3. Unresolved(entry'[c]) => Unresolved(entry[c])
        BY <4>1, <4>2 DEF WithResult, Unresolved
      <4> QED BY <1>1, <3>1, <4>3
    <3> QED BY <3>2, <3>3
  <2> QED BY <2>2, <2>3
<1>5. ASSUME NEW c \in CommandId, CompleteCommand(c) PROVE FenceInv'
  <2>1. entry' = [entry EXCEPT ![c] = Complete(entry[c], outcome[c])]
    BY <1>5 DEF CompleteCommand
  <2>2. \A d \in CommandId : Unresolved(entry'[d]) => Unresolved(entry[d])
    BY <1>0, <2>1 DEF Complete, Unresolved
  <2> QED BY <1>1, <2>2
<1>6. ASSUME NEW m \in acks, ReceiveAck(m[1], m[2]) PROVE FenceInv'
  <2>1. m[1] \in CommandId
    BY DEF TypeOK
  <2>2. \/ entry' = entry
        \/ entry' = [entry EXCEPT ![m[1]] =
                       IF AcknowledgeFails(entry[m[1]], m[2]) THEN entry[m[1]]
                       ELSE Acknowledge(entry[m[1]])]
    BY <1>6 DEF ReceiveAck
  <2>3. \A d \in CommandId : Unresolved(entry'[d]) => Unresolved(entry[d])
    BY <1>0, <2>1, <2>2 DEF Acknowledge, Unresolved, Entries
  <2> QED BY <1>1, <2>3
<1>7. CASE CoordinatorStep
  BY <1>2, <1>7, CoordinatorFrame
<1>8. ASSUME NodeStep, ~OpenStream,
             \A c \in CommandId : ~Claim(c) /\ ~CompleteCommand(c),
             \A m \in acks : ~ReceiveAck(m[1], m[2])
      PROVE  entry' = entry
  BY <1>8 DEF NodeStep, NodeStart, Registered, ReceiveCommand, WorkerStep, Executed, ExecuteExpired,
     ExecuteProbe, ExecuteRefused, ExecutePresent, ExecuteRequest, ExecuteStartFailed,
     AbandonCommand, SendResult, ReplayResult, CloseSession, SessionClosed, NodeCrash, Forget
<1> QED BY <1>2, <1>3, <1>4, <1>5, <1>6, <1>7, <1>8 DEF Next

-----------------------------------------------------------------------------
(***************************************************************************)
(* The invariant of one command.  Most steps leave most commands alone.    *)
(***************************************************************************)

\* Nothing the node holds for c changes, except that it may forget to replay
\* a result or decide to.
SameAtNode(c) ==
    /\ entry'[c] = entry[c]
    /\ stage'[c] = stage[c]
    /\ outcome'[c] = outcome[c]
    /\ runs'[c] = runs[c]
    /\ c \in ephemeral' <=> c \in ephemeral
    /\ c \in applied' <=> c \in applied
    /\ c \in pending' => HasResult(entry[c])

\* No message about c is added, and no result of c meets a new link.
FewerMessages(c) ==
    /\ c \in toNode' => c \in toNode
    /\ \A r \in Results : <<c, r>> \in toServer' => <<c, r>> \in toServer
    /\ \A s \in Statuses : <<c, s>> \in acks' => <<c, s>> \in acks
    /\ (Linked' => Linked) \/ \A r \in Results : <<c, r>> \notin toServer'

\* Messages may only disappear.
LEMMA NoMessageKept ==
    ASSUME NEW c \in CommandId, FewerMessages(c), NoMessage(c)
    PROVE  NoMessage(c)'
BY DEF FewerMessages, NoMessage

\* A command that a step does not concern keeps its invariant.
LEMMA CommandFrame ==
    ASSUME NEW c \in CommandId, CommandInv(c), record'[c] = record[c],
           SameAtNode(c), FewerMessages(c)
    PROVE  CommandInv(c)'
<1> USE DEF SameAtNode
<1>1. NoMessage(c) => NoMessage(c)'
  BY NoMessageKept
<1>2. \A r \in Results : HonestResult(c, r) => HonestResult(c, r)'
  BY DEF HonestResult
<1>3. Untouched(c) => Untouched(c)'
  BY <1>1 DEF Untouched, FewerMessages
<1>4. InTransit(c) => InTransit(c)'
  BY <1>1 DEF InTransit, FewerMessages, InDoubt
<1>5. AbsentInv(c) => AbsentInv(c)'
  BY <1>1 DEF AbsentInv, FewerMessages, InDoubt, Result, JournalFull
<1>6. IntentInv(c) => IntentInv(c)'
  BY <1>1 DEF IntentInv, FewerMessages, InDoubt, HonestResult
<1>7. ResultInv(c) => ResultInv(c)'
  BY DEF ResultInv, FewerMessages, InDoubt, HonestResult, StoredResult
<1>8. TrailInv(c) => TrailInv(c)'
  BY DEF TrailInv
<1> QED BY <1>3, <1>4, <1>5, <1>6, <1>7, <1>8 DEF CommandInv, FewerMessages

\* Losing the node, the deadline tick or a restart of the coordinator only
\* raises doubt about a dispatched command and ends one that is not.
LEMMA CommandDegrades ==
    ASSUME NEW c \in CommandId, CommandInv(c), SameAtNode(c), FewerMessages(c),
           record[c] \in Records, entry[c] \in Entries,
           NEW s \in {"unavailable", "timed_out"}, NEW d,
           record'[c] = changeActiveCommand(record[c], s, d)
    PROVE  CommandInv(c)'
<1>1. CASE ~Active(record[c])
  BY <1>1, CommandFrame DEF changeActiveCommand
<1>2. CASE record[c].status = "accepted"
  <2>1. record'[c] = [status |-> s, detail |-> d, audit |-> record[c].audit + 1]
    BY <1>2 DEF changeActiveCommand, Active, transitionCommand
  <2>2. Untouched(c) /\ AbsentInv(c) /\ record[c].audit = 1
    BY <1>2 DEF CommandInv, Untouched, TrailInv
  <2>3. NoMessage(c)' /\ Untouched(c)'
    BY <2>2, NoMessageKept DEF Untouched, SameAtNode, FewerMessages
  <2>4. AbsentInv(c)'
    BY <2>1, <2>2, <2>3 DEF AbsentInv, SameAtNode, Untouched, NoMessage
  <2>5. TrailInv(c)'
    BY <2>1, <2>2 DEF TrailInv
  <2> QED BY <2>2, <2>3, <2>4, <2>5 DEF CommandInv, Untouched, SameAtNode, HasResult
<1>3. CASE record[c].status = "running"
  <2>1. record'[c] = [status |-> "indeterminate", detail |-> d, audit |-> record[c].audit + 1]
    BY <1>3 DEF changeActiveCommand, Active, transitionCommand
  <2>2. InDoubt(c) /\ InDoubt(c)' /\ record[c].audit = 2
    BY <1>3, <2>1 DEF CommandInv, TrailInv, InDoubt
  <2>3. NoMessage(c) => NoMessage(c)'
    BY NoMessageKept
  <2>4. InTransit(c) => InTransit(c)'
    BY <2>2, <2>3 DEF InTransit, SameAtNode, FewerMessages
  <2>5. AbsentInv(c) => AbsentInv(c)'
    BY <2>1, <2>2, <2>3 DEF AbsentInv, SameAtNode, FewerMessages
  <2>6. IntentInv(c) => IntentInv(c)'
    BY <2>2, <2>3 DEF IntentInv, SameAtNode, FewerMessages, HonestResult
  <2>7. HasResult(entry[c]) /\ ResultInv(c) => ResultInv(c)'
    BY <1>3, <2>2 DEF ResultInv, SameAtNode, FewerMessages, HonestResult, HasResult, StoredResult
  <2>8. TrailInv(c)'
    BY <2>1, <2>2 DEF TrailInv
  <2> QED BY <2>1, <2>4, <2>5, <2>6, <2>7, <2>8 DEF CommandInv, SameAtNode, FewerMessages
<1> QED BY <1>1, <1>2, <1>3 DEF Active

\* What FinishCommand does to a record that the invariant describes.
LEMMA FinishOutcome ==
    ASSUME NEW c \in CommandId, CommandInv(c), record[c] \in Records, entry[c] \in Entries,
           NEW r \in Results, <<c, r>> \in toServer,
           NEW q, q = FinishCommand(KindOf[c], record[c], r)
    PROVE  /\ ~FinishFails(KindOf[c], record[c], r)
           /\ q.status = r.status
           /\ q.status = "indeterminate" \/ Result(q.status, q.detail) = r
           /\ q.audit <= 4
           /\ q.status = "indeterminate" =>
                 \/ q.audit = 3
                 \/ /\ q.audit = 4
                    /\ HasResult(entry[c])
                    /\ StoredResult(entry[c]) = Result("indeterminate", "startup_uncertain")
                    /\ q.detail = "startup_uncertain"
<1> DEFINE k == KindOf[c]
<1> DEFINE t == transitionCommand(record[c], r.status, r.detail)
<1>0. k \in PlainKinds
  BY RequestAssumption
<1>1. entry[c].status # "running"
  BY DEF CommandInv, IntentInv, NoMessage
<1>2. /\ HasResult(entry[c]) => r = StoredResult(entry[c])
      /\ ~HasResult(entry[c]) => r = JournalFull
      /\ InDoubt(c) \/ Result(record[c].status, record[c].detail) = r
  BY <1>1 DEF CommandInv, ResultInv, AbsentInv, HasResult
<1>3. /\ r.status \in {"succeeded", "timed_out", "rejected", "indeterminate"}
      /\ validCommandOutcome(k, r.status, r.detail)
  <2>1. CASE HasResult(entry[c])
    BY <1>2, <2>1 DEF CommandInv, ResultInv, HonestResult
  <2>2. CASE ~HasResult(entry[c])
    BY <1>2, <2>2 DEF JournalFull, Result, validCommandOutcome
  <2> QED BY <2>1, <2>2
<1>4. record[c].audit \in Nat /\ record[c].audit <= 4 /\ TrailInv(c)
  BY DEF CommandInv, TrailInv, Records
<1>5. r = Result(r.status, r.detail)
  BY DEF Results, Result
<1>6. CASE Result(record[c].status, record[c].detail) = r
  <2>1. q = record[c] /\ ~FinishFails(k, record[c], r)
    BY <1>6 DEF FinishCommand, FinishIgnored, FinishFails
  <2>2. record[c].status = r.status /\ record[c].detail = r.detail
    BY <1>6, <1>5 DEF Result
  <2> QED BY <1>4, <1>6, <2>1, <2>2 DEF TrailInv
<1>7. CASE InDoubt(c) /\ Result(record[c].status, record[c].detail) # r
  <2>1. CASE FinishIgnored(k, record[c], r)
    <3>1. record[c].status = "indeterminate" /\ r.status = "indeterminate"
      BY <1>7, <2>1 DEF FinishIgnored, InDoubt, IsTerminalCommand
    <3>2. q = record[c] /\ ~FinishFails(k, record[c], r)
      BY <2>1 DEF FinishCommand, FinishFails
    <3> QED BY <1>4, <3>1, <3>2 DEF TrailInv
  <2>2. CASE ~FinishIgnored(k, record[c], r)
    <3>1. validCommandTransition(k, record[c].status, r.status, r.detail)
      <4>1. CASE record[c].status = "running"
        BY <1>3, <4>1 DEF validCommandTransition
      <4>2. CASE record[c].status = "indeterminate" /\ r.status # "indeterminate"
        BY <1>3, <4>2 DEF validCommandTransition
      <4>3. CASE record[c].status = "indeterminate" /\ r.status = "indeterminate"
        BY <2>2, <4>3 DEF validCommandTransition, FinishIgnored, IsTerminalCommand
      <4> QED BY <1>7, <4>1, <4>2, <4>3 DEF InDoubt
    <3>2. CanTransition(k, record[c], r.status, r.detail)
      BY <1>3, <1>4, <3>1 DEF CanTransition, MaxAudit
    <3>3. ~FinishFails(k, record[c], r) /\ q = t
      BY <1>7, <2>2, <3>2 DEF FinishFails, FinishCommand, InDoubt
    <3>4. q = [status |-> r.status, detail |-> r.detail, audit |-> record[c].audit + 1]
      BY <3>3 DEF transitionCommand
    <3>5. CASE record[c].status = "running"
      <4>1. record[c].audit = 2
        BY <1>4, <3>5 DEF TrailInv
      <4> QED BY <1>5, <3>3, <3>4, <4>1
    <3>6. CASE record[c].status = "indeterminate" /\ r.status # "indeterminate"
      <4>1. record[c].audit = 3
        <5>1. HasResult(entry[c]) => StoredResult(entry[c]).status # "indeterminate"
          BY <1>2, <3>6
        <5> QED BY <1>4, <3>6, <5>1 DEF TrailInv, Result
      <4> QED BY <1>5, <3>3, <3>4, <3>6, <4>1
    <3>7. CASE record[c].status = "indeterminate" /\ r.status = "indeterminate"
      <4>1. record[c].detail = "node_disconnected" /\ r.detail = "startup_uncertain"
        BY <2>2, <3>7 DEF FinishIgnored, IsTerminalCommand
      <4>2. record[c].audit = 3
        BY <1>4, <3>7, <4>1 DEF TrailInv
      <4>3. HasResult(entry[c]) /\ StoredResult(entry[c]) = r
        BY <1>2, <3>7 DEF JournalFull, Result
      <4> QED BY <1>5, <3>3, <3>4, <3>7, <4>1, <4>2, <4>3
    <3> QED BY <1>7, <3>5, <3>6, <3>7 DEF InDoubt
  <2> QED BY <2>1, <2>2
<1> QED BY <1>2, <1>6, <1>7

\* Every step of the coordinator keeps every command's invariant, and finds
\* no conflict.
LEMMA CommandCoordinator ==
    SafetyInv /\ CoordinatorStep => ~fault' /\ \A d \in CommandId : CommandInv(d)'
<1> SUFFICES ASSUME SafetyInv, CoordinatorStep
             PROVE  ~fault' /\ \A d \in CommandId : CommandInv(d)'
  OBVIOUS
<1> USE DEF coordinatorVars, networkVars, sessionVars, workVars, nativeVars
<1>0. /\ record \in [CommandId -> Records]
      /\ entry \in [CommandId -> Entries]
      /\ toServer \subseteq (CommandId \X Results)
      /\ ~fault
      /\ \A d \in CommandId : CommandInv(d)
  BY DEF SafetyInv, TypeOK
<1>n. \A d \in CommandId : SameAtNode(d)
  BY <1>0, CoordinatorFrame DEF SameAtNode, CommandInv
<1>1. ASSUME NEW c \in CommandId, SubmitCommand(c)
      PROVE  ~fault' /\ \A d \in CommandId : CommandInv(d)'
  <2>1. fault' = fault /\ \A d \in CommandId : FewerMessages(d)
    BY <1>1 DEF SubmitCommand, FewerMessages, Linked
  <2>2. \A d \in CommandId : d # c => record'[d] = record[d]
    BY <1>0, <1>1 DEF SubmitCommand
  <2>3. \A d \in CommandId : d # c => CommandInv(d)'
    BY <1>0, <1>n, <2>1, <2>2, CommandFrame
  <2>4. CommandInv(c)'
    <3>1. record'[c] = AcceptedRecord
      BY <1>0, <1>1 DEF SubmitCommand
    <3>2. Untouched(c) /\ AbsentInv(c) /\ runs[c] <= 1 /\ c \notin pending
      BY <1>0, <1>1 DEF SubmitCommand, CommandInv, Untouched, HasResult
    <3>3. UNCHANGED <<toServer, acks, toNode, entry, stage, ephemeral, pending, runs, applied>>
      BY <1>1 DEF SubmitCommand
    <3>4. Untouched(c)' /\ NoMessage(c)'
      BY <3>2, <3>3 DEF Untouched, NoMessage
    <3>5. AbsentInv(c)'
      BY <3>1, <3>2, <3>3, <3>4 DEF AbsentInv, AcceptedRecord, Untouched, NoMessage
    <3>6. TrailInv(c)'
      BY <3>1 DEF TrailInv, AcceptedRecord
    <3> QED BY <3>2, <3>3, <3>4, <3>5, <3>6 DEF CommandInv, Untouched, HasResult
  <2> QED BY <1>0, <2>1, <2>3, <2>4
<1>2. ASSUME NEW c \in CommandId, PassDeadline(c)
      PROVE  ~fault' /\ \A d \in CommandId : CommandInv(d)'
  <2>1. /\ fault' = fault /\ record' = record
        /\ \A d \in CommandId : FewerMessages(d)
    BY <1>2 DEF PassDeadline, FewerMessages, Linked
  <2> QED BY <1>0, <1>n, <2>1, CommandFrame
\* The command ends before anything about it has left the coordinator.
<1>e. ASSUME NEW c \in CommandId, record[c].status = "accepted", FewerMessages(c),
             record'[c].status \in {"timed_out", "rejected"},
             record'[c].audit \in {2, 3}
      PROVE  CommandInv(c)'
  <2>1. Untouched(c) /\ AbsentInv(c) /\ runs[c] <= 1
    BY <1>0, <1>e DEF CommandInv, Untouched
  <2>2. NoMessage(c)' /\ Untouched(c)'
    BY <1>n, <1>e, <2>1, NoMessageKept DEF Untouched, SameAtNode, FewerMessages
  <2>3. AbsentInv(c)'
    BY <1>n, <1>e, <2>1, <2>2 DEF AbsentInv, SameAtNode, Untouched, NoMessage
  <2>4. TrailInv(c)'
    BY <1>e DEF TrailInv
  <2> QED BY <1>n, <2>1, <2>2, <2>3, <2>4 DEF CommandInv, Untouched, SameAtNode, HasResult
<1>3. ASSUME NEW c \in CommandId, PrepareRejected(c)
      PROVE  ~fault' /\ \A d \in CommandId : CommandInv(d)'
  <2>1. fault' = fault /\ \A d \in CommandId : FewerMessages(d)
    BY <1>3 DEF PrepareRejected, FewerMessages, Linked
  <2>2. record' = [record EXCEPT ![c] = RejectCommand(record[c])]
    BY <1>3 DEF PrepareRejected
  <2>3. \A d \in CommandId : d # c => CommandInv(d)'
    BY <1>0, <1>n, <2>1, <2>2, CommandFrame
  <2>4. CASE record[c].status # "accepted"
    <3>1. record'[c] = record[c]
      BY <1>0, <2>2, <2>4 DEF RejectCommand
    <3> QED BY <1>0, <1>n, <2>1, <2>3, <3>1, CommandFrame
  <2>5. CASE record[c].status = "accepted"
    <3>1. record[c].audit = 1
      BY <1>0, <2>5 DEF CommandInv, TrailInv
    <3>2. record'[c].status = "rejected" /\ record'[c].audit = 2
      BY <1>0, <2>2, <2>5, <3>1 DEF RejectCommand, transitionCommand
    <3> QED BY <1>0, <1>e, <2>1, <2>3, <2>5, <3>2
  <2> QED BY <2>4, <2>5
<1>4. ASSUME NEW c \in CommandId, NEW late \in BOOLEAN, PrepareCommand(c, late)
      PROVE  ~fault' /\ \A d \in CommandId : CommandInv(d)'
  <2> DEFINE q == DispatchCommand(record[c], c \in due)
  <2> DEFINE f == FinishCommand(KindOf[c], q, Result("timed_out", "deadline_expired"))
  <2>1. /\ fault' = fault /\ toServer' = toServer /\ acks' = acks /\ Linked' = Linked
        /\ toNode' \in {toNode, toNode \cup {c}}
    BY <1>4 DEF PrepareCommand, Linked
  <2>2. record' = [record EXCEPT ![c] = IF late THEN f ELSE q]
    BY <1>4 DEF PrepareCommand
  <2>3. \A d \in CommandId : d # c => CommandInv(d)'
    <3>1. \A d \in CommandId : d # c => FewerMessages(d) /\ record'[d] = record[d]
      BY <1>0, <2>1, <2>2 DEF FewerMessages
    <3> QED BY <1>0, <1>n, <3>1, CommandFrame
  <2>4. CASE record[c].status # "accepted"
    <3>1. record'[c] = record[c] /\ toNode' = toNode
      BY <1>0, <1>4, <2>2, <2>4 DEF PrepareCommand, DispatchCommand
    <3>2. FewerMessages(c)
      BY <2>1, <3>1 DEF FewerMessages
    <3> QED BY <1>0, <1>n, <2>1, <2>3, <3>1, <3>2, CommandFrame
  <2>5. CASE record[c].status = "accepted" /\ c \in due
    <3>1. toNode' = toNode /\ late = FALSE
      BY <1>4, <2>5 DEF PrepareCommand
    <3>2. FewerMessages(c)
      BY <2>1, <3>1 DEF FewerMessages
    <3>3. record[c].audit = 1
      BY <1>0, <2>5 DEF CommandInv, TrailInv
    <3>4. record'[c].status = "timed_out" /\ record'[c].audit = 2
      BY <1>0, <2>2, <2>5, <3>1, <3>3 DEF DispatchCommand, transitionCommand
    <3> QED BY <1>0, <1>e, <2>1, <2>3, <2>5, <3>2, <3>4
  <2>6. CASE record[c].status = "accepted" /\ c \notin due
    <3>1. record[c].audit = 1
      BY <1>0, <2>6 DEF CommandInv, TrailInv
    <3>2. q = [status |-> "running", detail |-> "dispatched", audit |-> 2]
      BY <2>6, <3>1 DEF DispatchCommand, transitionCommand
    <3>3. CASE late
      <4>1. toNode' = toNode
        BY <1>4, <3>3 DEF PrepareCommand
      <4>2. FewerMessages(c)
        BY <2>1, <4>1 DEF FewerMessages
      <4>3. ~FinishIgnored(KindOf[c], q, Result("timed_out", "deadline_expired"))
        BY <3>2 DEF FinishIgnored, Result
      <4>4. CanTransition(KindOf[c], q, "timed_out", "deadline_expired")
        BY <3>2 DEF CanTransition, validCommandTransition, validCommandOutcome, MaxAudit
      <4>5. ~FinishFails(KindOf[c], q, Result("timed_out", "deadline_expired"))
        BY <3>2, <4>4 DEF FinishFails, Result
      <4>6. f = transitionCommand(q, "timed_out", "deadline_expired")
        BY <4>3, <4>5 DEF FinishCommand, Result
      <4>7. record'[c].status = "timed_out" /\ record'[c].audit = 3
        BY <1>0, <2>2, <3>2, <3>3, <4>6 DEF transitionCommand
      <4> QED BY <1>0, <1>e, <2>1, <2>3, <2>6, <4>2, <4>7
    <3>4. CASE ~late
      <4>1. record'[c] = [status |-> "running", detail |-> "dispatched", audit |-> 2]
        BY <1>0, <2>2, <3>2, <3>4
      <4>2. Untouched(c) /\ AbsentInv(c) /\ runs[c] <= 1
        BY <1>0, <2>6 DEF CommandInv, Untouched
      <4>3. NoMessage(c)'
        BY <2>1, <4>2 DEF Untouched, NoMessage
      <4>4. InTransit(c)'
        BY <1>n, <4>1, <4>2, <4>3 DEF InTransit, InDoubt, Untouched, SameAtNode
      <4>5. AbsentInv(c)'
        BY <1>n, <4>1, <4>2, <4>3 DEF AbsentInv, Untouched, SameAtNode, NoMessage
      <4>6. TrailInv(c)'
        BY <4>1 DEF TrailInv
      <4>7. CommandInv(c)'
        BY <1>n, <4>1, <4>2, <4>4, <4>5, <4>6 DEF CommandInv, Untouched, SameAtNode, HasResult
      <4> QED BY <1>0, <2>1, <2>3, <4>7
    <3> QED BY <3>3, <3>4
  <2> QED BY <2>4, <2>5, <2>6
<1>6. ASSUME ExpireCommands PROVE ~fault' /\ \A d \in CommandId : CommandInv(d)'
  <2>1. fault' = fault /\ \A d \in CommandId : FewerMessages(d)
    BY <1>6 DEF ExpireCommands, FewerMessages, Linked
  <2>2. \A d \in CommandId :
           \/ record'[d] = record[d]
           \/ record'[d] = changeActiveCommand(record[d], "timed_out", "deadline_expired")
    BY <1>6 DEF ExpireCommands, ExpireCommand
  <2> QED BY <1>0, <1>n, <2>1, <2>2, CommandFrame, CommandDegrades
<1>7. ASSUME EndSession \/ \E s \in hello : BeginSession(s)
      PROVE  ~fault' /\ \A d \in CommandId : CommandInv(d)'
  <2>1. fault' = fault /\ toServer' = {} /\ toNode' = toNode /\ acks' = acks
    BY <1>7 DEF EndSession, BeginSession
  <2>2. \A d \in CommandId : FewerMessages(d)
    BY <2>1 DEF FewerMessages
  <2>3. \A d \in CommandId :
           record'[d] = changeActiveCommand(record[d], "unavailable", "node_disconnected")
    BY <1>7 DEF EndSession, BeginSession, LoseNodeCommand
  <2> QED BY <1>0, <1>n, <2>1, <2>2, <2>3, CommandDegrades
<1>8. ASSUME CoordinatorCrash PROVE ~fault' /\ \A d \in CommandId : CommandInv(d)'
  <2>1. /\ fault' = fault /\ record' = record
        /\ \A d \in CommandId : FewerMessages(d)
    BY <1>8 DEF CoordinatorCrash, FewerMessages
  <2> QED BY <1>0, <1>n, <2>1, CommandFrame
<1>9. ASSUME CoordinatorRestart PROVE ~fault' /\ \A d \in CommandId : CommandInv(d)'
  <2>1. fault' = fault /\ \A d \in CommandId : FewerMessages(d)
    BY <1>9 DEF CoordinatorRestart, FewerMessages, Linked
  <2>2. \A d \in CommandId :
           record'[d] = changeActiveCommand(record[d], "unavailable", "server_restarted")
    BY <1>9 DEF CoordinatorRestart, RecoverCommand
  <2> QED BY <1>0, <1>n, <2>1, <2>2, CommandDegrades
<1>5. ASSUME NEW m \in toServer, finishCommand(m[1], m[2])
      PROVE  ~fault' /\ \A d \in CommandId : CommandInv(d)'
  <2> DEFINE c == m[1]
  <2> DEFINE r == m[2]
  <2> DEFINE q == FinishCommand(KindOf[c], record[c], r)
  <2>1. c \in CommandId /\ r \in Results /\ <<c, r>> \in toServer
    BY <1>0
  <2>2. /\ ~FinishFails(KindOf[c], record[c], r)
        /\ q.status = r.status
        /\ q.status = "indeterminate" \/ Result(q.status, q.detail) = r
        /\ q.audit <= 4
        /\ q.status = "indeterminate" =>
              \/ q.audit = 3
              \/ /\ q.audit = 4
                 /\ HasResult(entry[c])
                 /\ StoredResult(entry[c]) = Result("indeterminate", "startup_uncertain")
                 /\ q.detail = "startup_uncertain"
    BY <1>0, <2>1, FinishOutcome
  <2>3. /\ record' = [record EXCEPT ![c] = q]
        /\ toServer' = toServer \ {<<c, r>>}
        /\ acks' = IF Linked THEN acks \cup {<<c, r.status>>} ELSE acks
        /\ toNode' = toNode /\ Linked' = Linked
    BY <1>5, <2>2 DEF finishCommand, Linked
  <2>f. ~fault'
    BY <1>0, <1>5, <2>2 DEF finishCommand
  <2> HIDE DEF c, r, q
  <2>4. \A d \in CommandId : d # c => CommandInv(d)'
    <3>1. \A d \in CommandId : d # c => FewerMessages(d) /\ record'[d] = record[d]
      BY <1>0, <2>1, <2>3 DEF FewerMessages
    <3> QED BY <1>0, <1>n, <3>1, CommandFrame
  <2>5. CommandInv(c)'
    <3>1. CommandInv(c) /\ SameAtNode(c) /\ record'[c] = q
      BY <1>0, <1>n, <2>1, <2>3
    <3>2. /\ c \notin toNode /\ stage[c] # "queued" /\ entry[c].status # "running"
          /\ r.status \in {"succeeded", "timed_out", "rejected", "indeterminate"}
      BY <2>1, <3>1 DEF CommandInv, InTransit, NoMessage, IntentInv, AbsentInv, ResultInv,
         HonestResult, HasResult, JournalFull, Result
    <3>3. TrailInv(c)'
      BY <2>2, <3>1, <3>2 DEF TrailInv, SameAtNode
    <3>4. CASE entry[c].status = "absent"
      <4>1. AbsentInv(c) /\ r = JournalFull
        BY <2>1, <3>1, <3>4 DEF CommandInv, AbsentInv
      <4>2. q.status = "rejected" /\ Result(q.status, q.detail) = JournalFull
        BY <2>2, <4>1 DEF JournalFull, Result
      <4>3. \A x \in Results : <<c, x>> \notin toServer'
        BY <2>1, <2>3, <4>1 DEF AbsentInv
      <4>4. \A x \in Statuses : <<c, x>> \in acks' =>
               x = "rejected" /\ c \in ephemeral /\ stage[c] = "none"
        BY <2>1, <2>2, <2>3, <4>1, <4>2 DEF AbsentInv
      <4>5. stage[c] = "none"
        BY <2>1, <4>1 DEF AbsentInv
      <4>6. AbsentInv(c)'
        BY <2>3, <3>1, <3>2, <4>1, <4>2, <4>3, <4>4, <4>5 DEF AbsentInv, SameAtNode, InDoubt
      <4> QED BY <2>3, <3>1, <3>2, <3>3, <3>4, <4>2, <4>5, <4>6 DEF CommandInv, SameAtNode, HasResult
    <3>5. CASE HasResult(entry[c])
      <4>1. ResultInv(c) /\ r = StoredResult(entry[c])
        BY <2>1, <3>1, <3>5 DEF CommandInv, ResultInv
      <4>2. r.status = entry[c].status
        BY <4>1 DEF StoredResult, Result
      <4>3. ResultInv(c)'
        <5>1. HonestResult(c, StoredResult(entry[c]))'
          BY <3>1, <4>1 DEF ResultInv, HonestResult, SameAtNode, StoredResult
        <5>2. \A x \in Statuses : <<c, x>> \in acks' => x = entry[c].status /\ x = q.status
          BY <2>2, <2>3, <4>1, <4>2 DEF ResultInv
        <5>3. \A x \in Results : <<c, x>> \in toServer' => x = r
          BY <2>3, <4>1 DEF ResultInv
        <5>4. InDoubt(c)' \/ Result(q.status, q.detail) = r
          BY <2>2, <3>1 DEF InDoubt
        <5> QED BY <2>2, <2>3, <3>1, <4>1, <4>2, <5>1, <5>2, <5>3, <5>4
            DEF ResultInv, SameAtNode, StoredResult
      <4> QED BY <2>2, <2>3, <3>1, <3>2, <3>3, <3>5, <4>3 DEF CommandInv, SameAtNode, HasResult
    <3> QED BY <3>2, <3>4, <3>5 DEF HasResult
  <2> QED BY <2>f, <2>4, <2>5
<1> QED BY <1>1, <1>2, <1>3, <1>4, <1>5, <1>6, <1>7, <1>8, <1>9 DEF CoordinatorStep

\* Executing a claimed command leaves an honest result in its worker's hands.
LEMMA CommandExecuted ==
    ASSUME SafetyInv, NEW c \in CommandId, NEW r \in Results,
           NEW x \in BOOLEAN, NEW y \in BOOLEAN, Executed(c, r, x, y),
           r.status \in {"succeeded", "timed_out", "rejected", "indeterminate"},
           validCommandOutcome(KindOf[c], r.status, r.detail),
           r.status = "succeeded" => y,
           r.status = "timed_out" => ~x,
           r.status = "rejected" /\ KindOf[c] # "session_ensure" => ~x
    PROVE  ~fault' /\ \A d \in CommandId : CommandInv(d)'
<1> USE DEF coordinatorVars, networkVars, sessionVars, workVars, nativeVars
<1>0. /\ entry \in [CommandId -> Entries] /\ stage \in [CommandId -> Stages]
      /\ outcome \in [CommandId -> Results] /\ runs \in [CommandId -> Nat]
      /\ ~fault
      /\ \A d \in CommandId : CommandInv(d)
  BY DEF SafetyInv, TypeOK
<1>1. /\ record' = record /\ entry' = entry /\ toNode' = toNode /\ acks' = acks
      /\ toServer' = toServer /\ pending' = pending /\ ephemeral' = ephemeral
      /\ fault' = fault /\ cur' = cur /\ sess' = sess
  BY DEF Executed
<1>2. \A d \in CommandId : FewerMessages(d)
  BY <1>1 DEF FewerMessages, Linked
<1>3. \A d \in CommandId : d # c => CommandInv(d)'
  <2>1. \A d \in CommandId : d # c => SameAtNode(d)
    BY <1>0, <1>1 DEF Executed, SameAtNode, CommandInv
  <2> QED BY <1>0, <1>1, <1>2, <2>1, CommandFrame
<1>4. CommandInv(c)'
  <2>1. entry[c].status = "running"
    BY <1>0 DEF Executed, CommandInv, AbsentInv, ResultInv, HasResult
  <2>2. IntentInv(c) /\ runs[c] = 0 /\ TrailInv(c) /\ c \notin pending
    BY <1>0, <2>1 DEF Executed, CommandInv, IntentInv, HasResult
  <2>3. /\ stage'[c] = "ran" /\ outcome'[c] = r
        /\ runs'[c] = IF x THEN 1 ELSE 0
        /\ y => c \in applied'
    BY <1>0, <2>2 DEF Executed
  <2>4. HonestResult(c, r)'
    BY <2>3 DEF HonestResult
  <2>5. NoMessage(c)'
    BY <1>2, <2>2, NoMessageKept DEF IntentInv
  <2>6. IntentInv(c)'
    BY <1>1, <2>2, <2>3, <2>4, <2>5 DEF IntentInv, InDoubt
  <2>7. TrailInv(c)'
    BY <1>1, <2>2 DEF TrailInv
  <2> QED BY <1>1, <2>1, <2>2, <2>3, <2>6, <2>7 DEF CommandInv, IntentInv, InDoubt, HasResult
<1> QED BY <1>0, <1>1, <1>3, <1>4

\* A node that forgets its session keeps every command's invariant.
LEMMA CommandForgotten ==
    ASSUME SafetyInv, Forget
    PROVE  ~fault' /\ \A d \in CommandId : CommandInv(d)'
<1> USE DEF coordinatorVars, networkVars, sessionVars, workVars, nativeVars
<1>0. ~fault /\ \A d \in CommandId : CommandInv(d)
  BY DEF SafetyInv
<1>1. /\ record' = record /\ entry' = entry /\ toServer' = toServer
      /\ runs' = runs /\ applied' = applied /\ fault' = fault
      /\ toNode' = {} /\ acks' = {} /\ pending' = {} /\ ephemeral' = {}
      /\ ~Linked'
  BY DEF Forget, Linked
<1>2. \A d \in CommandId : stage'[d] = "none"
  BY DEF Forget
<1>3. ASSUME NEW d \in CommandId PROVE CommandInv(d)'
  <2>1. NoMessage(d) => NoMessage(d)'
    BY <1>1 DEF NoMessage
  <2>2. Untouched(d) => Untouched(d)'
    BY <1>1, <1>2, <2>1 DEF Untouched
  <2>3. AbsentInv(d) => AbsentInv(d)'
    BY <1>1, <1>2 DEF AbsentInv, InDoubt
  <2>4. IntentInv(d) => IntentInv(d)'
    BY <1>1, <1>2, <2>1 DEF IntentInv, InDoubt
  <2>5. ResultInv(d) => ResultInv(d)'
    BY <1>1, <1>2 DEF ResultInv, InDoubt, HonestResult
  <2>6. TrailInv(d) => TrailInv(d)'
    BY <1>1 DEF TrailInv
  <2> QED BY <1>0, <1>1, <1>2, <2>2, <2>3, <2>4, <2>5, <2>6 DEF CommandInv
<1> QED BY <1>0, <1>1, <1>3

\* Recovering intents before a new stream keeps every command's invariant.
LEMMA CommandRecovered ==
    ASSUME SafetyInv, OpenStream
    PROVE  ~fault' /\ \A d \in CommandId : CommandInv(d)'
<1> USE DEF coordinatorVars, networkVars, sessionVars, workVars, nativeVars
<1>0. /\ entry \in [CommandId -> Entries] /\ cur \in Nat /\ opened \in Nat /\ cur <= opened
      /\ ~fault
      /\ \A d \in CommandId : CommandInv(d)
  BY DEF SafetyInv, TypeOK, StreamInv
<1>1. /\ record' = record /\ toServer' = toServer /\ toNode' = toNode /\ acks' = acks
      /\ runs' = runs /\ applied' = applied /\ fault' = fault /\ stage' = stage
      /\ outcome' = outcome /\ pending' = pending /\ ephemeral' = ephemeral
      /\ cur' = cur /\ sess' = opened + 1
  BY DEF OpenStream
<1>2. ~Linked'
  BY <1>0, <1>1 DEF Linked
<1>3. \A d \in CommandId : FewerMessages(d)
  BY <1>1, <1>2 DEF FewerMessages
<1>4. \A d \in CommandId : entry'[d] = Recover(KindOf[d], entry[d])
  BY DEF OpenStream
<1>5. ASSUME NEW d \in CommandId, entry[d].status # "running" PROVE CommandInv(d)'
  <2>1. SameAtNode(d)
    BY <1>0, <1>1, <1>4, <1>5 DEF SameAtNode, Recover, CommandInv
  <2> QED BY <1>0, <1>1, <1>3, <2>1, CommandFrame
<1>6. ASSUME NEW d \in CommandId, entry[d].status = "running" PROVE CommandInv(d)'
  <2>1. /\ CommandInv(d) /\ IntentInv(d) /\ TrailInv(d) /\ stage[d] = "none"
        /\ d \notin toNode
    BY <1>0, <1>6 DEF CommandInv, IntentInv, SafetyInv, StreamInv, OpenStream
  <2>2. entry'[d] = WithResult(interruptedCommandResult(KindOf[d]))
    BY <1>4, <1>6 DEF Recover
  <2>3. /\ HasResult(entry[d])' /\ ~entry'[d].delivered
        /\ StoredResult(entry'[d]) = interruptedCommandResult(KindOf[d])
        /\ entry'[d].status = "indeterminate"
    BY <2>2 DEF WithResult, interruptedCommandResult, Result, HasResult, StoredResult
  <2>4. HonestResult(d, StoredResult(entry[d]))'
    BY <2>3 DEF HonestResult, interruptedCommandResult, Result, validCommandOutcome
  <2>5. NoMessage(d)'
    BY <1>3, <2>1, NoMessageKept DEF IntentInv
  <2>6. ResultInv(d)'
    BY <1>1, <2>1, <2>3, <2>4, <2>5 DEF ResultInv, IntentInv, InDoubt, NoMessage
  <2>7. TrailInv(d)'
    BY <1>1, <1>6, <2>1 DEF TrailInv, HasResult
  <2> QED BY <1>1, <2>1, <2>3, <2>6, <2>7 DEF CommandInv, IntentInv, InDoubt
<1> QED BY <1>0, <1>1, <1>5, <1>6

\* Claim grants a new command, refuses it from memory or refuses it durably.
LEMMA CommandClaimed ==
    ASSUME SafetyInv, NEW c \in CommandId, Claim(c)
    PROVE  ~fault' /\ \A d \in CommandId : CommandInv(d)'
<1> USE DEF coordinatorVars, networkVars, sessionVars, workVars, nativeVars
<1>0. /\ entry \in [CommandId -> Entries] /\ stage \in [CommandId -> Stages]
      /\ outcome \in [CommandId -> Results]
      /\ ~fault
      /\ \A d \in CommandId : CommandInv(d)
  BY DEF SafetyInv, TypeOK
<1>1. /\ record' = record /\ toServer' = toServer /\ toNode' = toNode /\ acks' = acks
      /\ runs' = runs /\ applied' = applied /\ fault' = fault /\ pending' = pending
      /\ cur' = cur /\ sess' = sess
  BY DEF Claim
<1>2. \A d \in CommandId : FewerMessages(d)
  BY <1>1 DEF FewerMessages, Linked
<1>3. \A d \in CommandId : d # c => CommandInv(d)'
  <2>1. \A d \in CommandId : d # c =>
           /\ entry'[d] = entry[d] /\ stage'[d] = stage[d] /\ outcome'[d] = outcome[d]
           /\ d \in ephemeral' <=> d \in ephemeral
    BY <1>0 DEF Claim
  <2>2. \A d \in CommandId : d # c => SameAtNode(d)
    BY <1>0, <1>1, <2>1 DEF SameAtNode, CommandInv
  <2> QED BY <1>0, <1>1, <1>2, <2>2, CommandFrame
<1>4. CommandInv(c)'
  <2>1. /\ stage[c] = "queued" /\ InTransit(c) /\ AbsentInv(c) /\ TrailInv(c)
        /\ c \notin toNode /\ c \notin pending
    BY <1>0 DEF Claim, CommandInv, InTransit, HasResult
  <2>2. ~HasEntry(entry[c]) /\ ~HasResult(entry[c]) /\ entry[c].status = "absent"
    BY <2>1 DEF InTransit, HasEntry, HasResult
  <2>3. NoMessage(c)'
    BY <1>2, <2>1, NoMessageKept DEF InTransit
  <2>4. CASE ~NodeFull /\ ~ProjectFenced(c)
    <3>1. /\ stage'[c] = "claimed" /\ entry'[c] = Intent /\ ephemeral' = ephemeral
      BY <1>0, <2>2, <2>4 DEF Claim
    <3>2. IntentInv(c)'
      BY <1>1, <2>1, <2>3, <3>1 DEF IntentInv, InTransit, AbsentInv, InDoubt, Intent
    <3>3. TrailInv(c)'
      BY <1>1, <2>1, <2>2, <3>1 DEF TrailInv
    <3> QED BY <1>1, <2>1, <3>1, <3>2, <3>3 DEF CommandInv, Intent, HasResult, InTransit,
               InDoubt, AbsentInv
  <2>5. CASE NodeFull
    <3>1. entry'[c] = entry[c]
      BY <1>0, <2>2, <2>5 DEF Claim
    <3>2. \/ stage'[c] = "none" /\ ephemeral' = ephemeral
          \/ /\ stage'[c] = "sending" /\ ephemeral' = ephemeral \cup {c}
             /\ outcome'[c] = ClaimResult(c)
      BY <1>0, <2>2, <2>5 DEF Claim
    <3>3. ClaimResult(c) = JournalFull
      BY <2>2, <2>5 DEF ClaimResult, JournalFull
    <3>4. AbsentInv(c)'
      BY <1>1, <2>1, <2>3, <3>1, <3>2, <3>3 DEF AbsentInv, InTransit, InDoubt, NoMessage
    <3>5. TrailInv(c)'
      BY <1>1, <2>1, <3>1 DEF TrailInv
    <3> QED BY <1>1, <2>1, <2>2, <3>1, <3>2, <3>4, <3>5 DEF CommandInv, HasResult, InTransit,
               InDoubt, AbsentInv
  <2>6. CASE ~NodeFull /\ ProjectFenced(c)
    <3>1. /\ stage'[c] = "sending" /\ entry'[c] = WithResult(ClaimResult(c))
          /\ outcome'[c] = ClaimResult(c) /\ ephemeral' = ephemeral
      BY <1>0, <2>2, <2>6 DEF Claim
    <3>2. ClaimResult(c) = Result("rejected", "project_unresolved")
      BY <2>2, <2>6 DEF ClaimResult
    <3>3. KindOf[c] = "project"
      BY <2>6, RequestAssumption DEF ProjectFenced
    <3>4. /\ HasResult(entry[c])' /\ ~entry'[c].delivered
          /\ StoredResult(entry'[c]) = Result("rejected", "project_unresolved")
      BY <3>1, <3>2 DEF WithResult, Result, HasResult, StoredResult
    <3>5. HonestResult(c, StoredResult(entry[c]))'
      BY <1>1, <2>1, <3>3, <3>4 DEF HonestResult, Result, validCommandOutcome, AbsentInv,
         authorizationSensitiveCommand
    <3>6. ResultInv(c)'
      BY <1>1, <2>1, <2>3, <3>1, <3>2, <3>4, <3>5 DEF ResultInv, InTransit, InDoubt, NoMessage
    <3>7. TrailInv(c)'
      BY <1>1, <2>1, <2>2 DEF TrailInv
    <3> QED BY <1>1, <2>1, <3>1, <3>4, <3>6, <3>7 DEF CommandInv, HasResult, InTransit,
               InDoubt, AbsentInv
  <2> QED BY <2>4, <2>5, <2>6
<1> QED BY <1>0, <1>1, <1>3, <1>4

\* Completing an intent stores the worker's honest result, without conflict.
LEMMA CommandCompleted ==
    ASSUME SafetyInv, NEW c \in CommandId, CompleteCommand(c)
    PROVE  ~fault' /\ \A d \in CommandId : CommandInv(d)'
<1> USE DEF coordinatorVars, networkVars, sessionVars, workVars, nativeVars
<1>0. /\ entry \in [CommandId -> Entries] /\ stage \in [CommandId -> Stages]
      /\ outcome \in [CommandId -> Results]
      /\ ~fault
      /\ \A d \in CommandId : CommandInv(d)
  BY DEF SafetyInv, TypeOK
<1>1. /\ record' = record /\ toServer' = toServer /\ toNode' = toNode /\ acks' = acks
      /\ runs' = runs /\ applied' = applied /\ pending' = pending /\ ephemeral' = ephemeral
      /\ cur' = cur /\ sess' = sess
  BY DEF CompleteCommand
<1>2. \A d \in CommandId : FewerMessages(d)
  BY <1>1 DEF FewerMessages, Linked
<1>3. \A d \in CommandId : d # c => CommandInv(d)'
  <2>1. \A d \in CommandId : d # c =>
           entry'[d] = entry[d] /\ stage'[d] = stage[d] /\ outcome'[d] = outcome[d]
    BY <1>0 DEF CompleteCommand
  <2>2. \A d \in CommandId : d # c => SameAtNode(d)
    BY <1>0, <1>1, <2>1 DEF SameAtNode, CommandInv
  <2> QED BY <1>0, <1>1, <1>2, <2>2, CommandFrame
<1>4. /\ entry[c].status = "running" /\ IntentInv(c) /\ TrailInv(c) /\ stage[c] = "ran"
      /\ HonestResult(c, outcome[c])
  BY <1>0 DEF CompleteCommand, CommandInv, IntentInv, AbsentInv, ResultInv, HasResult
<1>5. ~fault'
  BY <1>0, <1>4 DEF CompleteCommand, CompleteFails, HasEntry, HasResult
<1>6. CommandInv(c)'
  <2>1. /\ entry'[c] = WithResult(outcome[c])
        /\ \/ stage'[c] = "none"
           \/ stage'[c] = "sending" /\ outcome'[c] = outcome[c]
    BY <1>0, <1>4 DEF CompleteCommand, Complete
  <2>2. /\ HasResult(entry[c])' /\ ~entry'[c].delivered
        /\ StoredResult(entry'[c]) = outcome[c]
    BY <1>0, <1>4, <2>1 DEF WithResult, Result, HasResult, StoredResult, Results, HonestResult
  <2>3. HonestResult(c, StoredResult(entry[c]))'
    BY <1>1, <1>4, <2>2 DEF HonestResult
  <2>4. NoMessage(c)'
    BY <1>2, <1>4, NoMessageKept DEF IntentInv
  <2>5. ResultInv(c)'
    BY <1>1, <1>4, <2>1, <2>2, <2>3, <2>4 DEF ResultInv, IntentInv, InDoubt, NoMessage
  <2>6. TrailInv(c)'
    BY <1>1, <1>4 DEF TrailInv, HasResult
  <2>7. runs[c] <= 1 /\ InDoubt(c) /\ c \notin toNode
    BY <1>0, <1>4 DEF CommandInv, IntentInv
  <2> QED BY <1>1, <2>1, <2>2, <2>5, <2>6, <2>7 DEF CommandInv, InDoubt, HasResult
<1> QED BY <1>3, <1>5, <1>6

\* An acknowledgement matches what the node holds.
LEMMA CommandAcknowledged ==
    ASSUME SafetyInv, NEW c \in CommandId, NEW s \in Statuses, ReceiveAck(c, s)
    PROVE  ~fault' /\ \A d \in CommandId : CommandInv(d)'
<1> USE DEF coordinatorVars, networkVars, sessionVars, workVars, nativeVars
<1>0. /\ entry \in [CommandId -> Entries]
      /\ ~fault
      /\ \A d \in CommandId : CommandInv(d)
  BY DEF SafetyInv, TypeOK
<1>1. /\ record' = record /\ toServer' = toServer /\ toNode' = toNode /\ stage' = stage
      /\ outcome' = outcome /\ runs' = runs /\ applied' = applied /\ pending' = pending
      /\ cur' = cur /\ sess' = sess /\ acks' = acks \ {<<c, s>>} /\ <<c, s>> \in acks
  BY DEF ReceiveAck
<1>2. \A d \in CommandId : FewerMessages(d)
  BY <1>1 DEF FewerMessages, Linked
<1>3. \A d \in CommandId : d # c => CommandInv(d)'
  <2>1. \A d \in CommandId : d # c => (d \in ephemeral' <=> d \in ephemeral)
    BY DEF ReceiveAck
  <2>2. \A d \in CommandId : d # c => entry'[d] = entry[d]
    BY <1>0 DEF ReceiveAck
  <2>3. \A d \in CommandId : d # c => SameAtNode(d)
    BY <1>0, <1>1, <2>1, <2>2 DEF SameAtNode, CommandInv
  <2> QED BY <1>0, <1>1, <1>2, <2>3, CommandFrame
<1>4. /\ entry[c].status # "running" /\ TrailInv(c) /\ runs[c] <= 1
      /\ c \notin toNode /\ stage[c] # "queued"
      /\ record[c].status \notin {"absent", "accepted", "unavailable"}
      /\ c \in pending => HasResult(entry[c])
  BY <1>0, <1>1 DEF CommandInv, IntentInv, NoMessage, InTransit, Untouched
<1>5. CASE entry[c].status = "absent"
  <2>1. AbsentInv(c) /\ s = "rejected" /\ c \in ephemeral /\ stage[c] = "none"
    BY <1>0, <1>1, <1>5 DEF CommandInv, AbsentInv
  <2>2. ephemeral' = ephemeral \ {c} /\ ~fault' /\ entry' = entry
    BY <1>0, <2>1 DEF ReceiveAck
  <2>3. AbsentInv(c)'
    BY <1>1, <2>1, <2>2 DEF AbsentInv, InDoubt, Linked
  <2>4. TrailInv(c)'
    BY <1>1, <1>4, <2>2 DEF TrailInv
  <2>5. CommandInv(c)'
    BY <1>1, <1>4, <1>5, <2>1, <2>2, <2>3, <2>4 DEF CommandInv, HasResult
  <2> QED BY <1>3, <2>2, <2>5
<1>6. CASE HasResult(entry[c])
  <2>1. /\ ResultInv(c) /\ s = entry[c].status /\ s = record[c].status
        /\ c \notin ephemeral
    BY <1>0, <1>1, <1>6 DEF CommandInv, ResultInv
  <2>2. ~AcknowledgeFails(entry[c], s)
    BY <1>6, <2>1 DEF AcknowledgeFails
  <2>3. /\ ~fault' /\ ephemeral' = ephemeral
        /\ entry'[c] = Acknowledge(entry[c])
    BY <1>0, <2>1, <2>2 DEF ReceiveAck
  <2>4. entry'[c].status = entry[c].status /\ entry'[c].detail = entry[c].detail
    BY <1>0, <2>3 DEF Acknowledge, Entries
  <2>5. ResultInv(c)'
    BY <1>1, <2>1, <2>3, <2>4 DEF ResultInv, HonestResult, StoredResult, InDoubt
  <2>6. TrailInv(c)'
    BY <1>1, <1>4, <2>4 DEF TrailInv, HasResult, StoredResult
  <2>7. CommandInv(c)'
    BY <1>1, <1>4, <1>6, <2>4, <2>5, <2>6 DEF CommandInv, HasResult
  <2> QED BY <1>3, <2>3, <2>7
<1> QED BY <1>4, <1>5, <1>6 DEF HasResult

\* A result goes on the stream only once the journal holds it, or as a
\* rejection kept in memory.
LEMMA CommandSent ==
    ASSUME SafetyInv, NEW c \in CommandId, SendResult(c) \/ ReplayResult(c)
    PROVE  ~fault' /\ \A d \in CommandId : CommandInv(d)'
<1> USE DEF coordinatorVars, networkVars, sessionVars, workVars, nativeVars
<1> DEFINE r == IF SendResult(c) THEN outcome[c] ELSE StoredResult(entry[c])
<1>0. /\ entry \in [CommandId -> Entries] /\ stage \in [CommandId -> Stages]
      /\ outcome \in [CommandId -> Results]
      /\ ~fault
      /\ \A d \in CommandId : CommandInv(d)
  BY DEF SafetyInv, TypeOK
<1>1. /\ record' = record /\ toNode' = toNode /\ acks' = acks /\ entry' = entry
      /\ runs' = runs /\ applied' = applied /\ fault' = fault /\ ephemeral' = ephemeral
      /\ cur' = cur /\ sess' = sess /\ Linked' = Linked
  BY DEF SendResult, ReplayResult, Linked
<1>2. /\ toServer' \in {toServer, toServer \cup {<<c, r>>}}
      /\ ~Linked => toServer' = toServer
      /\ pending' \subseteq pending
      /\ \A d \in CommandId : d # c => stage'[d] = stage[d] /\ outcome'[d] = outcome[d]
  BY <1>0 DEF SendResult, ReplayResult
<1>3. \/ SendResult(c) /\ stage[c] = "sending" /\ stage'[c] = "none"
      \/ ReplayResult(c) /\ ~SendResult(c) /\ c \in pending /\ stage'[c] = stage[c]
            /\ outcome'[c] = outcome[c]
  BY <1>0 DEF SendResult, ReplayResult
<1>4. \A d \in CommandId : d # c => CommandInv(d)'
  <2>1. \A d \in CommandId : d # c => SameAtNode(d) /\ FewerMessages(d)
    BY <1>0, <1>1, <1>2 DEF SameAtNode, FewerMessages, CommandInv
  <2> QED BY <1>0, <1>1, <2>1, CommandFrame
<1>5. CommandInv(c)'
  <2>1. /\ TrailInv(c) /\ runs[c] <= 1
        /\ c \in pending' => HasResult(entry[c])
        /\ entry[c].status # "running"
        /\ record[c].status \notin {"absent", "accepted", "unavailable"}
    <3>1. CASE stage[c] = "sending"
      BY <1>0, <1>2, <3>1 DEF CommandInv, IntentInv, Untouched
    <3>2. CASE c \in pending
      BY <1>0, <1>2, <3>2 DEF CommandInv, HasResult, Untouched
    <3> QED BY <1>3, <3>1, <3>2
  <2>2. TrailInv(c)'
    BY <1>1, <2>1 DEF TrailInv
  <2>3. CASE entry[c].status = "absent"
    <3>1. /\ SendResult(c) /\ AbsentInv(c) /\ stage[c] = "sending"
          /\ r = JournalFull /\ c \in ephemeral /\ NoMessage(c) /\ c \notin toNode
      BY <1>0, <1>3, <2>3 DEF CommandInv, AbsentInv, HasResult
    <3>2. stage'[c] = "none"
      BY <1>3, <3>1
    <3>3. \A x \in Results : <<c, x>> \in toServer' => x = JournalFull
      BY <1>2, <3>1 DEF NoMessage
    <3>4. AbsentInv(c)'
      BY <1>1, <3>1, <3>2, <3>3 DEF AbsentInv, InDoubt, NoMessage
    <3> QED BY <1>1, <2>1, <2>2, <2>3, <3>1, <3>2, <3>4 DEF CommandInv, HasResult
  <2>4. CASE HasResult(entry[c])
    <3>1. /\ ResultInv(c) /\ r = StoredResult(entry[c]) /\ c \notin toNode
          /\ stage[c] \in {"none", "sending"}
      BY <1>0, <1>3, <2>4 DEF CommandInv, ResultInv
    <3>2. stage'[c] \in {"none", "sending"}
      BY <1>3, <3>1
    <3>3. \A x \in Results : <<c, x>> \in toServer' => x = StoredResult(entry[c])
      BY <1>2, <3>1 DEF ResultInv
    <3>4. stage'[c] = "sending" => outcome'[c] = StoredResult(entry[c])
      BY <1>3, <3>1 DEF ResultInv
    <3>5. HonestResult(c, StoredResult(entry[c]))'
      BY <1>1, <3>1 DEF ResultInv, HonestResult
    <3>6. ResultInv(c)'
      BY <1>1, <3>1, <3>2, <3>3, <3>4, <3>5 DEF ResultInv, InDoubt
    <3> QED BY <1>1, <2>1, <2>2, <2>4, <3>1, <3>2, <3>6 DEF CommandInv, HasResult
  <2> QED BY <2>1, <2>3, <2>4 DEF HasResult
<1> QED BY <1>0, <1>1, <1>4, <1>5

\* Queueing a command, or giving it up, keeps every command's invariant.
LEMMA CommandQueued ==
    ASSUME SafetyInv, NEW c \in CommandId, ReceiveCommand(c) \/ AbandonCommand(c)
    PROVE  ~fault' /\ \A d \in CommandId : CommandInv(d)'
<1> USE DEF coordinatorVars, networkVars, sessionVars, workVars, nativeVars
<1>0. /\ entry \in [CommandId -> Entries] /\ stage \in [CommandId -> Stages]
      /\ outcome \in [CommandId -> Results]
      /\ ~fault
      /\ \A d \in CommandId : CommandInv(d)
  BY DEF SafetyInv, TypeOK
<1>1. /\ record' = record /\ acks' = acks /\ entry' = entry /\ toServer' = toServer
      /\ runs' = runs /\ applied' = applied /\ fault' = fault /\ ephemeral' = ephemeral
      /\ cur' = cur /\ sess' = sess /\ Linked' = Linked /\ pending' = pending
      /\ toNode' \subseteq toNode
  BY DEF ReceiveCommand, AbandonCommand, Linked
<1>2. \A d \in CommandId : FewerMessages(d)
  BY <1>1 DEF FewerMessages
<1>3. \A d \in CommandId : d # c => CommandInv(d)'
  <2>1. \A d \in CommandId : d # c => stage'[d] = stage[d] /\ outcome'[d] = outcome[d]
    BY <1>0 DEF ReceiveCommand, AbandonCommand
  <2>2. \A d \in CommandId : d # c => SameAtNode(d)
    BY <1>0, <1>1, <2>1 DEF SameAtNode, CommandInv
  <2> QED BY <1>0, <1>1, <1>2, <2>2, CommandFrame
<1>4. CASE ReceiveCommand(c)
  <2>1. c \in toNode /\ c \notin toNode' /\ stage'[c] \in {"queued", stage[c]}
    BY <1>0, <1>4 DEF ReceiveCommand
  <2>2. /\ InTransit(c) /\ stage[c] = "none" /\ AbsentInv(c) /\ TrailInv(c) /\ InDoubt(c)
        /\ entry[c].status = "absent" /\ c \notin pending /\ runs[c] <= 1
    BY <1>0, <2>1 DEF CommandInv, InTransit, HasResult
  <2>3. NoMessage(c)'
    BY <1>2, <2>2, NoMessageKept DEF InTransit
  <2>4. InTransit(c)'
    BY <1>1, <2>1, <2>2, <2>3 DEF InTransit, InDoubt
  <2>5. AbsentInv(c)'
    BY <1>1, <2>1, <2>2, <2>3 DEF AbsentInv, InTransit, InDoubt, NoMessage
  <2>6. TrailInv(c)'
    BY <1>1, <2>2 DEF TrailInv
  <2>7. CommandInv(c)'
    BY <1>1, <2>2, <2>4, <2>5, <2>6 DEF CommandInv, HasResult, InDoubt
  <2> QED BY <1>0, <1>1, <1>3, <2>7
<1>5. CASE AbandonCommand(c)
  <2>1. stage[c] \in {"claimed", "ran"} /\ stage'[c] = "none"
    BY <1>0, <1>5 DEF AbandonCommand
  <2>2. /\ IntentInv(c) /\ TrailInv(c) /\ InDoubt(c) /\ c \notin toNode
        /\ entry[c].status = "running" /\ c \notin pending /\ runs[c] <= 1
    BY <1>0, <2>1 DEF CommandInv, IntentInv, AbsentInv, ResultInv, HasResult
  <2>3. NoMessage(c)'
    BY <1>2, <2>2, NoMessageKept DEF IntentInv
  <2>4. IntentInv(c)'
    BY <1>1, <2>1, <2>2, <2>3 DEF IntentInv, InDoubt
  <2>5. TrailInv(c)'
    BY <1>1, <2>2 DEF TrailInv
  <2>6. CommandInv(c)'
    BY <1>1, <2>1, <2>2, <2>4, <2>5 DEF CommandInv, HasResult, InDoubt
  <2> QED BY <1>0, <1>1, <1>3, <2>6
<1> QED BY <1>4, <1>5

\* Every step of a node keeps every command's invariant, and finds no
\* conflict.
LEMMA CommandNode ==
    SafetyInv /\ NodeStep => ~fault' /\ \A d \in CommandId : CommandInv(d)'
<1> SUFFICES ASSUME SafetyInv, NodeStep
             PROVE  ~fault' /\ \A d \in CommandId : CommandInv(d)'
  OBVIOUS
<1> DEFINE Goal == ~fault' /\ \A d \in CommandId : CommandInv(d)'
<1>0. ~fault /\ \A d \in CommandId : CommandInv(d)
  BY DEF SafetyInv
<1>1. CASE NodeStart \/ CloseSession \/ Registered
  <2>1. \A d \in CommandId : FewerMessages(d) /\ record'[d] = record[d]
    BY <1>1 DEF NodeStart, CloseSession, Registered, FewerMessages, Linked, coordinatorVars,
       networkVars
  <2>2. \A d \in CommandId : SameAtNode(d)
    BY <1>0, <1>1 DEF NodeStart, CloseSession, Registered, SameAtNode, CommandInv, Pending,
       coordinatorVars, networkVars, workVars, nativeVars
  <2>3. fault' = fault
    BY <1>1 DEF NodeStart, CloseSession, Registered
  <2> QED BY <1>0, <2>1, <2>2, <2>3, CommandFrame
<1>2. CASE OpenStream
  BY <1>2, CommandRecovered
<1>3. CASE SessionClosed \/ NodeCrash
  BY <1>3, CommandForgotten DEF SessionClosed, NodeCrash
<1>4. ASSUME NEW m \in acks, ReceiveAck(m[1], m[2]) PROVE Goal
  <2>1. m[1] \in CommandId /\ m[2] \in Statuses
    BY DEF SafetyInv, TypeOK
  <2> QED BY <1>4, <2>1, CommandAcknowledged
<1>5. ASSUME NEW c \in CommandId,
             ReceiveCommand(c) \/ AbandonCommand(c) \/ SendResult(c) \/ ReplayResult(c)
             \/ Claim(c) \/ CompleteCommand(c)
      PROVE  Goal
  BY <1>5, CommandQueued, CommandSent, CommandClaimed, CommandCompleted
<1>6. ASSUME NEW c \in CommandId, ExecuteExpired(c) PROVE Goal
  <2>1. Result("timed_out", "deadline_expired") \in Results
    BY DEF Result, Results, Details
  <2>2. validCommandOutcome(KindOf[c], "timed_out", "deadline_expired")
    BY DEF validCommandOutcome
  <2> QED BY <1>6, <2>1, <2>2, CommandExecuted DEF ExecuteExpired, Result
<1>7. ASSUME NEW c \in CommandId,
             ExecuteProbe(c) \/ ExecutePresent(c) \/ Executed(c, Result("succeeded", "done"), TRUE, TRUE)
      PROVE  Goal
  <2>1. Result("succeeded", "done") \in Results
    BY DEF Result, Results, Details
  <2>2. validCommandOutcome(KindOf[c], "succeeded", "done")
    BY DEF validCommandOutcome
  <2> QED BY <1>7, <2>1, <2>2, CommandExecuted DEF ExecuteProbe, ExecutePresent, Result
<1>8. ASSUME NEW c \in CommandId, ExecuteRefused(c) \/ ExecuteStartFailed(c) PROVE Goal
  <2>1. Result("rejected", "refused") \in Results
    BY DEF Result, Results, Details
  <2>2. validCommandOutcome(KindOf[c], "rejected", "refused")
    BY <1>8 DEF validCommandOutcome, authorizationSensitiveCommand, ExecuteRefused,
       ExecuteStartFailed
  <2> QED BY <1>8, <2>1, <2>2, CommandExecuted DEF ExecuteRefused, ExecuteStartFailed, Result
<1>9. ASSUME NEW c \in CommandId, ExecuteRequest(c) PROVE Goal
  <2> DEFINE detail == IF KindOf[c] = "session_ensure" THEN "startup_uncertain"
                                                      ELSE "outcome_unknown"
  <2>1. Result("indeterminate", detail) \in Results
    BY DEF Result, Results, Details
  <2>2. KindOf[c] \in {"project", "session_ensure"}
    BY <1>9, RequestAssumption DEF ExecuteRequest, PlainKinds
  <2>3. validCommandOutcome(KindOf[c], "indeterminate", detail)
    BY <2>2 DEF validCommandOutcome
  <2>4. \/ Executed(c, Result("succeeded", "done"), TRUE, TRUE)
        \/ \E y \in BOOLEAN : Executed(c, Result("indeterminate", detail), TRUE, y)
    BY <1>9 DEF ExecuteRequest
  <2> HIDE DEF detail
  <2>5. ASSUME NEW y \in BOOLEAN, Executed(c, Result("indeterminate", detail), TRUE, y) PROVE Goal
    BY <2>1, <2>3, <2>5, CommandExecuted DEF Result
  <2> QED BY <1>7, <2>4, <2>5
<1> QED
  BY <1>1, <1>2, <1>3, <1>4, <1>5, <1>6, <1>7, <1>8, <1>9 DEF NodeStep, WorkerStep

-----------------------------------------------------------------------------
(***************************************************************************)
(* The invariant, and what follows from it.                                *)
(***************************************************************************)

\* The initial state satisfies the invariant.
LEMMA SafetyInit == Init => SafetyInv
<1> SUFFICES ASSUME Init PROVE SafetyInv
  OBVIOUS
<1>1. TypeOK
  BY TypeInit
<1>2. StreamInv
  BY DEF Init, StreamInv
<1>3. KeyInv /\ FenceInv /\ ~fault
  BY DEF Init, KeyInv, Created, NoRecord, FenceInv, Unresolved, NoEntry
<1>4. ASSUME NEW c \in CommandId PROVE CommandInv(c)
  <2>1. /\ record[c] = NoRecord /\ entry[c] = NoEntry /\ stage[c] = "none" /\ runs[c] = 0
        /\ toServer = {} /\ acks = {} /\ toNode = {} /\ pending = {} /\ ephemeral = {}
        /\ applied = {}
    BY DEF Init
  <2>2. NoMessage(c) /\ Untouched(c)
    BY <2>1 DEF NoMessage, Untouched, NoEntry
  <2>3. AbsentInv(c)
    BY <2>1, <2>2 DEF AbsentInv, NoEntry, NoRecord, NoMessage
  <2>4. TrailInv(c)
    BY <2>1 DEF TrailInv, NoRecord
  <2> QED BY <2>1, <2>2, <2>3, <2>4 DEF CommandInv, NoEntry, NoRecord, HasResult
<1> QED BY <1>1, <1>2, <1>3, <1>4 DEF SafetyInv

\* The invariant does not depend on anything but the variables.
LEMMA SafetyStutter == SafetyInv /\ UNCHANGED vars => SafetyInv'
<1> SUFFICES ASSUME SafetyInv, UNCHANGED vars PROVE SafetyInv'
  OBVIOUS
<1> USE DEF vars
<1>1. TypeOK'
  BY DEF SafetyInv, TypeOK
<1>2. StreamInv' /\ KeyInv' /\ FenceInv' /\ ~fault'
  BY DEF SafetyInv, StreamInv, KeyInv, Created, FenceInv
<1>3. ASSUME NEW c \in CommandId PROVE CommandInv(c)'
  <2>1. CommandInv(c)
    BY DEF SafetyInv
  <2>2. SameAtNode(c) /\ FewerMessages(c) /\ record'[c] = record[c]
    BY <2>1 DEF SameAtNode, FewerMessages, Linked, CommandInv
  <2> QED BY <2>1, <2>2, CommandFrame
<1> QED BY <1>1, <1>2, <1>3 DEF SafetyInv

\* Every step keeps it.
LEMMA SafetyStep == SafetyInv /\ [Next]_vars => SafetyInv'
<1> SUFFICES ASSUME SafetyInv, Next PROVE SafetyInv'
  BY SafetyStutter
<1>1. TypeOK /\ StreamInv /\ KeyInv /\ FenceInv
  BY DEF SafetyInv
<1>2. StreamInv' /\ KeyInv' /\ FenceInv'
  BY <1>1, StreamStep, KeyStep, FenceStep
<1>3. \A c \in pending : HasResult(entry[c])
  BY DEF SafetyInv, TypeOK, CommandInv
<1>4. TypeOK'
  BY <1>1, <1>3, TypeCoordinator, TypeNode DEF Next
<1>5. ~fault' /\ \A d \in CommandId : CommandInv(d)'
  BY CommandCoordinator, CommandNode DEF Next
<1> QED BY <1>2, <1>4, <1>5 DEF SafetyInv

\* SafetyInv holds throughout every behaviour of the command path, whatever
\* the number of commands and the capacities of its queues and journals.
THEOREM Safety == Spec => []SafetyInv
BY SafetyInit, SafetyStep, PTL DEF Spec

\* Every variable always has its type: no handler of the coordinator or the
\* node ever stores a status, a detail or an id of the wrong kind.
THEOREM TypeCorrect == Spec => []TypeOK
<1>1. SafetyInv => TypeOK
  BY DEF SafetyInv
<1> QED BY <1>1, Safety, PTL

\* However often a controller retries, and whatever crashes, at most one
\* native request is issued for its idempotency key.
THEOREM AtMostOnceHolds == Spec => []AtMostOnce
<1>1. SafetyInv => AtMostOnce
  <2> SUFFICES ASSUME SafetyInv, NEW c \in CommandId, NEW d \in CommandId,
                      KeyOf[c] = KeyOf[d], runs[c] > 0, runs[d] > 0
               PROVE  c = d /\ runs[c] = 1
    BY DEF AtMostOnce
  <2>0. runs \in [CommandId -> Nat]
    BY DEF SafetyInv, TypeOK
  <2>1. ASSUME NEW e \in CommandId, runs[e] > 0 PROVE e \in Created /\ runs[e] = 1
    <3>1. CommandInv(e) /\ runs[e] \in Nat
      BY <2>0 DEF SafetyInv
    <3>2. ~AbsentInv(e)
      BY <2>1, <3>1 DEF AbsentInv
    <3> QED BY <2>1, <3>1, <3>2 DEF CommandInv, Untouched, Created
  <2> QED BY <2>1 DEF SafetyInv, KeyInv
<1> QED BY <1>1, Safety, PTL

\* Under the invariant every outcome is honest, and none is a failure (which
\* only agent lifecycles end in).
LEMMA SafetyHonest ==
    SafetyInv => HonestOutcome /\ \A c \in CommandId : record[c].status # "failed"
<1> SUFFICES ASSUME SafetyInv, NEW c \in CommandId
             PROVE  /\ record[c].status = "succeeded" => c \in applied
                    /\ \/ record[c].status \in {"timed_out", "unavailable"}
                       \/ record[c].status = "rejected" /\ KindOf[c] # "session_ensure"
                       => runs[c] = 0
                    /\ record[c].status # "failed"
  BY DEF HonestOutcome
<1>1. CommandInv(c) /\ entry[c] \in Entries
  BY DEF SafetyInv, TypeOK
<1>2. CASE entry[c].status = "absent"
  BY <1>1, <1>2 DEF CommandInv, AbsentInv
<1>3. CASE entry[c].status = "running"
  BY <1>1, <1>3 DEF CommandInv, IntentInv, InDoubt
<1>4. CASE HasResult(entry[c])
  <2>1. ResultInv(c) /\ (InDoubt(c) \/ record[c].status = entry[c].status)
    BY <1>1, <1>4 DEF CommandInv, ResultInv, StoredResult, Result
  <2>2. /\ HonestResult(c, StoredResult(entry[c]))
        /\ StoredResult(entry[c]).status = entry[c].status
    BY <2>1 DEF ResultInv, StoredResult, Result
  <2>3. record[c].status # "unavailable"
    BY <1>1, <1>4 DEF CommandInv, Untouched, HasResult
  <2> QED BY <2>1, <2>2, <2>3 DEF HonestResult, InDoubt
<1> QED BY <1>2, <1>3, <1>4 DEF HasResult

\* The outcome a controller reads is true of what happened at the node.
THEOREM HonestOutcomeHolds == Spec => []HonestOutcome
BY SafetyHonest, Safety, PTL

\* No journal ever meets a result or an acknowledgement that contradicts
\* what it holds, so no node gives up for good because of one.
THEOREM NoConflictHolds == Spec => []NoConflict
<1>1. SafetyInv => NoConflict
  BY DEF SafetyInv, NoConflict
<1> QED BY <1>1, Safety, PTL

\* What a node has put away as acknowledged is the coordinator's outcome.
THEOREM AcknowledgedAgreesHolds == Spec => []AcknowledgedAgrees
<1>1. SafetyInv => AcknowledgedAgrees
  <2> SUFFICES ASSUME SafetyInv, NEW c \in CommandId, entry[c].delivered
               PROVE  record[c].status = entry[c].status
    BY DEF AcknowledgedAgrees
  <2>1. CommandInv(c) /\ entry[c] \in Entries
    BY DEF SafetyInv, TypeOK
  <2> QED BY <2>1 DEF CommandInv, AbsentInv, IntentInv, ResultInv, HasResult
<1> QED BY <1>1, Safety, PTL

\* An audit trail never comes near its capacity of sixteen entries.
THEOREM TrailBoundedHolds == Spec => []TrailBounded
<1>1. SafetyInv => TrailBounded
  BY DEF SafetyInv, CommandInv, TrailInv, TrailBounded
<1> QED BY <1>1, Safety, PTL

-----------------------------------------------------------------------------
(***************************************************************************)
(* What no step of CommandDelivery ever does, and the proof that it        *)
(* implements CommandContract.                                             *)
(***************************************************************************)

\* A native request is counted only by a worker that holds the command.
LEMMA RunsChange ==
    ASSUME SafetyInv, Next, NEW c \in CommandId, runs'[c] # runs[c]
    PROVE  stage[c] = "claimed" /\ entry[c].status = "running"
<1> USE DEF coordinatorVars, networkVars, sessionVars, workVars, nativeVars
<1>0. runs \in [CommandId -> Nat] /\ CommandInv(c) /\ entry[c] \in Entries
  BY DEF SafetyInv, TypeOK
<1>1. NodeStep
  BY CoordinatorFrame DEF Next
<1>2. \E d \in CommandId, r \in Results, x \in BOOLEAN, y \in BOOLEAN : Executed(d, r, x, y)
  <2>1. /\ Result("timed_out", "deadline_expired") \in Results
        /\ Result("succeeded", "done") \in Results
        /\ Result("rejected", "refused") \in Results
        /\ Result("indeterminate", "startup_uncertain") \in Results
        /\ Result("indeterminate", "outcome_unknown") \in Results
    BY DEF Result, Results, Details
  <2>2. \E d \in CommandId : \/ ExecuteExpired(d) \/ ExecuteProbe(d) \/ ExecuteRefused(d)
                             \/ ExecutePresent(d) \/ ExecuteRequest(d) \/ ExecuteStartFailed(d)
    BY <1>1 DEF NodeStep, WorkerStep, NodeStart, OpenStream, Registered, ReceiveCommand, Claim,
       CompleteCommand, AbandonCommand, SendResult, ReplayResult, ReceiveAck, CloseSession,
       SessionClosed, NodeCrash, Forget
  <2> QED BY <2>1, <2>2 DEF ExecuteExpired, ExecuteProbe, ExecuteRefused, ExecutePresent,
             ExecuteRequest, ExecuteStartFailed
<1>3. stage[c] = "claimed"
  BY <1>0, <1>2 DEF Executed
<1>4. entry[c].status = "running"
  BY <1>0, <1>3 DEF CommandInv, AbsentInv, ResultInv, HasResult
<1> QED BY <1>3, <1>4

\* A native request for a project is issued only while no other mutation of
\* that project is in progress or in doubt at the node.
THEOREM ProjectQuarantineHolds == Spec => ProjectQuarantine
<1> DEFINE A == \A c, d \in CommandId :
                   /\ runs'[c] # runs[c]
                   /\ c # d
                   /\ ProjectOf[c] # NoProject
                   /\ ProjectOf[c] = ProjectOf[d]
                   => ~Unresolved(entry[d])
<1>1. SafetyInv /\ [Next]_vars => [A]_vars
  <2> SUFFICES ASSUME SafetyInv, Next PROVE A
    OBVIOUS
  <2> SUFFICES ASSUME NEW c \in CommandId, NEW d \in CommandId, runs'[c] # runs[c], c # d,
                      ProjectOf[c] # NoProject, ProjectOf[c] = ProjectOf[d]
               PROVE  ~Unresolved(entry[d])
    OBVIOUS
  <2>1. entry[c].status = "running"
    BY RunsChange
  <2> QED BY <2>1 DEF SafetyInv, FenceInv, Unresolved
<1> QED BY <1>1, Safety, PTL DEF Spec, ProjectQuarantine

\* A result the node has stored is never replaced.
LEMMA ResultStands ==
    ASSUME SafetyInv, Next, NEW c \in CommandId, HasResult(entry[c])
    PROVE  StoredResult(entry'[c]) = StoredResult(entry[c])
<1> USE DEF coordinatorVars, networkVars, sessionVars, workVars, nativeVars
<1>0. /\ entry \in [CommandId -> Entries] /\ CommandInv(c) /\ ResultInv(c)
      /\ stage[c] \in {"none", "sending"}
  BY DEF SafetyInv, TypeOK, CommandInv, ResultInv
<1>1. ASSUME entry'[c] = entry[c] PROVE StoredResult(entry'[c]) = StoredResult(entry[c])
  BY <1>1
<1>2. CASE CoordinatorStep
  BY <1>2, CoordinatorFrame
<1>3. CASE OpenStream
  BY <1>3 DEF OpenStream, Recover, HasResult
<1>4. ASSUME NEW d \in CommandId, Claim(d) \/ CompleteCommand(d)
      PROVE  entry'[c] = entry[c]
  <2>1. d # c
    BY <1>0, <1>4 DEF Claim, CompleteCommand
  <2> QED BY <1>0, <1>4, <2>1 DEF Claim, CompleteCommand
<1>5. ASSUME NEW m \in acks, ReceiveAck(m[1], m[2])
      PROVE  StoredResult(entry'[c]) = StoredResult(entry[c])
  <2>1. m[1] \in CommandId
    BY DEF SafetyInv, TypeOK
  <2>2. entry'[c] = entry[c] \/ entry'[c] = Acknowledge(entry[c])
    BY <1>0, <1>5, <2>1 DEF ReceiveAck
  <2> QED BY <1>0, <2>2 DEF Acknowledge, StoredResult, Entries
<1>6. ASSUME NodeStep, ~OpenStream,
             \A d \in CommandId : ~Claim(d) /\ ~CompleteCommand(d),
             \A m \in acks : ~ReceiveAck(m[1], m[2])
      PROVE  entry' = entry
  BY <1>6 DEF NodeStep, NodeStart, Registered, ReceiveCommand, WorkerStep, Executed, ExecuteExpired,
     ExecuteProbe, ExecuteRefused, ExecutePresent, ExecuteRequest, ExecuteStartFailed,
     AbandonCommand, SendResult, ReplayResult, CloseSession, SessionClosed, NodeCrash, Forget
<1> QED BY <1>1, <1>2, <1>3, <1>4, <1>5, <1>6 DEF Next

\* Neither a conclusive record of the coordinator nor a result stored by a
\* node is ever replaced, whatever arrives late.
THEOREM DecisionsStandHolds == Spec => DecisionsStand
<1> DEFINE A == \A c \in CommandId :
                   /\ Conclusive(record[c].status) => record'[c] = record[c]
                   /\ HasResult(entry[c]) => StoredResult(entry'[c]) = StoredResult(entry[c])
<1>1. SafetyInv /\ [Next]_vars => [A]_vars
  <2> SUFFICES ASSUME SafetyInv, Next PROVE A
    OBVIOUS
  <2> SUFFICES ASSUME NEW c \in CommandId, Conclusive(record[c].status)
               PROVE  record'[c] = record[c]
    BY ResultStands
  <2>0. TypeOK /\ record \in [CommandId -> Records]
    BY DEF SafetyInv, TypeOK
  <2>1. CASE NodeStep
    BY <2>1, NodeFrame DEF coordinatorVars
  <2>2. ASSUME NEW d \in CommandId, SubmitCommand(d) PROVE record'[c] = record[c]
    <3>1. c # d
      BY <2>2 DEF SubmitCommand, Conclusive, IsTerminalCommand
    <3> QED BY <2>0, <2>2, <3>1 DEF SubmitCommand
  <2>3. CASE CoordinatorStep /\ \A d \in CommandId : ~SubmitCommand(d)
    <3>1. RecordMoves(c)
      BY <2>0, <2>3, RecordsMove
    <3> QED BY <3>1 DEF RecordMoves, Conclusive, IsTerminalCommand
  <2> QED BY <2>1, <2>2, <2>3 DEF Next
<1> QED BY <1>1, Safety, PTL DEF Spec, DecisionsStand

-----------------------------------------------------------------------------
(***************************************************************************)
(* Refinement.  A submission is an Admit, an execution is an Act, and      *)
(* every other step reports or changes nothing the contract speaks of.     *)
(***************************************************************************)

toldBar == [c \in CommandId |-> Told(record[c].status)]

\* Nothing is told at the start.
LEMMA ContractInit == Init => Contract!CInit
BY DEF Init, Contract!CInit, Told, NoRecord

\* A submission admits.
LEMMA ContractAdmit ==
    ASSUME SafetyInv, NEW c \in CommandId, SubmitCommand(c)
    PROVE  Contract!Admit(c)
<1> USE DEF coordinatorVars, networkVars, sessionVars, workVars, nativeVars
<1>1. \A d \in CommandId : KeyOf[d] = KeyOf[c] => record[d].status = "absent"
  BY DEF SubmitCommand, FindCommand, Created
<1>2. \A d \in CommandId : KeyOf[d] = KeyOf[c] => toldBar[d] = "nothing"
  BY <1>1 DEF Told, toldBar
<1>3. toldBar' = [toldBar EXCEPT ![c] = "pending"]
  <2>1. record'[c].status = "accepted" /\ \A d \in CommandId \ {c} : record'[d] = record[d]
    BY DEF SubmitCommand, AcceptedRecord, SafetyInv, TypeOK
  <2>2. Told("accepted") = "pending"
    BY DEF Told
  <2>3. \A d \in CommandId \ {c} : Told(record'[d].status) = Told(record[d].status)
    BY <2>1
  <2> QED BY <2>1, <2>2, <2>3 DEF toldBar
<1>4. UNCHANGED <<runs, applied>>
  BY DEF SubmitCommand
<1> QED BY <1>2, <1>3, <1>4 DEF Contract!Admit, toldBar

\* An execution acts on a command whose outcome is open.
LEMMA ContractAct ==
    ASSUME SafetyInv, NEW c \in CommandId, NEW r, NEW x \in BOOLEAN, NEW y \in BOOLEAN,
           Executed(c, r, x, y)
    PROVE  Contract!Act(c)
<1> USE DEF coordinatorVars, networkVars, sessionVars, workVars, nativeVars
<1>1. CommandInv(c) /\ entry[c] \in Entries /\ runs \in [CommandId -> Nat]
  BY DEF SafetyInv, TypeOK
<1>2. entry[c].status = "running"
  BY <1>1 DEF Executed, CommandInv, AbsentInv, ResultInv, HasResult
<1>3. InDoubt(c) /\ runs[c] = 0
  BY <1>1, <1>2 DEF Executed, CommandInv, IntentInv
<1>4. toldBar[c] \in {"pending", "unknown"}
  BY <1>3 DEF toldBar, Told, InDoubt
<1>5. record' = record /\ toldBar' = toldBar
  BY DEF Executed, toldBar
<1>6. runs' = [runs EXCEPT ![c] = 1] \/ runs' = runs
  BY <1>1, <1>3 DEF Executed
<1>7. applied' \in {applied, applied \cup {c}}
  BY DEF Executed
<1> QED BY <1>3, <1>4, <1>5, <1>6, <1>7 DEF Contract!Act, toldBar

\* Any other step of the coordinator reports.
LEMMA ContractReport ==
    ASSUME SafetyInv, SafetyInv', CoordinatorStep, \A c \in CommandId : ~SubmitCommand(c)
    PROVE  Contract!Report
<1>1. runs' = runs /\ applied' = applied
  BY CoordinatorFrame DEF nativeVars
<1>h. (HonestOutcome /\ \A c \in CommandId : record[c].status # "failed")'
  BY SafetyHonest, PTL
<1>2. ASSUME NEW c \in CommandId
      PROVE  toldBar'[c] = toldBar[c] \/ Contract!MayReport(c, toldBar'[c])
  <2>1. RecordMoves(c)
    BY RecordsMove DEF SafetyInv
  <2>2. CASE record'[c] = record[c]
    BY <2>2 DEF toldBar
  <2>3. CASE /\ record[c].status \in {"accepted", "running", "indeterminate"}
             /\ record'[c].status \notin {"absent", "accepted"}
             /\ record[c].status = "indeterminate" => record'[c].status # "running"
    <3> DEFINE status == record'[c].status
    <3>0. status \in Statuses
      BY DEF SafetyInv, TypeOK, Records
    <3>1. toldBar[c] \in {"pending", "unknown"}
      BY <2>3 DEF toldBar, Told
    <3>2. CASE status = "running"
      BY <2>3, <3>2 DEF toldBar, Told
    <3>3. CASE status = "indeterminate"
      <4>1. toldBar'[c] = "unknown"
        BY <3>3 DEF toldBar, Told
      <4> QED BY <3>1, <4>1 DEF Contract!MayReport, toldBar
    <3>4. CASE status = "succeeded"
      <4>1. toldBar'[c] = "succeeded"
        BY <3>4 DEF toldBar, Told
      <4>2. c \in applied
        BY <1>1, <1>h, <3>4 DEF HonestOutcome
      <4> QED BY <3>1, <4>1, <4>2 DEF Contract!MayReport, toldBar
    <3>5. CASE status \in {"timed_out", "unavailable", "rejected", "failed"}
      <4>1. toldBar'[c] = "refused"
        BY <3>5 DEF toldBar, Told
      <4>2. runs[c] = 0 \/ KindOf[c] = "session_ensure"
        BY <1>1, <1>h, <3>5 DEF HonestOutcome
      <4> QED BY <3>1, <4>1, <4>2 DEF Contract!MayReport, toldBar
    <3> QED BY <2>3, <3>0, <3>2, <3>3, <3>4, <3>5 DEF Statuses
  <2> QED BY <2>1, <2>2, <2>3 DEF RecordMoves
<1> QED BY <1>1, <1>2 DEF Contract!Report, toldBar

\* Every step is a step of the contract or changes nothing it speaks of.
LEMMA ContractStep ==
    SafetyInv /\ SafetyInv' /\ [Next]_vars => [Contract!CNext]_(Contract!cvars)
<1> SUFFICES ASSUME SafetyInv, SafetyInv', [Next]_vars
             PROVE  Contract!CNext \/ UNCHANGED Contract!cvars
  OBVIOUS
<1>1. ASSUME NEW c \in CommandId, SubmitCommand(c) PROVE Contract!CNext
  BY <1>1, ContractAdmit DEF Contract!CNext
<1>2. ASSUME CoordinatorStep, \A c \in CommandId : ~SubmitCommand(c) PROVE Contract!CNext
  BY <1>2, ContractReport DEF Contract!CNext
<1>3. ASSUME NodeStep PROVE Contract!CNext \/ UNCHANGED Contract!cvars
  <2>1. record' = record
    BY <1>3, NodeFrame DEF coordinatorVars
  <2>2. CASE UNCHANGED nativeVars
    BY <2>1, <2>2 DEF nativeVars, Contract!cvars
  <2>3. ASSUME ~UNCHANGED nativeVars PROVE Contract!CNext
    <3>1. \E c \in CommandId : \/ ExecuteExpired(c) \/ ExecuteProbe(c) \/ ExecuteRefused(c)
                               \/ ExecutePresent(c) \/ ExecuteRequest(c) \/ ExecuteStartFailed(c)
      BY <1>3, <2>3 DEF NodeStep, WorkerStep, NodeStart, OpenStream, Registered, ReceiveCommand,
         Claim, CompleteCommand, AbandonCommand, SendResult, ReplayResult, ReceiveAck,
         CloseSession, SessionClosed, NodeCrash, Forget, nativeVars
    <3>2. PICK c \in CommandId : \E r : \E x, y \in BOOLEAN : Executed(c, r, x, y)
      BY <3>1 DEF ExecuteExpired, ExecuteProbe, ExecuteRefused, ExecutePresent, ExecuteRequest,
         ExecuteStartFailed
    <3> QED BY <3>2, ContractAct DEF Contract!CNext
  <2> QED BY <2>2, <2>3
<1>4. CASE UNCHANGED vars
  BY <1>4 DEF vars, Contract!cvars
<1> QED BY <1>1, <1>2, <1>3, <1>4 DEF Next

\* The whole command path, with its crashes, its lost messages and its two
\* journals, implements the contract a controller relies on.
THEOREM ContractHolds == Spec => ImplementsContract
BY ContractInit, ContractStep, Safety, PTL DEF Spec, ImplementsContract, Contract!CSpec
=============================================================================
