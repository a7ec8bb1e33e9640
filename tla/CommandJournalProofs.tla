------------------------ MODULE CommandJournalProofs ------------------------
(***************************************************************************)
(* What the operations of the coordinator's journal do to a record.        *)
(***************************************************************************)
EXTENDS CommandJournal, TLAPS

\* transitionCommand yields a record.
LEMMA TransitionType ==
    ASSUME NEW r \in Records, NEW s \in Statuses, NEW d \in Details
    PROVE  transitionCommand(r, s, d) \in Records
BY DEF transitionCommand, Records

\* So does every journal operation of the coordinator.
LEMMA RecordTypes ==
    ASSUME NEW r \in Records
    PROVE  /\ RejectCommand(r) \in Records
           /\ \A e \in BOOLEAN : DispatchCommand(r, e) \in Records
           /\ LoseNodeCommand(r) \in Records
           /\ ExpireCommand(r) \in Records
           /\ RecoverCommand(r) \in Records
           /\ \A k \in Kinds, x \in Results : FinishCommand(k, r, x) \in Records
<1>1. \A s \in Statuses, d \in Details : transitionCommand(r, s, d) \in Records
  BY TransitionType
<1>2. \A s \in Statuses, d \in Details : changeActiveCommand(r, s, d) \in Records
  BY <1>1 DEF changeActiveCommand, Statuses
<1>3. \A x \in Results : x.status \in Statuses /\ x.detail \in Details
  BY DEF Results, Statuses
<1> QED
  BY <1>1, <1>2, <1>3 DEF RejectCommand, DispatchCommand, LoseNodeCommand, ExpireCommand,
     RecoverCommand, FinishCommand, Statuses, Details

\* A lost node, the deadline tick and a restart leave no record active; a
\* dispatch leaves none accepted; a result makes none active.
LEMMA RecordsSettle ==
    ASSUME NEW r \in Records
    PROVE  /\ ~Active(LoseNodeCommand(r))
           /\ ~Active(ExpireCommand(r))
           /\ ~Active(RecoverCommand(r))
           /\ \A e \in BOOLEAN : DispatchCommand(r, e).status # "accepted"
           /\ \A k \in Kinds, x \in Results :
                FinishCommand(k, r, x) = r \/ ~Active(FinishCommand(k, r, x))
<1>1. /\ ~Active(LoseNodeCommand(r))
      /\ ~Active(ExpireCommand(r))
      /\ ~Active(RecoverCommand(r))
  BY DEF LoseNodeCommand, ExpireCommand, RecoverCommand, changeActiveCommand,
         transitionCommand, Active
<1>2. \A e \in BOOLEAN : DispatchCommand(r, e).status # "accepted"
  BY DEF DispatchCommand, transitionCommand
<1>3. \A k \in Kinds, x \in Results :
        FinishCommand(k, r, x) = r \/ ~Active(FinishCommand(k, r, x))
  BY DEF FinishCommand, transitionCommand, Active, Results
<1> QED
  BY <1>1, <1>2, <1>3
=============================================================================
