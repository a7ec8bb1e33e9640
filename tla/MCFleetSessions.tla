--------------------------- MODULE MCFleetSessions ---------------------------
(***************************************************************************)
(* Small instances of FleetSessions.                                       *)
(***************************************************************************)
EXTENDS FleetSessions, TLC

CONSTANTS n1, n2, c1, c2

OneNode == {n1}
TwoNodes == {n1, n2}
FirstTarget == [c \in CommandId |-> n1]

(***************************************************************************)
(* Three streams that wait for one another, or two and a command.  What is *)
(* restricted, submissions and new streams, is nothing the fairness is of. *)
(***************************************************************************)
WaitingNext ==
    /\ Next
    /\ pc'[3] = "unused" \/ \A c \in CommandId : record'[c].status = "absent"

WaitingSpec == Init /\ [][WaitingNext]_vars /\ Fairness
=============================================================================
