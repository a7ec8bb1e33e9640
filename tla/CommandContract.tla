-------------------------- MODULE CommandContract ---------------------------
(***************************************************************************)
(* What a controller may rely on when it submits a command, whatever       *)
(* crashes or disconnects in between.  told is the outcome the coordinator *)
(* reports, requests counts the native requests issued for a command and   *)
(* reached holds the commands whose requested native state was reached.    *)
(*                                                                         *)
(*  - One idempotency key leads to at most one command, and one command to *)
(*    at most one native request.                                          *)
(*  - Success is reported only for what was reached.                       *)
(*  - A refusal is reported only for what was never requested, and after   *)
(*    it nothing is requested any more.  (A Retractable command may be     *)
(*    refused after its request: a session start that failed.)             *)
(*  - Doubt may be resolved later; success and refusal are final.          *)
(***************************************************************************)
EXTENDS Naturals

CONSTANTS CommandId, KeyOf, Retractable

VARIABLES told, requests, reached

cvars == <<told, requests, reached>>

CInit ==
    /\ told = [c \in CommandId |-> "nothing"]
    /\ requests = [c \in CommandId |-> 0]
    /\ reached = {}

Admit(c) ==
    /\ \A d \in CommandId : KeyOf[d] = KeyOf[c] => told[d] = "nothing"
    /\ told' = [told EXCEPT ![c] = "pending"]
    /\ UNCHANGED <<requests, reached>>

\* The node acts on a command nobody has been given a final answer for.
Act(c) ==
    /\ told[c] \in {"pending", "unknown"}
    /\ \/ requests' = [requests EXCEPT ![c] = 1] /\ requests[c] = 0
       \/ requests' = requests
    /\ reached' \in {reached, reached \cup {c}}
    /\ told' = told

MayReport(c, answer) ==
    \/ told[c] = "pending" /\ answer = "unknown"
    \/ /\ told[c] \in {"pending", "unknown"}
       /\ \/ answer = "succeeded" /\ c \in reached
          \/ answer = "refused" /\ (requests[c] = 0 \/ c \in Retractable)

\* Losing a node or restarting reports on several commands at once.
Report ==
    /\ told' = [c \in CommandId |-> told'[c]]
    /\ \A c \in CommandId : told'[c] = told[c] \/ MayReport(c, told'[c])
    /\ UNCHANGED <<requests, reached>>

CNext ==
    \/ \E c \in CommandId : Admit(c) \/ Act(c)
    \/ Report

CSpec == CInit /\ [][CNext]_cvars
=============================================================================
