---------------------------- MODULE MCFleetView -----------------------------
(***************************************************************************)
(* The coordinator's view of its nodes, one question at a time: the        *)
(* streams of two nodes that take over from each other ("takeover"), the   *)
(* commands queued on two overlapping streams of one node ("commands"),    *)
(* what a stream tells of the native topology ("topology"), two watchers   *)
(* of the view ("fleet"), and a follower of one agent ("agent").           *)
(***************************************************************************)
EXTENDS MCFleetSessions, HerdrObserver, FleetWatch, AgentFollow

VARIABLE part

\* The names of nodes do not matter, so the first stream is of n1; but for
\* "takeover" all streams are, as the commands are for n1.
MCInit ==
    /\ part \in {"takeover", "commands", "topology", "fleet", "agent"}
    /\ Init /\ ObserveInit /\ WatchInit /\ FollowInit
    /\ node[1] = n1
    /\ part # "takeover" => node = [t \in Stream |-> n1]

\* No command is submitted.
Takeover == Next /\ record' = record

\* Two streams, two units of time.
Commands == Next /\ clock' <= 2 /\ pc'[3] = "unused"

MCNext ==
    \/ /\ part = "takeover" /\ Takeover
       /\ UNCHANGED <<part, observeVars, watchVars, followVars>>
    \/ /\ part = "commands" /\ Commands
       /\ UNCHANGED <<part, observeVars, watchVars, followVars>>
    \/ /\ part = "topology" /\ ObserveNext
       /\ UNCHANGED <<part, vars, watchVars, followVars>>
    \/ /\ part = "fleet" /\ WatchNext
       /\ UNCHANGED <<part, vars, observeVars, followVars>>
    \/ /\ part = "agent" /\ FollowNext
       /\ UNCHANGED <<part, vars, observeVars, watchVars>>

MCSpec == MCInit /\ [][MCNext]_<<part, vars, observeVars, watchVars, followVars>>

\* The commands have one target.
CommandSymmetry == Permutations({c1, c2})
=============================================================================
