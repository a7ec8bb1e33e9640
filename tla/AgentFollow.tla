----------------------------- MODULE AgentFollow ----------------------------
(***************************************************************************)
(* Following one agent: the command line pins the agent it was asked for,  *)
(* polls its terminal through queries and shows what changed, and the gaps *)
(* (control/follow.go); a query reads the terminal between two looks at    *)
(* the agent (herdr/agent_query.go).  A pane has a terminal, an agent      *)
(* session, 0 while it is not known, and a text.  The way of a query       *)
(* through coordinator and node is in AgentQueries: here it succeeds or    *)
(* fails.                                                                  *)
(***************************************************************************)
EXTENDS Naturals

CONSTANTS MaxTerminal,   \* bound: terminals of the pane over time
          MaxSession,    \* bound: agent sessions of a terminal
          Texts,
          Transient,     \* failures after which following goes on
          NoView         \* nothing shown, read or known yet

ASSUME FailureAssumption == NoView \notin Transient

VARIABLES pane,      \* the native pane
          query,     \* the query under way: its first look and its text
          follower,  \* where it is, its target, its last result and its gap
          polled,    \* the outcome of the last poll
          shown,     \* the last event on the output
          followed   \* history: the agents of all snapshots shown

followVars == <<pane, query, follower, polled, shown, followed>>

NoQuery == [before |-> NoView, text |-> NoView]
Agent(p) == [terminal |-> p.terminal, session |-> p.session]

FollowInit ==
    /\ pane = [terminal |-> 1, session |-> 0, text |-> NoView]
    /\ query = NoQuery /\ polled = NoView /\ shown = NoView /\ followed = {}
    /\ follower = [at |-> "lookup", target |-> [terminal |-> 0, session |-> 0],
                   previous |-> NoView, gap |-> NoView]

(* The native pane: output, another agent session, another terminal. *)
AgentWrites ==
    /\ pane' \in [terminal : {pane.terminal}, session : {pane.session}, text : Texts]
    /\ UNCHANGED <<query, follower, polled, shown, followed>>

AgentRestarts ==
    /\ pane.session < MaxSession /\ pane' = [pane EXCEPT !.session = @ + 1]
    /\ UNCHANGED <<query, follower, polled, shown, followed>>

PaneReplaced ==
    /\ pane.terminal < MaxTerminal
    /\ \E text \in Texts :
          pane' = [terminal |-> pane.terminal + 1, session |-> 0, text |-> text]
    /\ UNCHANGED <<query, follower, polled, shown, followed>>

-----------------------------------------------------------------------------
(* getAgent: is the agent in the pane the one that is meant? *)
Matches(agent, target) ==
    /\ target.terminal # 0 => agent.terminal = target.terminal
    /\ target.session # 0 => agent.session = target.session

(* sameAgent, of the two looks of one query. *)
sameAgent(before, after, target) ==
    /\ before.terminal = after.terminal
    /\ target.session # 0 => after.session = target.session

(* The selection is pinned by a first query when it has no terminal. *)
Lookup ==
    /\ follower.at = "lookup"
    /\ follower' = [follower EXCEPT !.at = "poll", !.target = Agent(pane)]
    /\ UNCHANGED <<pane, query, polled, shown, followed>>

GetBefore ==
    /\ follower.at = "poll" /\ query = NoQuery /\ Matches(pane, follower.target)
    /\ query' = [query EXCEPT !.before = Agent(pane)]
    /\ UNCHANGED <<pane, follower, polled, shown, followed>>

ReadText ==
    /\ query.before # NoView /\ query.text = NoView
    /\ query' = [query EXCEPT !.text = [terminal |-> pane.terminal, text |-> pane.text]]
    /\ UNCHANGED <<pane, follower, polled, shown, followed>>

-----------------------------------------------------------------------------
(* followAgentWithClient, with the outcome of a poll. *)

(* Mutant of Pinned: the target stays what the lookup knew of it. *)
PinnedAtFirst(agent) == follower.target

(* Every result pins what it knows of the agent. *)
Pinned(agent) == agent

(* A result is shown when it differs from the last one or ends a gap. *)
PollSucceeds(agent, text) ==
    LET result == [agent |-> agent, text |-> text]
    IN  /\ polled' = result
        /\ IF follower.gap # NoView \/ follower.previous # result
           THEN shown' = result /\ followed' = followed \cup {agent}
           ELSE UNCHANGED <<shown, followed>>
        /\ follower' = [follower EXCEPT !.at = "rest", !.gap = NoView,
                                        !.previous = result, !.target = Pinned(agent)]

GetAfter ==
    /\ query.text # NoView /\ query' = NoQuery
    /\ Matches(pane, follower.target) /\ sameAgent(query.before, Agent(pane), follower.target)
    /\ PollSucceeds(Agent(pane), query.text)
    /\ UNCHANGED pane

(* A failure that may pass is shown once as long as it stays the same. *)
PollFails ==
    /\ follower.at = "poll" /\ query' = NoQuery
    /\ \E code \in Transient :
          /\ polled' = code
          /\ shown' = IF code # follower.gap THEN code ELSE shown
          /\ follower' = [follower EXCEPT !.at = "rest", !.gap = code]
    /\ UNCHANGED <<pane, followed>>

(* The agent has changed, or the query is refused. *)
FollowEnds ==
    /\ follower.at \in {"lookup", "poll"} /\ query' = NoQuery
    /\ follower' = [follower EXCEPT !.at = "ended"]
    /\ UNCHANGED <<pane, polled, shown, followed>>

FollowInterval ==
    /\ follower.at = "rest" /\ follower' = [follower EXCEPT !.at = "poll"]
    /\ UNCHANGED <<pane, query, polled, shown, followed>>

FollowNext ==
    \/ AgentWrites \/ AgentRestarts \/ PaneReplaced
    \/ Lookup \/ GetBefore \/ ReadText \/ GetAfter
    \/ PollFails \/ FollowEnds \/ FollowInterval

FollowSpec == FollowInit /\ [][FollowNext]_followVars

-----------------------------------------------------------------------------
(***************************************************************************)
(* What is followed is one agent, and what is shown of it is true: all     *)
(* snapshots are of one terminal and, from the first that knows it, of one *)
(* agent session (follow.go:170), and a text is one of that terminal,      *)
(* whatever happens in the pane between the steps of a query               *)
(* (agent_query.go:96); between two polls the last event shown is the      *)
(* outcome of the last poll, also after a gap in which nothing changed.    *)
(***************************************************************************)
FollowsOne ==
    /\ \A a, b \in followed :
          /\ a.terminal = b.terminal
          /\ a.session # 0 /\ b.session # 0 => a.session = b.session
    /\ follower.at = "rest" => shown = polled
    /\ polled \notin Transient \cup {NoView} => polled.text.terminal = polled.agent.terminal

=============================================================================
