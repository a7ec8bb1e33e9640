---------------------------- MODULE HerdrObserver ----------------------------
(***************************************************************************)
(* How the coordinator comes to know the native topology of a node: the    *)
(* node's observer subscribes to events, which are only hints, and takes   *)
(* complete snapshots (herdr/observe.go); the session forwards them with   *)
(* its heartbeats (node/node.go); and the coordinator keeps the last one   *)
(* (server/fleet.go).  A tree is the number of changes it has seen;        *)
(* Unknown stands for a state that is not ready.  The age of a state is    *)
(* left out.                                                               *)
(***************************************************************************)
EXTENDS Naturals, Sequences

CONSTANTS MaxChanges,      \* bound: changes of the topology
          MaxSequence,     \* bound: states published in one stream
          MaxSessions,     \* bound: streams over time
          MaxWire,         \* messages on their way to the coordinator
          Unknown

ASSUME UnknownAssumption == Unknown \notin Nat

VARIABLES topology,   \* the native topology
          feed,       \* the subscription: is it read, and the events not yet read
          hints,      \* a hint waits in the channel, which holds one
          obs,        \* where the observer is, and the tree it holds
          sequence,   \* the number of the last state
          states,     \* the channel to the session, which holds one
          localState, \* the session's last tree
          wire,       \* states and heartbeats on their way
          picture,    \* the coordinator's view: number, tree, workspace_ready
          rejected,   \* the coordinator refused a state
          sessions    \* streams so far

observeVars == <<topology, feed, hints, obs, sequence, states, localState, wire,
                 picture, rejected, sessions>>

NoFeed == [state |-> "none", events |-> 0]
Observing(step, tree) == [step |-> step, tree |-> tree]
NewView == [number |-> 0, tree |-> Unknown, ready |-> FALSE]

ObserveInit ==
    /\ topology = 1 /\ feed = NoFeed /\ hints = FALSE
    /\ obs = Observing("ping", Unknown) /\ sequence = 0
    /\ states = <<>> /\ localState = Unknown /\ wire = <<>>
    /\ picture = NewView /\ rejected = FALSE /\ sessions = 1

At(step) == obs.step = step
Goes(step, tree) == obs' = Observing(step, tree)
NodeSide == UNCHANGED <<localState, wire, picture, rejected, sessions>>

-----------------------------------------------------------------------------
(* The native server tells every subscriber of a change. *)
Change ==
    /\ topology < MaxChanges /\ topology' = topology + 1
    /\ feed' = IF feed.state = "open" THEN [feed EXCEPT !.events = @ + 1] ELSE feed
    /\ UNCHANGED <<hints, obs, sequence, states>> /\ NodeSide

(* The goroutine of session: every event leaves at most one hint; its end   *)
(* is remembered as the subscription's failure.                             *)
ReadEvent ==
    /\ feed.state = "open" /\ feed.events > 0
    /\ feed' = [feed EXCEPT !.events = @ - 1] /\ hints' = TRUE
    /\ UNCHANGED <<topology, obs, sequence, states>> /\ NodeSide

FeedFails ==
    /\ feed.state = "open" /\ feed' = [feed EXCEPT !.state = "failed"]
    /\ UNCHANGED <<topology, hints, obs, sequence, states>> /\ NodeSide

-----------------------------------------------------------------------------
(* session: ping and subscribe before the first snapshot. *)
Ping ==
    /\ At("ping") /\ Goes("subscribe", Unknown)
    /\ UNCHANGED <<topology, feed, hints, sequence, states>> /\ NodeSide

Subscribe ==
    /\ At("subscribe") /\ Goes("ask", Unknown)
    /\ feed' = [NoFeed EXCEPT !.state = "open"] /\ hints' = FALSE
    /\ UNCHANGED <<topology, sequence, states>> /\ NodeSide

(* The native server answers a snapshot with what it has then. *)
Ask ==
    /\ At("ask") /\ Goes("answered", topology)
    /\ UNCHANGED <<topology, feed, hints, sequence, states>> /\ NodeSide

(* A failed subscription makes even a successful snapshot worthless. *)
CheckFeed ==
    /\ At("answered") /\ feed.state = "open" /\ Goes("publish", obs.tree)
    /\ UNCHANGED <<topology, feed, hints, sequence, states>> /\ NodeSide

(* Mutant of AfterPublish: hints that came before the state was published   *)
(* are taken for answered.                                                  *)
HintsCleared == FALSE

(* Mind what was hinted at while the snapshot was under way. *)
AfterPublish == hints

(* publish: the state gets the next number and waits for the channel. *)
Publish ==
    /\ At("publish") /\ states = <<>> /\ sequence < MaxSequence
    /\ sequence' = sequence + 1
    /\ states' = <<[number |-> sequence', tree |-> obs.tree]>>
    /\ hints' = AfterPublish
    /\ Goes("rest", obs.tree)
    /\ UNCHANGED <<topology, feed>> /\ NodeSide

(* The periodic refresh, or a hint and the pause after it. *)
Refresh ==
    /\ At("rest") /\ Goes("ask", Unknown)
    /\ UNCHANGED <<topology, feed, hints, sequence, states>> /\ NodeSide

TakeHint ==
    /\ At("rest") /\ hints /\ hints' = FALSE /\ Goes("pause", Unknown)
    /\ UNCHANGED <<topology, feed, sequence, states>> /\ NodeSide

Paused ==
    /\ At("pause") /\ feed.state = "open" /\ Goes("ask", Unknown)
    /\ UNCHANGED <<topology, feed, hints, sequence, states>> /\ NodeSide

(* A request fails, an answer is invalid or too large, or the subscription  *)
(* is found to have failed: the session ends and unavailable is published.  *)
SessionFails ==
    /\ obs.step \in {"ping", "subscribe", "ask", "answered", "publish", "pause", "rest"}
    /\ obs.step \in {"pause", "rest"} => feed.state = "failed"
    /\ feed' = NoFeed /\ hints' = FALSE /\ Goes("unavailable", Unknown)
    /\ UNCHANGED <<topology, sequence, states>> /\ NodeSide

PublishUnavailable ==
    /\ At("unavailable") /\ states = <<>> /\ sequence < MaxSequence
    /\ sequence' = sequence + 1
    /\ states' = <<[number |-> sequence', tree |-> Unknown]>>
    /\ Goes("retry", Unknown)
    /\ UNCHANGED <<topology, feed, hints>> /\ NodeSide

Retry ==
    /\ At("retry") /\ Goes("ping", Unknown)
    /\ UNCHANGED <<topology, feed, hints, sequence, states>> /\ NodeSide

-----------------------------------------------------------------------------
(* The session's loop sends states and heartbeats in one order. *)
Transmit(message) == Len(wire) < MaxWire /\ wire' = Append(wire, message)

ForwardState ==
    /\ states # <<>> /\ states' = <<>>
    /\ localState' = Head(states).tree
    /\ Transmit([type |-> "state", number |-> Head(states).number, tree |-> Head(states).tree])
    /\ UNCHANGED <<topology, feed, hints, obs, sequence, picture, rejected, sessions>>

mutationReadiness == localState # Unknown

SendHeartbeat ==
    /\ Transmit([type |-> "heartbeat", ready |-> mutationReadiness])
    /\ UNCHANGED <<topology, feed, hints, obs, sequence, states, localState, picture,
                   rejected, sessions>>

-----------------------------------------------------------------------------
(* update: the numbers of one stream increase, and what is not ready takes  *)
(* the readiness with it.                                                   *)
UpdateHerdr ==
    /\ wire # <<>> /\ Head(wire).type = "state" /\ wire' = Tail(wire)
    /\ LET s == Head(wire)
       IN  IF s.number <= picture.number THEN rejected' = TRUE /\ UNCHANGED picture
           ELSE /\ picture' = [number |-> s.number, tree |-> s.tree,
                             ready |-> picture.ready /\ s.tree # Unknown]
                /\ UNCHANGED rejected
    /\ UNCHANGED <<topology, feed, hints, obs, sequence, states, localState, sessions>>

(* heartbeat: readiness needs a ready state of this stream. *)
HeartbeatReady ==
    /\ wire # <<>> /\ Head(wire).type = "heartbeat" /\ wire' = Tail(wire)
    /\ picture' = [picture EXCEPT !.ready = Head(wire).ready /\ picture.tree # Unknown]
    /\ UNCHANGED <<topology, feed, hints, obs, sequence, states, localState, rejected,
                   sessions>>

(* A stream ends with its observer; the next starts from nothing on both    *)
(* sides.                                                                   *)
NewStream ==
    /\ sessions < MaxSessions /\ sessions' = sessions + 1
    /\ feed' = NoFeed /\ hints' = FALSE /\ Goes("ping", Unknown) /\ sequence' = 0
    /\ states' = <<>> /\ localState' = Unknown /\ wire' = <<>> /\ picture' = NewView
    /\ UNCHANGED <<topology, rejected>>

ObserveNext ==
    \/ Change \/ ReadEvent \/ FeedFails
    \/ Ping \/ Subscribe \/ Ask \/ CheckFeed \/ Publish \/ Refresh \/ TakeHint \/ Paused
    \/ SessionFails \/ PublishUnavailable \/ Retry
    \/ ForwardState \/ SendHeartbeat \/ UpdateHerdr \/ HeartbeatReady \/ NewStream

ObserveSpec == ObserveInit /\ [][ObserveNext]_observeVars

-----------------------------------------------------------------------------
(* Nothing more will be told to the coordinator unless something happens. *)
Delivered == states = <<>> /\ \A i \in DOMAIN wire : wire[i].type # "state"

(***************************************************************************)
(* The coordinator's picture is right whenever the node is at rest: with   *)
(* no event unread and no hint left (observe.go:215) it shows the topology *)
(* as it is, however changes, snapshots, failures and streams overlapped;  *)
(* while the observer waits to try again it shows nothing, and nothing is  *)
(* called ready; and no state is refused for its number (fleet.go:477).    *)
(***************************************************************************)
PictureCurrent ==
    /\ ~rejected
    /\ Delivered /\ At("rest") /\ feed = [state |-> "open", events |-> 0] /\ ~hints
          => picture.tree = topology
    /\ Delivered /\ At("retry") => picture.tree = Unknown
    /\ picture.ready => picture.tree # Unknown

=============================================================================
