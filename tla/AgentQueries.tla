---------------------------- MODULE AgentQueries ----------------------------
(***************************************************************************)
(* Queries of an agent, from a caller at the coordinator to the native     *)
(* session and back.  Nothing of a query is stored: the coordinator keeps  *)
(* the calls that wait and, for the ones it gave up, tombstones by which   *)
(* it knows a late answer; the node keeps the queries at work.             *)
(*   (server/agents.go, server/sessions.go, node/agents.go,                *)
(*    herdr/agent_query.go)                                                *)
(*                                                                         *)
(* One stream of one node and one session.  The stream's end, which ends   *)
(* every call, is the one fault that is reported here and goes no further. *)
(* An answer is the incarnation it was read from, or 0 for an error.       *)
(***************************************************************************)
EXTENDS NativeSessions, SequencesExt

CONSTANTS
    Query,          \* calls of QueryAgent
    MaxPending,     \* calls that may wait at a node (8)
    MaxOutbound,    \* the queue to the stream (16)
    MaxTombstones,  \* remembered cancellations (128)
    MaxActive,      \* queries at work on the node (8)
    MaxResults      \* the node's answers that wait (8)

ASSUME QueryAssumption ==
    /\ MaxOutbound \in Nat
    /\ None \notin {"stuck", "unmatched", "duplicate", "exhausted"}

VARIABLES
    cview,      \* the coordinator's view of the session
    call,       \* each call: its step, the server it is pinned to, its answer
    pending,    \* the calls that wait for an answer
    canceled,   \* the tombstones
    evicted,    \* tombstones dropped for want of room
    reply,      \* the answer in each call's channel, which holds one
    outbound,   \* queries and cancellations to send
    toNode,     \* and sent
    active,     \* the node's queries: step and answer
    results,    \* answers that wait on the node
    toServer,   \* and answers sent
    fault       \* "stuck": an answer for a full channel, under the fleet's lock;
                \* "unmatched", "duplicate", "exhausted": what ends the stream

queryVars == <<cview, call, pending, canceled, evicted, reply, outbound, toNode,
               active, results, toServer, fault>>

vars == <<sessionVars, queryVars>>

QueriesInit ==
    /\ cview = [incarnation |-> 0, tree |-> Unavailable]
    /\ call = [q \in Query |-> [step |-> "idle", target |-> 0, answer |-> 0]]
    /\ pending = {} /\ canceled = {} /\ evicted = {}
    /\ reply = [q \in Query |-> None]
    /\ outbound = <<>> /\ toNode = <<>>
    /\ active = [q \in Query |-> [step |-> "none", value |-> 0]]
    /\ results = <<>> /\ toServer = <<>>
    /\ fault = None

-----------------------------------------------------------------------------
(* The coordinator. *)

selectedSessionReady(v, incarnation) ==
    v.incarnation = incarnation /\ v.incarnation # 0 /\ v.tree # Unavailable

Put(q, kind) == [query |-> q, kind |-> kind]

QueryAgent(q) ==
    /\ call[q].step = "idle"
    /\ selectedSessionReady(cview, cview.incarnation)
    /\ Cardinality(pending) < MaxPending /\ Len(outbound) < MaxOutbound
    /\ call' = [call EXCEPT ![q].step = "waiting", ![q].target = cview.incarnation]
    /\ pending' = pending \cup {q}
    /\ outbound' = Append(outbound, Put(q, "query"))
    /\ UNCHANGED <<sessionVars, cview, canceled, evicted, reply, toNode, active, results, toServer, fault>>

(* A tombstone for each of the queries; for want of room, any are dropped. *)
Entomb(qs) ==
    \E kept \in SUBSET (canceled \cup qs) :
        /\ Cardinality(kept) = IF Cardinality(canceled \cup qs) > MaxTombstones THEN MaxTombstones
                               ELSE Cardinality(canceled \cup qs)
        /\ qs # {} => kept \cap qs # {}
        /\ canceled' = kept
        /\ evicted' = evicted \cup ((canceled \cup qs) \ kept)

(* The queue with a cancellation for each of the queries, in some order and *)
(* as far as there is room: the time on the wire ends the others.           *)
WithCancels(queue, qs) ==
    {LET all == queue \o s IN SubSeq(all, 1, IF Len(all) <= MaxOutbound THEN Len(all) ELSE MaxOutbound)
        : s \in SetToSeqs({Put(q, "cancel") : q \in qs})}

(* The caller's time is up: cancelAgentQuery, unless an answer was there. *)
GiveUp(q) ==
    /\ call[q].step = "waiting"
    /\ call' = [call EXCEPT ![q].step = "done"]
    /\ IF q \in pending
       THEN /\ pending' = pending \ {q}
            /\ Entomb({q})
            /\ outbound' \in WithCancels(outbound, {q})
       ELSE UNCHANGED <<pending, canceled, evicted, outbound>>
    /\ UNCHANGED <<sessionVars, cview, reply, toNode, active, results, toServer, fault>>

(* The caller takes the answer, and looks at the session once more. *)
Return(q) ==
    /\ call[q].step = "waiting" /\ reply[q] # None
    /\ reply' = [reply EXCEPT ![q] = None]
    /\ call' = [call EXCEPT ![q].step = "done",
                            ![q].answer = IF selectedSessionReady(cview, call[q].target) THEN reply[q] ELSE 0]
    /\ UNCHANGED <<sessionVars, cview, pending, canceled, evicted, outbound, toNode, active, results, toServer, fault>>

(* An answer goes into the call's channel while the fleet is locked. *)
Answer(qs, value) ==
    /\ reply' = [q \in Query |-> IF q \in qs THEN value ELSE reply[q]]
    /\ fault' = IF \E q \in qs : reply[q] # None THEN "stuck" ELSE fault

(* Mutant of StillPending: a call whose session is gone goes on waiting. *)
StillPendingAll(qs) == pending

StillPending(qs) == pending \ qs

cancelSessionQueries(qs, queue) ==
    /\ pending' = StillPending(qs)
    /\ Entomb(qs)
    /\ outbound' \in WithCancels(queue, qs)
    /\ Answer(qs, 0)

UpdateSessions ==
    /\ inventory # <<>>
    /\ inventory' = <<>>
    /\ cview' = Head(inventory)
    /\ cancelSessionQueries(IF selectedSessionReady(cview', cview.incarnation) THEN {} ELSE pending, outbound)
    /\ UNCHANGED <<native, managerVars, discovery, watch, updates, view, call, toNode, active, results, toServer>>

(* What the coordinator has seen of the session is too old to count. *)
SessionStale ==
    /\ cview.tree # Unavailable
    /\ cview' = [cview EXCEPT !.tree = Unavailable]
    /\ UNCHANGED <<sessionVars, call, pending, canceled, evicted, reply, outbound, toNode, active, results, toServer, fault>>

(* The stream takes the next envelope; a query whose call is over, or whose *)
(* session is gone, is not sent.                                            *)
Send ==
    /\ outbound # <<>> /\ fault = None
    /\ LET e == Head(outbound) IN
       IF e.kind = "query" /\ e.query \in pending /\ ~selectedSessionReady(cview, call[e.query].target)
       THEN cancelSessionQueries({e.query}, Tail(outbound)) /\ UNCHANGED toNode
       ELSE /\ outbound' = Tail(outbound)
            /\ toNode' = IF e.kind = "cancel" \/ e.query \in pending THEN Append(toNode, e) ELSE toNode
            /\ UNCHANGED <<pending, canceled, evicted, reply, fault>>
    /\ UNCHANGED <<sessionVars, cview, call, active, results, toServer>>

finishAgentQuery ==
    /\ toServer # <<>> /\ fault = None
    /\ toServer' = Tail(toServer)
    /\ LET q == Head(toServer).query IN
       CASE q \notin pending ->
              /\ fault' = IF q \in canceled THEN fault ELSE "unmatched"
              /\ UNCHANGED <<pending, canceled, evicted, outbound, reply>>
         [] q \in pending /\ ~selectedSessionReady(cview, call[q].target) -> cancelSessionQueries({q}, outbound)
         [] q \in pending /\ selectedSessionReady(cview, call[q].target) ->
              /\ pending' = pending \ {q}
              /\ Answer({q}, Head(toServer).value)
              /\ UNCHANGED <<canceled, evicted, outbound>>
    /\ UNCHANGED <<sessionVars, cview, call, toNode, active, results>>

(* A tombstone lives ten seconds longer than the query, which is taken to be *)
(* longer than its answer needs.                                             *)
TombstoneExpires(q) ==
    /\ q \in canceled
    /\ active[q].step = "none"
    /\ \A s \in {outbound, toNode, results, toServer} : \A i \in DOMAIN s : s[i].query # q
    /\ canceled' = canceled \ {q}
    /\ UNCHANGED <<sessionVars, cview, call, pending, evicted, reply, outbound, toNode, active, results, toServer, fault>>

-----------------------------------------------------------------------------
(* The node. *)

Busy == {q \in Query : active[q].step # "none"}
Result(q, value) == [query |-> q, value |-> value]

(* A query the node has no room for is answered at once, if that can wait. *)
Start(q) ==
    LET room == Cardinality(Busy) < MaxActive
        wait == Len(results) < MaxResults IN
    /\ active' = IF q \notin Busy /\ room THEN [active EXCEPT ![q] = [step |-> "resolve", value |-> 0]] ELSE active
    /\ results' = IF q \notin Busy /\ ~room /\ wait THEN Append(results, Result(q, 0)) ELSE results
    /\ fault' = IF q \in Busy THEN "duplicate" ELSE IF ~room /\ ~wait THEN "exhausted" ELSE fault

Failed == [step |-> "answer", value |-> 0]

(* A cancellation reaches a query up to its last look at its context. *)
Canceling(q) == active[q].step \notin {"none", "answer"}

NodeReceive ==
    /\ toNode # <<>> /\ fault = None
    /\ toNode' = Tail(toNode)
    /\ LET e == Head(toNode) IN
       IF e.kind = "query" THEN Start(e.query)
       ELSE /\ active' = IF Canceling(e.query) THEN [active EXCEPT ![e.query] = Failed] ELSE active
            /\ UNCHANGED <<results, fault>>
    /\ UNCHANGED <<sessionVars, cview, call, pending, canceled, evicted, reply, outbound, toServer>>

Step(q, step, value) == active' = [active EXCEPT ![q] = [step |-> step, value |-> value]]

(* The query's time is up on the node, or one of its calls fails. *)
NodeGivesUp(q) ==
    /\ Canceling(q)
    /\ active' = [active EXCEPT ![q] = Failed]
    /\ UNCHANGED <<sessionVars, cview, call, pending, canceled, evicted, reply, outbound, toNode, results, toServer, fault>>

(* The session is resolved to the server the query is pinned to, ... *)
Resolve(q) ==
    /\ active[q].step = "resolve"
    /\ Status
    /\ IF Current = call[q].target THEN Step(q, "read", 0) ELSE Step(q, "answer", 0)
    /\ UNCHANGED <<native, process, gate, ensure, observerVars, cview, call, pending, canceled, evicted,
                   reply, outbound, toNode, results, toServer, fault>>

(* ... the agent is read from whichever server answers then, ... *)
Read(q) ==
    /\ active[q].step = "read"
    /\ IF native.up THEN Step(q, "verify", Current) ELSE Step(q, "answer", 0)
    /\ UNCHANGED <<sessionVars, cview, call, pending, canceled, evicted, reply, outbound, toNode, results, toServer, fault>>

(* Mutant of Verified: the session is not resolved again. *)
VerifiedOnce(q) == TRUE

Verified(q) == Current = call[q].target

(* ... and the session is resolved again before the answer counts. *)
Verify(q) ==
    /\ active[q].step = "verify"
    /\ Status
    /\ Step(q, "answer", IF Verified(q) THEN active[q].value ELSE 0)
    /\ UNCHANGED <<native, process, gate, ensure, observerVars, cview, call, pending, canceled, evicted,
                   reply, outbound, toNode, results, toServer, fault>>

PutAnswer(q) ==
    /\ active[q].step = "answer" /\ Len(results) < MaxResults
    /\ results' = Append(results, Result(q, active[q].value))
    /\ Step(q, "none", 0)
    /\ UNCHANGED <<sessionVars, cview, call, pending, canceled, evicted, reply, outbound, toNode, toServer, fault>>

SendAnswer ==
    /\ results # <<>> /\ fault = None
    /\ results' = Tail(results)
    /\ toServer' = Append(toServer, Head(results))
    /\ UNCHANGED <<sessionVars, cview, call, pending, canceled, evicted, reply, outbound, toNode, active, fault>>

QueriesNext ==
    \/ UpdateSessions \/ SessionStale \/ Send \/ finishAgentQuery \/ NodeReceive \/ SendAnswer
    \/ \E q \in Query :
        \/ QueryAgent(q) \/ GiveUp(q) \/ Return(q) \/ TombstoneExpires(q)
        \/ NodeGivesUp(q) \/ Resolve(q) \/ Read(q) \/ Verify(q) \/ PutAnswer(q)

Init == SessionsInit /\ QueriesInit
Next == (SessionsNext /\ UNCHANGED queryVars) \/ QueriesNext
Spec == Init /\ [][Next]_vars

-----------------------------------------------------------------------------
(* Properties. *)

(* A tree of the session is only ever shown under the incarnation it was     *)
(* read from, at the node, on the wire and at the coordinator, although      *)
(* reading, labelling, queueing and publishing are steps of different        *)
(* threads and the server may be replaced between any two.                   *)
TreeLabelled ==
    /\ Labelled(view) /\ Labelled(cview)
    /\ \A i \in DOMAIN inventory : Labelled(inventory[i])

(* What a caller gets was read from the very server that the call was pinned *)
(* to when it was made, or it gets an error.                                 *)
FreshAnswer == \A q \in Query : call[q].answer \in {0, call[q].target}

(* A call's channel takes one answer, so the fleet's lock is never held      *)
(* while one is put there; no query reaches the node twice; and an answer    *)
(* that comes after its call was given up ends the stream only when its      *)
(* tombstone had to make room for another.                                   *)
AnswersMatched ==
    /\ fault \notin {"stuck", "duplicate"}
    /\ fault = "unmatched" => evicted # {}
=============================================================================
