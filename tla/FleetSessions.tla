---------------------------- MODULE FleetSessions ----------------------------
(***************************************************************************)
(* The coordinator's fleet store (server/fleet.go) under several Connect   *)
(* handlers (server/server.go) at once: how a node's new stream takes over *)
(* from its old one, what happens to the commands admitted on the old one, *)
(* and which nodes the store remembers while they are away.                *)
(*                                                                         *)
(* Every operation holds fleetStore.mu, so it is one step; what is read    *)
(* before the lock is taken is not.  In particular Connect reads the time  *)
(* before beginSession takes the lock, and keeps it while it waits for the *)
(* old stream: now[t].                                                     *)
(*                                                                         *)
(* A stream's transport and its handler end independently.  A broken       *)
(* transport is noticed by the handler later; a handler that returned      *)
(* leaves behind the Send it gave up on.                                   *)
(*                                                                         *)
(* Storage may fail at any write.  The first failure is final: fatal keeps *)
(* its cause and the process stops.  The journal also fails a write whose  *)
(* time lies before the record's last audit entry (cause "trail"), and the *)
(* fleet table one that exceeds its row limit (cause "rows").              *)
(*                                                                         *)
(* The commands are of a kind without a staged receipt; CommandDelivery    *)
(* models what they do beyond the coordinator.                             *)
(***************************************************************************)
EXTENDS CommandJournal, Integers, FiniteSets

CONSTANTS
    Node,
    CommandId,
    TargetOf,      \* the node each command is for
    MaxFleetNodes, \* maxFleetNodes, also the row limit of the table (128)
    OutboundCap,   \* capacity of fleetEntry.outbound (16)
    Retention,     \* offlineRetention (15 min), in clock units
    Ttl,           \* a command's time to live, in clock units
    MaxStreams,    \* bound on the streams opened; the code has none
    MaxClock       \* bound on the coordinator's clock

ASSUME TargetAssumption == TargetOf \in [CommandId -> Node]

ASSUME FleetAssumption ==
    /\ MaxFleetNodes \in Nat
    /\ OutboundCap \in Nat
    /\ Retention \in Nat
    /\ Ttl \in Nat \ {0}
    /\ MaxStreams \in Nat
    /\ MaxClock \in Nat

\* Streams are numbered in the order in which Connect read their Hello.
Stream == 1..MaxStreams
Time == 0..MaxClock

VARIABLES
    clock,     \* the coordinator's clock
    up,        \* the coordinator process runs
    fatal,     \* fleetStore.storageErr, by its cause
    known,     \* the keys of fleetStore.nodes
    entry,     \* the stream of a node's fleetEntry, 0 for a restored one
    view,      \* the entry's NodeView
    row,       \* durable: LastSeen of the node's stored view, or NoRow
    pc,        \* where a stream's Connect handler is
    node,      \* the node a stream's Hello names
    now,       \* the time Connect read before beginSession, while it is there
    broken,    \* the transport is gone, the handler runs
    closed,    \* fleetEntry.done is closed
    sending,   \* a Send of the stream is in progress (fleetEntry.sends)
    outbound,  \* fleetEntry.outbound
    record,    \* durable: the command journal
    updated,   \* durable: a record's UpdatedAt
    expires    \* durable: a command's ExpiresAt

fleetVars == <<known, entry, view, row>>
streamVars == <<pc, node, now, broken, closed, sending, outbound>>
commandVars == <<record, updated, expires>>
vars == <<clock, up, fatal, known, entry, view, row, pc, node, now, broken,
          closed, sending, outbound, record, updated, expires>>

NoRow == -1
Causes == {"none", "io", "trail", "rows"}

(***************************************************************************)
(* unused; begin: in beginSession; serving: in the loop of Connect;        *)
(* prepared: about to send; sending: in sendNodeEnvelope; returning: about *)
(* to call end; done: returned, so the stream's context is done too.       *)
(***************************************************************************)
Places == {"unused", "begin", "serving", "prepared", "sending", "returning", "done"}

Views == [connected : BOOLEAN, ready : BOOLEAN, seen : Time]
View(connected, ready, seen) ==
    [connected |-> connected, ready |-> ready, seen |-> seen]

TypeOK ==
    /\ clock \in Time
    /\ up \in BOOLEAN
    /\ fatal \in Causes
    /\ known \subseteq Node
    /\ entry \in [Node -> Stream \cup {0}]
    /\ view \in [Node -> Views]
    /\ row \in [Node -> Time \cup {NoRow}]
    /\ pc \in [Stream -> Places]
    /\ node \in [Stream -> Node]
    /\ now \in [Stream -> Time]
    /\ broken \in [Stream -> BOOLEAN]
    /\ closed \in [Stream -> BOOLEAN]
    /\ sending \in [Stream -> BOOLEAN]
    /\ outbound \in [Stream -> SUBSET CommandId]
    /\ \A t \in Stream : Cardinality(outbound[t]) <= OutboundCap
    /\ record \in [CommandId -> Records]
    /\ updated \in [CommandId -> Time]
    /\ expires \in [CommandId -> Nat]

Init ==
    /\ clock = 0
    /\ up = TRUE
    /\ fatal = "none"
    /\ known = {}
    /\ entry = [n \in Node |-> 0]
    /\ view = [n \in Node |-> View(FALSE, FALSE, 0)]
    /\ row = [n \in Node |-> NoRow]
    /\ pc = [t \in Stream |-> "unused"]
    /\ node \in [Stream -> Node]
    /\ now = [t \in Stream |-> 0]
    /\ broken = [t \in Stream |-> FALSE]
    /\ closed = [t \in Stream |-> FALSE]
    /\ sending = [t \in Stream |-> FALSE]
    /\ outbound = [t \in Stream |-> {}]
    /\ record = [c \in CommandId |-> NoRecord]
    /\ updated = [c \in CommandId |-> 0]
    /\ expires = [c \in CommandId |-> 0]

-----------------------------------------------------------------------------
(***************************************************************************)
(* The journal with its times.                                             *)
(***************************************************************************)

TargetedAt(n) == {c \in CommandId : TargetOf[c] = n}

\* validateCommandRecord refuses an audit entry older than the last one;
\* the whole transaction is rolled back.
Backwards(S, at) == \E c \in S : Active(record[c]) /\ updated[c] > at

\* changeActiveCommands on the commands in S.
ChangeActive(S, change(_), at) ==
    /\ record' = [c \in CommandId |-> IF c \in S THEN change(record[c]) ELSE record[c]]
    /\ updated' = [c \in CommandId |->
                     IF c \in S /\ Active(record[c]) THEN at ELSE updated[c]]
    /\ UNCHANGED expires

\* Mutant: a stream that takes over leaves its predecessor's commands alone.
loseCommandsNever(n, at) == UNCHANGED commandVars

loseCommands(n, at) == ChangeActive(TargetedAt(n), LoseNodeCommand, at)

-----------------------------------------------------------------------------
(***************************************************************************)
(* The fleet store.                                                        *)
(***************************************************************************)

Running == up /\ fatal = "none"

\* The stream's context is done.
Gone(t) == broken[t] \/ pc[t] = "done"

current(t) == node[t] \in known /\ entry[node[t]] = t /\ ~closed[t]

\* Mutant: the transport's end is enough.
TerminatedTransport(n) == entry[n] # 0 => Gone(entry[n])

\* Both the old entry's transport and its registered sends have finished.
Terminated(n) == entry[n] # 0 => Gone(entry[n]) /\ ~sending[entry[n]]

\* prune: the nodes that have been offline for longer than Retention.
Expired(at) == {n \in known : ~view[n].connected /\ at - view[n].seen > Retention}

Forget(S) ==
    /\ known' = known \ S
    /\ entry' = [n \in Node |-> IF n \in S THEN 0 ELSE entry[n]]
    /\ view' = [n \in Node |-> IF n \in S THEN View(FALSE, FALSE, 0) ELSE view[n]]
    /\ row' = [n \in Node |-> IF n \in S THEN NoRow ELSE row[n]]

\* Mutant: one node too many is let in.
FleetFullLate(n, at) ==
    LET left == known \ Expired(at)
    IN  n \notin left /\ Cardinality(left) > MaxFleetNodes

\* beginLocked, after its prune: no room for one more node.
FleetFull(n, at) ==
    LET left == known \ Expired(at)
    IN  n \notin left /\ Cardinality(left) >= MaxFleetNodes

\* SaveNode's own limit, on the rows.
RowsFull(n, at) ==
    LET rows == {m \in Node : row[m] # NoRow} \ Expired(at)
    IN  n \notin rows /\ Cardinality(rows) >= MaxFleetNodes

\* Mutant: the old entry is replaced, and its handler not told.
SupersededSilent(n) == closed

\* fleetEntry.supersede of the node's entry.
Superseded(n) == [t \in Stream |-> closed[t] \/ t = entry[n]]

\* The handler returns, and with it everything it knew.
Leave(t) ==
    /\ pc' = [pc EXCEPT ![t] = "done"]
    /\ now' = [now EXCEPT ![t] = 0]
    /\ broken' = [broken EXCEPT ![t] = FALSE]

\* A Hello is received and its identity bound; the time is read.
Connect(t) ==
    /\ up
    /\ pc[t] = "unused"
    /\ \A s \in 1..(t - 1) : pc[s] # "unused"
    /\ pc' = [pc EXCEPT ![t] = "begin"]
    /\ now' = [now EXCEPT ![t] = clock]
    /\ UNCHANGED <<clock, up, fatal, fleetVars, node, broken, closed, sending,
                   outbound, commandVars>>

\* Mutant: the old stream is waited for, and not told.
RetireSilent(t) == UNCHANGED closed

Retire(t) == closed' = Superseded(node[t])

(***************************************************************************)
(* beginSession finds an old stream that is not finished: it closes the    *)
(* entry and waits.                                                        *)
(***************************************************************************)
BeginWaits(t) ==
    /\ up
    /\ pc[t] = "begin"
    /\ ~Terminated(node[t])
    /\ ~closed[entry[node[t]]]
    /\ Retire(t)
    /\ UNCHANGED <<clock, up, fatal, fleetVars, pc, node, now, broken, sending,
                   outbound, commandVars>>

\* The handler returns before it has an entry: the wait of 10 s ran out, or
\* the stream's own context was done.
BeginGivesUp(t) ==
    /\ up
    /\ pc[t] = "begin"
    /\ Leave(t)
    /\ UNCHANGED <<clock, up, fatal, fleetVars, node, closed, sending,
                   outbound, commandVars>>

\* beginLocked refuses: storage has failed, or the fleet is full.
BeginRefused(t) ==
    LET n == node[t]
    IN  /\ up
        /\ pc[t] = "begin"
        /\ Terminated(n)
        /\ \/ fatal # "none" /\ UNCHANGED fleetVars
           \/ fatal = "none" /\ FleetFull(n, now[t]) /\ Forget(Expired(now[t]))
        /\ closed' = Superseded(n)
        /\ Leave(t)
        /\ UNCHANGED <<clock, up, fatal, node, sending, outbound,
                       commandVars>>

\* beginLocked installs the new entry.
Begin(t) ==
    LET n == node[t]
        S == Expired(now[t]) \ {n}
    IN  /\ Running
        /\ pc[t] = "begin"
        /\ Terminated(n)
        /\ ~FleetFull(n, now[t])
        /\ ~RowsFull(n, now[t])
        /\ ~Backwards(TargetedAt(n), now[t])
        /\ known' = (known \ S) \cup {n}
        /\ entry' = [m \in Node |-> IF m = n THEN t ELSE IF m \in S THEN 0 ELSE entry[m]]
        /\ view' = [m \in Node |->
                      IF m = n THEN View(TRUE, FALSE, now[t])
                      ELSE IF m \in S THEN View(FALSE, FALSE, 0) ELSE view[m]]
        /\ row' = [m \in Node |->
                      IF m = n THEN now[t] ELSE IF m \in S THEN NoRow ELSE row[m]]
        /\ loseCommands(n, now[t])
        /\ closed' = Superseded(n)
        /\ pc' = [pc EXCEPT ![t] = "serving"]
        /\ now' = [now EXCEPT ![t] = 0]
        /\ UNCHANGED <<clock, up, fatal, node, broken, sending, outbound>>

(***************************************************************************)
(* A write of beginLocked fails and the handler returns: the deletion of   *)
(* the expired rows, the save of the new view, or the loss of the node's   *)
(* commands.  What was written before it stays, and so the stored view may *)
(* be one that was never published.                                        *)
(***************************************************************************)
BeginFails(t, step) ==
    LET n == node[t]
        S == Expired(now[t])
    IN  /\ Running
        /\ pc[t] = "begin"
        /\ Terminated(n)
        /\ \/ /\ step = "prune" /\ S # {}
              /\ fatal' = "io"
              /\ UNCHANGED fleetVars
           \/ /\ step = "save" /\ ~FleetFull(n, now[t])
              /\ fatal' = IF RowsFull(n, now[t]) THEN "rows" ELSE "io"
              /\ Forget(S)
           \/ /\ step = "lose" /\ ~FleetFull(n, now[t]) /\ ~RowsFull(n, now[t])
              /\ fatal' = IF Backwards(TargetedAt(n), now[t]) THEN "trail" ELSE "io"
              /\ known' = known \ S
              /\ entry' = [m \in Node |-> IF m \in S THEN 0 ELSE entry[m]]
              /\ view' = [m \in Node |-> IF m \in S THEN View(FALSE, FALSE, 0) ELSE view[m]]
              /\ row' = [m \in Node |->
                           IF m = n THEN now[t] ELSE IF m \in S THEN NoRow ELSE row[m]]
        /\ closed' = Superseded(n)
        /\ Leave(t)
        /\ UNCHANGED <<clock, up, node, sending, outbound, commandVars>>

-----------------------------------------------------------------------------
(***************************************************************************)
(* The loop of Connect.  An operation on an entry that is no longer        *)
(* current answers Aborted and the handler returns, as does one after a    *)
(* storage failure; that is Return.                                        *)
(***************************************************************************)

Serves(t) == Running /\ pc[t] = "serving" /\ current(t)

\* heartbeat publishes whether the node takes commands.
Heartbeat(t, ready) ==
    LET n == node[t]
    IN  /\ Serves(t)
        /\ view' = [view EXCEPT ![n] = View(@.connected, ready, clock)]
        /\ row' = [row EXCEPT ![n] = clock]
        /\ UNCHANGED <<clock, up, fatal, known, entry, streamVars, commandVars>>

QueueFull(t) == Cardinality(outbound[t]) >= OutboundCap

\* SubmitCommand on the node's current entry.
SubmitCommand(c) ==
    LET n == TargetOf[c]
        t == entry[n]
    IN  /\ Running
        /\ record[c].status = "absent"
        /\ n \in known /\ t # 0 /\ current(t)
        /\ view[n].connected /\ view[n].ready
        /\ ~QueueFull(t)
        /\ record' = [record EXCEPT ![c] = AcceptedRecord]
        /\ updated' = [updated EXCEPT ![c] = clock]
        /\ expires' = [expires EXCEPT ![c] = clock + Ttl]
        /\ outbound' = [outbound EXCEPT ![t] = @ \cup {c}]
        /\ UNCHANGED <<clock, up, fatal, fleetVars, pc, node, now, broken, closed,
                       sending>>

(***************************************************************************)
(* prepareCommand.  The deadline may pass between the dispatch and the     *)
(* computation of the remaining time; the command then ends timed out.     *)
(***************************************************************************)
PrepareCommand(t, c, late) ==
    LET expired == clock >= expires[c]
        dispatch == record[c].status = "accepted" /\ ~expired
        dispatched == DispatchCommand(record[c], expired)
    IN  /\ Serves(t)
        /\ c \in outbound[t]
        /\ late => dispatch
        /\ outbound' = [outbound EXCEPT ![t] = @ \ {c}]
        /\ record' = [record EXCEPT ![c] =
                        IF late
                        THEN FinishCommand("probe", dispatched,
                                           Result("timed_out", "deadline_expired"))
                        ELSE dispatched]
        /\ updated' = [updated EXCEPT ![c] = IF record[c].status = "accepted" THEN clock ELSE @]
        /\ pc' = [pc EXCEPT ![t] = IF dispatch /\ ~late THEN "prepared" ELSE @]
        /\ UNCHANGED <<clock, up, fatal, fleetVars, node, now, broken, closed, sending,
                       expires>>

\* finishCommand: a command the node once received succeeded, and the
\* handler goes on to acknowledge it.
finishCommand(t, c) ==
    /\ Serves(t)
    /\ TargetOf[c] = node[t]
    /\ record[c].status \in {"running", "indeterminate"}
    /\ record' = [record EXCEPT ![c] = FinishCommand("probe", @, Result("succeeded", "done"))]
    /\ updated' = [updated EXCEPT ![c] = clock]
    /\ pc' = [pc EXCEPT ![t] = "prepared"]
    /\ UNCHANGED <<clock, up, fatal, fleetVars, node, now, broken, closed, sending,
                   outbound, expires>>

\* HelloAck, a project configuration or an agent query is to be sent.
PrepareOther(t) ==
    /\ up
    /\ pc[t] = "serving"
    /\ pc' = [pc EXCEPT ![t] = "prepared"]
    /\ UNCHANGED <<clock, up, fatal, fleetVars, node, now, broken, closed, sending,
                   outbound, commandVars>>

registerSend(t) == ~closed[t]

\* sendNodeEnvelope starts its goroutine, or refuses.
Send(t) ==
    /\ up
    /\ pc[t] = "prepared"
    /\ pc' = [pc EXCEPT ![t] = IF registerSend(t) THEN "sending" ELSE "returning"]
    /\ sending' = [sending EXCEPT ![t] = registerSend(t)]
    /\ UNCHANGED <<clock, up, fatal, fleetVars, node, now, broken, closed, outbound,
                   commandVars>>

\* stream.Send returns, to a handler that may no longer wait for it.
SendReturns(t) ==
    /\ up
    /\ sending[t]
    /\ sending' = [sending EXCEPT ![t] = FALSE]
    /\ pc' = [pc EXCEPT ![t] = IF @ = "sending" THEN "serving" ELSE @]
    /\ UNCHANGED <<clock, up, fatal, fleetVars, node, now, broken, closed, outbound,
                   commandVars>>

\* The handler leaves its loop or its send: context done, superseded, a
\* deadline, an error, end of stream.
Return(t) ==
    /\ up
    /\ pc[t] \in {"serving", "sending"}
    /\ pc' = [pc EXCEPT ![t] = "returning"]
    /\ UNCHANGED <<clock, up, fatal, fleetVars, node, now, broken, closed, sending,
                   outbound, commandVars>>

\* A write of the handler's fails.
HandlerStorageFails(t) ==
    /\ Serves(t)
    /\ fatal' = "io"
    /\ pc' = [pc EXCEPT ![t] = "returning"]
    /\ UNCHANGED <<clock, up, fleetVars, node, now, broken, closed, sending, outbound,
                   commandVars>>

\* Mutant: whoever ends takes the node offline.
EndsNodeAlways(t) == Running

\* end has work to do: the entry is still the node's.
EndsNode(t) == Running /\ node[t] \in known /\ entry[node[t]] = t

(***************************************************************************)
(* end, deferred by Connect.  What the entry's queue still holds is        *)
(* dropped with it.  A failing write leaves the published view as it was.  *)
(***************************************************************************)
End(t, fails) ==
    LET n == node[t]
    IN  /\ up
        /\ pc[t] = "returning"
        /\ fails => EndsNode(t)
        /\ closed' = [closed EXCEPT ![t] = TRUE]
        /\ outbound' = [outbound EXCEPT ![t] = {}]
        /\ Leave(t)
        /\ fatal' = IF fails THEN "io" ELSE fatal
        /\ IF EndsNode(t) /\ ~fails
           THEN /\ view' = [view EXCEPT ![n] = View(FALSE, FALSE, @.seen)]
                /\ loseCommands(n, clock)
           ELSE UNCHANGED <<view, commandVars>>
        /\ UNCHANGED <<clock, up, known, entry, row, node, sending>>

-----------------------------------------------------------------------------
(***************************************************************************)
(* Everyone else: clients, the deadline tick, the transport, the process.  *)
(***************************************************************************)

\* list prunes before it answers.
List ==
    /\ Running
    /\ Expired(clock) # {}
    /\ Forget(Expired(clock))
    /\ UNCHANGED <<clock, up, fatal, streamVars, commandVars>>

\* The tick of serveCoordinator carries the time at which it was due, and
\* may have waited since.
ExpireCommands(at) ==
    LET S == {c \in CommandId : Active(record[c]) /\ expires[c] <= at}
    IN  /\ Running
        /\ S # {}
        /\ IF Backwards(S, at)
           THEN fatal' = "trail" /\ UNCHANGED commandVars
           ELSE ChangeActive(S, ExpireCommand, at) /\ UNCHANGED fatal
        /\ UNCHANGED <<clock, up, fleetVars, streamVars>>

\* A write of a client's call or of the tick fails.
StorageFails ==
    /\ Running
    /\ fatal' = "io"
    /\ UNCHANGED <<clock, up, fleetVars, streamVars, commandVars>>

Break(t) ==
    /\ up
    /\ pc[t] \notin {"unused", "done"}
    /\ ~broken[t]
    /\ broken' = [broken EXCEPT ![t] = TRUE]
    /\ UNCHANGED <<clock, up, fatal, fleetVars, pc, node, now, closed, sending,
                   outbound, commandVars>>

(***************************************************************************)
(* Time passes.  A wait in beginSession (10 s), a silent stream (heartbeat *)
(* deadline, 1 min) and a Send on a stream that is gone do not last as     *)
(* long as the retention of an offline node (15 min).                      *)
(***************************************************************************)
Tick ==
    /\ clock < MaxClock
    /\ \A t \in Stream : pc[t] = "begin" => clock - now[t] < Retention
    /\ \A n \in known :
         LET t == entry[n]
         IN  t # 0 /\ (pc[t] # "done" \/ sending[t]) => clock - view[n].seen < Retention
    /\ clock' = clock + 1
    /\ UNCHANGED <<up, fatal, fleetVars, streamVars, commandVars>>

\* The process ends, by a crash or after a storage failure.
Stop ==
    /\ up
    /\ up' = FALSE
    /\ known' = {}
    /\ entry' = [n \in Node |-> 0]
    /\ view' = [n \in Node |-> View(FALSE, FALSE, 0)]
    /\ pc' = [t \in Stream |-> IF pc[t] = "unused" THEN "unused" ELSE "done"]
    /\ now' = [t \in Stream |-> 0]
    /\ broken' = [t \in Stream |-> FALSE]
    /\ closed' = [t \in Stream |-> pc[t] # "unused"]
    /\ sending' = [t \in Stream |-> FALSE]
    /\ outbound' = [t \in Stream |-> {}]
    /\ UNCHANGED <<clock, fatal, row, node, commandVars>>

\* openCoordinatorState recovers the journal; restore publishes the stored
\* nodes that have not expired, as disconnected.
Start ==
    LET old == {n \in Node : row[n] # NoRow /\ clock - row[n] > Retention}
    IN  /\ ~up
        /\ up' = TRUE
        /\ fatal' = "none"
        /\ ChangeActive(CommandId, RecoverCommand, clock)
        /\ row' = [n \in Node |-> IF n \in old THEN NoRow ELSE row[n]]
        /\ known' = {n \in Node : row'[n] # NoRow}
        /\ view' = [n \in Node |->
                      View(FALSE, FALSE, IF row'[n] # NoRow THEN row[n] ELSE 0)]
        /\ UNCHANGED <<clock, entry, streamVars>>

Handler(t) ==
    \/ Connect(t)
    \/ BeginWaits(t)
    \/ BeginGivesUp(t)
    \/ BeginRefused(t)
    \/ Begin(t)
    \/ \E step \in {"prune", "save", "lose"} : BeginFails(t, step)
    \/ \E ready \in BOOLEAN : Heartbeat(t, ready)
    \/ \E c \in CommandId, late \in BOOLEAN : PrepareCommand(t, c, late)
    \/ \E c \in CommandId : finishCommand(t, c)
    \/ PrepareOther(t)
    \/ Send(t)
    \/ SendReturns(t)
    \/ Return(t)
    \/ HandlerStorageFails(t)
    \/ \E fails \in BOOLEAN : End(t, fails)
    \/ Break(t)

Next ==
    \/ \E t \in Stream : Handler(t)
    \/ \E c \in CommandId : SubmitCommand(c)
    \/ List
    \/ \E at \in Time : at <= clock /\ ExpireCommands(at)
    \/ StorageFails
    \/ Tick
    \/ Stop
    \/ Start

Spec == Init /\ [][Next]_vars

(***************************************************************************)
(* Goroutines get to run and the lock is granted.  A Send on a stream that *)
(* is gone returns; one on a live stream may block for ever.  A handler    *)
(* whose entry is closed or whose stream is gone sees it.  The 10 s wait   *)
(* of beginSession is not assumed to run out.                              *)
(***************************************************************************)
Fairness ==
    \A t \in Stream :
        /\ WF_vars(\/ BeginWaits(t) \/ BeginRefused(t) \/ Begin(t)
                   \/ \E step \in {"prune", "save", "lose"} : BeginFails(t, step))
        /\ WF_vars(Send(t))
        /\ WF_vars(Gone(t) /\ SendReturns(t))
        /\ WF_vars((closed[t] \/ broken[t]) /\ Return(t))
        /\ WF_vars(End(t, FALSE) \/ End(t, TRUE))

FairSpec == Spec /\ Fairness

-----------------------------------------------------------------------------
(***************************************************************************)
(* A stream that took over sends alone: while a node's entry belongs to    *)
(* one stream, no other stream of the node has a Send in progress, also    *)
(* not one that its handler gave up on (the comment at fleet.go:293).      *)
(***************************************************************************)
OneSender ==
    \A s, t \in Stream :
        s # t /\ node[s] = node[t] /\ sending[s] =>
            ~sending[t] /\ entry[node[t]] # t

(***************************************************************************)
(* No command is stranded by a takeover, a return or an expiry of the      *)
(* node: an active record's node has an entry whose handler has not ended, *)
(* and one not yet dispatched is in that very entry's queue.               *)
(***************************************************************************)
NoneStranded ==
    Running =>
        \A c \in CommandId : Active(record[c]) =>
            LET t == entry[TargetOf[c]]
            IN  /\ TargetOf[c] \in known /\ t # 0 /\ pc[t] # "done"
                /\ record[c].status = "accepted" => c \in outbound[t]

(***************************************************************************)
(* A stream that serves and was not told to stop is its node's entry: the  *)
(* store neither forgets nor replaces it behind its back.                  *)
(***************************************************************************)
ServingIsCurrent ==
    \A t \in Stream :
        up /\ pc[t] \in {"serving", "prepared", "sending"} /\ ~closed[t] => current(t)

(***************************************************************************)
(* A node is shown connected exactly while the handler of its entry runs,  *)
(* whatever older handlers end later, and never from its stored view       *)
(* (README.md: "disconnected and stale, never apparently live").           *)
(***************************************************************************)
ConnectedIsServed ==
    Running =>
        \A n \in known :
            view[n].connected <=> (entry[n] # 0 /\ pc[entry[n]] # "done")

(***************************************************************************)
(* The fleet limit is enforced by refusing a stream, and never reaches the *)
(* table's row limit, where it would stop the coordinator: memory and      *)
(* table agree on who is known, across failures and restarts.              *)
(***************************************************************************)
LimitIsNoFailure == fatal # "rows"

(***************************************************************************)
(* A stream does not wait for ever to take over, even if the 10 s bound of *)
(* its wait never fires.                                                   *)
(***************************************************************************)
TakeoverEnds ==
    \A t \in Stream : pc[t] = "begin" ~> pc[t] # "begin"

(***************************************************************************)
(* Only a failing disk stops the coordinator (docs/operator-guide.md:222   *)
(* lists what does).  The stale time of Connect breaks this.               *)
(***************************************************************************)
OnlyStorageStops == fatal # "trail"

=============================================================================
