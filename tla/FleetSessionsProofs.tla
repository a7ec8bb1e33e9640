------------------------ MODULE FleetSessionsProofs -------------------------
(***************************************************************************)
(* The safety of the fleet store, for any number of nodes, streams and     *)
(* commands.  One lemma per part of the inductive invariant, one step per  *)
(* action.                                                                 *)
(***************************************************************************)
EXTENDS FleetSessions, CommandJournalProofs, FiniteSetTheorems

(***************************************************************************)
(* A node's entry is a stream of that node that got past beginSession.     *)
(***************************************************************************)
EntryInv ==
    /\ ~up => known = {}
    /\ \A n \in Node : n \notin known => entry[n] = 0
    /\ \A n \in Node : entry[n] # 0 =>
         node[entry[n]] = n /\ pc[entry[n]] \notin {"unused", "begin"}

(***************************************************************************)
(* A handler in its loop serves the node's entry or has been told to stop; *)
(* a Send belongs to the node's entry, to the last.                        *)
(***************************************************************************)
ServeInv ==
    \A t \in Stream :
        /\ pc[t] \in {"serving", "prepared", "sending"} /\ ~closed[t] =>
             entry[node[t]] = t
        /\ sending[t] => entry[node[t]] = t /\ pc[t] \notin {"serving", "prepared"}
        /\ ~up => pc[t] \in {"unused", "done"} /\ ~sending[t]

(***************************************************************************)
(* Neither a wait nor a stream outlives the retention of an offline node.  *)
(***************************************************************************)
TimeInv ==
    /\ \A t \in Stream : now[t] <= clock
    /\ \A t \in Stream : pc[t] = "begin" => clock - now[t] <= Retention
    /\ \A n \in Node : entry[n] # 0 /\ (pc[entry[n]] # "done" \/ sending[entry[n]]) =>
         clock - view[n].seen <= Retention

(***************************************************************************)
(* While storage works, the table has a row for exactly the known nodes.   *)
(***************************************************************************)
RowInv ==
    /\ Running => known = {n \in Node : row[n] # NoRow}
    /\ fatal # "rows"

\* The queues can be counted.
QueueInv == \A t \in Stream : IsFiniteSet(outbound[t])

\* The inductive invariant.
FleetInv ==
    /\ TypeOK
    /\ EntryInv
    /\ ServeInv
    /\ TimeInv
    /\ RowInv
    /\ QueueInv
    /\ ConnectedIsServed
    /\ NoneStranded


\* A node that expires has no stream any more, and nothing of it is sent.
LEMMA ExpiredIdle ==
    ASSUME TypeOK, TimeInv, NEW at \in Time, at <= clock, NEW n \in Expired(at),
           entry[n] # 0
    PROVE  pc[entry[n]] = "done" /\ ~sending[entry[n]]
BY FleetAssumption DEF TypeOK, TimeInv, Expired, Views, Time

\* What prune and the failing prefixes of beginLocked do to the fleet.
Shrinks(S) ==
    /\ known' \subseteq known
    /\ \A n \in Node :
         \/ entry'[n] = entry[n] /\ view'[n] = view[n] /\ (n \in known' <=> n \in known)
         \/ n \in S /\ entry'[n] = 0 /\ n \notin known'

\* prune only takes nodes away.
LEMMA ForgetShrinks ==
    ASSUME TypeOK, NEW S \in SUBSET Node, Forget(S)
    PROVE  Shrinks(S)
BY DEF TypeOK, Forget, Shrinks

\* beginLocked without an entry for its stream.
LEMMA BeginFrame ==
    ASSUME TypeOK, NEW t \in Stream, NEW step \in {"prune", "save", "lose"},
           BeginRefused(t) \/ BeginFails(t, step)
    PROVE  /\ Shrinks(Expired(now[t]))
           /\ up /\ pc[t] = "begin"
           /\ Leave(t)
           /\ closed' = Superseded(node[t])
           /\ UNCHANGED <<clock, up, node, sending, outbound, commandVars>>
<1>1. Expired(now[t]) \in SUBSET Node
  BY DEF TypeOK, Expired
<1>2. CASE BeginRefused(t)
  <2>1. CASE UNCHANGED fleetVars
    BY <1>2, <2>1 DEF BeginRefused, Shrinks, fleetVars
  <2>2. CASE Forget(Expired(now[t]))
    BY <1>1, <1>2, <2>2, ForgetShrinks DEF BeginRefused
  <2> QED
    BY <1>2, <2>1, <2>2 DEF BeginRefused
<1>3. CASE BeginFails(t, step)
  <2>1. CASE UNCHANGED fleetVars
    BY <1>3, <2>1 DEF BeginFails, Running, Shrinks, fleetVars
  <2>2. CASE Forget(Expired(now[t]))
    BY <1>1, <1>3, <2>2, ForgetShrinks DEF BeginFails, Running
  <2>3. CASE step = "lose"
    <3>1. Shrinks(Expired(now[t]))
      BY <1>1, <1>3, <2>3 DEF BeginFails, Shrinks, TypeOK
    <3> QED
      BY <1>3, <3>1 DEF BeginFails, Running
  <2> QED
    BY <1>3, <2>1, <2>2, <2>3 DEF BeginFails
<1> QED
  BY <1>2, <1>3


\* The types of the journal and of the queues, apart from the rest.
CommandType ==
    /\ record \in [CommandId -> Records]
    /\ updated \in [CommandId -> Time]
    /\ expires \in [CommandId -> Nat]

QueueType ==
    /\ outbound \in [Stream -> SUBSET CommandId]
    /\ \A t \in Stream : Cardinality(outbound[t]) <= OutboundCap

StoreType ==
    /\ clock \in Time
    /\ up \in BOOLEAN
    /\ fatal \in Causes
    /\ known \subseteq Node
    /\ entry \in [Node -> Stream \cup {0}]
    /\ view \in [Node -> Views]
    /\ row \in [Node -> Time \cup {NoRow}]
    /\ pc \in [Stream -> Places]
    /\ node \in [Stream -> Node]
    /\ now \in [Stream -> Time]
    /\ broken \in [Stream -> BOOLEAN]
    /\ closed \in [Stream -> BOOLEAN]
    /\ sending \in [Stream -> BOOLEAN]

\* The type invariant, taken apart.
LEMMA TypeParts == TypeOK <=> StoreType /\ QueueType /\ CommandType
BY DEF TypeOK, StoreType, QueueType, CommandType

\* What a queue holds stays bounded.
LEMMA QueueTypes ==
    ASSUME QueueType, QueueInv, NEW t \in Stream, NEW c \in CommandId
    PROVE  /\ ~QueueFull(t) /\ outbound' = [outbound EXCEPT ![t] = @ \cup {c}] => QueueType'
           /\ outbound' = [outbound EXCEPT ![t] = @ \ {c}] => QueueType'
<1>1. Cardinality(outbound[t]) \in Nat
  BY FS_CardinalityType DEF QueueInv
<1>2. ASSUME ~QueueFull(t), outbound' = [outbound EXCEPT ![t] = @ \cup {c}]
      PROVE  QueueType'
  <2>1. Cardinality(outbound[t] \cup {c}) \in {Cardinality(outbound[t]), Cardinality(outbound[t]) + 1}
    BY FS_AddElement, Zenon DEF QueueInv
  <2>2. Cardinality(outbound[t] \cup {c}) <= OutboundCap
    BY <1>1, <1>2, <2>1, FleetAssumption DEF QueueFull
  <2> QED
    BY <1>2, <2>2 DEF QueueType
<1>3. ASSUME outbound' = [outbound EXCEPT ![t] = @ \ {c}]
      PROVE  QueueType'
  <2>1. Cardinality(outbound[t] \ {c}) \in {Cardinality(outbound[t]), Cardinality(outbound[t]) - 1}
    BY FS_RemoveElement, Zenon DEF QueueInv
  <2>2. Cardinality(outbound[t] \ {c}) <= OutboundCap
    BY <1>1, <2>1, FleetAssumption DEF QueueType
  <2> QED
    BY <1>3, <2>2 DEF QueueType
<1> QED
  BY <1>2, <1>3

\* A queue that is dropped holds nothing.
LEMMA QueueEmptied ==
    ASSUME QueueType
    PROVE  /\ \A t \in Stream : outbound' = [outbound EXCEPT ![t] = {}] => QueueType'
           /\ outbound' = [s \in Stream |-> {}] => QueueType'
BY FS_EmptySet, FleetAssumption DEF QueueType

\* changeActiveCommands keeps the journal a journal.
LEMMA JournalTypes ==
    ASSUME CommandType, NEW S \in SUBSET CommandId, NEW at \in Time
    PROVE  /\ ChangeActive(S, LoseNodeCommand, at) => CommandType'
           /\ ChangeActive(S, ExpireCommand, at) => CommandType'
           /\ ChangeActive(S, RecoverCommand, at) => CommandType'
<1>1. \A c \in CommandId : /\ LoseNodeCommand(record[c]) \in Records
                           /\ ExpireCommand(record[c]) \in Records
                           /\ RecoverCommand(record[c]) \in Records
  BY RecordTypes DEF CommandType
<1> QED
  BY <1>1 DEF ChangeActive, CommandType

\* The fleet's entries, over beginLocked, prune and a restart.
LEMMA EntryStep == TypeOK /\ EntryInv /\ Next => EntryInv'
<1> SUFFICES ASSUME TypeOK /\ EntryInv, Next PROVE EntryInv'
  OBVIOUS
<1>1. ASSUME NEW t \in Stream, Connect(t) PROVE EntryInv'
  BY <1>1 DEF Connect, EntryInv, fleetVars, commandVars
<1>2. ASSUME NEW t \in Stream, BeginWaits(t) PROVE EntryInv'
  BY <1>2 DEF BeginWaits, EntryInv, fleetVars, commandVars
<1>3. ASSUME NEW t \in Stream, BeginGivesUp(t) PROVE EntryInv'
  BY <1>3 DEF BeginGivesUp, Leave, EntryInv, fleetVars
<1>4. ASSUME NEW t \in Stream, BeginRefused(t) PROVE EntryInv'
  <2>1. /\ Shrinks(Expired(now[t]))
        /\ up /\ pc[t] = "begin"
        /\ Leave(t)
        /\ UNCHANGED <<up, node>>
    BY <1>4, BeginFrame
  <2> QED
    BY <2>1 DEF Shrinks, Leave, EntryInv, TypeOK
<1>5. ASSUME NEW t \in Stream, Begin(t) PROVE EntryInv'
  BY <1>5 DEF Begin, Running, TypeOK, EntryInv
<1>6. ASSUME NEW t \in Stream, NEW step \in {"prune", "save", "lose"}, BeginFails(t, step)
      PROVE EntryInv'
  <2>1. /\ Shrinks(Expired(now[t]))
        /\ up /\ pc[t] = "begin"
        /\ Leave(t)
        /\ UNCHANGED <<up, node>>
    BY <1>6, BeginFrame
  <2> QED
    BY <2>1 DEF Shrinks, Leave, EntryInv, TypeOK
<1>7. ASSUME NEW t \in Stream, NEW ready \in BOOLEAN, Heartbeat(t, ready)
      PROVE EntryInv'
  BY <1>7 DEF Heartbeat, EntryInv, streamVars, commandVars
<1>8. ASSUME NEW t \in Stream, NEW c \in CommandId, NEW late \in BOOLEAN, PrepareCommand(t, c, late)
      PROVE EntryInv'
  BY <1>8 DEF PrepareCommand, EntryInv, fleetVars
<1>9. ASSUME NEW t \in Stream, NEW c \in CommandId, finishCommand(t, c) PROVE EntryInv'
  BY <1>9 DEF finishCommand, EntryInv, fleetVars
<1>10. ASSUME NEW t \in Stream, PrepareOther(t) PROVE EntryInv'
  BY <1>10 DEF PrepareOther, EntryInv, fleetVars, commandVars
<1>11. ASSUME NEW t \in Stream, Send(t) PROVE EntryInv'
  BY <1>11 DEF Send, EntryInv, fleetVars, commandVars
<1>12. ASSUME NEW t \in Stream, SendReturns(t) PROVE EntryInv'
  BY <1>12 DEF SendReturns, EntryInv, fleetVars, commandVars
<1>13. ASSUME NEW t \in Stream, Return(t) PROVE EntryInv'
  BY <1>13 DEF Return, EntryInv, fleetVars, commandVars
<1>14. ASSUME NEW t \in Stream, HandlerStorageFails(t) PROVE EntryInv'
  BY <1>14 DEF HandlerStorageFails, EntryInv, fleetVars, commandVars
<1>15. ASSUME NEW t \in Stream, NEW fails \in BOOLEAN, End(t, fails) PROVE EntryInv'
  BY <1>15 DEF End, Leave, EntryInv
<1>16. ASSUME NEW t \in Stream, Break(t) PROVE EntryInv'
  BY <1>16 DEF Break, EntryInv, fleetVars, commandVars
<1>17. ASSUME NEW c \in CommandId, SubmitCommand(c) PROVE EntryInv'
  BY <1>17 DEF SubmitCommand, EntryInv, fleetVars
<1>18. ASSUME List PROVE EntryInv'
  BY <1>18 DEF List, Forget, EntryInv, streamVars
<1>19. ASSUME NEW at \in Time, ExpireCommands(at) PROVE EntryInv'
  BY <1>19 DEF ExpireCommands, EntryInv, fleetVars, streamVars, commandVars
<1>20. ASSUME StorageFails PROVE EntryInv'
  BY <1>20 DEF StorageFails, EntryInv, fleetVars, streamVars, commandVars
<1>21. ASSUME Tick PROVE EntryInv'
  BY <1>21 DEF Tick, EntryInv, fleetVars, streamVars, commandVars
<1>22. ASSUME Stop PROVE EntryInv'
  BY <1>22 DEF Stop, EntryInv, commandVars
<1>23. ASSUME Start PROVE EntryInv'
  BY <1>23 DEF Start, EntryInv, streamVars
<1> QED
  BY <1>1, <1>2, <1>3, <1>4, <1>5, <1>6, <1>7, <1>8, <1>9, <1>10, <1>11, <1>12, <1>13,
     <1>14, <1>15, <1>16, <1>17, <1>18, <1>19, <1>20, <1>21, <1>22, <1>23
  DEF Next, Handler

\* Handlers and their Sends: beginSession installs an entry only when the
\* old one's transport and Sends are finished, and prune takes no live one.
LEMMA ServeStep == TypeOK /\ EntryInv /\ ServeInv /\ TimeInv /\ Next => ServeInv'
<1> SUFFICES ASSUME TypeOK /\ EntryInv /\ ServeInv /\ TimeInv, Next PROVE ServeInv'
  OBVIOUS
<1>1. ASSUME NEW t \in Stream, Connect(t) PROVE ServeInv'
  BY <1>1 DEF Connect, ServeInv, fleetVars, commandVars
<1>2. ASSUME NEW t \in Stream, BeginWaits(t) PROVE ServeInv'
  BY <1>2 DEF BeginWaits, Retire, Superseded, ServeInv, fleetVars
<1>3. ASSUME NEW t \in Stream, BeginGivesUp(t) PROVE ServeInv'
  BY <1>3 DEF BeginGivesUp, Leave, ServeInv, fleetVars
<1>4. ASSUME NEW t \in Stream, BeginRefused(t) PROVE ServeInv'
  <2>1. /\ Shrinks(Expired(now[t]))
        /\ up /\ pc[t] = "begin"
        /\ Leave(t)
        /\ closed' = Superseded(node[t])
        /\ UNCHANGED <<up, node, sending>>
    BY <1>4, BeginFrame
  <2>2. \A n \in Expired(now[t]) : entry[n] # 0 =>
          pc[entry[n]] = "done" /\ ~sending[entry[n]]
    BY ExpiredIdle DEF TypeOK, TimeInv
  <2> QED
    BY <2>1, <2>2 DEF Shrinks, Leave, Superseded, EntryInv, ServeInv, TypeOK
<1>5. ASSUME NEW t \in Stream, Begin(t) PROVE ServeInv'
  <2>1. \A n \in Expired(now[t]) : entry[n] # 0 =>
          pc[entry[n]] = "done" /\ ~sending[entry[n]]
    BY ExpiredIdle DEF TypeOK, TimeInv
  <2>2. /\ up /\ up' /\ pc[t] = "begin"
        /\ pc' = [pc EXCEPT ![t] = "serving"]
        /\ closed' = Superseded(node[t])
        /\ UNCHANGED <<node, sending>>
        /\ entry[node[t]] # 0 => ~sending[entry[node[t]]]
        /\ \A m \in Node : entry'[m] = IF m = node[t] THEN t
                                        ELSE IF m \in Expired(now[t]) THEN 0 ELSE entry[m]
    BY <1>5 DEF Begin, Running, Terminated, TypeOK
  <2>3. \A s \in Stream : node[s] \in Node /\ pc[s] \in Places
    BY DEF TypeOK
  <2>4. ~sending[t]
    BY <2>2 DEF ServeInv, EntryInv, TypeOK, Stream
  <2>5. ASSUME NEW s \in Stream, pc'[s] \in {"serving", "prepared", "sending"}, ~closed'[s]
        PROVE  entry'[node[s]] = s
    <3>1. CASE s = t
      BY <2>2, <2>3, <3>1
    <3>2. CASE s # t
      <4>1. pc'[s] = pc[s]
        BY <2>2, <3>2 DEF TypeOK
      <4>2. ~closed[s] /\ s # entry[node[t]]
        BY <2>2, <2>5 DEF Superseded
      <4>3. entry[node[s]] = s
        BY <2>5, <4>1, <4>2 DEF ServeInv
      <4>4. s # 0
        BY DEF Stream
      <4>5. node[s] \notin Expired(now[t])
        BY <2>1, <2>5, <4>1, <4>3, <4>4
      <4> QED
        BY <2>2, <2>3, <4>2, <4>3, <4>5
    <3> QED
      BY <3>1, <3>2
  <2>6. ASSUME NEW s \in Stream, sending[s]
        PROVE  entry'[node[s]] = s /\ pc'[s] \notin {"serving", "prepared"}
    <3>1. s # t /\ s # 0
      BY <2>4, <2>6 DEF Stream
    <3>2. entry[node[s]] = s /\ pc[s] \notin {"serving", "prepared"}
      BY <2>6 DEF ServeInv
    <3>3. node[s] # node[t]
      BY <2>2, <2>6, <3>1, <3>2
    <3>4. node[s] \notin Expired(now[t])
      BY <2>1, <2>6, <3>1, <3>2
    <3> QED
      BY <2>2, <2>3, <3>1, <3>2, <3>3, <3>4 DEF TypeOK
  <2> QED
    BY <2>2, <2>5, <2>6 DEF ServeInv
<1>6. ASSUME NEW t \in Stream, NEW step \in {"prune", "save", "lose"}, BeginFails(t, step)
      PROVE ServeInv'
  <2>1. /\ Shrinks(Expired(now[t]))
        /\ up /\ pc[t] = "begin"
        /\ Leave(t)
        /\ closed' = Superseded(node[t])
        /\ UNCHANGED <<up, node, sending>>
    BY <1>6, BeginFrame
  <2>2. \A n \in Expired(now[t]) : entry[n] # 0 =>
          pc[entry[n]] = "done" /\ ~sending[entry[n]]
    BY ExpiredIdle DEF TypeOK, TimeInv
  <2> QED
    BY <2>1, <2>2 DEF Shrinks, Leave, Superseded, EntryInv, ServeInv, TypeOK
<1>7. ASSUME NEW t \in Stream, NEW ready \in BOOLEAN, Heartbeat(t, ready)
      PROVE ServeInv'
  BY <1>7 DEF Heartbeat, ServeInv, streamVars, commandVars
<1>8. ASSUME NEW t \in Stream, NEW c \in CommandId, NEW late \in BOOLEAN, PrepareCommand(t, c, late)
      PROVE ServeInv'
  BY <1>8 DEF PrepareCommand, Serves, ServeInv, fleetVars
<1>9. ASSUME NEW t \in Stream, NEW c \in CommandId, finishCommand(t, c) PROVE ServeInv'
  BY <1>9 DEF finishCommand, Serves, ServeInv, fleetVars
<1>10. ASSUME NEW t \in Stream, PrepareOther(t) PROVE ServeInv'
  BY <1>10 DEF PrepareOther, ServeInv, fleetVars, commandVars
<1>11. ASSUME NEW t \in Stream, Send(t) PROVE ServeInv'
  BY <1>11 DEF Send, registerSend, TypeOK, ServeInv, fleetVars
<1>12. ASSUME NEW t \in Stream, SendReturns(t) PROVE ServeInv'
  BY <1>12 DEF SendReturns, TypeOK, ServeInv, fleetVars, commandVars
<1>13. ASSUME NEW t \in Stream, Return(t) PROVE ServeInv'
  BY <1>13 DEF Return, ServeInv, fleetVars, commandVars
<1>14. ASSUME NEW t \in Stream, HandlerStorageFails(t) PROVE ServeInv'
  BY <1>14 DEF HandlerStorageFails, Serves, ServeInv, fleetVars
<1>15. ASSUME NEW t \in Stream, NEW fails \in BOOLEAN, End(t, fails) PROVE ServeInv'
  BY <1>15 DEF End, Leave, ServeInv
<1>16. ASSUME NEW t \in Stream, Break(t) PROVE ServeInv'
  BY <1>16 DEF Break, ServeInv, fleetVars, commandVars
<1>17. ASSUME NEW c \in CommandId, SubmitCommand(c) PROVE ServeInv'
  BY <1>17 DEF SubmitCommand, ServeInv, fleetVars
<1>18. ASSUME List PROVE ServeInv'
  <2>1. \A n \in Expired(clock) : entry[n] # 0 =>
          pc[entry[n]] = "done" /\ ~sending[entry[n]]
    BY ExpiredIdle DEF TypeOK, Time
  <2>2. Shrinks(Expired(clock)) /\ UNCHANGED <<up, streamVars>>
    BY <1>18, ForgetShrinks DEF List, Expired, TypeOK
  <2> QED
    BY <2>1, <2>2 DEF Shrinks, streamVars, ServeInv, TypeOK
<1>19. ASSUME NEW at \in Time, ExpireCommands(at) PROVE ServeInv'
  BY <1>19 DEF ExpireCommands, ServeInv, fleetVars, streamVars, commandVars
<1>20. ASSUME StorageFails PROVE ServeInv'
  BY <1>20 DEF StorageFails, ServeInv, fleetVars, streamVars, commandVars
<1>21. ASSUME Tick PROVE ServeInv'
  BY <1>21 DEF Tick, ServeInv, fleetVars, streamVars, commandVars
<1>22. ASSUME Stop PROVE ServeInv'
  BY <1>22 DEF Stop, ServeInv, commandVars
<1>23. ASSUME Start PROVE ServeInv'
  BY <1>23 DEF Start, ServeInv, streamVars
<1> QED
  BY <1>1, <1>2, <1>3, <1>4, <1>5, <1>6, <1>7, <1>8, <1>9, <1>10, <1>11, <1>12, <1>13,
     <1>14, <1>15, <1>16, <1>17, <1>18, <1>19, <1>20, <1>21, <1>22, <1>23
  DEF Next, Handler

\* Waits and streams end before an offline node is forgotten.
LEMMA TimeStep == TypeOK /\ EntryInv /\ ServeInv /\ TimeInv /\ Next => TimeInv'
<1> SUFFICES ASSUME TypeOK /\ EntryInv /\ ServeInv /\ TimeInv, Next PROVE TimeInv'
  OBVIOUS
<1> USE FleetAssumption
<1>1. ASSUME NEW t \in Stream, Connect(t) PROVE TimeInv'
  BY <1>1 DEF Connect, TypeOK, TimeInv, Time, fleetVars
<1>2. ASSUME NEW t \in Stream, BeginWaits(t) PROVE TimeInv'
  BY <1>2 DEF BeginWaits, TimeInv, fleetVars, commandVars
<1>3. ASSUME NEW t \in Stream, BeginGivesUp(t) PROVE TimeInv'
  BY <1>3 DEF BeginGivesUp, Leave, TypeOK, TimeInv, Time, fleetVars
<1>4. ASSUME NEW t \in Stream, BeginRefused(t) PROVE TimeInv'
  BY <1>4 DEF BeginRefused, Leave, Forget, TypeOK, TimeInv, View, Time, fleetVars
<1>5. ASSUME NEW t \in Stream, Begin(t) PROVE TimeInv'
  <2> DEFINE n == node[t]
  <2>1. /\ up /\ pc[t] = "begin"
        /\ pc' = [pc EXCEPT ![t] = "serving"]
        /\ now' = [now EXCEPT ![t] = 0]
        /\ UNCHANGED <<clock, node, sending>>
    BY <1>5 DEF Begin, Running
  <2>2. \A m \in Node : entry'[m] = IF m = n THEN t
                                    ELSE IF m \in Expired(now[t]) THEN 0 ELSE entry[m]
    BY <1>5 DEF Begin
  <2>3. n \in Node /\ view'[n].seen = now[t]
    BY <1>5 DEF Begin, View, TypeOK
  <2>4. \A m \in Node : m # n /\ m \notin Expired(now[t]) => view'[m] = view[m]
    BY <1>5 DEF Begin
  <2>5. (\A s \in Stream : now[s] <= clock)'
    BY <2>1 DEF TimeInv, TypeOK, Time
  <2>6. (\A s \in Stream : pc[s] = "begin" => clock - now[s] <= Retention)'
    BY <2>1 DEF TimeInv, TypeOK
  <2>7. ASSUME NEW m \in Node, entry'[m] # 0,
               pc'[entry'[m]] # "done" \/ sending'[entry'[m]]
        PROVE  clock' - view'[m].seen <= Retention
    <3>1. CASE m = n
      BY <2>1, <2>3, <3>1 DEF TimeInv
    <3>2. CASE m # n
      <4>1. m \notin Expired(now[t]) /\ entry'[m] = entry[m] /\ view'[m] = view[m]
        BY <2>2, <2>4, <2>7, <3>2
      <4>2. entry[m] # t /\ entry[m] \in Stream
        BY <2>1, <2>7, <4>1 DEF EntryInv, TypeOK
      <4>3. pc'[entry[m]] = pc[entry[m]]
        BY <2>1, <4>2 DEF TypeOK
      <4> QED
        BY <2>1, <2>7, <4>1, <4>3 DEF TimeInv
    <3> QED
      BY <3>1, <3>2
  <2> QED
    BY <2>5, <2>6, <2>7 DEF TimeInv
<1>6. ASSUME NEW t \in Stream, NEW step \in {"prune", "save", "lose"}, BeginFails(t, step)
      PROVE TimeInv'
  BY <1>6
  DEF BeginFails, Leave, Forget, TypeOK, ServeInv, TimeInv, View, Time, fleetVars
<1>7. ASSUME NEW t \in Stream, NEW ready \in BOOLEAN, Heartbeat(t, ready) PROVE TimeInv'
  BY <1>7 DEF Heartbeat, TypeOK, TimeInv, View, Time, streamVars
<1>8. ASSUME NEW t \in Stream, NEW c \in CommandId, NEW late \in BOOLEAN, PrepareCommand(t, c, late)
      PROVE TimeInv'
  BY <1>8 DEF PrepareCommand, Serves, TimeInv, fleetVars
<1>9. ASSUME NEW t \in Stream, NEW c \in CommandId, finishCommand(t, c) PROVE TimeInv'
  BY <1>9 DEF finishCommand, Serves, TimeInv, fleetVars
<1>10. ASSUME NEW t \in Stream, PrepareOther(t) PROVE TimeInv'
  BY <1>10 DEF PrepareOther, TimeInv, fleetVars, commandVars
<1>11. ASSUME NEW t \in Stream, Send(t) PROVE TimeInv'
  BY <1>11 DEF Send, TimeInv, fleetVars, commandVars
<1>12. ASSUME NEW t \in Stream, SendReturns(t) PROVE TimeInv'
  BY <1>12 DEF SendReturns, TimeInv, fleetVars, commandVars
<1>13. ASSUME NEW t \in Stream, Return(t) PROVE TimeInv'
  BY <1>13 DEF Return, TimeInv, fleetVars, commandVars
<1>14. ASSUME NEW t \in Stream, HandlerStorageFails(t) PROVE TimeInv'
  BY <1>14 DEF HandlerStorageFails, Serves, TimeInv, fleetVars
<1>15. ASSUME NEW t \in Stream, NEW fails \in BOOLEAN, End(t, fails) PROVE TimeInv'
  <2>1. /\ pc' = [pc EXCEPT ![t] = "done"]
        /\ now' = [now EXCEPT ![t] = 0]
        /\ UNCHANGED <<clock, entry, sending>>
        /\ \A m \in Node : view'[m].seen = view[m].seen
    BY <1>15 DEF End, Leave, View, TypeOK
  <2> QED
    BY <2>1 DEF TimeInv, EntryInv, TypeOK, Time
<1>16. ASSUME NEW t \in Stream, Break(t) PROVE TimeInv'
  BY <1>16 DEF Break, TimeInv, fleetVars, commandVars
<1>17. ASSUME NEW c \in CommandId, SubmitCommand(c) PROVE TimeInv'
  BY <1>17 DEF SubmitCommand, TimeInv, fleetVars
<1>18. ASSUME List PROVE TimeInv'
  BY <1>18 DEF List, Forget, TimeInv, streamVars
<1>19. ASSUME NEW at \in Time, ExpireCommands(at) PROVE TimeInv'
  BY <1>19 DEF ExpireCommands, TimeInv, fleetVars, streamVars, commandVars
<1>20. ASSUME StorageFails PROVE TimeInv'
  BY <1>20 DEF StorageFails, TimeInv, fleetVars, streamVars, commandVars
<1>21. ASSUME Tick PROVE TimeInv'
  BY <1>21 DEF Tick, TypeOK, EntryInv, TimeInv, Views, Time, fleetVars, streamVars
<1>22. ASSUME Stop PROVE TimeInv'
  BY <1>22 DEF Stop, TypeOK, TimeInv, Time
<1>23. ASSUME Start PROVE TimeInv'
  BY <1>23 DEF Start, TypeOK, EntryInv, TimeInv, streamVars
<1> QED
  BY <1>1, <1>2, <1>3, <1>4, <1>5, <1>6, <1>7, <1>8, <1>9, <1>10, <1>11, <1>12, <1>13,
     <1>14, <1>15, <1>16, <1>17, <1>18, <1>19, <1>20, <1>21, <1>22, <1>23
  DEF Next, Handler

\* SaveNode and DeleteNodes keep the table in step with fleetStore.nodes.
LEMMA RowStep == TypeOK /\ RowInv /\ Next => RowInv'
<1> SUFFICES ASSUME TypeOK /\ RowInv, Next PROVE RowInv'
  OBVIOUS
<1>1. ASSUME NEW t \in Stream, Connect(t) PROVE RowInv'
  BY <1>1 DEF Connect, RowInv, Running, fleetVars, commandVars
<1>2. ASSUME NEW t \in Stream, BeginWaits(t) PROVE RowInv'
  BY <1>2 DEF BeginWaits, RowInv, Running, fleetVars, commandVars
<1>3. ASSUME NEW t \in Stream, BeginGivesUp(t) PROVE RowInv'
  BY <1>3 DEF BeginGivesUp, RowInv, Running, fleetVars, commandVars
<1>4. ASSUME NEW t \in Stream, BeginRefused(t) PROVE RowInv'
  <2>1. CASE UNCHANGED fleetVars
    BY <1>4, <2>1 DEF BeginRefused, fleetVars, RowInv, Running
  <2>2. CASE Forget(Expired(now[t]))
    BY <1>4, <2>2 DEF BeginRefused, Forget, RowInv, Running, NoRow, TypeOK
  <2> QED
    BY <1>4, <2>1, <2>2 DEF BeginRefused
<1>5. ASSUME NEW t \in Stream, Begin(t) PROVE RowInv'
  BY <1>5 DEF Begin, TypeOK, RowInv, NoRow, Time
<1>6. ASSUME NEW t \in Stream, NEW step \in {"prune", "save", "lose"}, BeginFails(t, step)
      PROVE RowInv'
  BY <1>6 DEF BeginFails, Running, RowInv, FleetFull, RowsFull
<1>7. ASSUME NEW t \in Stream, NEW ready \in BOOLEAN, Heartbeat(t, ready) PROVE RowInv'
  BY <1>7 DEF Heartbeat, Serves, current, TypeOK, RowInv, NoRow, Time
<1>8. ASSUME NEW t \in Stream, NEW c \in CommandId, NEW late \in BOOLEAN, PrepareCommand(t, c, late)
      PROVE RowInv'
  BY <1>8 DEF PrepareCommand, Running, RowInv, fleetVars
<1>9. ASSUME NEW t \in Stream, NEW c \in CommandId, finishCommand(t, c) PROVE RowInv'
  BY <1>9 DEF finishCommand, Running, RowInv, fleetVars
<1>10. ASSUME NEW t \in Stream, PrepareOther(t) PROVE RowInv'
  BY <1>10 DEF PrepareOther, RowInv, Running, fleetVars, commandVars
<1>11. ASSUME NEW t \in Stream, Send(t) PROVE RowInv'
  BY <1>11 DEF Send, RowInv, Running, fleetVars, commandVars
<1>12. ASSUME NEW t \in Stream, SendReturns(t) PROVE RowInv'
  BY <1>12 DEF SendReturns, RowInv, Running, fleetVars, commandVars
<1>13. ASSUME NEW t \in Stream, Return(t) PROVE RowInv'
  BY <1>13 DEF Return, RowInv, Running, fleetVars, commandVars
<1>14. ASSUME NEW t \in Stream, HandlerStorageFails(t) PROVE RowInv'
  BY <1>14 DEF HandlerStorageFails, Running, RowInv, fleetVars, commandVars
<1>15. ASSUME NEW t \in Stream, NEW fails \in BOOLEAN, End(t, fails) PROVE RowInv'
  BY <1>15 DEF End, Running, RowInv, commandVars
<1>16. ASSUME NEW t \in Stream, Break(t) PROVE RowInv'
  BY <1>16 DEF Break, RowInv, Running, fleetVars, commandVars
<1>17. ASSUME NEW c \in CommandId, SubmitCommand(c) PROVE RowInv'
  BY <1>17 DEF SubmitCommand, RowInv, fleetVars
<1>18. ASSUME List PROVE RowInv'
  BY <1>18 DEF List, Forget, RowInv
<1>19. ASSUME NEW at \in Time, ExpireCommands(at) PROVE RowInv'
  BY <1>19 DEF ExpireCommands, RowInv, fleetVars, streamVars, commandVars
<1>20. ASSUME StorageFails PROVE RowInv'
  BY <1>20 DEF StorageFails, RowInv, fleetVars, streamVars, commandVars
<1>21. ASSUME Tick PROVE RowInv'
  BY <1>21 DEF Tick, RowInv, Running, fleetVars, streamVars, commandVars
<1>22. ASSUME Stop PROVE RowInv'
  BY <1>22 DEF Stop, RowInv, Running, commandVars
<1>23. ASSUME Start PROVE RowInv'
  BY <1>23 DEF Start, RowInv, streamVars
<1> QED
  BY <1>1, <1>2, <1>3, <1>4, <1>5, <1>6, <1>7, <1>8, <1>9, <1>10, <1>11, <1>12, <1>13,
     <1>14, <1>15, <1>16, <1>17, <1>18, <1>19, <1>20, <1>21, <1>22, <1>23
  DEF Next, Handler

\* Only beginLocked shows a node connected, only the end of its entry's
\* own handler takes it offline.
LEMMA ViewStep ==
    TypeOK /\ EntryInv /\ ServeInv /\ ConnectedIsServed /\ Next => ConnectedIsServed'
<1> SUFFICES ASSUME TypeOK /\ EntryInv /\ ServeInv /\ ConnectedIsServed, Next
             PROVE ConnectedIsServed'
  OBVIOUS
<1>1. ASSUME NEW t \in Stream, Connect(t) PROVE ConnectedIsServed'
  BY <1>1 DEF Connect, ConnectedIsServed, Running, fleetVars, commandVars
<1>2. ASSUME NEW t \in Stream, BeginWaits(t) PROVE ConnectedIsServed'
  BY <1>2 DEF BeginWaits, ConnectedIsServed, Running, fleetVars, commandVars
<1>3. ASSUME NEW t \in Stream, BeginGivesUp(t) PROVE ConnectedIsServed'
  BY <1>3
  DEF BeginGivesUp, Leave, TypeOK, EntryInv, ConnectedIsServed, Running, fleetVars
<1>4. ASSUME NEW t \in Stream, BeginRefused(t) PROVE ConnectedIsServed'
  BY <1>4
  DEF BeginRefused, Leave, Forget, TypeOK, EntryInv, ConnectedIsServed, Running, View
<1>5. ASSUME NEW t \in Stream, Begin(t) PROVE ConnectedIsServed'
  BY <1>5 DEF Begin, TypeOK, ConnectedIsServed, View, Stream
<1>6. ASSUME NEW t \in Stream, NEW step \in {"prune", "save", "lose"}, BeginFails(t, step)
      PROVE ConnectedIsServed'
  BY <1>6 DEF BeginFails, Running, ConnectedIsServed, fleetVars, commandVars
<1>7. ASSUME NEW t \in Stream, NEW ready \in BOOLEAN, Heartbeat(t, ready)
      PROVE ConnectedIsServed'
  BY <1>7 DEF Heartbeat, Running, ConnectedIsServed, View, streamVars
<1>8. ASSUME NEW t \in Stream, NEW c \in CommandId, NEW late \in BOOLEAN, PrepareCommand(t, c, late)
      PROVE ConnectedIsServed'
  BY <1>8 DEF PrepareCommand, Serves, ConnectedIsServed, fleetVars
<1>9. ASSUME NEW t \in Stream, NEW c \in CommandId, finishCommand(t, c)
      PROVE ConnectedIsServed'
  BY <1>9 DEF finishCommand, Serves, ConnectedIsServed, fleetVars
<1>10. ASSUME NEW t \in Stream, PrepareOther(t) PROVE ConnectedIsServed'
  BY <1>10 DEF PrepareOther, ConnectedIsServed, Running, fleetVars, commandVars
<1>11. ASSUME NEW t \in Stream, Send(t) PROVE ConnectedIsServed'
  BY <1>11 DEF Send, ConnectedIsServed, Running, fleetVars, commandVars
<1>12. ASSUME NEW t \in Stream, SendReturns(t) PROVE ConnectedIsServed'
  BY <1>12 DEF SendReturns, ConnectedIsServed, Running, fleetVars, commandVars
<1>13. ASSUME NEW t \in Stream, Return(t) PROVE ConnectedIsServed'
  BY <1>13 DEF Return, ConnectedIsServed, Running, fleetVars, commandVars
<1>14. ASSUME NEW t \in Stream, HandlerStorageFails(t) PROVE ConnectedIsServed'
  BY <1>14 DEF HandlerStorageFails, Running, ConnectedIsServed, fleetVars, commandVars
<1>15. ASSUME NEW t \in Stream, NEW fails \in BOOLEAN, End(t, fails)
       PROVE ConnectedIsServed'
  <2>1. /\ pc' = [pc EXCEPT ![t] = "done"]
        /\ UNCHANGED <<up, known, entry>>
    BY <1>15 DEF End, Leave
  <2>2. CASE EndsNode(t) /\ ~fails
    BY <1>15, <2>1, <2>2
    DEF End, EndsNode, Running, View, ConnectedIsServed, EntryInv, TypeOK
  <2>3. CASE EndsNode(t) /\ fails
    BY <1>15, <2>3 DEF End, ConnectedIsServed, Running
  <2>4. CASE ~EndsNode(t)
    <3>1. /\ UNCHANGED view
          /\ Running' => Running
      BY <1>15, <2>4 DEF End, Running
    <3>2. ASSUME Running, NEW n \in known, entry[n] # 0
          PROVE  pc'[entry[n]] = pc[entry[n]]
      BY <2>1, <2>4, <3>2 DEF EndsNode, EntryInv, TypeOK
    <3>3. ASSUME Running', NEW n \in known'
          PROVE  view'[n].connected <=> (entry'[n] # 0 /\ pc'[entry'[n]] # "done")
      BY <2>1, <3>1, <3>2, <3>3 DEF ConnectedIsServed
    <3> QED
      BY <3>3 DEF ConnectedIsServed
  <2> QED
    BY <2>2, <2>3, <2>4
<1>16. ASSUME NEW t \in Stream, Break(t) PROVE ConnectedIsServed'
  BY <1>16 DEF Break, ConnectedIsServed, Running, fleetVars, commandVars
<1>17. ASSUME NEW c \in CommandId, SubmitCommand(c) PROVE ConnectedIsServed'
  BY <1>17 DEF SubmitCommand, ConnectedIsServed, fleetVars
<1>18. ASSUME List PROVE ConnectedIsServed'
  BY <1>18 DEF List, Forget, TypeOK, ConnectedIsServed, streamVars
<1>19. ASSUME NEW at \in Time, ExpireCommands(at) PROVE ConnectedIsServed'
  BY <1>19 DEF ExpireCommands, ConnectedIsServed, fleetVars, streamVars, commandVars
<1>20. ASSUME StorageFails PROVE ConnectedIsServed'
  BY <1>20 DEF StorageFails, ConnectedIsServed, fleetVars, streamVars, commandVars
<1>21. ASSUME Tick PROVE ConnectedIsServed'
  BY <1>21 DEF Tick, ConnectedIsServed, Running, fleetVars, streamVars, commandVars
<1>22. ASSUME Stop PROVE ConnectedIsServed'
  BY <1>22 DEF Stop, ConnectedIsServed, commandVars
<1>23. ASSUME Start PROVE ConnectedIsServed'
  BY <1>23 DEF Start, EntryInv, ConnectedIsServed, View
<1> QED
  BY <1>1, <1>2, <1>3, <1>4, <1>5, <1>6, <1>7, <1>8, <1>9, <1>10, <1>11, <1>12, <1>13,
     <1>14, <1>15, <1>16, <1>17, <1>18, <1>19, <1>20, <1>21, <1>22, <1>23
  DEF Next, Handler

\* The queues stay finite.
LEMMA QueueStep == TypeOK /\ QueueInv /\ Next => QueueInv'
<1> SUFFICES ASSUME TypeOK /\ QueueInv, Next PROVE QueueInv'
  OBVIOUS
<1>1. ASSUME NEW t \in Stream, Connect(t) PROVE QueueInv'
  BY <1>1 DEF Connect, QueueInv, fleetVars, commandVars
<1>2. ASSUME NEW t \in Stream, BeginWaits(t) PROVE QueueInv'
  BY <1>2 DEF BeginWaits, QueueInv, fleetVars, commandVars
<1>3. ASSUME NEW t \in Stream, BeginGivesUp(t) PROVE QueueInv'
  BY <1>3 DEF BeginGivesUp, QueueInv, fleetVars, commandVars
<1>4. ASSUME NEW t \in Stream, BeginRefused(t) PROVE QueueInv'
  BY <1>4 DEF BeginRefused, QueueInv, fleetVars, commandVars
<1>5. ASSUME NEW t \in Stream, Begin(t) PROVE QueueInv'
  BY <1>5 DEF Begin, QueueInv
<1>6. ASSUME NEW t \in Stream, NEW step \in {"prune", "save", "lose"}, BeginFails(t, step)
      PROVE QueueInv'
  BY <1>6 DEF BeginFails, QueueInv, fleetVars, commandVars
<1>7. ASSUME NEW t \in Stream, NEW ready \in BOOLEAN, Heartbeat(t, ready)
      PROVE QueueInv'
  BY <1>7 DEF Heartbeat, QueueInv, streamVars, commandVars
<1>8. ASSUME NEW t \in Stream, NEW c \in CommandId, NEW late \in BOOLEAN, PrepareCommand(t, c, late)
      PROVE QueueInv'
  BY <1>8, FS_RemoveElement DEF PrepareCommand, QueueInv, fleetVars
<1>9. ASSUME NEW t \in Stream, NEW c \in CommandId, finishCommand(t, c) PROVE QueueInv'
  BY <1>9 DEF finishCommand, QueueInv, fleetVars
<1>10. ASSUME NEW t \in Stream, PrepareOther(t) PROVE QueueInv'
  BY <1>10 DEF PrepareOther, QueueInv, fleetVars, commandVars
<1>11. ASSUME NEW t \in Stream, Send(t) PROVE QueueInv'
  BY <1>11 DEF Send, QueueInv, fleetVars, commandVars
<1>12. ASSUME NEW t \in Stream, SendReturns(t) PROVE QueueInv'
  BY <1>12 DEF SendReturns, QueueInv, fleetVars, commandVars
<1>13. ASSUME NEW t \in Stream, Return(t) PROVE QueueInv'
  BY <1>13 DEF Return, QueueInv, fleetVars, commandVars
<1>14. ASSUME NEW t \in Stream, HandlerStorageFails(t) PROVE QueueInv'
  BY <1>14 DEF HandlerStorageFails, QueueInv, fleetVars, commandVars
<1>15. ASSUME NEW t \in Stream, NEW fails \in BOOLEAN, End(t, fails) PROVE QueueInv'
  BY <1>15, FS_EmptySet DEF End, QueueInv, commandVars
<1>16. ASSUME NEW t \in Stream, Break(t) PROVE QueueInv'
  BY <1>16 DEF Break, QueueInv, fleetVars, commandVars
<1>17. ASSUME NEW c \in CommandId, SubmitCommand(c) PROVE QueueInv'
  BY <1>17, FS_AddElement DEF SubmitCommand, Running, TypeOK, QueueInv, fleetVars
<1>18. ASSUME List PROVE QueueInv'
  BY <1>18 DEF List, QueueInv, streamVars, commandVars
<1>19. ASSUME NEW at \in Time, ExpireCommands(at) PROVE QueueInv'
  BY <1>19 DEF ExpireCommands, QueueInv, fleetVars, streamVars, commandVars
<1>20. ASSUME StorageFails PROVE QueueInv'
  BY <1>20 DEF StorageFails, QueueInv, fleetVars, streamVars, commandVars
<1>21. ASSUME Tick PROVE QueueInv'
  BY <1>21 DEF Tick, QueueInv, fleetVars, streamVars, commandVars
<1>22. ASSUME Stop PROVE QueueInv'
  BY <1>22, FS_EmptySet DEF Stop, QueueInv, commandVars
<1>23. ASSUME Start PROVE QueueInv'
  BY <1>23 DEF Start, QueueInv, streamVars
<1> QED
  BY <1>1, <1>2, <1>3, <1>4, <1>5, <1>6, <1>7, <1>8, <1>9, <1>10, <1>11, <1>12, <1>13,
     <1>14, <1>15, <1>16, <1>17, <1>18, <1>19, <1>20, <1>21, <1>22, <1>23
  DEF Next, Handler

\* Every action keeps the types.
LEMMA TypeStep == TypeOK /\ QueueInv /\ Next => TypeOK'
<1> SUFFICES ASSUME TypeOK /\ QueueInv, Next PROVE TypeOK'
  OBVIOUS
<1> USE FleetAssumption
<1>0. StoreType /\ QueueType /\ CommandType /\ QueueInv
  BY TypeParts
<1> USE <1>0
<1>1. ASSUME NEW t \in Stream, Connect(t) PROVE TypeOK'
  BY <1>1 DEF Connect, TypeOK, Places, fleetVars, commandVars
<1>2. ASSUME NEW t \in Stream, BeginWaits(t) PROVE TypeOK'
  BY <1>2 DEF BeginWaits, Retire, Superseded, TypeOK, fleetVars, commandVars
<1>3. ASSUME NEW t \in Stream, BeginGivesUp(t) PROVE TypeOK'
  BY <1>3 DEF BeginGivesUp, Leave, TypeOK, Time, Places, fleetVars, commandVars
<1>4. ASSUME NEW t \in Stream, BeginRefused(t) PROVE TypeOK'
  <2>1. StoreType'
    <3>1. Expired(now[t]) \in SUBSET Node
      BY DEF Expired, StoreType
    <3>2. CASE UNCHANGED fleetVars
      BY <1>4, <3>2
      DEF BeginRefused, Leave, Superseded, StoreType, Time, Places, fleetVars
    <3>3. CASE Forget(Expired(now[t]))
      BY <1>4, <3>1, <3>3 DEF BeginRefused, Leave, Superseded, Forget, StoreType, Views,
                              View, Time, Places, NoRow
    <3> QED
      BY <1>4, <3>2, <3>3 DEF BeginRefused
  <2>2. QueueType'
    BY <1>4 DEF BeginRefused, QueueType
  <2>3. CommandType'
    BY <1>4 DEF BeginRefused, commandVars, CommandType
  <2> QED
    BY <2>1, <2>2, <2>3 DEF TypeOK, StoreType, QueueType, CommandType
<1>5. ASSUME NEW t \in Stream, Begin(t) PROVE TypeOK'
  <2>1. StoreType'
    BY <1>5
    DEF Begin, Superseded, StoreType, Views, View, Time, Places, NoRow, Expired, Stream
  <2>2. QueueType'
    BY <1>5 DEF Begin, QueueType
  <2>3. CommandType'
    BY <1>5, JournalTypes DEF Begin, loseCommands, TargetedAt, StoreType
  <2> QED
    BY <2>1, <2>2, <2>3 DEF TypeOK, StoreType, QueueType, CommandType
<1>6. ASSUME NEW t \in Stream, NEW step \in {"prune", "save", "lose"}, BeginFails(t, step)
      PROVE TypeOK'
  <2>1. StoreType'
    <3>1. Expired(now[t]) \in SUBSET Node
      BY DEF Expired, StoreType
    <3>2. /\ Leave(t) /\ closed' = Superseded(node[t])
          /\ fatal' \in Causes
          /\ UNCHANGED <<clock, up, node, sending>>
      BY <1>6 DEF BeginFails, Causes
    <3>3. /\ known' \subseteq Node
          /\ entry' \in [Node -> Stream \cup {0}]
          /\ view' \in [Node -> Views]
          /\ row' \in [Node -> Time \cup {NoRow}]
      <4>1. CASE UNCHANGED fleetVars
        BY <4>1 DEF fleetVars, StoreType
      <4>2. CASE Forget(Expired(now[t]))
        BY <3>1, <4>2 DEF Forget, StoreType, Views, View, Time
      <4>3. CASE step = "lose"
        <5>1. View(FALSE, FALSE, 0) \in Views /\ now[t] \in Time
          BY DEF View, Views, StoreType, Time
        <5>2. known' \subseteq Node /\ entry' \in [Node -> Stream \cup {0}]
          BY <1>6, <4>3 DEF BeginFails, StoreType
        <5>3. view' \in [Node -> Views]
          BY <1>6, <4>3, <5>1 DEF BeginFails, StoreType
        <5>4. row' \in [Node -> Time \cup {NoRow}]
          BY <1>6, <4>3, <5>1 DEF BeginFails, StoreType
        <5> QED
          BY <5>2, <5>3, <5>4
      <4> QED
        BY <1>6, <4>1, <4>2, <4>3 DEF BeginFails
    <3> QED
      BY <3>2, <3>3 DEF Leave, Superseded, StoreType, Places, Time
  <2>2. QueueType'
    BY <1>6 DEF BeginFails, QueueType
  <2>3. CommandType'
    BY <1>6 DEF BeginFails, commandVars, CommandType
  <2> QED
    BY <2>1, <2>2, <2>3 DEF TypeOK, StoreType, QueueType, CommandType
<1>7. ASSUME NEW t \in Stream, NEW ready \in BOOLEAN, Heartbeat(t, ready) PROVE TypeOK'
  BY <1>7 DEF Heartbeat, TypeOK, Views, View, streamVars, commandVars
<1>8. ASSUME NEW t \in Stream, NEW c \in CommandId, NEW late \in BOOLEAN, PrepareCommand(t, c, late)
      PROVE TypeOK'
  <2>1. StoreType'
    BY <1>8
    DEF PrepareCommand, StoreType, Views, View, Time, Causes, Places, NoRow, fleetVars
  <2>2. QueueType'
    BY <1>8, QueueTypes DEF PrepareCommand
  <2>3. CommandType'
    <3>1. /\ Result("timed_out", "deadline_expired") \in Results
          /\ "probe" \in Kinds
      BY DEF Result, Results, Details, Kinds, PlainKinds
    <3>2. \A e \in BOOLEAN : DispatchCommand(record[c], e) \in Records
      BY RecordTypes DEF CommandType
    <3>3. (clock >= expires[c]) \in BOOLEAN
      OBVIOUS
    <3>4. record'[c] \in Records
      BY <1>8, <3>1, <3>2, <3>3, RecordTypes DEF PrepareCommand, CommandType
    <3> QED
      BY <1>8, <3>4 DEF PrepareCommand, CommandType, StoreType
  <2> QED
    BY <2>1, <2>2, <2>3 DEF TypeOK, StoreType, QueueType, CommandType
<1>9. ASSUME NEW t \in Stream, NEW c \in CommandId, finishCommand(t, c) PROVE TypeOK'
  <2>1. StoreType'
    BY <1>9
    DEF finishCommand, StoreType, Views, View, Time, Causes, Places, NoRow, fleetVars
  <2>2. QueueType'
    BY <1>9 DEF finishCommand, QueueType
  <2>3. CommandType'
    <3>1. /\ Result("succeeded", "done") \in Results
          /\ "probe" \in Kinds
      BY DEF Result, Results, Details, Kinds, PlainKinds
    <3>2. FinishCommand("probe", record[c], Result("succeeded", "done")) \in Records
      BY <3>1, RecordTypes DEF CommandType
    <3> QED
      BY <1>9, <3>2 DEF finishCommand, CommandType, StoreType
  <2> QED
    BY <2>1, <2>2, <2>3 DEF TypeOK, StoreType, QueueType, CommandType
<1>10. ASSUME NEW t \in Stream, PrepareOther(t) PROVE TypeOK'
  BY <1>10 DEF PrepareOther, TypeOK, Places, fleetVars, commandVars
<1>11. ASSUME NEW t \in Stream, Send(t) PROVE TypeOK'
  BY <1>11 DEF Send, registerSend, TypeOK, Places, fleetVars, commandVars
<1>12. ASSUME NEW t \in Stream, SendReturns(t) PROVE TypeOK'
  BY <1>12 DEF SendReturns, TypeOK, Places, fleetVars, commandVars
<1>13. ASSUME NEW t \in Stream, Return(t) PROVE TypeOK'
  BY <1>13 DEF Return, TypeOK, Places, fleetVars, commandVars
<1>14. ASSUME NEW t \in Stream, HandlerStorageFails(t) PROVE TypeOK'
  BY <1>14 DEF HandlerStorageFails, TypeOK, Causes, Places, fleetVars, commandVars
<1>15. ASSUME NEW t \in Stream, NEW fails \in BOOLEAN, End(t, fails) PROVE TypeOK'
  <2>1. StoreType'
    <3>1. view' \in [Node -> Views]
      <4>1. View(FALSE, FALSE, view[node[t]].seen) \in Views
        BY DEF View, Views, StoreType
      <4>2. \/ UNCHANGED view
            \/ view' = [view EXCEPT ![node[t]] = View(FALSE, FALSE, view[node[t]].seen)]
        BY <1>15 DEF End, StoreType
      <4> QED
        BY <4>1, <4>2 DEF StoreType
    <3>2. /\ Leave(t)
          /\ closed' = [closed EXCEPT ![t] = TRUE]
          /\ fatal' \in Causes
          /\ UNCHANGED <<clock, up, known, entry, row, node, sending>>
      BY <1>15 DEF End, Causes, StoreType
    <3> QED
      BY <3>1, <3>2 DEF Leave, StoreType, Places, Time
  <2>2. QueueType'
    BY <1>15, QueueEmptied DEF End
  <2>3. CommandType'
    BY <1>15, JournalTypes
    DEF End, loseCommands, TargetedAt, StoreType, commandVars, CommandType
  <2> QED
    BY <2>1, <2>2, <2>3 DEF TypeOK, StoreType, QueueType, CommandType
<1>16. ASSUME NEW t \in Stream, Break(t) PROVE TypeOK'
  BY <1>16 DEF Break, TypeOK, fleetVars, commandVars
<1>17. ASSUME NEW c \in CommandId, SubmitCommand(c) PROVE TypeOK'
  <2>1. StoreType'
    BY <1>17
    DEF SubmitCommand, StoreType, Views, View, Time, Causes, Places, NoRow, fleetVars
  <2>2. QueueType'
    <3>1. TargetOf[c] \in Node
      BY TargetAssumption
    <3>2. entry[TargetOf[c]] \in Stream
      BY <1>17, <3>1 DEF SubmitCommand, StoreType
    <3> QED
      BY <1>17, <3>2, QueueTypes DEF SubmitCommand
  <2>3. CommandType'
    BY <1>17, FleetAssumption DEF SubmitCommand, CommandType, AcceptedRecord, Records,
                                  Statuses, Details, StoreType, Time
  <2> QED
    BY <2>1, <2>2, <2>3 DEF TypeOK, StoreType, QueueType, CommandType
<1>18. ASSUME List PROVE TypeOK'
  BY <1>18 DEF List, Running, Forget, TypeOK, Views, View, Time, streamVars, commandVars
<1>19. ASSUME NEW at \in Time, ExpireCommands(at) PROVE TypeOK'
  <2>1. StoreType'
    BY <1>19 DEF ExpireCommands, streamVars, StoreType, Views, View, Time, Causes,
                 Places, NoRow, fleetVars
  <2>2. QueueType'
    BY <1>19 DEF ExpireCommands, streamVars, QueueType
  <2>3. CommandType'
    BY <1>19, JournalTypes DEF ExpireCommands, commandVars, CommandType
  <2> QED
    BY <2>1, <2>2, <2>3 DEF TypeOK, StoreType, QueueType, CommandType
<1>20. ASSUME StorageFails PROVE TypeOK'
  BY <1>20 DEF StorageFails, TypeOK, Causes, fleetVars, streamVars, commandVars
<1>21. ASSUME Tick PROVE TypeOK'
  BY <1>21 DEF Tick, TypeOK, Time, fleetVars, streamVars, commandVars
<1>22. ASSUME Stop PROVE TypeOK'
  <2>1. StoreType'
    <3>1. /\ view' \in [Node -> Views]
          /\ now' \in [Stream -> Time]
      BY <1>22 DEF Stop, View, Views, StoreType, Time
    <3>2. /\ pc' \in [Stream -> Places]
          /\ entry' \in [Node -> Stream \cup {0}]
          /\ known' \subseteq Node
      BY <1>22 DEF Stop, Places
    <3>3. /\ broken' \in [Stream -> BOOLEAN]
          /\ closed' \in [Stream -> BOOLEAN]
          /\ sending' \in [Stream -> BOOLEAN]
      BY <1>22 DEF Stop
    <3>4. UNCHANGED <<clock, fatal, row, node>> /\ up' = FALSE
      BY <1>22 DEF Stop
    <3> QED
      BY <3>1, <3>2, <3>3, <3>4 DEF StoreType
  <2>2. QueueType'
    BY <1>22, QueueEmptied DEF Stop
  <2>3. CommandType'
    BY <1>22 DEF Stop, commandVars, CommandType
  <2> QED
    BY <2>1, <2>2, <2>3 DEF TypeOK, StoreType, QueueType, CommandType
<1>23. ASSUME Start PROVE TypeOK'
  <2>1. StoreType'
    BY <1>23 DEF Start, streamVars, StoreType, Views, View, Time, Causes, Places, NoRow,
                 fleetVars
  <2>2. QueueType'
    BY <1>23 DEF Start, streamVars, QueueType
  <2>3. CommandType'
    BY <1>23, JournalTypes DEF Start, StoreType
  <2> QED
    BY <2>1, <2>2, <2>3 DEF TypeOK, StoreType, QueueType, CommandType
<1> QED
  BY <1>1, <1>2, <1>3, <1>4, <1>5, <1>6, <1>7, <1>8, <1>9, <1>10, <1>11, <1>12, <1>13,
     <1>14, <1>15, <1>16, <1>17, <1>18, <1>19, <1>20, <1>21, <1>22, <1>23
  DEF Next, Handler

\* A command is admitted to the current entry only, and whoever replaces
\* or ends that entry settles it.
LEMMA StrandStep ==
    TypeOK /\ EntryInv /\ ServeInv /\ ConnectedIsServed /\ NoneStranded /\ Next => NoneStranded'
<1> SUFFICES ASSUME TypeOK /\ EntryInv /\ ServeInv /\ ConnectedIsServed /\ NoneStranded, Next
             PROVE NoneStranded'
  OBVIOUS
<1> USE TargetAssumption
<1>1. ASSUME NEW t \in Stream, Connect(t) PROVE NoneStranded'
  BY <1>1 DEF Connect, NoneStranded, Running, fleetVars, commandVars
<1>2. ASSUME NEW t \in Stream, BeginWaits(t) PROVE NoneStranded'
  BY <1>2 DEF BeginWaits, NoneStranded, Running, fleetVars, commandVars
<1>3. ASSUME NEW t \in Stream, BeginGivesUp(t) PROVE NoneStranded'
  BY <1>3
  DEF BeginGivesUp, Leave, EntryInv, NoneStranded, Running, fleetVars, commandVars
<1>4. ASSUME NEW t \in Stream, BeginRefused(t) PROVE NoneStranded'
  <2>1. /\ Shrinks(Expired(now[t]))
        /\ pc[t] = "begin"
        /\ Leave(t)
        /\ UNCHANGED <<up, outbound, commandVars>>
    BY <1>4, BeginFrame
  <2>2. Running' => Running
    BY <1>4 DEF BeginRefused, Running
  <2>3. ASSUME Running, NEW n \in known, entry[n] # 0, pc[entry[n]] # "done"
        PROVE  n \in known' /\ entry'[n] = entry[n] /\ pc'[entry[n]] # "done"
    <3>1. n \notin Expired(now[t])
      BY <2>3 DEF ConnectedIsServed, Expired
    <3> QED
      BY <2>1, <2>3, <3>1 DEF Shrinks, Leave, EntryInv, TypeOK
  <2> QED
    BY <2>1, <2>2, <2>3 DEF NoneStranded, commandVars
<1>5. ASSUME NEW t \in Stream, Begin(t) PROVE NoneStranded'
  BY <1>5, RecordsSettle DEF Begin, loseCommands, ChangeActive, TargetedAt, Expired,
                             TypeOK, ConnectedIsServed, NoneStranded
<1>6. ASSUME NEW t \in Stream, NEW step \in {"prune", "save", "lose"}, BeginFails(t, step)
      PROVE NoneStranded'
  BY <1>6 DEF BeginFails, Running, NoneStranded, fleetVars, commandVars
<1>7. ASSUME NEW t \in Stream, NEW ready \in BOOLEAN, Heartbeat(t, ready)
      PROVE NoneStranded'
  BY <1>7 DEF Heartbeat, Running, NoneStranded, streamVars, commandVars
<1>8. ASSUME NEW t \in Stream, NEW c \in CommandId, NEW late \in BOOLEAN, PrepareCommand(t, c, late)
      PROVE NoneStranded'
  <2>1. /\ \A e \in BOOLEAN : DispatchCommand(record[c], e).status # "accepted"
        /\ \A e \in BOOLEAN : DispatchCommand(record[c], e) \in Records
    BY RecordTypes, RecordsSettle DEF TypeOK
  <2>2. \A r \in Records :
          LET x == Result("timed_out", "deadline_expired")
          IN  FinishCommand("probe", r, x) = r \/ ~Active(FinishCommand("probe", r, x))
    BY RecordsSettle DEF Result, Results, Details, Kinds, PlainKinds
  <2>3. record'[c].status # "accepted"
    <3> DEFINE r == DispatchCommand(record[c], clock >= expires[c])
              x == Result("timed_out", "deadline_expired")
    <3>1. record'[c] = IF late THEN FinishCommand("probe", r, x) ELSE r
      BY <1>8 DEF PrepareCommand, TypeOK
    <3>2. (clock >= expires[c]) \in BOOLEAN
      OBVIOUS
    <3>3. r \in Records /\ r.status # "accepted"
      BY <2>1, <3>2
    <3>4. FinishCommand("probe", r, x) = r \/ ~Active(FinishCommand("probe", r, x))
      BY <2>2, <3>3
    <3> HIDE DEF r, x
    <3> QED
      BY <3>1, <3>3, <3>4 DEF Active
  <2>4. Active(record'[c]) => Active(record[c])
    BY <1>8 DEF PrepareCommand, DispatchCommand, Active, TypeOK
  <2>5. \A d \in CommandId : d # c => record'[d] = record[d]
    BY <1>8 DEF PrepareCommand, TypeOK
  <2>6. /\ \A s \in Stream : outbound[s] \ {c} \subseteq outbound'[s]
        /\ \A s \in Stream : pc'[s] = "done" => pc[s] = "done"
    BY <1>8 DEF PrepareCommand, Serves, TypeOK
  <2>7. UNCHANGED <<up, fatal, known, entry>>
    BY <1>8 DEF PrepareCommand, fleetVars
  <2>8. ASSUME Running', NEW d \in CommandId, Active(record'[d])
        PROVE  LET s == entry'[TargetOf[d]]
               IN  /\ TargetOf[d] \in known' /\ s # 0 /\ pc'[s] # "done"
                   /\ record'[d].status = "accepted" => d \in outbound'[s]
    <3>1. Running /\ Active(record[d])
      BY <2>4, <2>5, <2>7, <2>8 DEF Running
    <3>2. record'[d].status = "accepted" => d # c /\ record[d].status = "accepted"
      BY <2>3, <2>5
    <3>3. /\ TargetOf[d] \in known
          /\ entry[TargetOf[d]] # 0 /\ pc[entry[TargetOf[d]]] # "done"
          /\ record[d].status = "accepted" => d \in outbound[entry[TargetOf[d]]]
      BY <3>1 DEF NoneStranded
    <3>4. entry[TargetOf[d]] \in Stream
      BY <3>3 DEF TypeOK
    <3>5. pc'[entry[TargetOf[d]]] # "done"
      BY <2>6, <3>3, <3>4
    <3>6. record'[d].status = "accepted" => d \in outbound'[entry[TargetOf[d]]]
      BY <2>6, <3>2, <3>3, <3>4
    <3> QED
      BY <2>7, <3>3, <3>5, <3>6
  <2> QED
    BY <2>8 DEF NoneStranded
<1>9. ASSUME NEW t \in Stream, NEW c \in CommandId, finishCommand(t, c)
      PROVE NoneStranded'
  <2>1. LET x == Result("succeeded", "done")
        IN  FinishCommand("probe", record[c], x) = record[c] \/ ~Active(FinishCommand("probe", record[c], x))
    BY RecordsSettle DEF Result, Results, Details, Kinds, PlainKinds, TypeOK
  <2>2. /\ record'[c] = record[c] \/ ~Active(record'[c])
        /\ \A d \in CommandId : d # c => record'[d] = record[d]
    BY <1>9, <2>1 DEF finishCommand, TypeOK
  <2>3. \A s \in Stream : pc'[s] = "done" => pc[s] = "done"
    BY <1>9 DEF finishCommand, TypeOK
  <2>4. UNCHANGED <<up, fatal, known, entry, outbound>>
    BY <1>9 DEF finishCommand, fleetVars
  <2> QED
    BY <2>2, <2>3, <2>4 DEF NoneStranded, Running, TypeOK
<1>10. ASSUME NEW t \in Stream, PrepareOther(t) PROVE NoneStranded'
  BY <1>10 DEF PrepareOther, NoneStranded, Running, fleetVars, commandVars
<1>11. ASSUME NEW t \in Stream, Send(t) PROVE NoneStranded'
  BY <1>11 DEF Send, NoneStranded, Running, fleetVars, commandVars
<1>12. ASSUME NEW t \in Stream, SendReturns(t) PROVE NoneStranded'
  BY <1>12 DEF SendReturns, NoneStranded, Running, fleetVars, commandVars
<1>13. ASSUME NEW t \in Stream, Return(t) PROVE NoneStranded'
  BY <1>13 DEF Return, NoneStranded, Running, fleetVars, commandVars
<1>14. ASSUME NEW t \in Stream, HandlerStorageFails(t) PROVE NoneStranded'
  BY <1>14 DEF HandlerStorageFails, Running, NoneStranded, fleetVars, commandVars
<1>15. ASSUME NEW t \in Stream, NEW fails \in BOOLEAN, End(t, fails) PROVE NoneStranded'
  <2>1. /\ pc' = [pc EXCEPT ![t] = "done"]
        /\ outbound' = [outbound EXCEPT ![t] = {}]
        /\ UNCHANGED <<up, known, entry>>
    BY <1>15 DEF End, Leave
  <2>2. CASE EndsNode(t) /\ ~fails
    <3>1. \A c \in CommandId : TargetOf[c] = node[t] => ~Active(record'[c])
      BY <1>15, <2>2, RecordsSettle
      DEF End, loseCommands, ChangeActive, TargetedAt, TypeOK
    <3>2. \A c \in CommandId : TargetOf[c] # node[t] => record'[c] = record[c]
      BY <1>15, <2>2 DEF End, loseCommands, ChangeActive, TargetedAt
    <3>3. \A n \in Node : n # node[t] => entry[n] # t
      BY DEF EntryInv, Stream
    <3> QED
      BY <2>1, <2>2, <3>1, <3>2, <3>3 DEF EndsNode, NoneStranded, Running, TypeOK
  <2>3. CASE EndsNode(t) /\ fails
    BY <1>15, <2>3 DEF End, NoneStranded, Running
  <2>4. CASE ~EndsNode(t)
    <3>1. UNCHANGED record /\ (Running' => Running)
      BY <1>15, <2>4 DEF End, Running, commandVars
    <3>2. ASSUME Running, NEW n \in known
          PROVE  entry[n] # t
      <4>1. n \in Node /\ t # 0
        BY <3>2 DEF TypeOK, Stream
      <4>2. entry[n] = t => node[t] = n
        BY <4>1 DEF EntryInv
      <4> QED
        BY <2>4, <3>2, <4>2 DEF EndsNode
    <3> QED
      BY <2>1, <3>1, <3>2 DEF NoneStranded, TypeOK
  <2> QED
    BY <2>2, <2>3, <2>4
<1>16. ASSUME NEW t \in Stream, Break(t) PROVE NoneStranded'
  BY <1>16 DEF Break, NoneStranded, Running, fleetVars, commandVars
<1>17. ASSUME NEW c \in CommandId, SubmitCommand(c) PROVE NoneStranded'
  BY <1>17 DEF SubmitCommand, TypeOK, ConnectedIsServed, NoneStranded, fleetVars
<1>18. ASSUME List PROVE NoneStranded'
  BY <1>18
  DEF List, Forget, Expired, ConnectedIsServed, NoneStranded, streamVars, commandVars
<1>19. ASSUME NEW at \in Time, ExpireCommands(at) PROVE NoneStranded'
  BY <1>19, RecordsSettle DEF ExpireCommands, ChangeActive, TypeOK, NoneStranded,
                              fleetVars, streamVars, commandVars
<1>20. ASSUME StorageFails PROVE NoneStranded'
  BY <1>20 DEF StorageFails, NoneStranded, fleetVars, streamVars, commandVars
<1>21. ASSUME Tick PROVE NoneStranded'
  BY <1>21 DEF Tick, NoneStranded, Running, fleetVars, streamVars, commandVars
<1>22. ASSUME Stop PROVE NoneStranded'
  BY <1>22 DEF Stop, NoneStranded, Running, commandVars
<1>23. ASSUME Start PROVE NoneStranded'
  BY <1>23, RecordsSettle DEF Start, ChangeActive, TypeOK, NoneStranded
<1> QED
  BY <1>1, <1>2, <1>3, <1>4, <1>5, <1>6, <1>7, <1>8, <1>9, <1>10, <1>11, <1>12, <1>13,
     <1>14, <1>15, <1>16, <1>17, <1>18, <1>19, <1>20, <1>21, <1>22, <1>23
  DEF Next, Handler

(***************************************************************************)
(* The initial fleet is empty, and so satisfies the invariant.             *)
(***************************************************************************)
LEMMA FleetInit == Init => FleetInv
<1> SUFFICES ASSUME Init PROVE FleetInv
  OBVIOUS
<1> USE FleetAssumption
<1>1. TypeOK
  <2>1. /\ record \in [CommandId -> Records]
        /\ updated \in [CommandId -> Time]
        /\ expires \in [CommandId -> Nat]
    BY DEF Init, Time, NoRecord, Records, Statuses, Details
  <2>2. \A t \in Stream : Cardinality(outbound[t]) <= OutboundCap
    BY FS_EmptySet DEF Init
  <2>3. /\ clock \in Time /\ up \in BOOLEAN /\ fatal \in Causes
        /\ known \subseteq Node
        /\ entry \in [Node -> Stream \cup {0}]
        /\ view \in [Node -> Views]
        /\ row \in [Node -> Time \cup {NoRow}]
    BY DEF Init, Time, Causes, View, Views
  <2>4. /\ pc \in [Stream -> Places]
        /\ node \in [Stream -> Node]
        /\ now \in [Stream -> Time]
        /\ outbound \in [Stream -> SUBSET CommandId]
    BY DEF Init, Places, Time
  <2>5. /\ broken \in [Stream -> BOOLEAN]
        /\ closed \in [Stream -> BOOLEAN]
        /\ sending \in [Stream -> BOOLEAN]
    BY DEF Init
  <2> QED
    BY <2>1, <2>2, <2>3, <2>4, <2>5 DEF TypeOK
<1>2. EntryInv /\ ServeInv
  BY DEF Init, EntryInv, ServeInv
<1>3. TimeInv /\ RowInv
  BY DEF Init, TimeInv, RowInv, Running, NoRow
<1>4. QueueInv
  BY FS_EmptySet DEF Init, QueueInv
<1>5. ConnectedIsServed /\ NoneStranded
  BY DEF Init, ConnectedIsServed, NoneStranded, NoRecord, Active
<1> QED
  BY <1>1, <1>2, <1>3, <1>4, <1>5 DEF FleetInv

(***************************************************************************)
(* A step that changes nothing keeps the invariant.                        *)
(***************************************************************************)
LEMMA FleetStutter == FleetInv /\ UNCHANGED vars => FleetInv'
<1> SUFFICES ASSUME FleetInv, UNCHANGED vars PROVE FleetInv'
  OBVIOUS
<1>1. TypeOK' /\ EntryInv' /\ ServeInv'
  BY DEF FleetInv, vars, TypeOK, EntryInv, ServeInv
<1>2. TimeInv' /\ RowInv' /\ QueueInv'
  BY DEF FleetInv, vars, TimeInv, RowInv, Running, QueueInv
<1>3. ConnectedIsServed' /\ NoneStranded'
  BY DEF FleetInv, vars, ConnectedIsServed, NoneStranded, Running
<1> QED
  BY <1>1, <1>2, <1>3 DEF FleetInv

(***************************************************************************)
(* The inductive invariant of the fleet store, over every interleaving of  *)
(* handlers, clients, failures and restarts.                               *)
(***************************************************************************)
THEOREM FleetSafety == Spec => []FleetInv
<1>1. FleetInv /\ Next => FleetInv'
  BY TypeStep, EntryStep, ServeStep, TimeStep, RowStep, QueueStep, ViewStep, StrandStep
  DEF FleetInv
<1>2. FleetInv /\ [Next]_vars => FleetInv'
  BY <1>1, FleetStutter
<1> QED
  BY FleetInit, <1>2, PTL DEF Spec

(***************************************************************************)
(* Every variable keeps its type; no queue of commands exceeds its         *)
(* channel (fleetEntry.outbound).                                          *)
(***************************************************************************)
THEOREM FleetTypeCorrect == Spec => []TypeOK
<1>1. FleetInv => TypeOK
  BY DEF FleetInv
<1> QED
  BY FleetSafety, <1>1, PTL

(***************************************************************************)
(* A stream that took over in beginSession sends alone.                    *)
(***************************************************************************)
THEOREM OneSenderHolds == Spec => []OneSender
<1>1. FleetInv => OneSender
  BY DEF FleetInv, ServeInv, OneSender
<1> QED
  BY FleetSafety, <1>1, PTL

(***************************************************************************)
(* No takeover, end, expiry or restart strands an admitted command.        *)
(***************************************************************************)
THEOREM NoneStrandedHolds == Spec => []NoneStranded
<1>1. FleetInv => NoneStranded
  BY DEF FleetInv
<1> QED
  BY FleetSafety, <1>1, PTL

(***************************************************************************)
(* A handler that was not told to stop serves the node's current entry.    *)
(***************************************************************************)
THEOREM ServingIsCurrentHolds == Spec => []ServingIsCurrent
<1>1. ASSUME FleetInv, NEW t \in Stream, ~closed[t],
             pc[t] \in {"serving", "prepared", "sending"}
      PROVE  current(t)
  <2>1. entry[node[t]] = t
    BY <1>1 DEF FleetInv, ServeInv
  <2>2. node[t] \in Node /\ t # 0
    BY FleetAssumption, <1>1 DEF FleetInv, TypeOK, Stream
  <2>3. node[t] \in known
    BY <1>1, <2>1, <2>2 DEF FleetInv, EntryInv
  <2> QED
    BY <1>1, <2>1, <2>3 DEF current
<1>2. FleetInv => ServingIsCurrent
  BY <1>1 DEF ServingIsCurrent
<1> QED
  BY FleetSafety, <1>2, PTL

(***************************************************************************)
(* A node is shown connected exactly while the handler of its entry runs.  *)
(***************************************************************************)
THEOREM ConnectedIsServedHolds == Spec => []ConnectedIsServed
<1>1. FleetInv => ConnectedIsServed
  BY DEF FleetInv
<1> QED
  BY FleetSafety, <1>1, PTL

(***************************************************************************)
(* beginLocked meets the limit of the fleet before SaveNode meets that of  *)
(* the table.                                                              *)
(***************************************************************************)
THEOREM LimitIsNoFailureHolds == Spec => []LimitIsNoFailure
<1>1. FleetInv => LimitIsNoFailure
  BY DEF FleetInv, RowInv, LimitIsNoFailure
<1> QED
  BY FleetSafety, <1>1, PTL

=============================================================================
