----------------------------- MODULE FleetWatch -----------------------------
(***************************************************************************)
(* Watching the fleet: the coordinator serves complete snapshots to a      *)
(* limited number of subscribers (fleetwatch/watch.go, server/watch.go),   *)
(* and the command line shows them, and the gaps between them, and renews  *)
(* its stream (control/watch.go).  The fleet is the number of changes it   *)
(* has seen.  A handler whose client has gone holds its slot until it      *)
(* notices.                                                                *)
(***************************************************************************)
EXTENDS Naturals, Sequences, FiniteSets

CONSTANTS Watcher,           \* command lines that watch
          MaxSubscriptions,  \* slots
          MaxFleet,          \* bound: changes of the fleet
          MaxBuffered,       \* what a transport takes before Send blocks
          Nothing,           \* no snapshot yet
          Gap                \* shown: the retained inventory is not fresh

ASSUME SnapshotAssumption == Nothing \notin Nat /\ Gap \notin Nat /\ Nothing # Gap

VARIABLES fleet,       \* the coordinator's view
          handler,     \* per watcher: the handler of its stream
          lingering,   \* handlers without a client that hold their slots
          stream,      \* per watcher: what is on its way, an error last
          client       \* per watcher: the command line

watchVars == <<fleet, handler, lingering, stream, client>>

NoHandler == [step |-> "none", previous |-> Nothing]

WatchInit ==
    /\ fleet = 1 /\ lingering = 0
    /\ handler = [w \in Watcher |-> NoHandler]
    /\ stream = [w \in Watcher |-> <<>>]
    /\ client = [w \in Watcher |-> [at |-> "open", gap |-> FALSE, shown |-> Nothing]]

slots == Cardinality({w \in Watcher : handler[w].step # "none"}) + lingering

FleetChanges ==
    /\ fleet < MaxFleet /\ fleet' = fleet + 1
    /\ UNCHANGED <<handler, lingering, stream, client>>

-----------------------------------------------------------------------------
(* Watch, the handler of one stream. *)

Snapshot(view) == [type |-> "snapshot", fleet |-> view]
Failure(code)  == [type |-> "error", code |-> code]

(* A subscription starts with a complete snapshot: nothing was sent before. *)
NewSubscription(w) == [NoHandler EXCEPT !.step = "read"]

(* read: the view of this moment, sent when it differs from the last one. *)
ReadFleet(w) ==
    /\ handler[w].step = "read"
    /\ handler' = [handler EXCEPT ![w] =
           IF @.previous = fleet THEN [@ EXCEPT !.step = "wait"]
           ELSE [step |-> "emit", previous |-> fleet]]
    /\ UNCHANGED <<fleet, lingering, stream, client>>

(* emit is synchronous: a slow reader leaves no queue behind. *)
EmitSnapshot(w) ==
    /\ handler[w].step = "emit" /\ Len(stream[w]) < MaxBuffered
    /\ stream' = [stream EXCEPT ![w] = Append(@, Snapshot(handler[w].previous))]
    /\ handler' = [handler EXCEPT ![w].step = "wait"]
    /\ UNCHANGED <<fleet, lingering, client>>

Interval(w) ==
    /\ handler[w].step = "wait" /\ handler' = [handler EXCEPT ![w].step = "read"]
    /\ UNCHANGED <<fleet, lingering, stream, client>>

(* The deadline passes, or a read fails: the view is unavailable, or it is  *)
(* too large or the peer has lost its role.  The slot is given back.        *)
WatchEnds(w) ==
    /\ handler[w].step # "none"
    /\ \E code \in {"deadline", "unavailable", "refused"} :
          /\ code # "deadline" => handler[w].step = "read"
          /\ stream' = [stream EXCEPT ![w] = Append(@, Failure(code))]
    /\ handler' = [handler EXCEPT ![w] = NoHandler]
    /\ UNCHANGED <<fleet, lingering, client>>

(* A handler whose client has gone notices it. *)
Release ==
    /\ lingering > 0 /\ lingering' = lingering - 1
    /\ UNCHANGED <<fleet, handler, stream, client>>

-----------------------------------------------------------------------------
(* watchNodesWithClient. *)

ClientAt(w, at) == client' = [client EXCEPT ![w].at = at]

(* The client leaves its stream, and the handler to itself. *)
LeaveStream(w) ==
    /\ lingering' = lingering + (IF handler[w].step = "none" THEN 0 ELSE 1)
    /\ handler' = [handler EXCEPT ![w] = NoHandler]

WatchNodes(w) ==
    /\ client[w].at = "open" /\ ClientAt(w, "recv")
    /\ \/ /\ slots < MaxSubscriptions
          /\ handler' = [handler EXCEPT ![w] = NewSubscription(w)]
          /\ stream' = [stream EXCEPT ![w] = <<>>]
       \/ /\ slots >= MaxSubscriptions /\ UNCHANGED handler
          /\ stream' = [stream EXCEPT ![w] = <<Failure("refused")>>]
       \/ /\ UNCHANGED handler
          /\ stream' = [stream EXCEPT ![w] = <<Failure("unavailable")>>]
    /\ UNCHANGED <<fleet, lingering>>

(* The connection breaks with whatever was on it. *)
Disconnect(w) ==
    /\ client[w].at = "recv" /\ handler[w].step # "none" /\ LeaveStream(w)
    /\ stream' = [stream EXCEPT ![w] = <<Failure("unavailable")>>]
    /\ UNCHANGED <<fleet, client>>

(* Mutant of Shown: a gap is reported once and for all. *)
ShownOnce(w, view) == [client[w] EXCEPT !.shown = view]

(* A snapshot replaces all that was shown and ends the gap. *)
Shown(w, view) == [client[w] EXCEPT !.shown = view, !.gap = FALSE]

RecvSnapshot(w) ==
    /\ client[w].at = "recv" /\ stream[w] # <<>> /\ Head(stream[w]).type = "snapshot"
    /\ client' = [client EXCEPT ![w] = Shown(w, Head(stream[w]).fleet)]
    /\ stream' = [stream EXCEPT ![w] = Tail(@)]
    /\ UNCHANGED <<fleet, handler, lingering>>

(* The stream fails: what was refused ends the watch, anything else is      *)
(* reported as a gap, once, and tried again after a pause.                  *)
RecvFailure(w) ==
    /\ client[w].at = "recv" /\ stream[w] # <<>> /\ Head(stream[w]).type = "error"
    /\ client' = [client EXCEPT ![w] =
           IF Head(stream[w]).code = "refused" THEN [@ EXCEPT !.at = "ended"]
           ELSE [at |-> "retry", gap |-> TRUE, shown |-> IF @.gap THEN @.shown ELSE Gap]]
    /\ stream' = [stream EXCEPT ![w] = <<>>]
    /\ UNCHANGED <<fleet, handler, lingering>>

(* The stream has reached the time given to it: it is renewed at once and   *)
(* without a gap.  A refusal is one all the same.                           *)
Renew(w) ==
    /\ client[w].at = "recv"
    /\ stream[w] # <<>> => Head(stream[w]) # Failure("refused")
    /\ ClientAt(w, "open") /\ LeaveStream(w)
    /\ stream' = [stream EXCEPT ![w] = <<>>]
    /\ UNCHANGED fleet

RetryDelay(w) ==
    /\ client[w].at = "retry" /\ ClientAt(w, "open")
    /\ UNCHANGED <<fleet, handler, lingering, stream>>

WatchNext ==
    \/ FleetChanges \/ Release
    \/ \E w \in Watcher :
          \/ ReadFleet(w) \/ EmitSnapshot(w) \/ Interval(w) \/ WatchEnds(w)
          \/ WatchNodes(w) \/ Disconnect(w) \/ RecvSnapshot(w) \/ RecvFailure(w)
          \/ Renew(w) \/ RetryDelay(w)

WatchSpec == WatchInit /\ [][WatchNext]_watchVars

-----------------------------------------------------------------------------
(***************************************************************************)
(* What a watcher is looking at is what the coordinator has, or it says    *)
(* that it is not: between two reads of an open stream with nothing on its *)
(* way the last snapshot of that stream is shown (fleetwatch/watch.go:79); *)
(* a watcher without a stream that pauses has shown the gap                *)
(* (control/watch.go:83), and no snapshot that arrives is older than the   *)
(* one it replaces.                                                        *)
(***************************************************************************)
WatchersTold ==
    \A w \in Watcher :
        /\ client[w].at = "retry" => client[w].shown = Gap
        /\ client[w].at = "recv" /\ handler[w].step = "wait" /\ stream[w] = <<>>
              => client[w].shown = handler[w].previous
        /\ \A i \in DOMAIN stream[w] :
              stream[w][i].type = "snapshot" /\ client[w].shown \notin {Gap, Nothing}
                 => client[w].shown <= stream[w][i].fleet

=============================================================================
