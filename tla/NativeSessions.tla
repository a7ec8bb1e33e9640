--------------------------- MODULE NativeSessions ---------------------------
(***************************************************************************)
(* The native server of one named session on a node: the manager that      *)
(* looks at it and starts it (herdrsession/manager.go), and the observer   *)
(* that labels what it sees with the server's incarnation and publishes it *)
(* (node/sessions.go).                                                     *)
(*                                                                         *)
(* The manager asks native commands under a gate.  A call of Ensure holds  *)
(* the gate from its check to the start and waits without it; every other  *)
(* call is one look.  Anyone may start or stop a server behind the         *)
(* manager's back.  Incarnations count the servers; 0 is none.             *)
(***************************************************************************)
EXTENDS Naturals, Sequences, FiniteSets

CONSTANTS
    Ensurer,         \* calls of Ensure
    None,
    MaxProcesses,    \* bound: processes the manager starts
    MaxIncarnation,  \* bound: servers over time
    MaxUpdates       \* the capacity of the observations' channel

ASSUME NoneAssumption == None \notin Ensurer /\ None \notin Nat

VARIABLES
    native,     \* the server: is it running, and which one is it
    process,    \* the processes the manager started, in order
    starting,   \* the process whose start the manager remembers
    gate,       \* who holds the manager's gate across steps
    ensure,     \* where each call of Ensure is
    fresh,      \* processes started since the session was last seen ready
    discovery,  \* the discovery loop's message
    watch,      \* the observer: of which server, and the tree it read
    updates,    \* observations on their way
    view,       \* the node's view of the session
    inventory   \* published views on their way

managerVars == <<process, starting, gate, ensure, fresh>>
observerVars == <<discovery, watch, updates, view, inventory>>
sessionVars == <<native, managerVars, observerVars>>

Unavailable == 0     \* a tree that could not be read

SessionsInit ==
    /\ native = [up |-> FALSE, incarnation |-> 0]
    /\ process = <<>>
    /\ starting = 0
    /\ gate = None
    /\ ensure = [e \in Ensurer |-> [step |-> "idle", own |-> 0]]
    /\ fresh = {}
    /\ discovery = <<>>
    /\ watch = [incarnation |-> 0, tree |-> None]
    /\ updates = <<>>
    /\ view = [incarnation |-> 0, tree |-> Unavailable]
    /\ inventory = <<>>

-----------------------------------------------------------------------------
(* The native side. *)

Serve == native' = [up |-> TRUE, incarnation |-> native.incarnation + 1]

OutsideStart ==
    /\ ~native.up /\ native.incarnation < MaxIncarnation
    /\ Serve
    /\ UNCHANGED <<managerVars, observerVars>>

(* A process finds no other server and serves, or it exits. *)
ProcessSettles(p) ==
    /\ process[p] = "booting"
    /\ \/ /\ ~native.up /\ native.incarnation < MaxIncarnation
          /\ Serve
          /\ process' = [process EXCEPT ![p] = "serving"]
       \/ process' = [process EXCEPT ![p] = "exited"] /\ UNCHANGED native
    /\ UNCHANGED <<starting, gate, ensure, fresh, observerVars>>

ServerStops ==
    /\ native.up
    /\ native' = [native EXCEPT !.up = FALSE]
    /\ process' = [p \in DOMAIN process |-> IF process[p] = "serving" THEN "exited" ELSE process[p]]
    /\ UNCHANGED <<starting, gate, ensure, fresh, observerVars>>

-----------------------------------------------------------------------------
(* The manager. *)

(* Mutant of StartPending: a session that does not answer is stopped. *)
StartPendingNever == FALSE

(* A start that has neither shown a server nor ended. *)
StartPending == starting # 0 /\ process[starting] # "exited"

(* One look at the session, which also forgets a start that has ended. *)
Look ==
    /\ starting' = IF ~native.up /\ StartPending THEN starting ELSE 0
    /\ fresh' = IF native.up THEN {} ELSE fresh

Current == IF native.up THEN native.incarnation ELSE 0

Status == gate = None /\ Look

Ensured(e, result) == ensure' = [ensure EXCEPT ![e].step = result]

(* The check: the call is answered, or it goes on with the gate. *)
EnsureCheck(e) ==
    /\ ensure[e].step = "idle"
    /\ \/ /\ Status
          /\ CASE native.up    -> Ensured(e, "ready") /\ UNCHANGED gate
               [] ~native.up /\ StartPending  -> Ensured(e, "uncertain") /\ UNCHANGED gate
               [] ~native.up /\ ~StartPending -> Ensured(e, "checked") /\ gate' = e
       \/ Ensured(e, "refused") /\ UNCHANGED <<starting, fresh, gate>>
    /\ UNCHANGED <<native, process, observerVars>>

(* The list that bounds the number of sessions is another look.  The start *)
(* itself may fail.                                                        *)
EnsureStart(e) ==
    /\ ensure[e].step = "checked" /\ gate = e
    /\ gate' = None
    /\ LET p == Len(process) + 1 IN
       \/ /\ p <= MaxProcesses
          /\ process' = Append(process, "booting")
          /\ starting' = p
          /\ fresh' = (IF native.up THEN {} ELSE fresh) \cup {p}
          /\ ensure' = [ensure EXCEPT ![e] = [step |-> "waiting", own |-> p]]
       \/ Look /\ Ensured(e, "refused") /\ UNCHANGED process
    /\ UNCHANGED <<native, observerVars>>

EnsureWait(e) ==
    /\ ensure[e].step = "waiting"
    /\ \/ /\ Status
          /\ native.up
          /\ Ensured(e, "ready")
       \/ /\ process[ensure[e].own] = "exited"
          /\ Status
          /\ ~native.up
          /\ Ensured(e, "failed")
       \/ Ensured(e, "uncertain") /\ UNCHANGED <<starting, fresh>>
    /\ UNCHANGED <<native, process, gate, observerVars>>

-----------------------------------------------------------------------------
(* The observer. *)

(* A discovery that fails shows no session. *)
Discover ==
    /\ discovery = <<>>
    /\ \/ Status /\ discovery' = <<Current>>
       \/ discovery' = <<0>> /\ UNCHANGED <<starting, fresh>>
    /\ UNCHANGED <<native, process, gate, ensure, watch, updates, view, inventory>>

(* The wire takes one inventory at a time; the observer waits for it. *)
emit(v) == inventory = <<>> /\ inventory' = <<v>>

(* A watch of another server is cancelled and joined before the next starts; *)
(* what it queued stays.                                                     *)
ApplyDiscovery ==
    /\ discovery # <<>>
    /\ discovery' = <<>>
    /\ LET found == Head(discovery) IN
       /\ watch' = IF watch.incarnation = found THEN watch
                   ELSE [incarnation |-> found, tree |-> None]
       /\ view' = [incarnation |-> found,
                   tree |-> IF view.incarnation = found /\ found # 0 THEN view.tree ELSE Unavailable]
       /\ emit(view')
    /\ UNCHANGED <<native, managerVars, updates>>

(* The watch reads a tree from whichever server answers, *)
ReadTree ==
    /\ watch.incarnation # 0 /\ watch.tree = None
    /\ watch' = [watch EXCEPT !.tree = Current]
    /\ UNCHANGED <<native, managerVars, discovery, updates, view, inventory>>

(* and looks at the server's identity again before it labels the tree. *)
LabelTree ==
    /\ watch.tree # None
    /\ Len(updates) < MaxUpdates
    /\ Status
    /\ updates' = Append(updates, [incarnation |-> watch.incarnation,
                                   tree |-> IF Current = watch.incarnation THEN watch.tree ELSE Unavailable])
    /\ watch' = [watch EXCEPT !.tree = None]
    /\ UNCHANGED <<native, process, gate, ensure, discovery, view, inventory>>

(* Mutant of UpdateFits: an observation goes by the session's name. *)
UpdateFitsName(u) == view.incarnation # 0

UpdateFits(u) == view.incarnation # 0 /\ view.incarnation = u.incarnation

ApplyUpdate ==
    /\ updates # <<>>
    /\ updates' = Tail(updates)
    /\ IF UpdateFits(Head(updates))
       THEN /\ view' = [view EXCEPT !.tree = Head(updates).tree]
            /\ emit(view')
       ELSE UNCHANGED <<view, inventory>>
    /\ UNCHANGED <<native, managerVars, discovery, watch>>

expireSessionSnapshots ==
    /\ view.tree # Unavailable
    /\ view' = [view EXCEPT !.tree = Unavailable]
    /\ emit(view')
    /\ UNCHANGED <<native, managerVars, discovery, watch, updates>>

SessionsNext ==
    \/ OutsideStart \/ ServerStops
    \/ \E p \in DOMAIN process : ProcessSettles(p)
    \/ \E e \in Ensurer : EnsureCheck(e) \/ EnsureStart(e) \/ EnsureWait(e)
    \/ Discover \/ ApplyDiscovery \/ ReadTree \/ LabelTree \/ ApplyUpdate \/ expireSessionSnapshots

-----------------------------------------------------------------------------
(* Properties. *)

(* The manager has at most one process that is still to show a server, as    *)
(* long as it has not seen the session ready in between: calls that give up, *)
(* run at the same time or come one after another never start a second       *)
(* server next to one that is only slow.                                     *)
OneStart == \A p, q \in fresh : process[p] = "booting" /\ process[q] = "booting" => p = q

Labelled(v) == v.tree \in {Unavailable, v.incarnation}
=============================================================================
