------------------------- MODULE NodeServicesProofs -------------------------
(***************************************************************************)
(* OneStart, TreeLabelled, FreshAnswer and AnswersMatched for any number   *)
(* of ensures, queries, servers and places in the queues, and with all of  *)
(* them active at the same time.                                           *)
(*                                                                         *)
(* The manager: a process that still boots is the one whose start is       *)
(* remembered, unless the session was seen ready since it was started.     *)
(* The observer: incarnations only grow, so a tree that was read under a   *)
(* label is at least as young as the label, and the second look bounds it  *)
(* from above.  The queries: each is at one place at most on its way to    *)
(* the node and back, and where it is, somebody knows of it.               *)
(***************************************************************************)
EXTENDS AgentQueries, FiniteSetTheorems, TLAPS

-----------------------------------------------------------------------------
(* The manager. *)

TypeManager ==
    /\ native \in [up : BOOLEAN, incarnation : Nat]
    /\ process \in Seq({"booting", "serving", "exited"})
    /\ starting \in 0..Len(process)
    /\ fresh \subseteq 1..Len(process)

Booting == {p \in fresh : process[p] = "booting"}

(* A process that still boots is remembered; while a call holds the gate *)
(* there is none.                                                        *)
ManagerInv ==
    /\ TypeManager
    /\ Booting \subseteq {starting}
    /\ gate # None => Booting = {}

LEMMA ManagerInit == SessionsInit => ManagerInv
  BY DEF SessionsInit, ManagerInv, TypeManager, Booting

(* Without a server and without a pending start no process boots. *)
LEMMA NothingBoots ==
    ASSUME ManagerInv, ~native.up, ~StartPending
    PROVE  Booting = {}
  BY DEF ManagerInv, TypeManager, Booting, StartPending

LEMMA LookKeeps ==
    ASSUME ManagerInv, Look, native' = native, process' = process
    PROVE  /\ TypeManager' /\ Booting' \subseteq {starting'}
           /\ Booting' \subseteq Booting
<1>1. TypeManager'
  <2>1. starting' \in {0, starting} /\ fresh' \subseteq fresh
      BY DEF Look
  <2>2. Len(process) \in Nat
      BY DEF ManagerInv, TypeManager
  <2> QED  BY <2>1, <2>2 DEF ManagerInv, TypeManager
<1>2. Booting' \subseteq Booting
    BY DEF Look, Booting
<1>3. Booting' \subseteq {starting'}
  <2>1. CASE native.up
      BY <2>1 DEF Look, Booting
  <2>2. CASE ~native.up /\ StartPending
      BY <2>2, <1>2 DEF Look, ManagerInv
  <2>3. CASE ~native.up /\ ~StartPending
      BY <2>3, <1>2, NothingBoots
  <2> QED  BY <2>1, <2>2, <2>3
<1> QED  BY <1>1, <1>2, <1>3

LEMMA StatusKeeps ==
    ASSUME ManagerInv, Status, native' = native, process' = process, gate' = gate
    PROVE  ManagerInv'
  BY LookKeeps DEF Status, ManagerInv

(* The manager's state is not touched. *)
LEMMA ManagerSame ==
    ASSUME ManagerInv, UNCHANGED <<native, process, starting, gate, fresh>>
    PROVE  ManagerInv'
  BY DEF ManagerInv, TypeManager, Booting

LEMMA NativeKeepsManager ==
    ASSUME ManagerInv,
           OutsideStart \/ ServerStops \/ \E p \in DOMAIN process : ProcessSettles(p)
    PROVE  ManagerInv'
<1>0. native \in [up : BOOLEAN, incarnation : Nat]
    BY DEF ManagerInv, TypeManager
<1>1. CASE OutsideStart
    BY <1>1, <1>0 DEF OutsideStart, Serve, managerVars, ManagerInv, TypeManager, Booting
<1>2. CASE ServerStops
  <2>1. native' \in [up : BOOLEAN, incarnation : Nat]
      BY <1>2, <1>0 DEF ServerStops
  <2>2. /\ process' \in Seq({"booting", "serving", "exited"}) /\ Len(process') = Len(process)
        /\ \A p \in 1..Len(process) : process'[p] = "booting" => process[p] = "booting"
      BY <1>2 DEF ServerStops, ManagerInv, TypeManager
  <2> QED  BY <2>1, <2>2, <1>2 DEF ServerStops, ManagerInv, TypeManager, Booting
<1>3. ASSUME NEW p \in DOMAIN process, ProcessSettles(p)
      PROVE  ManagerInv'
  <2>1. native' \in [up : BOOLEAN, incarnation : Nat]
    <3>1. CASE native' = native
        BY <3>1, <1>0
    <3>2. CASE Serve
        BY <3>2, <1>0 DEF Serve
    <3> QED  BY <1>3, <3>1, <3>2 DEF ProcessSettles
  <2>2. /\ process' \in Seq({"booting", "serving", "exited"}) /\ Len(process') = Len(process)
        /\ \A k \in 1..Len(process) : process'[k] = "booting" => process[k] = "booting"
      BY <1>3 DEF ProcessSettles, ManagerInv, TypeManager
  <2> QED  BY <2>1, <2>2, <1>3 DEF ProcessSettles, ManagerInv, TypeManager, Booting
<1> QED  BY <1>1, <1>2, <1>3

LEMMA EnsureKeepsManager ==
    ASSUME ManagerInv, NEW e \in Ensurer, EnsureCheck(e) \/ EnsureStart(e) \/ EnsureWait(e)
    PROVE  ManagerInv'
<1>1. CASE EnsureCheck(e)
  <2>0. native' = native /\ process' = process
      BY <1>1 DEF EnsureCheck
  <2>1. CASE Status /\ gate' = gate
      BY <2>0, <2>1, StatusKeeps
  <2>2. CASE Status /\ ~native.up /\ ~StartPending /\ gate' = e
      BY <2>0, <2>2, LookKeeps, NothingBoots DEF Status, ManagerInv
  <2>3. CASE UNCHANGED <<starting, fresh, gate>>
      BY <2>0, <2>3, ManagerSame
  <2> QED  BY <1>1, <2>1, <2>2, <2>3 DEF EnsureCheck
<1>2. CASE EnsureStart(e)
  <2>0. native' = native /\ Booting = {} /\ gate' = None
      BY <1>2, NoneAssumption DEF EnsureStart, ManagerInv
  <2>1. CASE Look /\ process' = process
      BY <2>0, <2>1, LookKeeps DEF ManagerInv
  <2>2. CASE /\ process' = Append(process, "booting")
             /\ starting' = Len(process) + 1
             /\ fresh' = (IF native.up THEN {} ELSE fresh) \cup {Len(process) + 1}
    <3>1. /\ process' \in Seq({"booting", "serving", "exited"})
          /\ Len(process') = Len(process) + 1 /\ Len(process) \in Nat
          /\ \A p \in 1..Len(process) : process'[p] = process[p]
        BY <2>2 DEF ManagerInv, TypeManager
    <3>2. fresh' \subseteq fresh \cup {starting'} /\ starting' \in 1..Len(process')
        BY <2>2, <3>1
    <3>3. TypeManager'
        BY <2>0, <3>1, <3>2 DEF ManagerInv, TypeManager
    <3>4. Booting' \subseteq Booting \cup {starting'}
        BY <3>1, <3>2 DEF ManagerInv, TypeManager, Booting
    <3> QED  BY <2>0, <3>3, <3>4 DEF ManagerInv
  <2> QED  BY <1>2, <2>1, <2>2 DEF EnsureStart
<1>3. CASE EnsureWait(e)
  <2>0. native' = native /\ process' = process /\ gate' = gate
      BY <1>3 DEF EnsureWait
  <2>1. CASE Status
      BY <2>0, <2>1, StatusKeeps
  <2>2. CASE UNCHANGED <<starting, fresh>>
      BY <2>0, <2>2, ManagerSame
  <2> QED  BY <1>3, <2>1, <2>2 DEF EnsureWait
<1> QED  BY <1>1, <1>2, <1>3

LEMMA ManagerKept == ASSUME ManagerInv, [Next]_vars PROVE ManagerInv'
<1>1. CASE OutsideStart \/ ServerStops \/ \E p \in DOMAIN process : ProcessSettles(p)
    BY <1>1, NativeKeepsManager
<1>2. ASSUME NEW e \in Ensurer, EnsureCheck(e) \/ EnsureStart(e) \/ EnsureWait(e)
      PROVE  ManagerInv'
    BY <1>2, EnsureKeepsManager
<1>3. CASE Discover
  <2>1. CASE Status
      BY <1>3, <2>1, StatusKeeps DEF Discover
  <2>2. CASE UNCHANGED <<starting, fresh>>
      BY <1>3, <2>2, ManagerSame DEF Discover
  <2> QED  BY <1>3, <2>1, <2>2 DEF Discover
<1>4. CASE ApplyDiscovery \/ ReadTree \/ ApplyUpdate \/ expireSessionSnapshots
    BY <1>4, ManagerSame DEF ApplyDiscovery, ReadTree, ApplyUpdate, expireSessionSnapshots, managerVars
<1>5. CASE LabelTree
    BY <1>5, StatusKeeps DEF LabelTree
<1>6. CASE QueriesNext
  <2>1. ASSUME NEW q \in Query, Resolve(q) \/ Verify(q)
        PROVE  ManagerInv'
      BY <2>1, StatusKeeps DEF Resolve, Verify
  <2>2. CASE UpdateSessions
      BY <2>2, ManagerSame DEF UpdateSessions, managerVars
  <2>3. CASE UNCHANGED sessionVars
      BY <2>3, ManagerSame DEF sessionVars, managerVars
  <2> QED  BY <1>6, <2>1, <2>2, <2>3
           DEF QueriesNext, SessionStale, Send, finishAgentQuery, NodeReceive, SendAnswer,
               QueryAgent, GiveUp, Return, TombstoneExpires, NodeGivesUp, Read, PutAnswer
<1>7. CASE UNCHANGED vars
    BY <1>7, ManagerSame DEF vars, sessionVars, managerVars
<1> QED  BY <1>1, <1>2, <1>3, <1>4, <1>5, <1>6, <1>7 DEF Next, SessionsNext

(* Calls of Ensure that give up, run at the same time or follow one another  *)
(* never start a second server next to one that is only slow                 *)
(* (herdrsession/manager.go), whatever the number of calls and processes.    *)
THEOREM OneStartAlways == Spec => []OneStart
<1>1. ManagerInv => OneStart
    BY DEF ManagerInv, OneStart, Booting
<1> QED  BY <1>1, ManagerInit, ManagerKept, PTL DEF Spec, Init
-----------------------------------------------------------------------------
(* The observer. *)

Views  == [incarnation : Nat, tree : Nat]
Shown  == {v \in Views : Labelled(v)}

(* A watch has found a server that is not younger than the present one, and *)
(* read its tree from it or from a younger one.                             *)
WatchInv ==
    /\ watch \in [incarnation : Nat, tree : Nat \cup {None}]
    /\ watch.incarnation <= native.incarnation
    /\ watch.tree # None =>
          /\ watch.incarnation # 0
          /\ watch.tree # 0 =>
                watch.incarnation <= watch.tree /\ watch.tree <= native.incarnation

FoundInv ==
    /\ native \in [up : BOOLEAN, incarnation : Nat]
    /\ discovery \in Seq(Nat)
    /\ \A i \in 1..Len(discovery) : discovery[i] <= native.incarnation

ShownInv ==
    /\ updates \in Seq(Shown) /\ inventory \in Seq(Shown)
    /\ view \in Shown /\ cview \in Shown

ObserverInv == FoundInv /\ WatchInv /\ ShownInv

LEMMA ObserverInit == Init => ObserverInv
  BY DEF Init, SessionsInit, QueriesInit, ObserverInv, FoundInv, WatchInv, ShownInv,
         Shown, Views, Labelled, Unavailable

LEMMA CurrentType ==
    ASSUME native \in [up : BOOLEAN, incarnation : Nat]
    PROVE  /\ Current \in Nat /\ Current <= native.incarnation
           /\ Current # 0 => Current = native.incarnation
  BY DEF Current

(* The native server comes, goes and comes again. *)
LEMMA NativeKeepsObserver ==
    ASSUME ObserverInv, UNCHANGED <<discovery, watch, updates, view, inventory, cview>>,
           native' \in [up : BOOLEAN, incarnation : Nat],
           native.incarnation <= native'.incarnation
    PROVE  ObserverInv'
<1>1. FoundInv'
    BY DEF ObserverInv, FoundInv
<1>2. WatchInv'
  <2>1. watch.tree # None => watch.tree \in Nat
      BY DEF ObserverInv, WatchInv
  <2> QED  BY <2>1 DEF ObserverInv, WatchInv, FoundInv
<1> QED  BY <1>1, <1>2 DEF ObserverInv, ShownInv, Shown, Labelled

LEMMA DiscoverKeeps == ASSUME ObserverInv, Discover, cview' = cview PROVE ObserverInv'
<1>1. FoundInv'
  <2>1. PICK n \in {0, Current} : discovery' = <<n>>
      BY DEF Discover
  <2>2. n \in Nat /\ n <= native.incarnation
      BY CurrentType DEF ObserverInv, FoundInv
  <2> QED  BY <2>1, <2>2 DEF Discover, ObserverInv, FoundInv
<1>2. WatchInv' /\ ShownInv'
    BY DEF Discover, ObserverInv, WatchInv, ShownInv
<1> QED  BY <1>1, <1>2 DEF ObserverInv

LEMMA ApplyDiscoveryKeeps == ASSUME ObserverInv, ApplyDiscovery, cview' = cview PROVE ObserverInv'
<1> DEFINE found == Head(discovery)
<1>0. found \in Nat /\ found <= native.incarnation
    BY DEF ApplyDiscovery, ObserverInv, FoundInv
<1>1. FoundInv'
    BY DEF ApplyDiscovery, ObserverInv, FoundInv
<1>2. WatchInv'
    BY <1>0 DEF ApplyDiscovery, ObserverInv, WatchInv
<1>3. view' \in Shown
    BY <1>0 DEF ApplyDiscovery, ObserverInv, ShownInv, Shown, Views, Labelled, Unavailable
<1>4. inventory' \in Seq(Shown)
    BY <1>3 DEF ApplyDiscovery, emit
<1> QED  BY <1>1, <1>2, <1>3, <1>4 DEF ApplyDiscovery, ObserverInv, ShownInv

LEMMA ReadTreeKeeps == ASSUME ObserverInv, ReadTree, cview' = cview PROVE ObserverInv'
<1>1. WatchInv'
  <2>1. /\ watch' = [watch EXCEPT !.tree = Current] /\ native' = native
        /\ watch.incarnation # 0
        /\ watch.incarnation \in Nat /\ native.incarnation \in Nat
      BY DEF ReadTree, ObserverInv, WatchInv, FoundInv
  <2>2. /\ Current \in Nat /\ Current <= native.incarnation
        /\ Current # 0 => Current = native.incarnation
      BY CurrentType DEF ObserverInv, FoundInv
  <2> HIDE DEF Current
  <2> QED  BY <2>1, <2>2 DEF ObserverInv, WatchInv
<1>2. FoundInv' /\ ShownInv'
    BY DEF ReadTree, ObserverInv, FoundInv, ShownInv
<1> QED  BY <1>1, <1>2 DEF ObserverInv

(* The server that was there before and after the tree was read is the one *)
(* it was read from.                                                       *)
LEMMA LabelTreeKeeps == ASSUME ObserverInv, LabelTree, cview' = cview PROVE ObserverInv'
<1> DEFINE u == [incarnation |-> watch.incarnation,
                 tree |-> IF Current = watch.incarnation THEN watch.tree ELSE Unavailable]
<1>1. u \in Shown
  <2>1. /\ watch.incarnation \in Nat /\ watch.tree \in Nat /\ native.incarnation \in Nat
        /\ watch.incarnation # 0
        /\ watch.tree # 0 => watch.incarnation <= watch.tree /\ watch.tree <= native.incarnation
      BY DEF LabelTree, ObserverInv, WatchInv, FoundInv
  <2>2. CASE Current = watch.incarnation
    <3>1. watch.incarnation = native.incarnation
        BY <2>1, <2>2, CurrentType DEF ObserverInv, FoundInv
    <3> QED  BY <2>1, <2>2, <3>1 DEF Shown, Views, Labelled, Unavailable
  <2>3. CASE Current # watch.incarnation
      BY <2>1, <2>3 DEF Shown, Views, Labelled, Unavailable
  <2> QED  BY <2>2, <2>3
<1>2. updates' \in Seq(Shown)
    BY <1>1 DEF LabelTree, ObserverInv, ShownInv
<1>3. WatchInv'
    BY DEF LabelTree, ObserverInv, WatchInv, FoundInv
<1> QED  BY <1>2, <1>3 DEF LabelTree, ObserverInv, FoundInv, ShownInv

LEMMA ApplyUpdateKeeps == ASSUME ObserverInv, ApplyUpdate, cview' = cview PROVE ObserverInv'
<1>1. /\ Head(updates) \in Shown /\ updates' \in Seq(Shown)
    BY DEF ApplyUpdate, ObserverInv, ShownInv
<1>2. view' \in Shown /\ inventory' \in Seq(Shown)
  <2>1. CASE UpdateFits(Head(updates))
    <3>1. view' = [view EXCEPT !.tree = Head(updates).tree] /\ inventory' = <<view'>>
        BY <2>1 DEF ApplyUpdate, emit
    <3>2. view' \in Shown
        BY <1>1, <2>1, <3>1 DEF UpdateFits, ObserverInv, ShownInv, Shown, Views, Labelled
    <3> QED  BY <3>1, <3>2
  <2>2. CASE ~UpdateFits(Head(updates))
      BY <2>2 DEF ApplyUpdate, ObserverInv, ShownInv
  <2> QED  BY <2>1, <2>2
<1> QED  BY <1>1, <1>2 DEF ApplyUpdate, ObserverInv, FoundInv, WatchInv, ShownInv

LEMMA ExpireKeeps == ASSUME ObserverInv, expireSessionSnapshots, cview' = cview PROVE ObserverInv'
<1>1. view' \in Shown
    BY DEF expireSessionSnapshots, ObserverInv, ShownInv, Shown, Views, Labelled, Unavailable
<1> QED  BY <1>1 DEF expireSessionSnapshots, emit, ObserverInv, FoundInv, WatchInv, ShownInv

LEMMA ObserverSame ==
    ASSUME ObserverInv, UNCHANGED <<native, discovery, watch, updates, view, inventory, cview>>
    PROVE  ObserverInv'
  BY DEF ObserverInv, FoundInv, WatchInv, ShownInv, Shown, Labelled

LEMMA ObserverKept == ASSUME ObserverInv, [Next]_vars PROVE ObserverInv'
<1>0. native \in [up : BOOLEAN, incarnation : Nat]
    BY DEF ObserverInv, FoundInv
<1>1. CASE SessionsNext /\ UNCHANGED queryVars
  <2>0. cview' = cview
      BY <1>1 DEF queryVars
  <2>1. CASE OutsideStart
      BY <2>0, <2>1, <1>0, NativeKeepsObserver DEF OutsideStart, Serve, observerVars
  <2>2. CASE ServerStops
    <3>0. native' = [native EXCEPT !.up = FALSE]
        BY <2>2 DEF ServerStops
    <3>1. native' \in [up : BOOLEAN, incarnation : Nat] /\ native.incarnation <= native'.incarnation
      <4>1. native'.incarnation = native.incarnation /\ native.incarnation \in Nat
          BY <3>0, <1>0
      <4>2. native' \in [up : BOOLEAN, incarnation : Nat]
          BY <3>0, <1>0
      <4> QED  BY <4>1, <4>2
    <3>2. UNCHANGED observerVars
        BY <2>2 DEF ServerStops
    <3> QED  BY <2>0, <3>1, <3>2, NativeKeepsObserver DEF observerVars
  <2>3. ASSUME NEW p \in DOMAIN process, ProcessSettles(p)
        PROVE  ObserverInv'
    <3>1. CASE native' = native
        BY <2>0, <2>3, <3>1, ObserverSame DEF ProcessSettles, observerVars
    <3>2. CASE Serve
        BY <2>0, <2>3, <3>2, <1>0, NativeKeepsObserver DEF ProcessSettles, Serve, observerVars
    <3> QED  BY <2>3, <3>1, <3>2 DEF ProcessSettles
  <2>4. ASSUME NEW e \in Ensurer, EnsureCheck(e) \/ EnsureStart(e) \/ EnsureWait(e)
        PROVE  ObserverInv'
    <3>1. UNCHANGED <<native, observerVars>>
        BY <2>4 DEF EnsureCheck, EnsureStart, EnsureWait
    <3> QED  BY <2>0, <3>1, ObserverSame DEF observerVars
  <2> QED  BY <1>1, <2>0, <2>1, <2>2, <2>3, <2>4, DiscoverKeeps, ApplyDiscoveryKeeps, ReadTreeKeeps,
              LabelTreeKeeps, ApplyUpdateKeeps, ExpireKeeps DEF SessionsNext
<1>2. CASE UpdateSessions
  <2>1. cview' \in Shown /\ inventory' \in Seq(Shown)
      BY <1>2 DEF UpdateSessions, ObserverInv, ShownInv
  <2> QED  BY <1>2, <2>1 DEF UpdateSessions, ObserverInv, FoundInv, WatchInv, ShownInv
<1>3. CASE SessionStale
  <2>1. cview' \in Shown
      BY <1>3 DEF SessionStale, ObserverInv, ShownInv, Shown, Views, Labelled, Unavailable
  <2> QED  BY <1>3, <2>1 DEF SessionStale, sessionVars, observerVars,
                             ObserverInv, FoundInv, WatchInv, ShownInv
<1>4. CASE UNCHANGED <<native, observerVars, cview>>
    BY <1>4, ObserverSame DEF observerVars
<1>5. QueriesNext => \/ UpdateSessions \/ SessionStale \/ UNCHANGED <<native, observerVars, cview>>
    BY DEF QueriesNext, Send, finishAgentQuery, NodeReceive, SendAnswer, QueryAgent, GiveUp, Return,
           TombstoneExpires, NodeGivesUp, Resolve, Read, Verify, PutAnswer, sessionVars
<1>6. UNCHANGED vars => UNCHANGED <<native, observerVars, cview>>
    BY DEF vars, sessionVars, queryVars
<1> QED  BY <1>1, <1>2, <1>3, <1>4, <1>5, <1>6 DEF Next

(* A tree is shown only under the incarnation of the server it was read     *)
(* from, at the node, on the wire and at the coordinator (node/sessions.go),*)
(* however often and whenever the server is replaced.                       *)
THEOREM TreeLabelledAlways == Spec => []TreeLabelled
<1>1. ObserverInv => TreeLabelled
    BY DEF ObserverInv, ShownInv, TreeLabelled, Shown
<1> QED  BY <1>1, ObserverInit, ObserverKept, PTL DEF Spec
-----------------------------------------------------------------------------
(* Where a query is. *)

Has(s, M)  == \E i \in 1..Len(s) : s[i] \in M
Once(s, M) == \A i, j \in 1..Len(s) : s[i] \in M /\ s[j] \in M => i = j

LEMMA AppendHas ==
    ASSUME NEW T, NEW s \in Seq(T), NEW m \in T, NEW M
    PROVE  /\ Append(s, m) \in Seq(T)
           /\ Has(Append(s, m), M) <=> Has(s, M) \/ m \in M
           /\ Once(s, M) /\ (m \in M => ~Has(s, M)) => Once(Append(s, m), M)
<1>1. /\ Len(Append(s, m)) = Len(s) + 1 /\ Len(s) \in Nat
      /\ Append(s, m)[Len(s) + 1] = m
      /\ \A i \in 1..Len(s) : Append(s, m)[i] = s[i]
    OBVIOUS
<1>2. \A i : i \in 1..(Len(s) + 1) <=> i \in 1..Len(s) \/ i = Len(s) + 1
    BY <1>1
<1> QED  BY <1>1, <1>2 DEF Has, Once

LEMMA TailHas ==
    ASSUME NEW T, NEW s \in Seq(T), s # <<>>, NEW M
    PROVE  /\ Head(s) \in T /\ Tail(s) \in Seq(T)
           /\ Has(s, M) <=> Head(s) \in M \/ Has(Tail(s), M)
           /\ Once(s, M) => Once(Tail(s), M) /\ (Head(s) \in M => ~Has(Tail(s), M))
<1>1. /\ Head(s) \in T /\ Tail(s) \in Seq(T) /\ Head(s) = s[1]
      /\ Len(s) \in Nat \ {0} /\ Len(Tail(s)) = Len(s) - 1
      /\ \A i \in 1..Len(Tail(s)) : Tail(s)[i] = s[i + 1]
    OBVIOUS
<1>2. \A i \in 1..Len(Tail(s)) : i + 1 \in 1..Len(s) /\ i + 1 # 1
    BY <1>1
<1>3. \A i \in 1..Len(s) : i = 1 \/ \E j \in 1..Len(Tail(s)) : i = j + 1
  <2> SUFFICES ASSUME NEW i \in 1..Len(s), i # 1 PROVE \E j \in 1..Len(Tail(s)) : i = j + 1
      OBVIOUS
  <2>1. i - 1 \in 1..Len(Tail(s)) /\ i = (i - 1) + 1
      BY <1>1
  <2> QED  BY <2>1
<1>4. 1 \in 1..Len(s)
    BY <1>1
<1>5. \A i, j \in 1..Len(Tail(s)) : i + 1 = j + 1 => i = j
    BY <1>1
<1>6. Has(s, M) <=> Head(s) \in M \/ Has(Tail(s), M)
    BY <1>1, <1>2, <1>3, <1>4 DEF Has
<1>7. Once(s, M) => Once(Tail(s), M)
    BY <1>1, <1>2, <1>5 DEF Once
<1>8. Once(s, M) /\ Head(s) \in M => ~Has(Tail(s), M)
    BY <1>1, <1>2, <1>4 DEF Once, Has
<1> QED  BY <1>1, <1>6, <1>7, <1>8

Envelopes == [query : Query, kind : {"query", "cancel"}]
Results   == [query : Query, value : Nat]
Asks(q)    == [query : {q}, kind : {"query"}]
Answers(q) == [query : {q}, value : Nat]

(* Fewer of the messages in M, if any. *)
Within(t, s, M) == (Has(t, M) => Has(s, M)) /\ (Once(s, M) => Once(t, M))

(* Cancellations join a queue at its end. *)
LEMMA CancelsHas ==
    ASSUME NEW queue \in Seq(Envelopes), NEW qs \in SUBSET Query, IsFiniteSet(qs),
           NEW out \in WithCancels(queue, qs)
    PROVE  /\ out \in Seq(Envelopes)
           /\ \A q \in Query : Within(out, queue, Asks(q))
<1> DEFINE C == {Put(p, "cancel") : p \in qs}
           f == [p \in qs |-> Put(p, "cancel")]
<1>1. Cardinality(C) \in Nat
  <2>1. f \in [qs -> C]
      OBVIOUS
  <2>2. ASSUME NEW t \in C PROVE \E p \in qs : f[p] = t
      OBVIOUS
  <2>3. f \in Surjection(qs, C)
      BY <2>1, <2>2 DEF Surjection
  <2> HIDE DEF f, C
  <2> QED  BY <2>3, FS_Surjection, FS_CardinalityType
<1>2. PICK s \in SetToSeqs(C) :
         out = SubSeq(queue \o s, 1, IF Len(queue \o s) <= MaxOutbound THEN Len(queue \o s) ELSE MaxOutbound)
    BY DEF WithCancels
<1>3. s \in Seq(C) /\ C \subseteq Envelopes
  <2>1. C \subseteq Envelopes
      BY DEF Put, Envelopes
  <2> HIDE DEF C
  <2>2. s \in [1..Cardinality(C) -> C]
      BY <1>2 DEF SetToSeqs
  <2>3. s \in Seq(C)
      BY <1>1, <2>2
  <2> QED  BY <2>1, <2>3
<1> DEFINE all == queue \o s
           n == IF Len(all) <= MaxOutbound THEN Len(all) ELSE MaxOutbound
<1>4. /\ all \in Seq(Envelopes) /\ Len(all) \in Nat /\ Len(queue) \in Nat
      /\ \A i \in 1..Len(queue) : all[i] = queue[i]
      /\ \A i \in 1..Len(all) : i \notin 1..Len(queue) => all[i] \in C
  <2> HIDE DEF C
  <2>1. s \in Seq(Envelopes) /\ Len(s) \in Nat /\ Len(all) = Len(queue) + Len(s) /\ Len(queue) \in Nat
      BY <1>3
  <2>2. \A i \in 1..Len(all) : i \notin 1..Len(queue) =>
            i - Len(queue) \in 1..Len(s) /\ all[i] = s[i - Len(queue)]
      BY <2>1
  <2> QED  BY <1>3, <2>1, <2>2
<1>5. /\ n \in Nat /\ n <= Len(all)
    BY <1>4, QueryAssumption
<1>6. /\ out \in Seq(Envelopes) /\ Len(out) = n
      /\ \A i \in 1..n : out[i] = all[i] /\ i \in 1..Len(all)
  <2> HIDE DEF n, all
  <2>1. out = SubSeq(all, 1, n)
      BY <1>2 DEF n, all
  <2> QED  BY <1>4, <1>5, <2>1
<1>7. ASSUME NEW q \in Query
      PROVE  \A x \in C : x \notin Asks(q)
    BY DEF Put, Asks
<1>8. \A q \in Query : \A i \in 1..Len(out) : out[i] \in Asks(q) => i \in 1..Len(queue) /\ out[i] = queue[i]
  <2> HIDE DEF n, all, C
  <2> QED  BY <1>4, <1>6, <1>7
<1> HIDE DEF n, all, C, f
<1> QED  BY <1>6, <1>8 DEF Within, Has, Once
-----------------------------------------------------------------------------
(* The queries. *)

Calls == [step : {"idle", "waiting", "done"}, target : Nat, answer : Nat]
Works == [step : {"none", "resolve", "read", "verify", "answer"}, value : Nat]

TypeQueries ==
    /\ native \in [up : BOOLEAN, incarnation : Nat]
    /\ cview \in Views
    /\ call \in [Query -> Calls]
    /\ pending \in SUBSET Query /\ IsFiniteSet(pending)
    /\ reply \in [Query -> Nat \cup {None}]
    /\ outbound \in Seq(Envelopes) /\ toNode \in Seq(Envelopes)
    /\ active \in [Query -> Works]
    /\ results \in Seq(Results) /\ toServer \in Seq(Results)

(* A query is asked once, and it is asked, at work or answered. *)
Placed(q) ==
    /\ Once(outbound, Asks(q)) /\ Once(toNode, Asks(q))
    /\ Once(results, Answers(q)) /\ Once(toServer, Answers(q))
    /\ Has(outbound, Asks(q)) =>
          /\ ~Has(toNode, Asks(q)) /\ active[q].step = "none"
          /\ ~Has(results, Answers(q)) /\ ~Has(toServer, Answers(q))
    /\ Has(toNode, Asks(q)) =>
          /\ active[q].step = "none"
          /\ ~Has(results, Answers(q)) /\ ~Has(toServer, Answers(q))
    /\ active[q].step # "none" => ~Has(results, Answers(q)) /\ ~Has(toServer, Answers(q))
    /\ Has(results, Answers(q)) => ~Has(toServer, Answers(q))

Outstanding(q) ==
    \/ Has(outbound, Asks(q)) \/ Has(toNode, Asks(q)) \/ active[q].step # "none"
    \/ Has(results, Answers(q)) \/ Has(toServer, Answers(q))

(* Its caller waits for it with an empty channel, or there is a tombstone, *)
(* or there was one.                                                       *)
Known(q) ==
    /\ Outstanding(q) => q \in pending \cup canceled \cup evicted
    /\ q \in pending => reply[q] = None
    /\ call[q].step = "idle" => /\ ~Outstanding(q) /\ q \notin pending
                                 /\ reply[q] = None /\ call[q].answer = 0

(* Answers that are neither an error nor from the server t. *)
Wrong(q, t) == [query : {q}, value : Nat \ {0, t}]

(* What is read for it is not older than its target, and what is answered *)
(* is from its target.                                                    *)
Pinned(q) ==
    LET t == call[q].target IN
    /\ call[q].step # "idle" => t # 0
    /\ call[q].answer \in {0, t} /\ reply[q] \in {None, 0, t}
    /\ ~Has(results, Wrong(q, t)) /\ ~Has(toServer, Wrong(q, t))
    /\ active[q].step \in {"read", "verify"} => t <= native.incarnation
    /\ active[q].step = "verify" => t <= active[q].value /\ active[q].value <= native.incarnation
    /\ active[q].step = "answer" => active[q].value \in {0, t}

QueryOk(q) == Placed(q) /\ Known(q) /\ Pinned(q)

QueriesInv ==
    /\ TypeQueries
    /\ \A q \in Query : QueryOk(q)
    /\ AnswersMatched

LEMMA EmptyHas == \A M : ~Has(<<>>, M) /\ Once(<<>>, M)
  BY DEF Has, Once

LEMMA QueriesInitial == Init => QueriesInv
<1> SUFFICES ASSUME Init PROVE QueriesInv
    OBVIOUS
<1>1. TypeQueries
    BY FS_EmptySet DEF Init, SessionsInit, QueriesInit, TypeQueries, Views, Calls, Works, Unavailable
<1>2. ASSUME NEW q \in Query PROVE QueryOk(q)
  <2>1. /\ call[q] = [step |-> "idle", target |-> 0, answer |-> 0] /\ reply[q] = None
        /\ active[q] = [step |-> "none", value |-> 0] /\ pending = {}
        /\ outbound = <<>> /\ toNode = <<>> /\ results = <<>> /\ toServer = <<>>
      BY DEF Init, QueriesInit
  <2> QED  BY <2>1, EmptyHas DEF QueryOk, Placed, Known, Pinned, Outstanding
<1>3. AnswersMatched
    BY QueryAssumption DEF Init, QueriesInit, AnswersMatched
<1> QED  BY <1>1, <1>2, <1>3 DEF QueriesInv

(* The server changes, and nothing of the queries does. *)
LEMMA SessionStepKeeps ==
    ASSUME QueriesInv, UNCHANGED <<call, pending, canceled, evicted, reply, outbound, toNode, active,
                                   results, toServer, fault>>,
           cview' \in Views,
           native' \in [up : BOOLEAN, incarnation : Nat],
           native.incarnation <= native'.incarnation
    PROVE  QueriesInv'
<1>1. TypeQueries'
    BY DEF QueriesInv, TypeQueries
<1>2. ASSUME NEW q \in Query PROVE QueryOk(q)'
  <2>1. /\ QueryOk(q)
        /\ call[q].target \in Nat /\ active[q].value \in Nat /\ native.incarnation \in Nat
        /\ native'.incarnation \in Nat
      BY DEF QueriesInv, TypeQueries, Calls, Works
  <2>2. Placed(q)' /\ Known(q)'
      BY <2>1 DEF QueryOk, Placed, Known, Outstanding
  <2>3. Pinned(q)'
      BY <2>1 DEF QueryOk, Pinned
  <2> QED  BY <2>2, <2>3 DEF QueryOk
<1> QED  BY <1>1, <1>2 DEF QueriesInv, AnswersMatched

-----------------------------------------------------------------------------
(* The coordinator's steps. *)

LEMMA QueryAgentKeeps == ASSUME QueriesInv, NEW q \in Query, QueryAgent(q) PROVE QueriesInv'
<1> DEFINE env == Put(q, "query")
<1>0. /\ env \in Envelopes /\ env \in Asks(q)
      /\ \A v \in Query : v # q => env \notin Asks(v)
    BY DEF Put, Envelopes, Asks
<1>1. /\ call[q].step = "idle" /\ cview.incarnation # 0 /\ cview.incarnation \in Nat
      /\ call' = [call EXCEPT ![q].step = "waiting", ![q].target = cview.incarnation]
      /\ pending' = pending \cup {q} /\ outbound' = Append(outbound, env)
      /\ UNCHANGED <<native, cview, canceled, evicted, reply, toNode, active, results, toServer, fault>>
    BY DEF QueryAgent, selectedSessionReady, QueriesInv, TypeQueries, Views, sessionVars
<1>2. /\ outbound \in Seq(Envelopes) /\ IsFiniteSet(pending) /\ call \in [Query -> Calls]
    BY DEF QueriesInv, TypeQueries
<1> HIDE DEF env
<1>3. TypeQueries'
  <2>1. IsFiniteSet(pending')
      BY <1>1, <1>2, FS_AddElement
  <2>2. call' \in [Query -> Calls]
      BY <1>1, <1>2 DEF Calls
  <2> QED  BY <1>0, <1>1, <2>1, <2>2 DEF QueriesInv, TypeQueries
<1>4. ASSUME NEW v \in Query PROVE QueryOk(v)'
  <2>1. QueryOk(v) /\ QueryOk(q)
      BY DEF QueriesInv
  <2>2. /\ Has(outbound', Asks(v)) <=> Has(outbound, Asks(v)) \/ v = q
        /\ Once(outbound, Asks(v)) /\ (v = q => ~Has(outbound, Asks(v))) => Once(outbound', Asks(v))
      BY <1>0, <1>1, <1>2, AppendHas
  <2>3. CASE v = q
    <3>1. /\ call'[q].step = "waiting" /\ call'[q].target = cview.incarnation
          /\ call'[q].answer = call[q].answer /\ reply[q] = None
          /\ ~Outstanding(q)
        BY <1>1, <1>2, <2>1 DEF QueryOk, Known, Calls
    <3>2. /\ ~Has(results, Wrong(q, cview.incarnation)) /\ ~Has(toServer, Wrong(q, cview.incarnation))
      <4>1. ~Has(results, Answers(q)) /\ ~Has(toServer, Answers(q))
          BY <3>1 DEF Outstanding
      <4>2. Wrong(q, cview.incarnation) \subseteq Answers(q)
          BY DEF Wrong, Answers
      <4> QED  BY <4>1, <4>2 DEF Has
    <3>3. call[q].answer = 0 /\ q \in pending'
        BY <1>1, <2>1 DEF QueryOk, Known
    <3>4. Placed(q)'
        BY <1>1, <2>1, <2>2, <2>3, <3>1 DEF QueryOk, Placed, Outstanding
    <3>5. Pinned(q)'
        BY <1>1, <2>1, <3>1, <3>2, <3>3 DEF QueryOk, Pinned, Outstanding
    <3> QED  BY <1>1, <2>3, <3>1, <3>3, <3>4, <3>5 DEF QueryOk, Known
  <2>4. CASE v # q
    <3>1. call'[v] = call[v] /\ (v \in pending' <=> v \in pending)
        BY <1>1, <1>2, <2>4
    <3>2. (Outstanding(v)' <=> Outstanding(v)) /\ Placed(v)'
        BY <1>1, <2>1, <2>2, <2>4 DEF QueryOk, Placed, Outstanding
    <3> QED  BY <1>1, <2>1, <3>1, <3>2 DEF QueryOk, Known, Pinned
  <2> QED  BY <2>3, <2>4
<1> QED  BY <1>1, <1>3, <1>4 DEF QueriesInv, AnswersMatched
(* A query is given up with a tombstone, and no tombstone is lost unnoticed. *)
LEMMA EntombKnows ==
    ASSUME NEW qs, Entomb(qs)
    PROVE  /\ canceled \cup evicted \cup qs \subseteq canceled' \cup evicted'
           /\ evicted \subseteq evicted'
  BY DEF Entomb

LEMMA FewerKeeps ==
    ASSUME NEW v \in Query, QueryOk(v),
           Within(outbound', outbound, Asks(v)),
           Within(toServer', toServer, Answers(v)),
           Within(toServer', toServer, Wrong(v, call[v].target)),
           UNCHANGED <<toNode, active, results>>
    PROVE  /\ Placed(v)' /\ (Outstanding(v)' => Outstanding(v))
           /\ ~Has(toServer', Wrong(v, call[v].target))
  BY DEF QueryOk, Placed, Outstanding, Pinned, Within

(* Calls that wait are answered with an error and given up. *)
LEMMA CancelKeeps ==
    ASSUME QueriesInv, NEW qs \in SUBSET pending,
           NEW queue \in Seq(Envelopes), \A v \in Query : Within(queue, outbound, Asks(v)),
           cancelSessionQueries(qs, queue),
           toServer' \in Seq(Results),
           \A v \in Query : /\ Within(toServer', toServer, Answers(v))
                            /\ Within(toServer', toServer, Wrong(v, call[v].target)),
           cview' \in Views, UNCHANGED <<native, call, toNode, active, results>>
    PROVE  QueriesInv'
<1>0. /\ pending \in SUBSET Query /\ IsFiniteSet(pending) /\ reply \in [Query -> Nat \cup {None}]
      /\ \A v \in Query : QueryOk(v)
    BY DEF QueriesInv, TypeQueries
<1>1. IsFiniteSet(qs) /\ qs \in SUBSET Query
    BY <1>0, FS_Subset
<1>2. /\ pending' = pending \ qs /\ outbound' \in WithCancels(queue, qs)
      /\ reply' = [q \in Query |-> IF q \in qs THEN 0 ELSE reply[q]]
      /\ fault' = IF \E q \in qs : reply[q] # None THEN "stuck" ELSE fault
      /\ Entomb(qs)
    BY DEF cancelSessionQueries, StillPending, Answer
<1>3. /\ outbound' \in Seq(Envelopes)
      /\ \A v \in Query : Within(outbound', outbound, Asks(v))
  <2>1. outbound' \in Seq(Envelopes) /\ \A v \in Query : Within(outbound', queue, Asks(v))
      BY <1>1, <1>2, CancelsHas
  <2> QED  BY <2>1 DEF Within
<1>4. fault' = fault
    BY <1>0, <1>1, <1>2 DEF QueryOk, Known
<1>5. TypeQueries'
  <2>1. IsFiniteSet(pending')
      BY <1>0, <1>2, FS_Subset
  <2>2. reply' \in [Query -> Nat \cup {None}]
      BY <1>0, <1>2
  <2> QED  BY <1>2, <1>3, <2>1, <2>2 DEF QueriesInv, TypeQueries
<1>6. ASSUME NEW v \in Query PROVE QueryOk(v)'
  <2>1. QueryOk(v)
      BY <1>0
  <2>2. /\ Placed(v)' /\ (Outstanding(v)' => Outstanding(v))
        /\ ~Has(toServer', Wrong(v, call[v].target))
      BY <1>3, <2>1, FewerKeeps
  <2>3. reply'[v] = (IF v \in qs THEN 0 ELSE reply[v]) /\ (v \in pending' <=> v \in pending /\ v \notin qs)
      BY <1>2
  <2>4. Known(v)'
    <3>1. v \in canceled \cup evicted \cup qs => v \in canceled' \cup evicted'
        BY <1>2, EntombKnows
    <3> QED  BY <2>1, <2>2, <2>3, <3>1 DEF QueryOk, Known
  <2>5. Pinned(v)'
      BY <2>1, <2>2, <2>3 DEF QueryOk, Pinned
  <2> QED  BY <2>2, <2>4, <2>5 DEF QueryOk
<1>7. AnswersMatched'
  <2>1. evicted \subseteq evicted'
      BY <1>2, EntombKnows
  <2> QED  BY <1>4, <2>1 DEF QueriesInv, AnswersMatched
<1> QED  BY <1>5, <1>6, <1>7 DEF QueriesInv
LEMMA WithinSame == \A s, M : Within(s, s, M)
  BY DEF Within

LEMMA WithinTail ==
    ASSUME NEW T, NEW s \in Seq(T), s # <<>>, NEW M
    PROVE  Within(Tail(s), s, M)
  BY TailHas DEF Within

LEMMA GiveUpKeeps == ASSUME QueriesInv, NEW q \in Query, GiveUp(q) PROVE QueriesInv'
<1>0. /\ call \in [Query -> Calls] /\ call[q].step = "waiting"
      /\ call' = [call EXCEPT ![q].step = "done"]
      /\ UNCHANGED <<native, cview, reply, toNode, active, results, toServer, fault>>
    BY DEF QueriesInv, TypeQueries, GiveUp, sessionVars
<1>1. /\ call' \in [Query -> Calls]
      /\ \A v \in Query : /\ call'[v].target = call[v].target /\ call'[v].answer = call[v].answer
                          /\ call'[v].step = "idle" <=> call[v].step = "idle"
    BY <1>0 DEF Calls
<1>2. /\ outbound' \in Seq(Envelopes) /\ \A v \in Query : Within(outbound', outbound, Asks(v))
      /\ pending' \in SUBSET pending /\ evicted \subseteq evicted'
      /\ \A v \in Query : v \in pending \cup canceled \cup evicted => v \in pending' \cup canceled' \cup evicted'
  <2>1. CASE q \in pending
    <3>1. pending' = pending \ {q} /\ Entomb({q}) /\ outbound' \in WithCancels(outbound, {q})
        BY <2>1 DEF GiveUp
    <3>2. outbound \in Seq(Envelopes) /\ IsFiniteSet({q}) /\ {q} \in SUBSET Query
        BY FS_Singleton DEF QueriesInv, TypeQueries
    <3>3. outbound' \in Seq(Envelopes) /\ \A v \in Query : Within(outbound', outbound, Asks(v))
        BY <3>1, <3>2, CancelsHas
    <3> QED  BY <3>1, <3>3, EntombKnows
  <2>2. CASE q \notin pending
      BY <2>2, WithinSame DEF GiveUp, QueriesInv, TypeQueries
  <2> QED  BY <2>1, <2>2
<1>3. TypeQueries'
  <2>1. IsFiniteSet(pending')
      BY <1>2, FS_Subset DEF QueriesInv, TypeQueries
  <2> QED  BY <1>0, <1>1, <1>2, <2>1 DEF QueriesInv, TypeQueries
<1>4. ASSUME NEW v \in Query PROVE QueryOk(v)'
  <2>1. QueryOk(v)
      BY DEF QueriesInv
  <2>2. /\ Placed(v)' /\ (Outstanding(v)' => Outstanding(v))
        /\ ~Has(toServer', Wrong(v, call[v].target))
      BY <1>0, <1>2, <2>1, FewerKeeps, WithinSame
  <2>3. Known(v)'
      BY <1>0, <1>1, <1>2, <2>1, <2>2 DEF QueryOk, Known
  <2>4. Pinned(v)'
      BY <1>0, <1>1, <2>1 DEF QueryOk, Pinned
  <2> QED  BY <2>2, <2>3, <2>4 DEF QueryOk
<1> QED  BY <1>0, <1>2, <1>3, <1>4 DEF QueriesInv, AnswersMatched

LEMMA ReturnKeeps == ASSUME QueriesInv, NEW q \in Query, Return(q) PROVE QueriesInv'
<1> DEFINE a == IF selectedSessionReady(cview, call[q].target) THEN reply[q] ELSE 0
<1>0. /\ call \in [Query -> Calls] /\ reply \in [Query -> Nat \cup {None}]
      /\ call[q].step = "waiting" /\ reply[q] # None
      /\ call' = [call EXCEPT ![q].step = "done", ![q].answer = a]
      /\ reply' = [reply EXCEPT ![q] = None]
      /\ UNCHANGED <<native, cview, pending, canceled, evicted, outbound, toNode, active, results,
                     toServer, fault>>
    BY DEF QueriesInv, TypeQueries, Return, sessionVars
<1>1. a \in Nat /\ a \in {0, call[q].target}
  <2>1. reply[q] \in Nat /\ reply[q] \in {0, call[q].target}
      BY <1>0 DEF QueriesInv, QueryOk, Pinned
  <2> QED  BY <2>1
<1> HIDE DEF a
<1>2. /\ call' \in [Query -> Calls] /\ reply' \in [Query -> Nat \cup {None}]
      /\ \A v \in Query : /\ call'[v].target = call[v].target
                          /\ call'[v].answer = IF v = q THEN a ELSE call[v].answer
                          /\ call'[v].step = "idle" <=> call[v].step = "idle"
                          /\ v # q => call'[v] = call[v]
                          /\ reply'[v] = IF v = q THEN None ELSE reply[v]
    BY <1>0, <1>1 DEF Calls
<1>3. TypeQueries'
    BY <1>0, <1>2 DEF QueriesInv, TypeQueries
<1>4. ASSUME NEW v \in Query PROVE QueryOk(v)'
  <2>1. QueryOk(v)
      BY DEF QueriesInv
  <2>2. Placed(v)' /\ (Outstanding(v)' <=> Outstanding(v))
      BY <1>0, <2>1 DEF QueryOk, Placed, Outstanding
  <2>3. Known(v)'
      BY <1>0, <1>2, <2>1, <2>2 DEF QueryOk, Known
  <2>4. Pinned(v)'
      BY <1>0, <1>1, <1>2, <2>1 DEF QueryOk, Pinned
  <2> QED  BY <2>2, <2>3, <2>4 DEF QueryOk
<1> QED  BY <1>0, <1>3, <1>4 DEF QueriesInv, AnswersMatched

LEMMA UpdateSessionsKeeps == ASSUME QueriesInv, UpdateSessions, cview' \in Views PROVE QueriesInv'
<1> DEFINE qs == IF selectedSessionReady(cview', cview.incarnation) THEN {} ELSE pending
<1>1. /\ qs \in SUBSET pending /\ cancelSessionQueries(qs, outbound)
      /\ UNCHANGED <<native, call, toNode, active, results, toServer>>
    BY DEF UpdateSessions
<1>2. outbound \in Seq(Envelopes) /\ toServer \in Seq(Results)
    BY DEF QueriesInv, TypeQueries
<1> HIDE DEF qs
<1> QED  BY <1>1, <1>2, WithinSame, CancelKeeps

LEMMA SessionStaleKeeps == ASSUME QueriesInv, SessionStale PROVE QueriesInv'
<1>1. cview' \in Views
    BY DEF SessionStale, QueriesInv, TypeQueries, Views, Unavailable
<1>2. native' = native /\ native \in [up : BOOLEAN, incarnation : Nat]
    BY DEF SessionStale, sessionVars, QueriesInv, TypeQueries
<1> QED  BY <1>1, <1>2, SessionStepKeeps DEF SessionStale

(* A query whose call waits moves to the wire, or it is cancelled there. *)
LEMMA SendKeeps == ASSUME QueriesInv, Send PROVE QueriesInv'
<1>0. /\ outbound # <<>> /\ outbound \in Seq(Envelopes) /\ toNode \in Seq(Envelopes)
      /\ Tail(outbound) \in Seq(Envelopes)
      /\ UNCHANGED <<native, cview, call, active, results, toServer>>
    BY DEF Send, QueriesInv, TypeQueries, sessionVars
<1>e. PICK e \in Envelopes : e = Head(outbound)
    BY <1>0
<1>a. /\ cview' \in Views /\ toServer' \in Seq(Results)
    BY <1>0 DEF QueriesInv, TypeQueries
<1>b. ASSUME NEW v \in Query
      PROVE  /\ Within(Tail(outbound), outbound, Asks(v))
             /\ Has(outbound, Asks(v)) <=> e \in Asks(v) \/ Has(Tail(outbound), Asks(v))
             /\ Once(outbound, Asks(v)) /\ e \in Asks(v) => ~Has(Tail(outbound), Asks(v))
    BY <1>0, <1>e, TailHas DEF Within
<1>1. CASE e.kind = "query" /\ e.query \in pending /\ ~selectedSessionReady(cview, call[e.query].target)
  <2>1. cancelSessionQueries({e.query}, Tail(outbound)) /\ toNode' = toNode
      BY <1>1, <1>e DEF Send
  <2>2. {e.query} \in SUBSET pending
      BY <1>1
  <2> QED  BY <1>0, <1>a, <1>b, <2>1, <2>2, WithinSame, CancelKeeps
<1>2. CASE ~(e.kind = "query" /\ e.query \in pending /\ ~selectedSessionReady(cview, call[e.query].target))
  <2>1. /\ outbound' = Tail(outbound)
        /\ toNode' = IF e.kind = "cancel" \/ e.query \in pending THEN Append(toNode, e) ELSE toNode
        /\ UNCHANGED <<pending, canceled, evicted, reply, fault>>
      BY <1>2, <1>e DEF Send
  <2>2. ASSUME NEW v \in Query
        PROVE  /\ toNode' \in Seq(Envelopes)
               /\ Has(toNode', Asks(v)) => Has(toNode, Asks(v)) \/ e \in Asks(v)
               /\ Once(toNode, Asks(v)) /\ (e \in Asks(v) => ~Has(toNode, Asks(v))) => Once(toNode', Asks(v))
      BY <1>0, <2>1, AppendHas
  <2>3. TypeQueries'
      BY <1>0, <2>1 DEF QueriesInv, TypeQueries
  <2>4. ASSUME NEW v \in Query PROVE QueryOk(v)'
    <3>1. QueryOk(v)
        BY DEF QueriesInv
    <3>2. Placed(v)' /\ (Outstanding(v)' => Outstanding(v))
        BY <1>0, <1>b, <2>1, <2>2, <3>1 DEF QueryOk, Placed, Outstanding, Within
    <3>3. Known(v)'
        BY <1>0, <2>1, <3>1, <3>2 DEF QueryOk, Known
    <3>4. Pinned(v)'
        BY <1>0, <2>1, <3>1 DEF QueryOk, Pinned
    <3> QED  BY <3>2, <3>3, <3>4 DEF QueryOk
  <2> QED  BY <2>1, <2>3, <2>4 DEF QueriesInv, AnswersMatched
<1> QED  BY <1>1, <1>2
(* An answer reaches its call, which waits with an empty channel; or the *)
(* call is over, and somebody knows of it.                               *)
LEMMA FinishKeeps == ASSUME QueriesInv, finishAgentQuery PROVE QueriesInv'
<1>0. /\ toServer # <<>> /\ toServer \in Seq(Results) /\ toServer' = Tail(toServer) /\ fault = None
      /\ UNCHANGED <<native, cview, call, toNode, active, results>>
    BY DEF finishAgentQuery, QueriesInv, TypeQueries, sessionVars
<1>a. PICK m \in Results : m = Head(toServer)
    BY <1>0
<1>b. PICK q \in Query : q = m.query
    BY DEF Results
<1>1. m.value \in Nat /\ toServer' \in Seq(Results)
    BY <1>0 DEF Results
<1>2. ASSUME NEW v \in Query
      PROVE  /\ Within(toServer', toServer, Answers(v))
             /\ Within(toServer', toServer, Wrong(v, call[v].target))
             /\ Once(toServer, Answers(v)) /\ m \in Answers(v) => ~Has(toServer', Answers(v))
             /\ m \in Answers(v) => Has(toServer, Answers(v))
    BY <1>0, <1>a, TailHas, WithinTail
<1>3. cview' \in Views /\ outbound \in Seq(Envelopes)
    BY <1>0 DEF QueriesInv, TypeQueries
<1>4. m \in Answers(q) /\ Has(toServer, Answers(q)) /\ ~Has(toServer', Answers(q)) /\ QueryOk(q)
  <2>1. m \in Answers(q)
      BY <1>b DEF Results, Answers
  <2>2. QueryOk(q)
      BY <1>1 DEF QueriesInv
  <2> QED  BY <1>1, <1>2, <2>1, <2>2 DEF QueryOk, Placed
<1>5. ASSUME NEW v \in Query, outbound' = outbound
      PROVE  /\ Placed(v)' /\ (Outstanding(v)' => Outstanding(v))
             /\ ~Has(toServer', Wrong(v, call[v].target))
  <2>1. QueryOk(v)
      BY DEF QueriesInv
  <2> QED  BY <1>0, <1>2, <1>5, <2>1, WithinSame, FewerKeeps
<1>6. CASE q \notin pending
  <2>1. /\ fault' = (IF q \in canceled THEN fault ELSE "unmatched")
        /\ UNCHANGED <<pending, canceled, evicted, outbound, reply>>
      BY <1>6, <1>a, <1>b DEF finishAgentQuery
  <2>2. q \in canceled \/ q \in evicted
      BY <1>4, <1>6 DEF QueryOk, Known, Outstanding
  <2>3. TypeQueries'
      BY <1>0, <1>1, <2>1 DEF QueriesInv, TypeQueries
  <2>4. ASSUME NEW v \in Query PROVE QueryOk(v)'
    <3>1. QueryOk(v) /\ Placed(v)' /\ (Outstanding(v)' => Outstanding(v))
          /\ ~Has(toServer', Wrong(v, call[v].target))
        BY <1>5, <2>1 DEF QueriesInv
    <3>2. Known(v)'
        BY <1>0, <2>1, <3>1 DEF QueryOk, Known
    <3>3. Pinned(v)'
        BY <1>0, <2>1, <3>1 DEF QueryOk, Pinned
    <3> QED  BY <3>1, <3>2, <3>3 DEF QueryOk
  <2>5. AnswersMatched'
      BY <2>1, <2>2 DEF QueriesInv, AnswersMatched
  <2> QED  BY <2>3, <2>4, <2>5 DEF QueriesInv
<1>7. CASE q \in pending /\ ~selectedSessionReady(cview, call[q].target)
  <2>1. cancelSessionQueries({q}, outbound) /\ {q} \in SUBSET pending
      BY <1>7, <1>a, <1>b DEF finishAgentQuery
  <2> QED  BY <1>0, <1>1, <1>2, <1>3, <2>1, WithinSame, CancelKeeps
<1>8. CASE q \in pending /\ selectedSessionReady(cview, call[q].target)
  <2>1. /\ pending' = pending \ {q} /\ UNCHANGED <<canceled, evicted, outbound>>
        /\ reply' = [v \in Query |-> IF v \in {q} THEN m.value ELSE reply[v]]
        /\ fault' = IF \E v \in {q} : reply[v] # None THEN "stuck" ELSE fault
      BY <1>8, <1>a, <1>b DEF finishAgentQuery, Answer
  <2>2. fault' = fault
      BY <1>4, <1>8, <2>1 DEF QueryOk, Known
  <2>3. TypeQueries'
    <3>0. IsFiniteSet(pending)
        BY DEF QueriesInv, TypeQueries
    <3>1. IsFiniteSet(pending')
        BY <2>1, <3>0, FS_RemoveElement
    <3>2. reply' \in [Query -> Nat \cup {None}]
        BY <1>1, <2>1 DEF QueriesInv, TypeQueries
    <3> QED  BY <1>0, <1>1, <2>1, <3>1, <3>2 DEF QueriesInv, TypeQueries
  <2>4. ASSUME NEW v \in Query PROVE QueryOk(v)'
    <3>1. QueryOk(v) /\ Placed(v)' /\ (Outstanding(v)' => Outstanding(v))
          /\ ~Has(toServer', Wrong(v, call[v].target))
        BY <1>5, <2>1 DEF QueriesInv
    <3>2. CASE v = q
      <4>1. m.value \in {0, call[q].target}
        <5>1. m \notin Wrong(q, call[q].target)
            BY <1>0, <1>a, <1>4, TailHas DEF QueryOk, Pinned
        <5> QED  BY <1>b, <5>1 DEF Wrong, Results
      <4>2. ~Outstanding(q)'
          BY <1>0, <1>4, <2>1 DEF QueryOk, Placed, Outstanding
      <4>3. reply'[q] = m.value /\ q \notin pending' /\ call[q].step # "idle"
          BY <1>1, <1>4, <1>8, <2>1 DEF QueryOk, Known
      <4>4. Known(v)'
          BY <1>0, <3>2, <4>2, <4>3 DEF Known
      <4>5. Pinned(v)'
          BY <1>0, <3>1, <3>2, <4>1, <4>3 DEF QueryOk, Pinned
      <4> QED  BY <3>1, <4>4, <4>5 DEF QueryOk
    <3>3. CASE v # q
      <4>1. reply'[v] = reply[v] /\ (v \in pending' <=> v \in pending)
          BY <2>1, <3>3
      <4>2. Known(v)'
          BY <1>0, <2>1, <3>1, <4>1 DEF QueryOk, Known
      <4>3. Pinned(v)'
          BY <1>0, <3>1, <4>1 DEF QueryOk, Pinned
      <4> QED  BY <3>1, <4>2, <4>3 DEF QueryOk
    <3> QED  BY <3>2, <3>3
  <2> QED  BY <2>1, <2>2, <2>3, <2>4 DEF QueriesInv, AnswersMatched
<1> QED  BY <1>6, <1>7, <1>8

(* A tombstone goes when nothing of its query is left. *)
LEMMA TombstoneKeeps == ASSUME QueriesInv, NEW q \in Query, TombstoneExpires(q) PROVE QueriesInv'
<1>1. /\ active[q].step = "none" /\ canceled' = canceled \ {q}
      /\ \A s \in {outbound, toNode, results, toServer} : \A i \in DOMAIN s : s[i].query # q
      /\ UNCHANGED <<native, cview, call, pending, evicted, reply, outbound, toNode, active, results,
                     toServer, fault>>
    BY DEF TombstoneExpires, sessionVars
<1>2. ~Outstanding(q)
  <2>1. ~Has(outbound, Asks(q)) /\ ~Has(toNode, Asks(q))
      BY <1>1 DEF Has, Asks, QueriesInv, TypeQueries
  <2>2. ~Has(results, Answers(q)) /\ ~Has(toServer, Answers(q))
      BY <1>1 DEF Has, Answers, QueriesInv, TypeQueries
  <2> QED  BY <1>1, <2>1, <2>2 DEF Outstanding
<1>3. TypeQueries'
    BY <1>1 DEF QueriesInv, TypeQueries
<1>4. ASSUME NEW v \in Query PROVE QueryOk(v)'
  <2>1. QueryOk(v)
      BY DEF QueriesInv
  <2>2. Placed(v)' /\ (Outstanding(v)' <=> Outstanding(v))
      BY <1>1, <2>1 DEF QueryOk, Placed, Outstanding
  <2>3. Known(v)'
      BY <1>1, <1>2, <2>1, <2>2 DEF QueryOk, Known
  <2>4. Pinned(v)'
      BY <1>1, <2>1 DEF QueryOk, Pinned
  <2> QED  BY <2>2, <2>3, <2>4 DEF QueryOk
<1> QED  BY <1>1, <1>3, <1>4 DEF QueriesInv, AnswersMatched
-----------------------------------------------------------------------------
(* The node's steps. *)

(* A query at work goes on, and what it has read fits its target. *)
Fits(w, t) ==
    /\ w.step \in {"read", "verify"} => t <= native.incarnation
    /\ w.step = "verify" => t <= w.value /\ w.value <= native.incarnation
    /\ w.step = "answer" => w.value \in {0, t}

LEMMA WorkKeeps ==
    ASSUME QueriesInv, NEW q \in Query, NEW w \in Works,
           active[q].step # "none", w.step # "none",
           active' = [active EXCEPT ![q] = w], Fits(w, call[q].target),
           UNCHANGED <<native, cview, call, pending, canceled, evicted, reply, outbound, toNode,
                       results, toServer, fault>>
    PROVE  QueriesInv'
<1>1. active' \in [Query -> Works] /\ \A v \in Query : active'[v] = IF v = q THEN w ELSE active[v]
    BY DEF QueriesInv, TypeQueries
<1>2. TypeQueries'
    BY <1>1 DEF QueriesInv, TypeQueries
<1>3. ASSUME NEW v \in Query PROVE QueryOk(v)'
  <2>1. QueryOk(v) /\ (active'[v].step = "none" <=> active[v].step = "none")
      BY <1>1 DEF QueriesInv
  <2>2. Placed(v)' /\ (Outstanding(v)' <=> Outstanding(v))
      BY <2>1 DEF QueryOk, Placed, Outstanding
  <2>3. Known(v)'
      BY <2>1, <2>2 DEF QueryOk, Known
  <2>4. Pinned(v)'
      BY <1>1, <2>1 DEF QueryOk, Pinned, Fits
  <2> QED  BY <2>2, <2>3, <2>4 DEF QueryOk
<1> QED  BY <1>2, <1>3 DEF QueriesInv, AnswersMatched

LEMMA FailedFits == Failed \in Works /\ Failed.step # "none" /\ \A t : Fits(Failed, t)
  BY DEF Failed, Works, Fits

LEMMA GivesUpKeeps == ASSUME QueriesInv, NEW q \in Query, NodeGivesUp(q) PROVE QueriesInv'
<1>1. /\ active[q].step # "none" /\ active' = [active EXCEPT ![q] = Failed]
      /\ UNCHANGED <<native, cview, call, pending, canceled, evicted, reply, outbound, toNode,
                     results, toServer, fault>>
    BY DEF NodeGivesUp, Canceling, sessionVars
<1> QED  BY <1>1, FailedFits, WorkKeeps

LEMMA ResolveKeeps == ASSUME QueriesInv, NEW q \in Query, Resolve(q) PROVE QueriesInv'
<1>1. /\ active[q].step # "none"
      /\ UNCHANGED <<native, cview, call, pending, canceled, evicted, reply, outbound, toNode,
                     results, toServer, fault>>
    BY DEF Resolve
<1>2. call[q].target \in Nat /\ native \in [up : BOOLEAN, incarnation : Nat]
    BY DEF QueriesInv, TypeQueries, Calls
<1>3. PICK w \in Works : /\ active' = [active EXCEPT ![q] = w] /\ w.step # "none"
                         /\ Fits(w, call[q].target)
  <2>1. CASE Current = call[q].target
    <3>1. active' = [active EXCEPT ![q] = [step |-> "read", value |-> 0]]
        BY <2>1 DEF Resolve, Step
    <3>2. call[q].target <= native.incarnation
        BY <1>2, <2>1, CurrentType
    <3>3. /\ [step |-> "read", value |-> 0] \in Works
          /\ Fits([step |-> "read", value |-> 0], call[q].target)
        BY <3>2 DEF Works, Fits
    <3> QED  BY <3>1, <3>3
  <2>2. CASE Current # call[q].target
    <3>1. active' = [active EXCEPT ![q] = Failed]
        BY <2>2 DEF Resolve, Step, Failed
    <3> QED  BY <3>1, FailedFits
  <2> QED  BY <2>1, <2>2
<1> QED  BY <1>1, <1>3, WorkKeeps

LEMMA ReadKeeps == ASSUME QueriesInv, NEW q \in Query, Read(q) PROVE QueriesInv'
<1>1. /\ active[q].step = "read"
      /\ UNCHANGED <<native, cview, call, pending, canceled, evicted, reply, outbound, toNode,
                     results, toServer, fault>>
    BY DEF Read, sessionVars
<1>2. /\ call[q].target \in Nat /\ native \in [up : BOOLEAN, incarnation : Nat]
      /\ call[q].target <= native.incarnation
    BY <1>1 DEF QueriesInv, TypeQueries, Calls, QueryOk, Pinned
<1>3. PICK w \in Works : /\ active' = [active EXCEPT ![q] = w] /\ w.step # "none"
                         /\ Fits(w, call[q].target)
  <2>1. CASE native.up
    <3>1. active' = [active EXCEPT ![q] = [step |-> "verify", value |-> native.incarnation]]
        BY <2>1 DEF Read, Step, Current
    <3>2. /\ [step |-> "verify", value |-> native.incarnation] \in Works
          /\ Fits([step |-> "verify", value |-> native.incarnation], call[q].target)
        BY <1>2 DEF Works, Fits
    <3> QED  BY <3>1, <3>2
  <2>2. CASE ~native.up
    <3>1. active' = [active EXCEPT ![q] = Failed]
        BY <2>2 DEF Read, Step, Failed
    <3> QED  BY <3>1, FailedFits
  <2> QED  BY <2>1, <2>2
<1> QED  BY <1>1, <1>3, WorkKeeps

(* The server that was there before and after the agent was read is the one *)
(* it was read from.                                                        *)
LEMMA VerifyKeeps == ASSUME QueriesInv, NEW q \in Query, Verify(q) PROVE QueriesInv'
<1>1. /\ active[q].step = "verify"
      /\ UNCHANGED <<native, cview, call, pending, canceled, evicted, reply, outbound, toNode,
                     results, toServer, fault>>
    BY DEF Verify
<1>2. /\ call[q].target \in Nat /\ native \in [up : BOOLEAN, incarnation : Nat]
      /\ active[q].value \in Nat /\ call[q].target # 0
      /\ call[q].target <= active[q].value /\ active[q].value <= native.incarnation
    BY <1>1 DEF QueriesInv, TypeQueries, Calls, Works, QueryOk, Pinned, Known, Outstanding
<1>3. PICK w \in Works : /\ active' = [active EXCEPT ![q] = w] /\ w.step # "none"
                         /\ Fits(w, call[q].target)
  <2>1. CASE Verified(q)
    <3>1. active' = [active EXCEPT ![q] = [step |-> "answer", value |-> active[q].value]]
        BY <2>1 DEF Verify, Step
    <3>2. active[q].value = call[q].target
        BY <1>2, <2>1, CurrentType DEF Verified
    <3>3. /\ [step |-> "answer", value |-> active[q].value] \in Works
          /\ Fits([step |-> "answer", value |-> active[q].value], call[q].target)
        BY <1>2, <3>2 DEF Works, Fits
    <3> QED  BY <3>1, <3>3
  <2>2. CASE ~Verified(q)
    <3>1. active' = [active EXCEPT ![q] = Failed]
        BY <2>2 DEF Verify, Step, Failed
    <3> QED  BY <3>1, FailedFits
  <2> QED  BY <2>1, <2>2
<1> QED  BY <1>1, <1>3, WorkKeeps

(* A query leaves the wire for the node; no other one of its number is there. *)
LEMMA NodeReceiveKeeps == ASSUME QueriesInv, NodeReceive PROVE QueriesInv'
<1>0. /\ toNode # <<>> /\ toNode \in Seq(Envelopes) /\ toNode' = Tail(toNode)
      /\ active \in [Query -> Works] /\ results \in Seq(Results)
      /\ UNCHANGED <<native, cview, call, pending, canceled, evicted, reply, outbound, toServer>>
    BY DEF NodeReceive, QueriesInv, TypeQueries, sessionVars
<1>a. PICK e \in Envelopes : e = Head(toNode)
    BY <1>0
<1>b. PICK q \in Query : q = e.query
    BY DEF Envelopes
<1>1. ASSUME NEW v \in Query
      PROVE  /\ Has(toNode, Asks(v)) <=> e \in Asks(v) \/ Has(toNode', Asks(v))
             /\ Once(toNode, Asks(v)) => Once(toNode', Asks(v)) /\ (e \in Asks(v) => ~Has(toNode', Asks(v)))
    BY <1>0, <1>a, TailHas
<1>2. toNode' \in Seq(Envelopes)
    BY <1>0
<1>3. \A v \in Query : v # q => e \notin Asks(v)
    BY <1>b DEF Asks
<1>4. CASE e.kind = "cancel"
  <2>1. /\ active' = IF Canceling(q) THEN [active EXCEPT ![q] = Failed] ELSE active
        /\ UNCHANGED <<results, fault>>
      BY <1>4, <1>a, <1>b DEF NodeReceive
  <2>2. /\ active' \in [Query -> Works]
        /\ \A v \in Query : \/ active'[v] = active[v]
                            \/ active[v].step # "none" /\ active'[v] = Failed
    <3>1. CASE Canceling(q)
      <4>1. active' = [active EXCEPT ![q] = Failed] /\ active[q].step # "none"
          BY <2>1, <3>1 DEF Canceling
      <4>2. \A v \in Query : active'[v] = IF v = q THEN Failed ELSE active[v]
          BY <1>0, <4>1
      <4>3. active' \in [Query -> Works]
          BY <1>0, <4>1, FailedFits
      <4> QED  BY <4>1, <4>2, <4>3
    <3>2. CASE ~Canceling(q)
      <4>1. active' = active
          BY <2>1, <3>2
      <4> QED  BY <1>0, <4>1
    <3> QED  BY <3>1, <3>2
  <2>3. TypeQueries'
      BY <1>0, <1>2, <2>1, <2>2 DEF QueriesInv, TypeQueries
  <2>4. ASSUME NEW v \in Query PROVE QueryOk(v)'
    <3>1. QueryOk(v) /\ (active'[v].step = "none" <=> active[v].step = "none")
        BY <2>2, FailedFits DEF QueriesInv
    <3>2. Placed(v)' /\ (Outstanding(v)' => Outstanding(v))
        BY <1>0, <1>1, <2>1, <3>1 DEF QueryOk, Placed, Outstanding
    <3>3. Known(v)'
        BY <1>0, <3>1, <3>2 DEF QueryOk, Known
    <3>4. Pinned(v)'
        BY <1>0, <2>1, <2>2, <3>1 DEF QueryOk, Pinned, Failed
    <3> QED  BY <3>2, <3>3, <3>4 DEF QueryOk
  <2> QED  BY <1>0, <2>1, <2>3, <2>4 DEF QueriesInv, AnswersMatched
<1>5. CASE e.kind = "query"
  <2>0. Start(q) /\ e \in Asks(q) /\ Has(toNode, Asks(q)) /\ QueryOk(q)
    <3>1. Start(q)
        BY <1>5, <1>a, <1>b DEF NodeReceive
    <3>2. e \in Asks(q)
        BY <1>5, <1>b DEF Envelopes, Asks
    <3> QED  BY <1>1, <3>1, <3>2 DEF QueriesInv
  <2>1. active[q].step = "none" /\ q \notin Busy
      BY <2>0 DEF QueryOk, Placed, Busy
  <2>2. fault' \in {fault, "exhausted"}
      BY <2>0, <2>1 DEF Start
  <2>3. AnswersMatched'
      BY <1>0, <2>2 DEF QueriesInv, AnswersMatched
  <2>4. CASE /\ active' = [active EXCEPT ![q] = [step |-> "resolve", value |-> 0]]
             /\ results' = results
    <3>1. /\ active' \in [Query -> Works]
          /\ \A v \in Query : active'[v] = IF v = q THEN [step |-> "resolve", value |-> 0] ELSE active[v]
        BY <1>0, <2>4 DEF Works
    <3>2. TypeQueries'
        BY <1>0, <1>2, <2>4, <3>1 DEF QueriesInv, TypeQueries
    <3>3. ASSUME NEW v \in Query PROVE QueryOk(v)'
      <4>1. QueryOk(v)
          BY DEF QueriesInv
      <4>2. Placed(v)' /\ (Outstanding(v)' => Outstanding(v))
          BY <1>0, <1>1, <1>3, <2>0, <2>4, <3>1, <4>1 DEF QueryOk, Placed, Outstanding
      <4>3. Known(v)'
          BY <1>0, <4>1, <4>2 DEF QueryOk, Known
      <4>4. Pinned(v)'
          BY <1>0, <2>4, <3>1, <4>1 DEF QueryOk, Pinned
      <4> QED  BY <4>2, <4>3, <4>4 DEF QueryOk
    <3> QED  BY <2>3, <3>2, <3>3 DEF QueriesInv
  <2>5. CASE active' = active /\ results' \in {results, Append(results, Result(q, 0))}
    <3>0. /\ Result(q, 0) \in Results /\ \A v \in Query : Result(q, 0) \in Answers(v) <=> v = q
          /\ \A v \in Query : \A t : Result(q, 0) \notin Wrong(v, t)
        BY DEF Result, Results, Answers, Wrong
    <3>1. ASSUME NEW v \in Query
          PROVE  /\ results' \in Seq(Results)
                 /\ Has(results', Answers(v)) => Has(results, Answers(v)) \/ v = q
                 /\ Once(results, Answers(v)) /\ (v = q => ~Has(results, Answers(v))) => Once(results', Answers(v))
                 /\ Has(results', Wrong(v, call[v].target)) => Has(results, Wrong(v, call[v].target))
      <4>1. CASE results' = results
          BY <1>0, <4>1
      <4>2. CASE results' = Append(results, Result(q, 0))
        <5> HIDE DEF Result
        <5> QED  BY <1>0, <4>2, <3>0, AppendHas
      <4> QED  BY <2>5, <4>1, <4>2
    <3>2. TypeQueries'
        BY <1>0, <1>2, <2>5, <3>1 DEF QueriesInv, TypeQueries
    <3>3. ASSUME NEW v \in Query PROVE QueryOk(v)'
      <4>1. QueryOk(v)
          BY DEF QueriesInv
      <4>2. Placed(v)' /\ (Outstanding(v)' => Outstanding(v))
          BY <1>0, <1>1, <1>3, <2>0, <2>5, <3>1, <4>1 DEF QueryOk, Placed, Outstanding
      <4>3. Known(v)'
          BY <1>0, <4>1, <4>2 DEF QueryOk, Known
      <4>4. Pinned(v)'
          BY <1>0, <2>5, <3>1, <4>1 DEF QueryOk, Pinned
      <4> QED  BY <4>2, <4>3, <4>4 DEF QueryOk
    <3> QED  BY <2>3, <3>2, <3>3 DEF QueriesInv
  <2> QED  BY <2>0, <2>1, <2>4, <2>5 DEF Start
<1> QED  BY <1>4, <1>5 DEF Envelopes

LEMMA PutAnswerKeeps == ASSUME QueriesInv, NEW q \in Query, PutAnswer(q) PROVE QueriesInv'
<1> DEFINE r == Result(q, active[q].value)
<1>0. /\ active[q].step = "answer" /\ results' = Append(results, r)
      /\ active' = [active EXCEPT ![q] = [step |-> "none", value |-> 0]]
      /\ active \in [Query -> Works] /\ results \in Seq(Results)
      /\ UNCHANGED <<native, cview, call, pending, canceled, evicted, reply, outbound, toNode, toServer, fault>>
    BY DEF PutAnswer, Step, QueriesInv, TypeQueries, sessionVars
<1>1. active[q].value \in Nat /\ active[q].value \in {0, call[q].target}
    BY <1>0 DEF QueriesInv, TypeQueries, QueryOk, Pinned, Works
<1>2. /\ r \in Results
      /\ \A v \in Query : (r \in Answers(v) <=> v = q) /\ r \notin Wrong(v, call[v].target)
    BY <1>1 DEF Result, Results, Answers, Wrong
<1> HIDE DEF r
<1>3. ASSUME NEW v \in Query
      PROVE  /\ results' \in Seq(Results)
             /\ Has(results', Answers(v)) <=> Has(results, Answers(v)) \/ v = q
             /\ Once(results, Answers(v)) /\ (v = q => ~Has(results, Answers(v))) => Once(results', Answers(v))
             /\ Has(results', Wrong(v, call[v].target)) => Has(results, Wrong(v, call[v].target))
    BY <1>0, <1>2, AppendHas
<1>4. /\ active' \in [Query -> Works]
      /\ \A v \in Query : active'[v] = IF v = q THEN [step |-> "none", value |-> 0] ELSE active[v]
    BY <1>0 DEF Works
<1>5. TypeQueries'
    BY <1>0, <1>3, <1>4 DEF QueriesInv, TypeQueries
<1>6. ASSUME NEW v \in Query PROVE QueryOk(v)'
  <2>1. QueryOk(v)
      BY DEF QueriesInv
  <2>2. Placed(v)' /\ (Outstanding(v)' => Outstanding(v))
      BY <1>0, <1>3, <1>4, <2>1 DEF QueryOk, Placed, Outstanding
  <2>3. Known(v)'
      BY <1>0, <2>1, <2>2 DEF QueryOk, Known
  <2>4. Pinned(v)'
      BY <1>0, <1>3, <1>4, <2>1 DEF QueryOk, Pinned
  <2> QED  BY <2>2, <2>3, <2>4 DEF QueryOk
<1> QED  BY <1>0, <1>5, <1>6 DEF QueriesInv, AnswersMatched

LEMMA SendAnswerKeeps == ASSUME QueriesInv, SendAnswer PROVE QueriesInv'
<1>0. /\ results # <<>> /\ results' = Tail(results) /\ toServer' = Append(toServer, Head(results))
      /\ results \in Seq(Results) /\ toServer \in Seq(Results)
      /\ UNCHANGED <<native, cview, call, pending, canceled, evicted, reply, outbound, toNode, active, fault>>
    BY DEF SendAnswer, QueriesInv, TypeQueries, sessionVars
<1>a. PICK m \in Results : m = Head(results)
    BY <1>0
<1>1. ASSUME NEW M
      PROVE  /\ results' \in Seq(Results)
             /\ Has(results, M) <=> m \in M \/ Has(results', M)
             /\ Once(results, M) => Once(results', M) /\ (m \in M => ~Has(results', M))
    BY <1>0, <1>a, TailHas
<1>2. ASSUME NEW M
      PROVE  /\ toServer' \in Seq(Results)
             /\ Has(toServer', M) <=> Has(toServer, M) \/ m \in M
             /\ Once(toServer, M) /\ (m \in M => ~Has(toServer, M)) => Once(toServer', M)
    BY <1>0, <1>a, AppendHas
<1>3. TypeQueries'
    BY <1>0, <1>1, <1>2 DEF QueriesInv, TypeQueries
<1>4. ASSUME NEW v \in Query PROVE QueryOk(v)'
  <2>1. QueryOk(v)
      BY DEF QueriesInv
  <2>2. Placed(v)' /\ (Outstanding(v)' => Outstanding(v))
      BY <1>0, <1>1, <1>2, <2>1 DEF QueryOk, Placed, Outstanding
  <2>3. Known(v)'
      BY <1>0, <2>1, <2>2 DEF QueryOk, Known
  <2>4. Pinned(v)'
      BY <1>0, <1>1, <1>2, <2>1 DEF QueryOk, Pinned
  <2> QED  BY <2>2, <2>3, <2>4 DEF QueryOk
<1> QED  BY <1>0, <1>3, <1>4 DEF QueriesInv, AnswersMatched
-----------------------------------------------------------------------------
(* Every step. *)

LEMMA NativeGrows ==
    ASSUME native \in [up : BOOLEAN, incarnation : Nat], SessionsNext
    PROVE  native' \in [up : BOOLEAN, incarnation : Nat] /\ native.incarnation <= native'.incarnation
<1>1. CASE native' = native
    BY <1>1
<1>2. CASE Serve
    BY <1>2 DEF Serve
<1>3. CASE native' = [native EXCEPT !.up = FALSE]
  <2>1. native'.incarnation = native.incarnation /\ native.incarnation \in Nat
      BY <1>3
  <2>2. native' \in [up : BOOLEAN, incarnation : Nat]
      BY <1>3
  <2> QED  BY <2>1, <2>2
<1>4. native' = native \/ Serve \/ native' = [native EXCEPT !.up = FALSE]
    BY DEF SessionsNext, OutsideStart, ServerStops, ProcessSettles, EnsureCheck, EnsureStart, EnsureWait,
           Discover, ApplyDiscovery, ReadTree, LabelTree, ApplyUpdate, expireSessionSnapshots
<1> QED  BY <1>1, <1>2, <1>3, <1>4

LEMMA QueriesKept == ASSUME QueriesInv, ObserverInv', [Next]_vars PROVE QueriesInv'
<1>0. cview' \in Views /\ native \in [up : BOOLEAN, incarnation : Nat]
    BY DEF ObserverInv, ShownInv, Shown, QueriesInv, TypeQueries
<1>1. CASE SessionsNext /\ UNCHANGED queryVars
    BY <1>0, <1>1, NativeGrows, SessionStepKeeps DEF queryVars
<1>2. CASE UNCHANGED vars
  <2>1. native' = native
      BY <1>2 DEF vars, sessionVars
  <2> QED  BY <1>0, <1>2, <2>1, SessionStepKeeps DEF vars, queryVars
<1>3. CASE QueriesNext
    BY <1>0, <1>3, UpdateSessionsKeeps, SessionStaleKeeps, SendKeeps, FinishKeeps, NodeReceiveKeeps,
       SendAnswerKeeps, QueryAgentKeeps, GiveUpKeeps, ReturnKeeps, TombstoneKeeps, GivesUpKeeps,
       ResolveKeeps, ReadKeeps, VerifyKeeps, PutAnswerKeeps DEF QueriesNext
<1> QED  BY <1>1, <1>2, <1>3 DEF Next

LEMMA QueriesAlways == Spec => []QueriesInv
  BY ObserverInit, ObserverKept, QueriesInitial, QueriesKept, PTL DEF Spec

(* A caller gets what was read from the very server the call was pinned to  *)
(* (herdr/agent_query.go resolves the session before and after it reads),   *)
(* whatever happens to the server, the stream's queues and the other calls. *)
THEOREM FreshAnswerAlways == Spec => []FreshAnswer
<1>1. QueriesInv => FreshAnswer
    BY DEF QueriesInv, QueryOk, Pinned, FreshAnswer
<1> QED  BY <1>1, QueriesAlways, PTL

(* finishAgentQuery never waits on a full channel under the fleet's lock, no *)
(* query reaches the node twice, and a late answer is matched by a tombstone *)
(* unless one was dropped for want of room (server/agents.go).               *)
THEOREM AnswersMatchedAlways == Spec => []AnswersMatched
<1>1. QueriesInv => AnswersMatched
    BY DEF QueriesInv
<1> QED  BY <1>1, QueriesAlways, PTL
=============================================================================
