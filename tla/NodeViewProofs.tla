---------------------------- MODULE NodeViewProofs ---------------------------
(***************************************************************************)
(* What is seen of a node's native side is right for every value of the    *)
(* constants: the coordinator's picture of its topology (PictureCurrent),  *)
(* what a follower shows of one of its agents (FollowsOne), and what a     *)
(* watcher is told of the nodes (WatchersTold).                            *)
(***************************************************************************)
EXTENDS HerdrObserver, AgentFollow, FleetWatch, TLAPS

-----------------------------------------------------------------------------
(* The topology. *)

Trees    == Nat \cup {Unknown}
Numbered == [number : Nat, tree : Trees]
Messages == [type : {"state"}, number : Nat, tree : Trees]
               \cup [type : {"heartbeat"}, ready : BOOLEAN]
Steps    == {"ping", "subscribe", "ask", "answered", "publish", "rest", "pause",
             "unavailable", "retry"}

ObserverType ==
    /\ topology \in Nat /\ sequence \in Nat /\ hints \in BOOLEAN
    /\ feed \in [state : {"none", "open", "failed"}, events : Nat]
    /\ obs \in [step : Steps, tree : Trees]
    /\ states \in Seq(Numbered)

PictureType ==
    /\ localState \in Trees
    /\ wire \in Seq(Messages)
    /\ picture \in [number : Nat, tree : Trees, ready : BOOLEAN]
    /\ rejected = FALSE
    /\ picture.ready => picture.tree # Unknown

(* The channel holds at most the state published last. *)
ChannelInv ==
    /\ Len(states) <= 1
    /\ states # <<>> => states[1].number = sequence

forwarded == IF states = <<>> THEN sequence ELSE sequence - 1
published == IF states = <<>> THEN localState ELSE states[1].tree

(* What the observer holds is current as long as nothing hints otherwise, *)
(* and once it rests or waits to try again it has been published.         *)
SnapshotInv ==
    /\ At("answered") \/ At("publish") \/ At("rest") =>
          (feed.state = "open" /\ feed.events = 0 /\ ~hints => obs.tree = topology)
    /\ At("rest") => published = obs.tree
    /\ At("retry") => published = Unknown

IsState(w, i) == w[i].type = "state"

(* The states on the wire have increasing numbers above the picture's, and *)
(* the last of them, or else the picture, is what the session holds.       *)
WireOrder(w, number, last) ==
    /\ number <= last
    /\ \A i \in 1..Len(w) : IsState(w, i) =>
          /\ number < w[i].number /\ w[i].number <= last
          /\ \A j \in 1..(i - 1) : IsState(w, j) => w[j].number < w[i].number

WireLast(w, tree, held) ==
    /\ (\A i \in 1..Len(w) : ~IsState(w, i)) => tree = held
    /\ \A i \in 1..Len(w) :
          IsState(w, i) /\ (\A j \in (i + 1)..Len(w) : ~IsState(w, j)) => w[i].tree = held

WireInv ==
    /\ WireOrder(wire, picture.number, forwarded)
    /\ WireLast(wire, picture.tree, localState)

ObserveInv == ObserverType /\ PictureType /\ ChannelInv /\ SnapshotInv /\ WireInv

LEMMA EmptyWire ==
    ASSUME NEW last \in Nat, NEW tree
    PROVE  WireOrder(<<>>, 0, last) /\ WireLast(<<>>, tree, tree)
BY DEF WireOrder, WireLast

LEMMA ObserveInitial == ObserveInit => ObserveInv
<1> SUFFICES ASSUME ObserveInit PROVE ObserveInv
    OBVIOUS
<1>1. ObserverType /\ PictureType
  <2>1. /\ topology \in Nat /\ sequence \in Nat /\ states \in Seq(Numbered)
        /\ feed \in [state : {"none", "open", "failed"}, events : Nat]
        /\ obs \in [step : Steps, tree : Trees]
      BY DEF ObserveInit, NoFeed, Observing, Trees, Steps
  <2>2. hints \in BOOLEAN /\ rejected = FALSE
      BY DEF ObserveInit
  <2>3. localState \in Trees /\ wire \in Seq(Messages)
      BY DEF ObserveInit, Trees
  <2>4. NewView \in [number : Nat, tree : Trees, ready : BOOLEAN] /\ ~NewView.ready
      BY DEF NewView, Trees
  <2>5. picture = NewView
      BY DEF ObserveInit
  <2> QED  BY <2>1, <2>2, <2>3, <2>4, <2>5 DEF ObserverType, PictureType
<1>2. ChannelInv /\ SnapshotInv
    BY DEF ObserveInit, ChannelInv, SnapshotInv, At, Observing
<1>3. WireInv
  <2>1. wire = <<>> /\ picture.number = 0 /\ picture.tree = localState /\ forwarded = 0
      BY DEF ObserveInit, NewView, forwarded
  <2> QED  BY <2>1, EmptyWire DEF WireInv
<1> QED  BY <1>1, <1>2, <1>3 DEF ObserveInv

(* The observer's steps that publish nothing. *)
LEMMA ObserverKeeps ==
    ASSUME ObserveInv,
           \/ Change \/ ReadEvent \/ FeedFails
           \/ Ping \/ Subscribe \/ Ask \/ CheckFeed \/ Refresh \/ TakeHint \/ Paused
           \/ SessionFails \/ Retry
    PROVE  ObserveInv'
<1> USE DEF ObserveInv
<1>1. /\ NodeSide /\ UNCHANGED <<sequence, states>>
    BY DEF Change, ReadEvent, FeedFails, Ping, Subscribe, Ask, CheckFeed, Refresh, TakeHint,
           Paused, SessionFails, Retry
<1>2. PictureType' /\ ChannelInv' /\ WireInv' /\ published' = published
    BY <1>1 DEF NodeSide, PictureType, ChannelInv, WireInv, forwarded, published
<1>3. ObserverType' /\ SnapshotInv'
  <2>1. CASE Change
      BY <1>2, <2>1 DEF ObserverType, SnapshotInv, Change, At
  <2>2. CASE ReadEvent
      BY <1>2, <2>2 DEF ObserverType, SnapshotInv, ReadEvent, At
  <2>3. CASE FeedFails
      BY <1>2, <2>3 DEF ObserverType, SnapshotInv, FeedFails, At
  <2>4. CASE Ping \/ Subscribe \/ Refresh \/ TakeHint \/ Paused \/ SessionFails \/ Retry
    <3>1. /\ obs'.step \notin {"answered", "publish", "rest", "retry"}
          /\ obs' \in [step : Steps, tree : Trees]
        BY <2>4 DEF Ping, Subscribe, Refresh, TakeHint, Paused, SessionFails, Retry, Goes,
                    Observing, Steps, Trees
    <3>2. /\ topology' = topology /\ sequence' = sequence /\ states' = states
          /\ hints' = hints \/ hints' = FALSE
          /\ feed' = feed \/ feed' = NoFeed \/ feed' = [NoFeed EXCEPT !.state = "open"]
        BY <2>4 DEF Ping, Subscribe, Refresh, TakeHint, Paused, SessionFails, Retry
    <3>3. hints' \in BOOLEAN
        BY <3>2 DEF ObserverType
    <3>4. feed' \in [state : {"none", "open", "failed"}, events : Nat]
        BY <3>2 DEF ObserverType, NoFeed
    <3> QED  BY <3>1, <3>2, <3>3, <3>4 DEF ObserverType, SnapshotInv, At
  <2>5. CASE Ask
      BY <1>2, <2>5 DEF ObserverType, SnapshotInv, Ask, At, Goes, Observing, Steps, Trees
  <2>6. CASE CheckFeed
      BY <1>2, <2>6 DEF ObserverType, SnapshotInv, CheckFeed, At, Goes, Observing, Steps
  <2> QED  BY <2>1, <2>2, <2>3, <2>4, <2>5, <2>6
<1> QED  BY <1>2, <1>3

LEMMA PublishKeeps == ASSUME ObserveInv, Publish \/ PublishUnavailable PROVE ObserveInv'
<1> USE DEF ObserveInv
<1>1. PICK tree \in Trees :
          /\ states = <<>> /\ sequence' = sequence + 1
          /\ states' = <<[number |-> sequence', tree |-> tree]>>
          /\ \/ obs' = [step |-> "rest", tree |-> tree] /\ obs.step = "publish" /\ obs.tree = tree
             \/ obs' = [step |-> "retry", tree |-> Unknown] /\ tree = Unknown
          /\ UNCHANGED <<topology, feed, hints>> /\ NodeSide
  <2>1. CASE Publish
      BY <2>1 DEF ObserverType, Publish, Goes, Observing, AfterPublish, At
  <2>2. CASE PublishUnavailable
      BY <2>2 DEF PublishUnavailable, Goes, Observing, Trees
  <2> QED  BY <2>1, <2>2
<1>2. /\ states' \in Seq(Numbered) /\ Len(states') = 1 /\ states' # <<>>
      /\ states'[1].number = sequence' /\ states'[1].tree = tree
    BY <1>1 DEF ObserverType, Numbered
<1>3. ObserverType'
    BY <1>1, <1>2 DEF ObserverType, Steps, Trees
<1>4. PictureType' /\ ChannelInv'
    BY <1>1, <1>2 DEF NodeSide, PictureType, ChannelInv
<1>5. forwarded' = forwarded /\ published' = tree
    BY <1>1, <1>2 DEF ObserverType, forwarded, published
<1>6. WireInv'
    BY <1>1, <1>5 DEF NodeSide, WireInv
<1>7. SnapshotInv'
    BY <1>1, <1>5 DEF SnapshotInv, At
<1> QED  BY <1>3, <1>4, <1>6, <1>7

-----------------------------------------------------------------------------
(* The wire. *)

LEMMA AppendFacts ==
    ASSUME NEW w \in Seq(Messages), NEW m \in Messages
    PROVE  /\ Append(w, m) \in Seq(Messages) /\ Len(w) \in Nat
           /\ Len(Append(w, m)) = Len(w) + 1
           /\ Append(w, m)[Len(w) + 1] = m
           /\ \A i \in 1..Len(w) : Append(w, m)[i] = w[i]
OBVIOUS

LEMMA TailFacts ==
    ASSUME NEW w \in Seq(Messages), w # <<>>
    PROVE  /\ Tail(w) \in Seq(Messages) /\ Len(w) \in Nat /\ Len(w) # 0
           /\ Len(Tail(w)) = Len(w) - 1
           /\ \A i \in 1..Len(Tail(w)) : Tail(w)[i] = w[i + 1]
OBVIOUS

LEMMA StateNumbers ==
    ASSUME NEW w \in Seq(Messages), NEW i \in 1..Len(w), IsState(w, i)
    PROVE  w[i].number \in Nat /\ w[i].tree \in Trees
BY DEF Messages, IsState

(* A state sent is the youngest. *)
LEMMA SendState ==
    ASSUME NEW w \in Seq(Messages), NEW m \in Messages, m.type = "state",
           NEW number \in Nat, NEW last \in Nat, NEW tree \in Trees, NEW held \in Trees,
           WireOrder(w, number, last), last < m.number
    PROVE  /\ WireOrder(Append(w, m), number, m.number)
           /\ WireLast(Append(w, m), tree, m.tree)
<1> DEFINE v == Append(w, m)
<1>1. /\ Len(w) \in Nat /\ Len(v) = Len(w) + 1 /\ v[Len(w) + 1] = m
      /\ \A i \in 1..Len(w) : v[i] = w[i]
    BY AppendFacts
<1>2. m.number \in Nat
    BY DEF Messages
<1> HIDE DEF v
<1>3. WireOrder(v, number, m.number)
  <2>1. ASSUME NEW i \in 1..Len(v), IsState(v, i)
        PROVE  /\ number < v[i].number /\ v[i].number <= m.number
               /\ \A j \in 1..(i - 1) : IsState(v, j) => v[j].number < v[i].number
    <3>1. CASE i = Len(w) + 1
      <4>1. ASSUME NEW j \in 1..Len(w), IsState(v, j)
            PROVE  v[j].number < m.number
        <5>1. v[j] = w[j] /\ IsState(w, j)
            BY <4>1, <1>1 DEF IsState
        <5>2. w[j].number \in Nat
            BY <5>1, StateNumbers
        <5>3. w[j].number <= last
            BY <5>1 DEF WireOrder
        <5> QED  BY <5>1, <5>2, <5>3, <1>2
      <4>2. number < m.number /\ m.number <= m.number
          BY <1>2 DEF WireOrder
      <4>3. v[i] = m /\ i - 1 = Len(w)
          BY <3>1, <1>1
      <4> QED  BY <4>1, <4>2, <4>3
    <3>2. CASE i \in 1..Len(w)
      <4>1. v[i] = w[i] /\ IsState(w, i)
          BY <2>1, <3>2, <1>1 DEF IsState
      <4>2. ASSUME NEW j \in 1..(i - 1) PROVE j \in 1..Len(w) /\ v[j] = w[j]
          BY <3>2, <1>1
      <4>3. w[i].number \in Nat
          BY <3>2, <4>1, StateNumbers
      <4>4. /\ number < w[i].number /\ w[i].number <= last
            /\ \A j \in 1..(i - 1) : IsState(w, j) => w[j].number < w[i].number
          BY <3>2, <4>1 DEF WireOrder
      <4>5. v[i].number <= m.number
          BY <4>1, <4>3, <4>4, <1>2
      <4> QED  BY <4>1, <4>2, <4>4, <4>5 DEF IsState
    <3> QED  BY <3>1, <3>2, <1>1
  <2>2. number <= m.number
      BY <1>2 DEF WireOrder
  <2> QED  BY <2>1, <2>2 DEF WireOrder
<1>4. WireLast(v, tree, m.tree)
  <2>1. Len(w) + 1 \in 1..Len(v) /\ IsState(v, Len(w) + 1)
      BY <1>1 DEF IsState
  <2>2. ASSUME NEW i \in 1..Len(v), \A j \in (i + 1)..Len(v) : ~IsState(v, j)
        PROVE  v[i].tree = m.tree
      BY <2>1, <2>2, <1>1
  <2> QED  BY <2>1, <2>2 DEF WireLast
<1> QED  BY <1>3, <1>4 DEF v

(* A heartbeat changes nothing of it. *)
LEMMA SendOther ==
    ASSUME NEW w \in Seq(Messages), NEW m \in Messages, m.type # "state",
           NEW number \in Nat, NEW last \in Nat, NEW tree \in Trees, NEW held \in Trees,
           WireOrder(w, number, last), WireLast(w, tree, held)
    PROVE  WireOrder(Append(w, m), number, last) /\ WireLast(Append(w, m), tree, held)
<1> DEFINE v == Append(w, m)
<1>1. /\ Len(w) \in Nat /\ Len(v) = Len(w) + 1 /\ v[Len(w) + 1] = m
      /\ \A i \in 1..Len(w) : v[i] = w[i]
    BY AppendFacts
<1> HIDE DEF v
<1>2. /\ \A i \in 1..Len(v) : IsState(v, i) => i \in 1..Len(w)
      /\ \A i \in 1..Len(w) : i \in 1..Len(v) /\ (IsState(v, i) <=> IsState(w, i))
    BY <1>1 DEF IsState
<1>3. WireOrder(v, number, last)
  <2>1. ASSUME NEW i \in 1..Len(v), IsState(v, i)
        PROVE  /\ number < v[i].number /\ v[i].number <= last
               /\ \A j \in 1..(i - 1) : IsState(v, j) => v[j].number < v[i].number
    <3>1. i \in 1..Len(w) /\ v[i] = w[i] /\ IsState(w, i)
        BY <2>1, <1>1, <1>2
    <3>2. \A j \in 1..(i - 1) : j \in 1..Len(w)
        BY <3>1, <1>1
    <3> QED  BY <3>1, <3>2, <1>1, <1>2 DEF WireOrder
  <2> QED  BY <2>1 DEF WireOrder
<1>4. WireLast(v, tree, held)
  <2>1. (\A i \in 1..Len(v) : ~IsState(v, i)) => tree = held
      BY <1>2 DEF WireLast
  <2>2. ASSUME NEW i \in 1..Len(v), IsState(v, i), \A j \in (i + 1)..Len(v) : ~IsState(v, j)
        PROVE  v[i].tree = held
    <3>1. i \in 1..Len(w) /\ v[i] = w[i] /\ IsState(w, i)
        BY <2>2, <1>1, <1>2
    <3>2. \A j \in (i + 1)..Len(w) : j \in (i + 1)..Len(v) /\ j \in 1..Len(w)
        BY <3>1, <1>1
    <3> QED  BY <2>2, <3>1, <3>2, <1>2 DEF WireLast
  <2> QED  BY <2>1, <2>2 DEF WireLast
<1> QED  BY <1>3, <1>4 DEF v

(* What is received makes room for what follows. *)
LEMMA Receive ==
    ASSUME NEW w \in Seq(Messages), w # <<>>,
           NEW number \in Nat, NEW last \in Nat, NEW tree \in Trees, NEW held \in Trees,
           WireOrder(w, number, last), WireLast(w, tree, held)
    PROVE  /\ IsState(w, 1) => /\ number < w[1].number
                               /\ WireOrder(Tail(w), w[1].number, last)
                               /\ WireLast(Tail(w), w[1].tree, held)
           /\ ~IsState(w, 1) => /\ WireOrder(Tail(w), number, last)
                                /\ WireLast(Tail(w), tree, held)
<1> DEFINE v == Tail(w)
<1>1. /\ v \in Seq(Messages) /\ Len(w) \in Nat /\ Len(w) # 0 /\ Len(v) = Len(w) - 1
      /\ \A i \in 1..Len(v) : v[i] = w[i + 1]
    BY TailFacts
<1> HIDE DEF v
<1>2. /\ 1 \in 1..Len(w) /\ Len(v) \in Nat
      /\ \A i \in 1..Len(v) : i + 1 \in 1..Len(w) /\ (IsState(v, i) <=> IsState(w, i + 1))
      /\ \A i \in 2..Len(w) : i - 1 \in 1..Len(v) /\ (IsState(v, i - 1) <=> IsState(w, i))
  <2>1. 1 \in 1..Len(w) /\ Len(v) \in Nat
      BY <1>1
  <2>2. ASSUME NEW i \in 1..Len(v)
        PROVE  i + 1 \in 1..Len(w) /\ (IsState(v, i) <=> IsState(w, i + 1))
      BY <1>1 DEF IsState
  <2>3. ASSUME NEW i \in 2..Len(w)
        PROVE  i - 1 \in 1..Len(v) /\ (IsState(v, i - 1) <=> IsState(w, i))
    <3>1. i - 1 \in 1..Len(v) /\ (i - 1) + 1 = i
        BY <1>1
    <3> QED  BY <2>2, <3>1
  <2> QED  BY <2>1, <2>2, <2>3
<1>3. ASSUME NEW i \in 1..Len(v), IsState(v, i)
      PROVE  /\ number < v[i].number /\ v[i].number <= last
             /\ IsState(w, 1) => w[1].number < v[i].number
             /\ \A j \in 1..(i - 1) : IsState(v, j) => v[j].number < v[i].number
  <2>1. v[i] = w[i + 1] /\ i + 1 \in 1..Len(w) /\ IsState(w, i + 1) /\ 1 \in 1..((i + 1) - 1)
      BY <1>1, <1>2, <1>3
  <2>2. \A j \in 1..(i - 1) : /\ j \in 1..Len(v) /\ j + 1 \in 1..((i + 1) - 1)
                              /\ v[j] = w[j + 1]
      BY <1>1, <1>2
  <2> QED  BY <2>1, <2>2, <1>2 DEF WireOrder
<1>4. ASSUME NEW i \in 1..Len(v), IsState(v, i), \A j \in (i + 1)..Len(v) : ~IsState(v, j)
      PROVE  v[i].tree = held
  <2>1. v[i] = w[i + 1] /\ i + 1 \in 1..Len(w) /\ IsState(w, i + 1)
      BY <1>1, <1>2, <1>4
  <2>2. ASSUME NEW j \in ((i + 1) + 1)..Len(w) PROVE ~IsState(w, j)
    <3>1. j \in 2..Len(w) /\ j - 1 \in (i + 1)..Len(v)
        BY <1>1, <1>2
    <3> QED  BY <3>1, <1>2, <1>4
  <2> QED  BY <2>1, <2>2 DEF WireLast
<1>5. ASSUME \A i \in 1..Len(v) : ~IsState(v, i)
      PROVE  \A i \in 2..Len(w) : ~IsState(w, i)
    BY <1>5, <1>2
<1>6. CASE IsState(w, 1)
  <2>1. w[1].number \in Nat /\ number < w[1].number /\ w[1].number <= last
      BY <1>2, <1>6, StateNumbers DEF WireOrder
  <2>2. (\A i \in 1..Len(v) : ~IsState(v, i)) => w[1].tree = held
      BY <1>2, <1>5, <1>6 DEF WireLast
  <2> QED  BY <1>3, <1>4, <1>6, <2>1, <2>2 DEF WireOrder, WireLast, v
<1>7. CASE ~IsState(w, 1)
  <2>1. (\A i \in 1..Len(v) : ~IsState(v, i)) => \A i \in 1..Len(w) : ~IsState(w, i)
      BY <1>1, <1>5, <1>7
  <2>2. (\A i \in 1..Len(v) : ~IsState(v, i)) => tree = held
      BY <2>1 DEF WireLast
  <2>3. number <= last
      BY DEF WireOrder
  <2> QED  BY <1>3, <1>4, <1>7, <2>2, <2>3 DEF WireOrder, WireLast, v
<1> QED  BY <1>6, <1>7

LEMMA ForwardKeeps == ASSUME ObserveInv, ForwardState PROVE ObserveInv'
<1> USE DEF ObserveInv
<1> DEFINE s == states[1]
           m == [type |-> "state", number |-> s.number, tree |-> s.tree]
<1>1. /\ states # <<>> /\ states' = <<>> /\ localState' = s.tree /\ wire' = Append(wire, m)
      /\ UNCHANGED <<topology, feed, hints, obs, sequence, picture, rejected>>
    BY DEF ForwardState, Transmit
<1>2. s \in Numbered /\ s.number = sequence
    BY <1>1 DEF ObserverType, ChannelInv
<1>3. m \in Messages /\ m.type = "state" /\ m.number = sequence /\ m.tree = s.tree
    BY <1>2 DEF Messages, Numbered
<1>4. /\ sequence \in Nat /\ picture.number \in Nat /\ picture.tree \in Trees
      /\ localState \in Trees /\ wire \in Seq(Messages) /\ s.tree \in Trees
    BY <1>2 DEF ObserverType, PictureType, Numbered
<1>5. /\ forwarded = sequence - 1 /\ forwarded' = sequence
      /\ published' = s.tree /\ published = s.tree
    BY <1>1 DEF forwarded, published
<1> HIDE DEF s, m
<1>6. WireOrder(wire, picture.number, sequence - 1)
    BY <1>5 DEF WireInv
<1>7. sequence - 1 \in Nat
    BY <1>4, <1>6 DEF WireOrder
<1>8. WireOrder(wire', picture.number, sequence) /\ WireLast(wire', picture.tree, s.tree)
    BY <1>1, <1>3, <1>4, <1>6, <1>7, SendState
<1>9. WireInv'
    BY <1>1, <1>5, <1>8 DEF WireInv
<1>10. ObserverType' /\ SnapshotInv' /\ ChannelInv'
    BY <1>1, <1>5 DEF ObserverType, SnapshotInv, ChannelInv, At
<1>11. PictureType'
  <2>1. wire' \in Seq(Messages)
      BY <1>1, <1>3, <1>4, AppendFacts
  <2> QED  BY <1>1, <1>4, <2>1 DEF PictureType
<1> QED  BY <1>9, <1>10, <1>11

LEMMA HeartbeatKeeps == ASSUME ObserveInv, SendHeartbeat PROVE ObserveInv'
<1> USE DEF ObserveInv
<1> DEFINE m == [type |-> "heartbeat", ready |-> mutationReadiness]
<1>1. /\ wire' = Append(wire, m)
      /\ UNCHANGED <<topology, feed, hints, obs, sequence, states, localState, picture,
                     rejected>>
    BY DEF SendHeartbeat, Transmit
<1>2. m \in Messages /\ m.type # "state"
  <2>1. mutationReadiness \in BOOLEAN
      BY DEF mutationReadiness
  <2> QED  BY <2>1 DEF Messages
<1>3. /\ picture.number \in Nat /\ picture.tree \in Trees /\ localState \in Trees
      /\ wire \in Seq(Messages) /\ forwarded \in Nat
  <2>1. states # <<>> => sequence - 1 \in Nat
      BY DEF ObserverType, PictureType, WireInv, WireOrder, forwarded
  <2> QED  BY <2>1 DEF ObserverType, PictureType, forwarded
<1>4. forwarded' = forwarded /\ published' = published
    BY <1>1 DEF forwarded, published
<1> HIDE DEF m
<1>5. WireInv'
    BY <1>1, <1>2, <1>3, <1>4, SendOther DEF WireInv
<1>6. ObserverType' /\ SnapshotInv' /\ ChannelInv'
    BY <1>1, <1>4 DEF ObserverType, SnapshotInv, ChannelInv, At
<1>7. PictureType'
    BY <1>1, <1>2, <1>3, AppendFacts DEF PictureType
<1> QED  BY <1>5, <1>6, <1>7

LEMMA ReceiveKeeps == ASSUME ObserveInv, UpdateHerdr \/ HeartbeatReady PROVE ObserveInv'
<1> USE DEF ObserveInv
<1>1. /\ wire # <<>> /\ wire' = Tail(wire)
      /\ UNCHANGED <<topology, feed, hints, obs, sequence, states, localState>>
    BY DEF UpdateHerdr, HeartbeatReady
<1>2. /\ picture \in [number : Nat, tree : Trees, ready : BOOLEAN]
      /\ picture.number \in Nat /\ picture.tree \in Trees /\ localState \in Trees
      /\ wire \in Seq(Messages) /\ forwarded \in Nat
  <2>1. states # <<>> => sequence - 1 \in Nat
      BY DEF ObserverType, PictureType, WireInv, WireOrder, forwarded
  <2> QED  BY <2>1 DEF ObserverType, PictureType, forwarded
<1>3. forwarded' = forwarded /\ published' = published
    BY <1>1 DEF forwarded, published
<1>4. ObserverType' /\ SnapshotInv' /\ ChannelInv'
    BY <1>1, <1>3 DEF ObserverType, SnapshotInv, ChannelInv, At
<1>5. wire' \in Seq(Messages) /\ wire[1] \in Messages /\ Head(wire) = wire[1]
    BY <1>1, <1>2, TailFacts
<1>6. CASE UpdateHerdr
  <2>1. IsState(wire, 1)
      BY <1>5, <1>6 DEF UpdateHerdr, IsState
  <2>2. /\ picture.number < wire[1].number
        /\ WireOrder(wire', wire[1].number, forwarded)
        /\ WireLast(wire', wire[1].tree, localState)
      BY <1>1, <1>2, <2>1, Receive DEF WireInv
  <2>3. wire[1].number \in Nat /\ wire[1].tree \in Trees
      BY <1>5, <2>1 DEF Messages, IsState
  <2>4. /\ rejected' = rejected
        /\ picture' = [number |-> wire[1].number, tree |-> wire[1].tree,
                       ready |-> picture.ready /\ wire[1].tree # Unknown]
      BY <1>2, <1>5, <1>6, <2>2, <2>3 DEF UpdateHerdr
  <2>5. picture'.number = wire[1].number /\ picture'.tree = wire[1].tree
      BY <2>4
  <2>6. WireInv'
      BY <1>1, <1>3, <2>2, <2>5 DEF WireInv
  <2>7. PictureType'
      BY <1>1, <1>2, <1>5, <2>3, <2>4 DEF PictureType
  <2> QED  BY <1>4, <2>6, <2>7
<1>7. CASE HeartbeatReady
  <2>1. ~IsState(wire, 1)
      BY <1>5, <1>7 DEF HeartbeatReady, IsState
  <2>2. /\ WireOrder(wire', picture.number, forwarded)
        /\ WireLast(wire', picture.tree, localState)
      BY <1>1, <1>2, <2>1, Receive DEF WireInv
  <2>3. /\ rejected' = rejected
        /\ picture' = [picture EXCEPT !.ready = wire[1].ready /\ picture.tree # Unknown]
      BY <1>5, <1>7 DEF HeartbeatReady
  <2>4. wire[1].ready \in BOOLEAN
      BY <1>5, <2>1 DEF Messages, IsState
  <2>5. picture'.number = picture.number /\ picture'.tree = picture.tree
      BY <1>2, <2>3
  <2>6. WireInv'
      BY <1>1, <1>3, <2>2, <2>5 DEF WireInv
  <2>7. PictureType'
      BY <1>1, <1>2, <1>5, <2>3, <2>4 DEF PictureType
  <2> QED  BY <1>4, <2>6, <2>7
<1> QED  BY <1>6, <1>7

LEMMA StreamKeeps == ASSUME ObserveInv, NewStream PROVE ObserveInv'
<1> USE DEF ObserveInv
<1>1. ObserverType' /\ PictureType'
  <2>1. /\ topology' \in Nat /\ sequence' \in Nat /\ states' \in Seq(Numbered)
        /\ feed' \in [state : {"none", "open", "failed"}, events : Nat]
        /\ obs' \in [step : Steps, tree : Trees]
      BY DEF NewStream, ObserverType, NoFeed, Goes, Observing, Trees, Steps
  <2>2. hints' \in BOOLEAN /\ rejected' = FALSE
      BY DEF NewStream, PictureType
  <2>3. localState' \in Trees /\ wire' \in Seq(Messages)
      BY DEF NewStream, Trees
  <2>4. NewView \in [number : Nat, tree : Trees, ready : BOOLEAN] /\ ~NewView.ready
      BY DEF NewView, Trees
  <2>5. picture' = NewView
      BY DEF NewStream
  <2> QED  BY <2>1, <2>2, <2>3, <2>4, <2>5 DEF ObserverType, PictureType
<1>2. ChannelInv' /\ SnapshotInv'
    BY DEF NewStream, ChannelInv, SnapshotInv, At, Goes, Observing
<1>3. wire' = <<>> /\ picture'.number = 0 /\ picture'.tree = localState' /\ forwarded' = 0
    BY DEF NewStream, NewView, forwarded
<1>4. WireInv'
    BY <1>3, EmptyWire DEF WireInv
<1> QED  BY <1>1, <1>2, <1>4

LEMMA ObserveStep == ASSUME ObserveInv, [ObserveNext]_observeVars PROVE ObserveInv'
<1>1. CASE UNCHANGED observeVars
    BY <1>1 DEF observeVars, ObserveInv, ObserverType, PictureType, ChannelInv, SnapshotInv,
                WireInv, forwarded, published, At
<1>2. CASE ObserveNext
    BY <1>2, ObserverKeeps, PublishKeeps, ForwardKeeps, HeartbeatKeeps, ReceiveKeeps,
       StreamKeeps DEF ObserveNext
<1> QED  BY <1>1, <1>2

(***************************************************************************)
(* The coordinator's picture of a node's topology is right whenever the    *)
(* node is at rest, for any number of changes, states and streams and any  *)
(* buffer between node and coordinator: hints are kept while a snapshot is *)
(* published (observe.go) and states are numbered and sent in one order.   *)
(***************************************************************************)
THEOREM PictureIsCurrent == ObserveSpec => []PictureCurrent
<1>1. ASSUME ObserveInv PROVE PictureCurrent
  <2> USE <1>1 DEF ObserveInv
  <2>1. Delivered => picture.tree = published
    <3>1. wire \in Seq(Messages) /\ DOMAIN wire = 1..Len(wire)
        BY DEF PictureType
    <3> QED  BY <3>1 DEF Delivered, WireInv, WireLast, IsState, published
  <2>2. feed = [state |-> "open", events |-> 0] => feed.state = "open" /\ feed.events = 0
      OBVIOUS
  <2> QED  BY <2>1, <2>2 DEF PictureCurrent, PictureType, SnapshotInv
<1> QED  BY <1>1, ObserveInitial, ObserveStep, PTL DEF ObserveSpec

-----------------------------------------------------------------------------
(* Following an agent. *)

Agents  == [terminal : Nat, session : Nat]
Looks   == Agents \cup {NoView}
Read    == [terminal : Nat, text : Texts \cup {NoView}]
Results == [agent : Agents, text : Read]
Known   == Results \cup {NoView}
Events  == Results \cup Transient \cup {NoView}

FollowType ==
    /\ pane \in [terminal : Nat \ {0}, session : Nat, text : Texts \cup {NoView}]
    /\ query \in [before : Looks, text : Read \cup {NoView}]
    /\ follower \in [at : {"lookup", "poll", "rest", "ended"}, target : Agents,
                     previous : Known, gap : Transient \cup {NoView}]
    /\ polled \in Events /\ shown \in Events
    /\ followed \subseteq Agents

(* A query belongs to a poll; its looks and its text are in the order of   *)
(* the terminals.                                                          *)
QueryInv ==
    /\ query.before # NoView =>
          /\ follower.at = "poll"
          /\ query.before.terminal <= pane.terminal
    /\ query.text # NoView =>
          /\ query.before # NoView
          /\ query.before.terminal <= query.text.terminal
          /\ query.text.terminal <= pane.terminal

(* All that was followed is the target, as far as it was known. *)
TargetInv ==
    /\ follower.at = "lookup" => followed = {}
    /\ follower.at \in {"poll", "rest"} => follower.target.terminal # 0
    /\ \A a \in followed :
          /\ a.terminal = follower.target.terminal
          /\ a.session # 0 => a.session = follower.target.session

(* The output ends with the last result or with the gap after it. *)
OutputInv ==
    /\ follower.gap = NoView => shown = follower.previous
    /\ follower.gap # NoView => shown = follower.gap
    /\ follower.at = "rest" => shown = polled
    /\ polled \notin Transient \cup {NoView} => polled.text.terminal = polled.agent.terminal

FollowInv == FollowType /\ QueryInv /\ TargetInv /\ OutputInv

LEMMA FollowInitial == FollowInit => FollowInv
<1> SUFFICES ASSUME FollowInit PROVE FollowInv
    OBVIOUS
<1>1. FollowType
    BY DEF FollowInit, FollowType, NoQuery, Agents, Looks, Known, Events
<1>2. QueryInv /\ TargetInv /\ OutputInv
    BY DEF FollowInit, QueryInv, TargetInv, OutputInv, NoQuery
<1> QED  BY <1>1, <1>2 DEF FollowInv

(* The pane changes under everything else: its terminal only grows. *)
LEMMA PaneKeeps ==
    ASSUME FollowInv, AgentWrites \/ AgentRestarts \/ PaneReplaced
    PROVE  FollowInv'
<1> USE DEF FollowInv
<1>1. /\ pane' \in [terminal : Nat \ {0}, session : Nat, text : Texts \cup {NoView}]
      /\ pane'.terminal >= pane.terminal
    BY DEF FollowType, AgentWrites, AgentRestarts, PaneReplaced
<1>2. UNCHANGED <<query, follower, polled, shown, followed>>
    BY DEF AgentWrites, AgentRestarts, PaneReplaced
<1>3. FollowType' /\ TargetInv' /\ OutputInv'
    BY <1>1, <1>2 DEF FollowType, TargetInv, OutputInv
<1>4. QueryInv'
    BY <1>1, <1>2 DEF FollowType, QueryInv, Agents, Looks, Read
<1> QED  BY <1>3, <1>4

LEMMA LookupKeeps == ASSUME FollowInv, Lookup PROVE FollowInv'
<1> USE DEF FollowInv
<1>1. FollowType'
    BY DEF FollowType, Lookup, Agent, Agents
<1>2. QueryInv'
    BY DEF FollowType, QueryInv, Lookup
<1>3. TargetInv' /\ OutputInv'
    BY DEF FollowType, TargetInv, OutputInv, Lookup, Agent
<1> QED  BY <1>1, <1>2, <1>3

(* The steps of a query before its result. *)
LEMMA QueryKeeps == ASSUME FollowInv, GetBefore \/ ReadText PROVE FollowInv'
<1> USE DEF FollowInv
<1>1. FollowType'
    BY DEF FollowType, GetBefore, ReadText, Agent, Agents, Looks, Read
<1>2. TargetInv' /\ OutputInv'
    BY DEF TargetInv, OutputInv, GetBefore, ReadText
<1>3. QueryInv'
  <2>1. CASE GetBefore
      BY <2>1 DEF FollowType, QueryInv, GetBefore, NoQuery, Agent
  <2>2. CASE ReadText
      BY <2>2 DEF FollowType, QueryInv, ReadText, Agents, Looks
  <2> QED  BY <2>1, <2>2
<1> QED  BY <1>1, <1>2, <1>3

(* The agent of a result is the target, and its text was read from the     *)
(* terminal both looks saw.                                                *)
LEMMA ResultKeeps == ASSUME FollowInv, GetAfter PROVE FollowInv'
<1> USE DEF FollowInv
<1> DEFINE agent  == Agent(pane)
           result == [agent |-> agent, text |-> query.text]
<1>1. /\ agent \in Agents /\ query.text \in Read /\ result \in Results
      /\ follower.at = "poll" /\ query.before \in Agents
    BY DEF FollowType, QueryInv, GetAfter, Agent, Agents, Looks, Read, Results
<1>2. /\ agent.terminal = follower.target.terminal
      /\ follower.target.session # 0 => agent.session = follower.target.session
      /\ query.before.terminal = agent.terminal
    BY <1>1 DEF FollowType, TargetInv, GetAfter, Matches, sameAgent, Agent
<1>3. result.text.terminal = result.agent.terminal
    BY <1>1, <1>2 DEF FollowType, QueryInv, GetAfter, Agent, Agents, Read
<1>4. /\ polled' = result /\ pane' = pane /\ query' = NoQuery
      /\ follower' = [follower EXCEPT !.at = "rest", !.gap = NoView,
                                      !.previous = result, !.target = agent]
      /\ \/ shown' = result /\ followed' = followed \cup {agent}
         \/ shown' = shown /\ followed' = followed
      /\ shown' = result
    BY DEF GetAfter, PollSucceeds, Pinned, OutputInv
<1> HIDE DEF agent, result
<1>5. FollowType'
    BY <1>1, <1>4 DEF FollowType, NoQuery, Looks, Known, Events
<1>6. QueryInv'
    BY <1>4 DEF QueryInv, NoQuery
<1>7. TargetInv'
  <2>1. follower'.target = agent /\ follower'.at = "rest"
      BY <1>4 DEF FollowType
  <2>2. follower'.target.terminal # 0
      BY <1>1, <1>2, <2>1 DEF TargetInv
  <2>3. ASSUME NEW a \in followed'
        PROVE  /\ a.terminal = agent.terminal
               /\ a.session # 0 => a.session = agent.session
      BY <1>2, <1>4 DEF TargetInv
  <2> QED  BY <2>1, <2>2, <2>3 DEF TargetInv
<1>8. OutputInv'
    BY <1>3, <1>4 DEF FollowType, OutputInv
<1> QED  BY <1>5, <1>6, <1>7, <1>8

LEMMA GapKeeps == ASSUME FollowInv, PollFails PROVE FollowInv'
<1> USE DEF FollowInv
<1>1. PICK code \in Transient :
          /\ polled' = code
          /\ shown' = IF code # follower.gap THEN code ELSE shown
          /\ follower' = [follower EXCEPT !.at = "rest", !.gap = code]
    BY DEF PollFails
<1>2. code # NoView
    BY FailureAssumption
<1>3. shown' = code
    BY <1>1, <1>2 DEF OutputInv
<1>4. FollowType'
    BY <1>1, <1>3 DEF FollowType, PollFails, NoQuery, Looks, Events
<1>5. QueryInv' /\ TargetInv'
    BY <1>1 DEF FollowType, QueryInv, TargetInv, PollFails, NoQuery
<1>6. OutputInv'
    BY <1>1, <1>2, <1>3 DEF FollowType, OutputInv
<1> QED  BY <1>4, <1>5, <1>6

LEMMA RestKeeps == ASSUME FollowInv, FollowEnds \/ FollowInterval PROVE FollowInv'
<1> USE DEF FollowInv
<1>1. FollowType'
    BY DEF FollowType, FollowEnds, FollowInterval, NoQuery, Looks
<1>2. QueryInv' /\ TargetInv' /\ OutputInv'
    BY DEF FollowType, QueryInv, TargetInv, OutputInv, FollowEnds, FollowInterval, NoQuery
<1> QED  BY <1>1, <1>2

LEMMA FollowStep == ASSUME FollowInv, [FollowNext]_followVars PROVE FollowInv'
<1>1. CASE UNCHANGED followVars
    BY <1>1 DEF followVars, FollowInv, FollowType, QueryInv, TargetInv, OutputInv
<1>2. CASE FollowNext
    BY <1>2, PaneKeeps, LookupKeeps, QueryKeeps, ResultKeeps, GapKeeps, RestKeeps
       DEF FollowNext
<1> QED  BY <1>1, <1>2

(***************************************************************************)
(* Following shows one agent only, and truly, for every number of          *)
(* terminals, agent sessions, texts and failures: the agent of a result is *)
(* pinned by followAgentWithClient and the text of a query belongs to the  *)
(* terminal that both its looks saw.                                       *)
(***************************************************************************)
THEOREM FollowsOneAgent == FollowSpec => []FollowsOne
<1>1. FollowInv => FollowsOne
    BY DEF FollowInv, FollowType, TargetInv, OutputInv, FollowsOne, Agents
<1> QED  BY <1>1, FollowInitial, FollowStep, PTL DEF FollowSpec
-----------------------------------------------------------------------------
(***************************************************************************)
(* The watchers.  They share only the fleet, which grows, and the slots:   *)
(* the invariant is one about the fleet and one watcher's handler, stream  *)
(* and command line.                                                       *)
(***************************************************************************)
Codes     == {"deadline", "unavailable", "refused"}
Snapshots == [type : {"snapshot"}, fleet : Nat]
Packets  == Snapshots \cup [type : {"error"}, code : Codes]
Handlers  == [step : {"none", "read", "emit", "wait"}, previous : Nat \cup {Nothing}]
Clients   == [at : {"open", "recv", "retry", "ended"}, gap : BOOLEAN,
              shown : Nat \cup {Nothing, Gap}]

WatchType ==
    /\ fleet \in Nat
    /\ handler \in [Watcher -> Handlers]
    /\ stream \in [Watcher -> Seq(Packets)]
    /\ client \in [Watcher -> Clients]

(* Only a client that receives has a stream; it pauses only in a gap. *)
Attached(h, s, c) ==
    /\ c.gap => c.shown = Gap
    /\ c.at = "retry" => c.gap = TRUE
    /\ c.at # "recv" => h.step = "none" /\ s = <<>>
    /\ h.step # "none" => \A i \in 1..Len(s) : s[i].type = "snapshot"

(* What is shown, on its way and sent last was the fleet, in this order. *)
Ordered(f, h, s, c) ==
    /\ c.shown \in Nat => c.shown <= f
    /\ h.previous \in Nat => h.previous <= f
    /\ c.shown \in Nat /\ h.previous \in Nat => c.shown <= h.previous
    /\ \A i \in 1..Len(s) : s[i].type = "snapshot" =>
          /\ s[i].fleet <= f
          /\ c.shown \in Nat => c.shown <= s[i].fleet
          /\ h.previous \in Nat => s[i].fleet <= h.previous
          /\ \A j \in 1..i : s[j].type = "snapshot" => s[j].fleet <= s[i].fleet

(* What was sent last is shown or is the last on its way. *)
Latest(h, s, c) ==
    /\ h.step = "none" => h.previous = Nothing
    /\ h.step \in {"emit", "wait"} => h.previous \in Nat
    /\ h.step \in {"read", "wait"} /\ h.previous \in Nat =>
          IF s = <<>> THEN c.shown = h.previous
                      ELSE s[Len(s)].fleet = h.previous

Told(f, h, s, c) == Attached(h, s, c) /\ Ordered(f, h, s, c) /\ Latest(h, s, c)

WatchInv == WatchType /\ \A w \in Watcher : Told(fleet, handler[w], stream[w], client[w])

-----------------------------------------------------------------------------
LEMMA WatchInitial == WatchInit => WatchInv
<1> SUFFICES ASSUME WatchInit PROVE WatchInv
    OBVIOUS
<1>1. WatchType
    BY DEF WatchInit, WatchType, NoHandler, Handlers, Clients
<1>2. ASSUME NEW w \in Watcher
      PROVE  Told(fleet, handler[w], stream[w], client[w])
    BY SnapshotAssumption
       DEF WatchInit, NoHandler, Told, Attached, Ordered, Latest
<1> QED  BY <1>1, <1>2 DEF WatchInv

(* A step of one watcher concerns that watcher only. *)
LEMMA OneWatcher ==
    ASSUME WatchInv, NEW w \in Watcher,
           NEW h \in Handlers, NEW s \in Seq(Packets), NEW c \in Clients,
           fleet' = fleet,
           handler' = [handler EXCEPT ![w] = h],
           stream' = [stream EXCEPT ![w] = s],
           client' = [client EXCEPT ![w] = c],
           Told(fleet, h, s, c)
    PROVE  WatchInv'
<1>1. WatchType'
    BY DEF WatchInv, WatchType
<1>2. ASSUME NEW v \in Watcher
      PROVE  Told(fleet', handler'[v], stream'[v], client'[v])
  <2>1. CASE v = w
      BY <2>1 DEF WatchInv, WatchType
  <2>2. CASE v # w
    <3>1. /\ handler'[v] = handler[v] /\ stream'[v] = stream[v] /\ client'[v] = client[v]
          /\ Told(fleet, handler[v], stream[v], client[v])
        BY <2>2 DEF WatchInv, WatchType
    <3> QED  BY <3>1
  <2> QED  BY <2>1, <2>2
<1> QED  BY <1>1, <1>2 DEF WatchInv

LEMMA ChangeKeeps == ASSUME WatchInv, FleetChanges PROVE WatchInv'
<1>1. WatchType'
    BY DEF WatchInv, WatchType, FleetChanges
<1>2. ASSUME NEW v \in Watcher
      PROVE  Told(fleet', handler'[v], stream'[v], client'[v])
  <2>1. /\ Told(fleet, handler[v], stream[v], client[v])
        /\ handler[v] \in Handlers /\ stream[v] \in Seq(Packets) /\ client[v] \in Clients
        /\ fleet \in Nat /\ fleet' = fleet + 1
        /\ handler' = handler /\ stream' = stream /\ client' = client
      BY DEF WatchInv, WatchType, FleetChanges
  <2>2. \A i \in 1..Len(stream[v]) :
            stream[v][i].type = "snapshot" => stream[v][i].fleet \in Nat
      BY <2>1 DEF Packets, Snapshots
  <2> QED  BY <2>1, <2>2 DEF Told, Attached, Ordered, Latest, Handlers, Clients
<1> QED  BY <1>1, <1>2 DEF WatchInv

-----------------------------------------------------------------------------
(* The handler. *)

LEMMA HandlerKeeps ==
    ASSUME WatchInv, NEW w \in Watcher,
           ReadFleet(w) \/ Interval(w) \/ EmitSnapshot(w) \/ WatchEnds(w)
    PROVE  WatchInv'
<1> DEFINE h == handler[w]
           s == stream[w]
           c == client[w]
<1>0. /\ Told(fleet, h, s, c) /\ fleet \in Nat /\ Nothing \notin Nat
      /\ h \in Handlers /\ s \in Seq(Packets) /\ c \in Clients
    BY SnapshotAssumption DEF WatchInv, WatchType
<1>a. \A i \in 1..Len(s) : s[i].type = "snapshot" => s[i].fleet \in Nat
    BY <1>0 DEF Packets, Snapshots
<1>b. /\ stream = [stream EXCEPT ![w] = s] /\ client = [client EXCEPT ![w] = c]
    BY DEF WatchInv, WatchType
<1>1. CASE ReadFleet(w)
  <2> DEFINE k == IF h.previous = fleet THEN [h EXCEPT !.step = "wait"]
                  ELSE [step |-> "emit", previous |-> fleet]
  <2>1. handler' = [handler EXCEPT ![w] = k] /\ k \in Handlers /\ h.step = "read"
      BY <1>1, <1>0 DEF ReadFleet, Handlers, WatchInv, WatchType
  <2>2. Told(fleet, k, s, c)
      BY <1>0, <1>a, <2>1 DEF Told, Attached, Ordered, Latest, Handlers, Clients
  <2>3. fleet' = fleet /\ stream' = stream /\ client' = client
      BY <1>1 DEF ReadFleet
  <2> HIDE DEF h, s, c, k
  <2> QED  BY <1>0, <1>b, <2>1, <2>2, <2>3, OneWatcher
<1>2. CASE Interval(w)
  <2> DEFINE k == [h EXCEPT !.step = "read"]
  <2>1. handler' = [handler EXCEPT ![w] = k] /\ k \in Handlers /\ h.step = "wait"
      BY <1>2, <1>0 DEF Interval, Handlers, WatchInv, WatchType
  <2>2. Told(fleet, k, s, c)
      BY <1>0, <2>1 DEF Told, Attached, Ordered, Latest, Handlers
  <2>3. fleet' = fleet /\ stream' = stream /\ client' = client
      BY <1>2 DEF Interval
  <2> HIDE DEF h, s, c, k
  <2> QED  BY <1>0, <1>b, <2>1, <2>2, <2>3, OneWatcher
<1>3. CASE EmitSnapshot(w)
  <2> DEFINE k == [h EXCEPT !.step = "wait"]
             t == Append(s, Snapshot(h.previous))
  <2>1. handler' = [handler EXCEPT ![w] = k] /\ k \in Handlers /\ h.step = "emit"
      BY <1>3, <1>0 DEF EmitSnapshot, Handlers, WatchInv, WatchType
  <2>2. h.previous \in Nat
      BY <1>0, <2>1 DEF Told, Latest
  <2>3. Snapshot(h.previous) \in Packets
      BY <2>2 DEF Snapshot, Packets, Snapshots
  <2>4. /\ t \in Seq(Packets) /\ Len(t) = Len(s) + 1 /\ t # <<>>
        /\ t[Len(t)] = Snapshot(h.previous)
        /\ \A i \in 1..Len(s) : t[i] = s[i]
      BY <1>0, <2>3
  <2>5. Attached(k, t, c) /\ Latest(k, t, c)
      BY <1>0, <2>1, <2>2, <2>4
         DEF Told, Attached, Ordered, Latest, Handlers, Snapshot
  <2>6. Ordered(fleet, k, t, c)
    <3>1. k.previous = h.previous /\ Len(s) \in Nat
        BY <1>0 DEF Handlers
    <3>2. ASSUME NEW i \in 1..Len(t), t[i].type = "snapshot"
          PROVE  /\ t[i].fleet <= fleet
                 /\ c.shown \in Nat => c.shown <= t[i].fleet
                 /\ t[i].fleet <= h.previous
                 /\ \A j \in 1..i : t[j].type = "snapshot" => t[j].fleet <= t[i].fleet
      <4>1. CASE i = Len(t)
          BY <4>1, <1>0, <1>a, <2>2, <2>4, <3>1 DEF Told, Ordered, Snapshot
      <4>2. CASE i \in 1..Len(s)
          BY <4>2, <3>2, <1>0, <2>2, <2>4, <3>1 DEF Told, Ordered
      <4> QED  BY <4>1, <4>2, <2>4, <3>1
    <3> HIDE DEF t, k, h, s, c
    <3> QED  BY <3>1, <3>2, <1>0 DEF Told, Ordered
  <2>7. /\ fleet' = fleet /\ stream' = [stream EXCEPT ![w] = t] /\ client' = client
      BY <1>3 DEF EmitSnapshot, WatchInv, WatchType
  <2> HIDE DEF h, s, c, k, t
  <2> QED  BY <1>0, <1>b, <2>1, <2>4, <2>5, <2>6, <2>7, OneWatcher DEF Told
<1>4. CASE WatchEnds(w)
  <2>1. PICK code \in Codes : stream' = [stream EXCEPT ![w] = Append(@, Failure(code))]
      BY <1>4 DEF WatchEnds, Codes
  <2> DEFINE t == Append(s, Failure(code))
  <2>2. Failure(code) \in Packets /\ Failure(code).type = "error"
      BY DEF Failure, Packets
  <2>3. /\ t \in Seq(Packets) /\ Len(t) = Len(s) + 1
        /\ t[Len(t)] = Failure(code)
        /\ \A i \in 1..Len(s) : t[i] = s[i]
      BY <1>0, <2>2
  <2>4. NoHandler \in Handlers /\ h.step # "none" /\ handler' = [handler EXCEPT ![w] = NoHandler]
      BY <1>4 DEF WatchEnds, NoHandler, Handlers
  <2>5. Attached(NoHandler, t, c) /\ Latest(NoHandler, t, c)
      BY <1>0, <2>4 DEF Told, Attached, Latest, NoHandler
  <2>6. Ordered(fleet, NoHandler, t, c)
    <3>1. ASSUME NEW i \in 1..Len(t), t[i].type = "snapshot"
          PROVE  i \in 1..Len(s) /\ t[i] = s[i]
        BY <3>1, <1>0, <2>2, <2>3
    <3> HIDE DEF t, h, s, c
    <3> QED  BY <3>1, <1>0, <2>3 DEF Told, Ordered, NoHandler
  <2>7. /\ fleet' = fleet /\ stream' = [stream EXCEPT ![w] = t] /\ client' = client
      BY <1>4, <2>1 DEF WatchEnds, WatchInv, WatchType
  <2> HIDE DEF h, s, c, t
  <2> QED  BY <1>0, <1>b, <2>3, <2>4, <2>5, <2>6, <2>7, OneWatcher DEF Told
<1> QED  BY <1>1, <1>2, <1>3, <1>4

-----------------------------------------------------------------------------
(* The command line. *)

LEMMA OpenKeeps == ASSUME WatchInv, NEW w \in Watcher, WatchNodes(w) PROVE WatchInv'
<1> DEFINE c == client[w]
           d == [c EXCEPT !.at = "recv"]
<1>0. /\ Told(fleet, handler[w], stream[w], c) /\ fleet \in Nat
      /\ handler[w] \in Handlers /\ c \in Clients
    BY DEF WatchInv, WatchType
<1>1. /\ c.at = "open" /\ d \in Clients /\ fleet' = fleet
      /\ client' = [client EXCEPT ![w] = d]
    BY <1>0 DEF WatchNodes, ClientAt, WatchInv, WatchType, Clients
<1>2. PICK h \in Handlers, s \in Seq(Packets) :
          /\ handler' = [handler EXCEPT ![w] = h] /\ stream' = [stream EXCEPT ![w] = s]
          /\ \/ h = [step |-> "read", previous |-> Nothing] /\ s = <<>>
             \/ h = handler[w] /\ s = <<Failure("refused")>>
             \/ h = handler[w] /\ s = <<Failure("unavailable")>>
  <2>1. [step |-> "read", previous |-> Nothing] \in Handlers /\ <<>> \in Seq(Packets)
      BY DEF Handlers
  <2>2. <<Failure("refused")>> \in Seq(Packets) /\ <<Failure("unavailable")>> \in Seq(Packets)
      BY DEF Failure, Packets, Codes
  <2>3. handler = [handler EXCEPT ![w] = handler[w]]
      BY DEF WatchInv, WatchType
  <2>4. NewSubscription(w) = [step |-> "read", previous |-> Nothing]
      BY DEF NewSubscription, NoHandler
  <2>5. \/ /\ handler' = [handler EXCEPT ![w] = NewSubscription(w)]
           /\ stream' = [stream EXCEPT ![w] = <<>>]
        \/ handler' = handler /\ stream' = [stream EXCEPT ![w] = <<Failure("refused")>>]
        \/ handler' = handler /\ stream' = [stream EXCEPT ![w] = <<Failure("unavailable")>>]
      BY DEF WatchNodes
  <2>6. CASE /\ handler' = [handler EXCEPT ![w] = NewSubscription(w)]
             /\ stream' = [stream EXCEPT ![w] = <<>>]
      BY <2>1, <2>4, <2>6
  <2>7. CASE handler' = handler /\ stream' = [stream EXCEPT ![w] = <<Failure("refused")>>]
      BY <1>0, <2>2, <2>3, <2>7
  <2>8. CASE handler' = handler /\ stream' = [stream EXCEPT ![w] = <<Failure("unavailable")>>]
      BY <1>0, <2>2, <2>3, <2>8
  <2> QED  BY <2>5, <2>6, <2>7, <2>8
<1>3. handler[w].step = "none" /\ handler[w].previous = Nothing
    BY <1>0, <1>1 DEF Told, Attached, Latest
<1>4. d.gap = c.gap /\ d.shown = c.shown /\ d.at = "recv"
    BY <1>0 DEF Clients
<1>5. ASSUME NEW i \in 1..Len(s) PROVE s[i].type = "error"
    BY <1>2 DEF Failure
<1>6. h.previous = Nothing /\ (h.step = "read" => s = <<>>) /\ h.step \in {"none", "read"}
    BY <1>2, <1>3
<1> HIDE DEF c, d
<1>7. Told(fleet, h, s, d)
    BY SnapshotAssumption, <1>0, <1>1, <1>4, <1>5, <1>6
       DEF Told, Attached, Ordered, Latest
<1> QED  BY <1>1, <1>2, <1>7, OneWatcher

(* The client is without a stream, or has only a failure to read. *)
LEMMA LeaveKeeps ==
    ASSUME WatchInv, NEW w \in Watcher,
           Disconnect(w) \/ Renew(w) \/ RetryDelay(w)
    PROVE  WatchInv'
<1> DEFINE c == client[w]
<1>0. /\ Told(fleet, handler[w], stream[w], c) /\ fleet \in Nat
      /\ handler[w] \in Handlers /\ stream[w] \in Seq(Packets) /\ c \in Clients
      /\ NoHandler \in Handlers /\ <<>> \in Seq(Packets)
      /\ Nothing \notin Nat /\ NoHandler.step = "none" /\ NoHandler.previous = Nothing
    BY SnapshotAssumption DEF WatchInv, WatchType, NoHandler, Handlers
<1>1. CASE Disconnect(w)
  <2> DEFINE s == <<Failure("unavailable")>>
  <2>1. /\ fleet' = fleet /\ handler' = [handler EXCEPT ![w] = NoHandler]
        /\ stream' = [stream EXCEPT ![w] = s] /\ client' = [client EXCEPT ![w] = c]
        /\ c.at = "recv"
      BY <1>1 DEF Disconnect, LeaveStream, WatchInv, WatchType
  <2>2. s \in Seq(Packets) /\ \A i \in 1..Len(s) : s[i].type = "error"
      BY DEF Failure, Packets, Codes
  <2> HIDE DEF c, s
  <2>3. Told(fleet, NoHandler, s, c)
      BY <1>0, <2>1, <2>2 DEF Told, Attached, Ordered, Latest
  <2> QED  BY <1>0, <2>1, <2>2, <2>3, OneWatcher
<1>2. CASE Renew(w)
  <2> DEFINE d == [c EXCEPT !.at = "open"]
  <2>1. /\ fleet' = fleet /\ handler' = [handler EXCEPT ![w] = NoHandler]
        /\ stream' = [stream EXCEPT ![w] = <<>>] /\ client' = [client EXCEPT ![w] = d]
      BY <1>2 DEF Renew, LeaveStream, ClientAt, WatchInv, WatchType
  <2>2. d \in Clients /\ d.at = "open" /\ d.gap = c.gap /\ d.shown = c.shown
      BY <1>0 DEF Clients
  <2> HIDE DEF c, d
  <2>3. Told(fleet, NoHandler, <<>>, d)
      BY <1>0, <2>2 DEF Told, Attached, Ordered, Latest
  <2> QED  BY <1>0, <2>1, <2>2, <2>3, OneWatcher
<1>3. CASE RetryDelay(w)
  <2> DEFINE d == [c EXCEPT !.at = "open"]
  <2>1. /\ fleet' = fleet /\ handler' = [handler EXCEPT ![w] = handler[w]]
        /\ stream' = [stream EXCEPT ![w] = stream[w]] /\ client' = [client EXCEPT ![w] = d]
        /\ c.at = "retry"
      BY <1>3 DEF RetryDelay, ClientAt, WatchInv, WatchType
  <2>2. d \in Clients /\ d.at = "open" /\ d.gap = c.gap /\ d.shown = c.shown
      BY <1>0 DEF Clients
  <2> HIDE DEF c, d
  <2>3. Told(fleet, handler[w], stream[w], d)
      BY <1>0, <2>1, <2>2 DEF Told, Attached, Ordered, Latest
  <2> QED  BY <1>0, <2>1, <2>2, <2>3, OneWatcher
<1> QED  BY <1>1, <1>2, <1>3

(* What is received is the oldest on its way, and what stays is younger. *)
LEMMA SnapshotKeeps == ASSUME WatchInv, NEW w \in Watcher, RecvSnapshot(w) PROVE WatchInv'
<1> DEFINE h == handler[w]
           s == stream[w]
           c == client[w]
           t == Tail(s)
           d == [c EXCEPT !.shown = s[1].fleet, !.gap = FALSE]
<1>0. /\ Told(fleet, h, s, c) /\ fleet \in Nat /\ Nothing \notin Nat
      /\ h \in Handlers /\ s \in Seq(Packets) /\ c \in Clients
    BY SnapshotAssumption DEF WatchInv, WatchType
<1>1. /\ fleet' = fleet /\ handler' = [handler EXCEPT ![w] = h]
      /\ stream' = [stream EXCEPT ![w] = t] /\ client' = [client EXCEPT ![w] = d]
      /\ s # <<>> /\ s[1].type = "snapshot" /\ c.at = "recv"
    BY DEF RecvSnapshot, Shown, WatchInv, WatchType
<1>2. /\ t \in Seq(Packets) /\ Len(t) = Len(s) - 1 /\ Len(s) \in Nat /\ 1 \in 1..Len(s)
      /\ \A i \in 1..Len(t) : t[i] = s[i + 1]
      /\ t = <<>> => Len(s) = 1
      /\ t # <<>> => t[Len(t)] = s[Len(s)]
  <2> HIDE DEF s
  <2>1. Len(s) \in Nat /\ Len(s) # 0
      BY <1>0, <1>1
  <2>2. /\ t \in Seq(Packets) /\ Len(t) = Len(s) - 1
        /\ \A i \in 1..Len(t) : t[i] = s[i + 1]
      BY <1>0, <1>1
  <2> HIDE DEF t
  <2>3. t = <<>> => Len(s) = 1
      BY <2>1, <2>2
  <2>4. t # <<>> => Len(t) \in 1..Len(t) /\ t[Len(t)] = s[Len(t) + 1]
      BY <2>1, <2>2
  <2>5. Len(t) + 1 = Len(s)
      BY <2>1, <2>2
  <2> QED  BY <2>1, <2>2, <2>3, <2>4, <2>5
<1>3. s[1].fleet \in Nat
    BY <1>0, <1>1, <1>2 DEF Packets, Snapshots
<1>4. /\ d \in Clients /\ d.at = "recv" /\ d.gap = FALSE /\ d.shown = s[1].fleet
    BY <1>0, <1>1, <1>3 DEF Clients
<1>5. \A i \in 1..Len(t) : i + 1 \in 1..Len(s) /\ 1 \in 1..(i + 1)
    BY <1>2
<1> HIDE DEF h, s, c, t, d
<1>6. Attached(h, t, d)
    BY <1>0, <1>2, <1>4, <1>5 DEF Told, Attached
<1>7. Ordered(fleet, h, t, d)
  <2>1. d.shown <= fleet /\ (h.previous \in Nat => d.shown <= h.previous)
      BY <1>0, <1>1, <1>2, <1>4 DEF Told, Ordered
  <2>2. ASSUME NEW i \in 1..Len(t), t[i].type = "snapshot"
        PROVE  /\ t[i].fleet <= fleet
               /\ d.shown <= t[i].fleet
               /\ h.previous \in Nat => t[i].fleet <= h.previous
      BY <2>2, <1>0, <1>1, <1>2, <1>4, <1>5 DEF Told, Ordered
  <2>3. ASSUME NEW i \in 1..Len(t), NEW j \in 1..i,
               t[i].type = "snapshot", t[j].type = "snapshot"
        PROVE  t[j].fleet <= t[i].fleet
    <3>1. /\ j \in 1..Len(t) /\ j + 1 \in 1..(i + 1) /\ i + 1 \in 1..Len(s)
          /\ t[i] = s[i + 1] /\ t[j] = s[j + 1]
        BY <1>2
    <3> QED  BY <3>1, <2>3, <1>0 DEF Told, Ordered
  <2> QED  BY <2>1, <2>2, <2>3, <1>0 DEF Told, Ordered
<1>8. Latest(h, t, d)
    BY <1>0, <1>1, <1>2, <1>4 DEF Told, Latest
<1> QED  BY <1>0, <1>1, <1>2, <1>4, <1>6, <1>7, <1>8, OneWatcher DEF Told

LEMMA WatchFailureKeeps == ASSUME WatchInv, NEW w \in Watcher, RecvFailure(w) PROVE WatchInv'
<1> DEFINE h == handler[w]
           s == stream[w]
           c == client[w]
           d == IF Head(s).code = "refused" THEN [c EXCEPT !.at = "ended"]
                ELSE [at |-> "retry", gap |-> TRUE, shown |-> IF c.gap THEN c.shown ELSE Gap]
<1>0. /\ Told(fleet, h, s, c) /\ fleet \in Nat
      /\ Nothing \notin Nat /\ Gap \notin Nat
      /\ h \in Handlers /\ s \in Seq(Packets) /\ c \in Clients /\ <<>> \in Seq(Packets)
    BY SnapshotAssumption DEF WatchInv, WatchType
<1>1. /\ fleet' = fleet /\ handler' = [handler EXCEPT ![w] = h]
      /\ stream' = [stream EXCEPT ![w] = <<>>] /\ client' = [client EXCEPT ![w] = d]
      /\ s # <<>> /\ s[1].type = "error"
    BY DEF RecvFailure, WatchInv, WatchType
<1>2. h.step = "none" /\ h.previous = Nothing
  <2>1. 1 \in 1..Len(s)
      BY <1>0, <1>1
  <2> QED  BY <1>0, <1>1, <2>1 DEF Told, Attached, Latest
<1>3. /\ d \in Clients /\ d.at \in {"ended", "retry"}
      /\ d.gap => d.shown = Gap
      /\ d.at = "retry" => d.gap = TRUE
      /\ d.shown \in {c.shown, Gap}
    BY <1>0 DEF Told, Attached, Clients
<1> HIDE DEF h, s, c, d
<1>4. Told(fleet, h, <<>>, d)
    BY <1>0, <1>2, <1>3 DEF Told, Attached, Ordered, Latest
<1> QED  BY <1>0, <1>1, <1>3, <1>4, OneWatcher

LEMMA WatchStep == ASSUME WatchInv, [WatchNext]_watchVars PROVE WatchInv'
<1>1. CASE UNCHANGED watchVars
    BY <1>1 DEF watchVars, WatchInv, WatchType
<1>2. CASE Release
    BY <1>2 DEF Release, WatchInv, WatchType
<1>3. CASE FleetChanges
    BY <1>3, ChangeKeeps
<1>4. ASSUME NEW w \in Watcher,
             \/ ReadFleet(w) \/ EmitSnapshot(w) \/ Interval(w) \/ WatchEnds(w)
             \/ WatchNodes(w) \/ Disconnect(w) \/ RecvSnapshot(w) \/ RecvFailure(w)
             \/ Renew(w) \/ RetryDelay(w)
      PROVE  WatchInv'
    BY <1>4, HandlerKeeps, OpenKeeps, LeaveKeeps, SnapshotKeeps, WatchFailureKeeps
<1> QED  BY <1>1, <1>2, <1>3, <1>4 DEF WatchNext

(***************************************************************************)
(* Every watcher is told, whatever their number and the number of slots,   *)
(* and however reads, failures, renewals and lost connections interleave:  *)
(* Watch remembers what it sent, and watchNodesWithClient shows a gap      *)
(* before it pauses.                                                       *)
(***************************************************************************)
THEOREM AllWatchersTold == WatchSpec => []WatchersTold
<1>1. ASSUME WatchInv PROVE WatchersTold
  <2> SUFFICES ASSUME NEW w \in Watcher
        PROVE  /\ client[w].at = "retry" => client[w].shown = Gap
               /\ client[w].at = "recv" /\ handler[w].step = "wait" /\ stream[w] = <<>>
                     => client[w].shown = handler[w].previous
               /\ \A i \in DOMAIN stream[w] :
                     stream[w][i].type = "snapshot" /\ client[w].shown \notin {Gap, Nothing}
                        => client[w].shown <= stream[w][i].fleet
      BY DEF WatchersTold
  <2>1. /\ Told(fleet, handler[w], stream[w], client[w])
        /\ stream[w] \in Seq(Packets) /\ client[w] \in Clients
      BY <1>1 DEF WatchInv, WatchType
  <2>2. DOMAIN stream[w] = 1..Len(stream[w])
      BY <2>1
  <2> QED  BY <2>1, <2>2 DEF Told, Attached, Ordered, Latest, Clients
<1> QED  BY <1>1, WatchInitial, WatchStep, PTL DEF WatchSpec
=============================================================================
