------------------------- MODULE ProjectSyncProofs --------------------------
(***************************************************************************)
(* The two journals of a project's registration agree, and the node's      *)
(* cache with them, for any number of projects, generations, streams and   *)
(* mutations.                                                              *)
(*                                                                         *)
(* The generations (SyncInv): a stream brings a project's generations in   *)
(* rising order, each with the registration the coordinator has or had;    *)
(* and what the node has answered on the stream that is current (Answers)  *)
(* is of an older generation than the one it has saved, or the outcome of  *)
(* its session.  Nothing is assumed of directories or of the cache.        *)
(*                                                                         *)
(* The cache (CacheInv): a binding is the one last applied, the one the    *)
(* session is about to acknowledge, or one adopted from the policy file,   *)
(* and bindings are apart.                                                 *)
(*                                                                         *)
(* The places (PlaceInv), for links that stay where they are: a success    *)
(* names the directories that its registration leads to, so that no two    *)
(* successes of a generation differ.                                       *)
(***************************************************************************)
EXTENDS ProjectSync, FiniteSetTheorems, WellFoundedInduction, TLAPS

ConfigMessages == [type : {"config"}, project : Project, gen : Nat, cfg : Configs]
NodeMessages   == {[type |-> "welcome"]} \cup ConfigMessages \cup Mutations
AckMessages    == [type : {"ack"}, project : Project, ack : Acks]
ServerMessages == {[type |-> "offer"]} \cup AckMessages
Saved          == [step : {"saved"}, project : Project]
Outcomes       == [step : {"bound"}, project : Project, ack : Acks]
Helds          == [type : {"held"}, mutation : Mutations, binding : Bindings]
Filesystems    == [target : [Path -> Dir], online : SUBSET Dir,
                   roots : [Root -> {"missing", "empty", "used"}]]

SyncTypes ==
    /\ desired \in [Project -> Desired] /\ lastAck \in [Project -> Acks]
    /\ cur \in Nat /\ hello \subseteq Nat /\ sess \in Nat /\ opened \in Nat
    /\ projectSent \in [Project -> Nat] /\ projectApplied \in [Project -> Acks]
    /\ outbound \subseteq Mutations /\ work \subseteq Mutations
    /\ toNode \in Seq(NodeMessages) /\ toServer \in Seq(ServerMessages)
    /\ phase \in {"down", "idle", "greeting", "open", "closing"}
    /\ config \in [Project -> Desired] /\ ack \in [Project -> Acks]
    /\ appliedAck \in [Project -> Acks] /\ projectCurrent \in [Project -> Acks]
    /\ bindings \in [Project -> Bindings]
    /\ applying \in {Idle} \cup Saved \cup Outcomes
    /\ held \in {NoMutation} \cup Helds
    /\ fs \in Filesystems
    /\ fault # "protocol"

(* The streams: one is current at most, and one that is not current yet has   *)
(* told its session nothing.                                                  *)
NothingBegun ==
    /\ applying = Idle /\ projectCurrent = NoAcks /\ work = {} /\ held = NoMutation
    /\ bindings = [p \in Project |-> NoBinding]

StreamsOk ==
    /\ hello \subseteq 1..opened /\ cur <= opened /\ sess <= opened /\ cur \notin hello
    /\ phase \in {"down", "idle"} <=> sess = 0
    /\ phase \in {"down", "idle", "greeting"} \/ sess \in hello => NothingBegun
    /\ sess = 0 \/ sess \in hello => toNode = <<>>
    /\ cur = 0 => /\ outbound = {} /\ toServer = <<>> /\ projectApplied = NoAcks
                  /\ \A p \in Project : projectSent[p] = 0

(* What the session has said of a project, as far as its latest generation.   *)
Answers(p, a) ==
    /\ a.gen <= config[p].gen
    /\ a.gen > 0 /\ a.gen = config[p].gen => projectCurrent[p] = a

(* A project's records at the coordinator and at the node. *)
RecordOk(p) ==
    /\ desired[p].gen = 0 <=> desired[p].cfg = None
    /\ config[p].gen = 0 <=> config[p].cfg = None
    /\ config[p].gen <= desired[p].gen
    /\ config[p].gen = desired[p].gen => config[p] = desired[p]
    /\ lastAck[p].gen <= ack[p].gen /\ ack[p].gen <= config[p].gen
    /\ appliedAck[p].gen <= ack[p].gen
    /\ ack[p].status = "applied" => appliedAck[p] = ack[p]
    /\ projectCurrent[p] \in {NoAck, ack[p]}
    /\ projectSent[p] <= desired[p].gen
    /\ Linked => Answers(p, projectApplied[p])

ApplyingOk ==
    applying # Idle =>
       /\ config[applying.project].gen > 0
       /\ projectCurrent[applying.project] = NoAck
       /\ Linked => config[applying.project].gen <= projectSent[applying.project]
       /\ applying.step = "bound" => applying.ack.gen = config[applying.project].gen

(* A registration on its way to the node. *)
ConfigOk(m) ==
    /\ m.gen > 0 /\ m.gen <= desired[m.project].gen
    /\ m.gen = desired[m.project].gen => m.cfg = desired[m.project].cfg
    /\ m.gen = config[m.project].gen => m.cfg = config[m.project].cfg
    /\ Linked => m.gen <= projectSent[m.project]

Admitted(m) == m.gen > 0 /\ m.ack.gen = m.gen /\ m.ack.status = "applied"

(* A mutation on its way to a worker. *)
MutationOk(m) == Admitted(m) /\ Answers(m.project, m.ack)

(* An acknowledgement on its way to the coordinator. *)
AckOk(p, a) ==
    /\ a.gen > 0 /\ a.gen <= projectSent[p] /\ a.gen <= ack[p].gen
    /\ Linked => Answers(p, a)
    /\ projectApplied[p].gen = a.gen => projectApplied[p] = a

(* A project's generations rise; no generation has two outcomes. *)
Rising(s) ==
    \A i, j \in 1..Len(s) :
       i < j /\ s[i].type = "config" /\ s[j].type = "config" /\ s[i].project = s[j].project
       => s[i].gen < s[j].gen

OneOutcome(s) ==
    \A i, j \in 1..Len(s) :
       /\ s[i].type = "ack" /\ s[j].type = "ack" /\ s[i].project = s[j].project
       /\ s[i].ack.gen = s[j].ack.gen
       => s[i].ack = s[j].ack

ToNodeOk ==
    /\ \A i \in 1..Len(toNode) :
          /\ toNode[i].type = "config" => ConfigOk(toNode[i])
          /\ toNode[i].type = "mutation" => MutationOk(toNode[i])
    /\ Rising(toNode)

ToServerOk ==
    /\ \A i \in 1..Len(toServer) :
          toServer[i].type = "ack" => AckOk(toServer[i].project, toServer[i].ack)
    /\ OneOutcome(toServer)

MutationsOk ==
    /\ \A m \in outbound : Admitted(m) /\ (Linked => Answers(m.project, m.ack))
    /\ \A m \in work : MutationOk(m)

SyncInv ==
    /\ SyncTypes /\ StreamsOk /\ ApplyingOk /\ ToNodeOk /\ ToServerOk /\ MutationsOk
    /\ \A p \in Project : RecordOk(p)

-----------------------------------------------------------------------------
(* The cache. *)

Tied(b, a) == b.gen = a.gen /\ b.dir = a.dir /\ b.root = a.root

Binds(p) == applying.step = "bound" /\ applying.project = p /\ applying.ack.status = "applied"

BindingOk(p) ==
    /\ Bound(bindings[p]) => bindings[p].root \in Root
    /\ Bound(bindings[p]) /\ ~Binds(p) => bindings[p].gen = 0 \/ Tied(bindings[p], appliedAck[p])
    /\ Binds(p) => Bound(bindings[p]) /\ Tied(bindings[p], applying.ack)
    /\ projectCurrent[p].status = "applied" =>
          Bound(bindings[p]) /\ Tied(bindings[p], projectCurrent[p])
    /\ projectCurrent[p] = NoAck \/ projectCurrent[p].gen = config[p].gen
    /\ appliedAck[p] # NoAck =>
          appliedAck[p].gen > 0 /\ appliedAck[p].dir \in Dir /\ appliedAck[p].root \in Root

BindingsApart(m) ==
    \A p, q \in Project : p # q /\ Bound(m[p]) /\ Bound(m[q]) =>
       m[p].dir # m[q].dir /\ m[p].root # m[q].root

CacheInv == (\A p \in Project : BindingOk(p)) /\ BindingsApart(bindings) /\ BindingKept

-----------------------------------------------------------------------------
(* Links that stay where they are. *)
Still == \A l \in Path : \A d, e \in Targets[l] : d = e

Placed(a, cfg) ==
    a.status = "applied" =>
       a.dir = Leads(fs, cfg.path) /\ a.root = RootFor(cfg.root, a.dir)

(* Of the generation the node has saved, or of the one the operators want. *)
PlacedHere(p, a)   == a.gen > 0 /\ a.gen = config[p].gen => Placed(a, config[p].cfg)
PlacedWanted(p, a) == a.gen > 0 /\ a.gen = desired[p].gen => Placed(a, desired[p].cfg)

SentPlaced ==
    \A i \in 1..Len(toServer) :
       toServer[i].type = "ack" => PlacedWanted(toServer[i].project, toServer[i].ack)

BoundPlaced == applying.step = "bound" => PlacedHere(applying.project, applying.ack)

PlaceInv ==
    /\ \A l \in Path : fs.target[l] \in Targets[l]
    /\ NoFault
    /\ \A p \in Project : PlacedHere(p, ack[p]) /\ PlacedWanted(p, lastAck[p])
    /\ SentPlaced /\ BoundPlaced

-----------------------------------------------------------------------------
(* Facts about the messages. *)
LEMMA MessageFacts ==
    /\ \A m \in NodeMessages :
          /\ m.type = "config" => m.project \in Project /\ m.gen \in Nat /\ m.cfg \in Configs
          /\ m.type = "mutation" => m \in Mutations
    /\ \A m \in Mutations :
          m.project \in Project /\ m.gen \in Nat /\ m.ack \in Acks /\ m.type = "mutation"
    /\ \A m \in ServerMessages :
          m.type = "ack" => m.project \in Project /\ m.ack \in Acks
    /\ \A a \in Acks : a.gen \in Nat
    /\ \A d \in Desired : d.gen \in Nat /\ d.cfg \in Configs \cup {None}
    /\ NoAck \in Acks /\ NoAck.gen = 0 /\ NoAck.status = "none"
    /\ NoAcks \in [Project -> Acks]
<1>1. \A m \in Mutations :
         m.project \in Project /\ m.gen \in Nat /\ m.ack \in Acks /\ m.type = "mutation"
    BY DEF Mutations
<1>2. \A m \in ConfigMessages :
         m.project \in Project /\ m.gen \in Nat /\ m.cfg \in Configs /\ m.type = "config"
    BY DEF ConfigMessages
<1>3. \A m \in AckMessages : m.project \in Project /\ m.ack \in Acks
    BY DEF AckMessages
<1>4. \A a \in Acks : a.gen \in Nat
    BY DEF Acks
<1>5. \A d \in Desired : d.gen \in Nat /\ d.cfg \in Configs \cup {None}
    BY DEF Desired
<1>6. NoAck \in Acks /\ NoAck.gen = 0 /\ NoAck.status = "none"
    BY DEF NoAck, Acks
<1>7. NoAcks \in [Project -> Acks]
    BY <1>6 DEF NoAcks
<1>8. \A m \in ServerMessages : m.type = "ack" => m.project \in Project /\ m.ack \in Acks
    BY <1>3 DEF ServerMessages
<1>9. \A m \in NodeMessages :
         /\ m.type = "config" => m.project \in Project /\ m.gen \in Nat /\ m.cfg \in Configs
         /\ m.type = "mutation" => m \in Mutations
    BY <1>1, <1>2 DEF NodeMessages
<1> QED  BY <1>1, <1>4, <1>5, <1>6, <1>7, <1>8, <1>9

LEMMA RisingTail ==
    ASSUME NEW T, NEW s \in Seq(T), s # <<>>, Rising(s) PROVE Rising(Tail(s))
<1> SUFFICES ASSUME NEW i \in 1..Len(Tail(s)), NEW j \in 1..Len(Tail(s)), i < j,
                    Tail(s)[i].type = "config", Tail(s)[j].type = "config",
                    Tail(s)[i].project = Tail(s)[j].project
             PROVE  Tail(s)[i].gen < Tail(s)[j].gen
    BY DEF Rising
<1>1. /\ i + 1 \in 1..Len(s) /\ j + 1 \in 1..Len(s) /\ i + 1 < j + 1
      /\ Tail(s)[i] = s[i + 1] /\ Tail(s)[j] = s[j + 1]
    OBVIOUS
<1> QED  BY <1>1 DEF Rising

LEMMA RisingAppend ==
    ASSUME NEW T, NEW s \in Seq(T), NEW m \in T, Rising(s),
           \A i \in 1..Len(s) :
              m.type = "config" /\ s[i].type = "config" /\ s[i].project = m.project => s[i].gen < m.gen
    PROVE  Rising(Append(s, m))
<1> DEFINE t == Append(s, m)
<1>1. /\ Len(t) = Len(s) + 1 /\ t[Len(s) + 1] = m
      /\ \A i \in 1..Len(s) : t[i] = s[i]
    OBVIOUS
<1> HIDE DEF t
<1> SUFFICES ASSUME NEW i \in 1..Len(t), NEW j \in 1..Len(t), i < j, t[i].type = "config",
                    t[j].type = "config", t[i].project = t[j].project
             PROVE  t[i].gen < t[j].gen
    BY DEF Rising, t
<1>2. i \in 1..Len(s) /\ (j \in 1..Len(s) \/ j = Len(s) + 1)
    BY <1>1
<1> QED  BY <1>1, <1>2 DEF Rising

LEMMA OneOutcomeTail ==
    ASSUME NEW T, NEW s \in Seq(T), s # <<>>, OneOutcome(s) PROVE OneOutcome(Tail(s))
<1> SUFFICES ASSUME NEW i \in 1..Len(Tail(s)), NEW j \in 1..Len(Tail(s)),
                    Tail(s)[i].type = "ack", Tail(s)[j].type = "ack",
                    Tail(s)[i].project = Tail(s)[j].project,
                    Tail(s)[i].ack.gen = Tail(s)[j].ack.gen
             PROVE  Tail(s)[i].ack = Tail(s)[j].ack
    BY DEF OneOutcome
<1>1. /\ i + 1 \in 1..Len(s) /\ j + 1 \in 1..Len(s)
      /\ Tail(s)[i] = s[i + 1] /\ Tail(s)[j] = s[j + 1]
    OBVIOUS
<1> QED  BY <1>1 DEF OneOutcome

LEMMA OneOutcomeAppend ==
    ASSUME NEW T, NEW s \in Seq(T), NEW m \in T, OneOutcome(s),
           \A i \in 1..Len(s) :
              /\ m.type = "ack" /\ s[i].type = "ack" /\ s[i].project = m.project
              /\ s[i].ack.gen = m.ack.gen
              => s[i].ack = m.ack
    PROVE  OneOutcome(Append(s, m))
<1> DEFINE t == Append(s, m)
<1>1. /\ Len(t) = Len(s) + 1 /\ t[Len(s) + 1] = m
      /\ \A i \in 1..Len(s) : t[i] = s[i]
    OBVIOUS
<1> HIDE DEF t
<1> SUFFICES ASSUME NEW i \in 1..Len(t), NEW j \in 1..Len(t), t[i].type = "ack",
                    t[j].type = "ack", t[i].project = t[j].project,
                    t[i].ack.gen = t[j].ack.gen
             PROVE  t[i].ack = t[j].ack
    BY DEF OneOutcome, t
<1>2. (i \in 1..Len(s) \/ i = Len(s) + 1) /\ (j \in 1..Len(s) \/ j = Len(s) + 1)
    BY <1>1
<1> QED  BY <1>1, <1>2 DEF OneOutcome

(* What a step of the session under way leaves true. *)
AnswersKept == \A p \in Project, a \in Acks : Answers(p, a) => Answers(p, a)'

Steady ==
    /\ \A p \in Project : /\ desired[p].gen <= desired'[p].gen
                          /\ desired'[p].gen = desired[p].gen => desired'[p] = desired[p]
                          /\ ack[p].gen <= ack'[p].gen
    /\ Linked' => /\ Linked /\ AnswersKept
                  /\ \A p \in Project : projectSent[p] <= projectSent'[p]

LEMMA SameAnswers == ASSUME UNCHANGED <<config, projectCurrent>> PROVE AnswersKept
  BY DEF AnswersKept, Answers

LEMMA ConfigStays ==
    ASSUME SyncTypes, SyncTypes', Steady, config' = config, NEW m \in NodeMessages,
           m.type = "config", ConfigOk(m)
    PROVE  ConfigOk(m)'
<1>1. m.project \in Project /\ m.gen \in Nat
    BY MessageFacts
<1>2. /\ desired[m.project].gen \in Nat /\ desired'[m.project].gen \in Nat
      /\ projectSent[m.project] \in Nat /\ projectSent'[m.project] \in Nat
    BY <1>1, MessageFacts DEF SyncTypes
<1> QED  BY <1>1, <1>2 DEF ConfigOk, Steady

LEMMA ToNodeStays ==
    ASSUME SyncInv, SyncTypes', Steady, AnswersKept, config' = config,
           toNode' = toNode \/ (toNode # <<>> /\ toNode' = Tail(toNode))
    PROVE  ToNodeOk'
<1>0. SyncTypes /\ ToNodeOk /\ toNode \in Seq(NodeMessages) /\ toNode' \in Seq(NodeMessages)
    BY DEF SyncInv, SyncTypes
<1>1. PICK k \in {0, 1} : /\ Len(toNode) = Len(toNode') + k
                          /\ \A i \in 1..Len(toNode') : toNode'[i] = toNode[i + k]
  <2>1. CASE toNode' = toNode
      BY <1>0, <2>1
  <2>2. CASE toNode # <<>> /\ toNode' = Tail(toNode)
      BY <1>0, <2>2
  <2> QED  BY <2>1, <2>2
<1>2. \A i \in 1..Len(toNode') : i + k \in 1..Len(toNode) /\ toNode'[i] \in NodeMessages
    BY <1>0, <1>1
<1>3. ASSUME NEW i \in 1..Len(toNode')
      PROVE  /\ toNode'[i].type = "config" => ConfigOk(toNode[i])'
             /\ toNode'[i].type = "mutation" => MutationOk(toNode[i])'
  <2>1. PICK m \in NodeMessages : m = toNode[i + k] /\ m = toNode'[i]
      BY <1>1, <1>2
  <2>2. m.type = "config" => ConfigOk(m)'
      BY <1>0, <1>2, <2>1, ConfigStays DEF ToNodeOk
  <2>3. m.type = "mutation" => MutationOk(m)'
    <3>1. m.type = "mutation" => MutationOk(m) /\ m.project \in Project /\ m.ack \in Acks
        BY <1>0, <1>2, <2>1, MessageFacts DEF ToNodeOk
    <3> QED  BY <3>1 DEF MutationOk, AnswersKept, Admitted
  <2> QED  BY <2>1, <2>2, <2>3
<1>4. Rising(toNode')
    BY <1>0, RisingTail DEF ToNodeOk
<1> QED  BY <1>3, <1>4 DEF ToNodeOk

LEMMA AckStays ==
    ASSUME SyncTypes, SyncTypes', NEW p \in Project, NEW a \in Acks, AckOk(p, a),
           projectSent[p] <= projectSent'[p], ack[p].gen <= ack'[p].gen,
           projectApplied' = projectApplied, Linked' => Linked /\ AnswersKept
    PROVE  AckOk(p, a)'
<1>1. /\ a.gen \in Nat /\ projectSent[p] \in Nat /\ projectSent'[p] \in Nat
      /\ ack[p].gen \in Nat /\ ack'[p].gen \in Nat
    BY MessageFacts DEF SyncTypes
<1>2. Linked' => Answers(p, a)'
    BY DEF AckOk, AnswersKept
<1> QED  BY <1>1, <1>2 DEF AckOk

LEMMA ToServerStays ==
    ASSUME SyncInv, SyncTypes', \A p \in Project : projectSent[p] <= projectSent'[p],
           \A p \in Project : ack[p].gen <= ack'[p].gen,
           projectApplied' = projectApplied, Linked' => Linked /\ AnswersKept,
           toServer' = toServer \/ (toServer # <<>> /\ toServer' = Tail(toServer))
    PROVE  ToServerOk'
<1>0. SyncTypes /\ ToServerOk /\ toServer \in Seq(ServerMessages) /\ toServer' \in Seq(ServerMessages)
    BY DEF SyncInv, SyncTypes
<1>1. PICK k \in {0, 1} : /\ Len(toServer) = Len(toServer') + k
                          /\ \A i \in 1..Len(toServer') : toServer'[i] = toServer[i + k]
  <2>1. CASE toServer' = toServer
      BY <1>0, <2>1
  <2>2. CASE toServer # <<>> /\ toServer' = Tail(toServer)
      BY <1>0, <2>2
  <2> QED  BY <2>1, <2>2
<1>2. \A i \in 1..Len(toServer') : i + k \in 1..Len(toServer) /\ toServer'[i] \in ServerMessages
    BY <1>0, <1>1
<1>3. ASSUME NEW i \in 1..Len(toServer'), toServer'[i].type = "ack"
      PROVE  AckOk(toServer[i].project, toServer[i].ack)'
  <2>1. PICK m \in ServerMessages : m = toServer[i + k] /\ m = toServer'[i]
      BY <1>1, <1>2
  <2>2. m.project \in Project /\ m.ack \in Acks /\ AckOk(m.project, m.ack)
      BY <1>0, <1>2, <1>3, <2>1, MessageFacts DEF ToServerOk
  <2>3. AckOk(m.project, m.ack)'
      BY <1>0, <2>2, AckStays
  <2> QED  BY <2>1, <2>3
<1>4. OneOutcome(toServer')
    BY <1>0, OneOutcomeTail DEF ToServerOk
<1> QED  BY <1>3, <1>4 DEF ToServerOk

(* The node answers a generation with what it has just become. *)
LEMMA ToServerAnswers ==
    ASSUME SyncInv, SyncTypes', Linked, Linked', AnswersKept,
           UNCHANGED <<projectSent, projectApplied>>,
           \A q \in Project : ack[q].gen <= ack'[q].gen,
           NEW p \in Project, NEW a \in Acks,
           toServer' = Append(toServer, [type |-> "ack", project |-> p, ack |-> a]),
           a.gen > 0, a.gen <= projectSent[p], a.gen <= ack'[p].gen, a.gen = config'[p].gen,
           projectCurrent'[p] = a
    PROVE  ToServerOk'
<1>0. /\ SyncTypes /\ ToServerOk /\ toServer \in Seq(ServerMessages)
      /\ toServer' \in Seq(ServerMessages) /\ \A q \in Project : projectSent[q] \in Nat
    BY DEF SyncInv, SyncTypes
<1>1. PICK m : m = [type |-> "ack", project |-> p, ack |-> a]
    OBVIOUS
<1>2. m \in ServerMessages /\ m.type = "ack" /\ m.project = p /\ m.ack = a
    BY <1>1 DEF ServerMessages, AckMessages
<1>3. \A b \in Acks : Answers(p, b) /\ b.gen = a.gen => b = a
    BY DEF AnswersKept, Answers
<1>4. /\ toServer' = Append(toServer, m) /\ Len(toServer') = Len(toServer) + 1
      /\ toServer'[Len(toServer) + 1] = m
      /\ \A i \in 1..Len(toServer) : toServer'[i] = toServer[i]
    BY <1>0, <1>1, <1>2
<1>5. ASSUME NEW i \in 1..Len(toServer), toServer[i].type = "ack"
      PROVE  /\ AckOk(toServer[i].project, toServer[i].ack)
             /\ toServer[i].project \in Project /\ toServer[i].ack \in Acks
             /\ toServer[i].project = p /\ toServer[i].ack.gen = a.gen => toServer[i].ack = a
  <2>1. /\ AckOk(toServer[i].project, toServer[i].ack)
        /\ toServer[i].project \in Project /\ toServer[i].ack \in Acks
      BY <1>0, <1>5, MessageFacts DEF ToServerOk
  <2> QED  BY <1>3, <2>1 DEF AckOk
<1>6. OneOutcome(toServer')
    BY <1>0, <1>2, <1>4, <1>5, OneOutcomeAppend DEF ToServerOk
<1>7. AckOk(p, a)'
  <2>1. projectApplied[p] \in Acks /\ Answers(p, projectApplied[p])
      BY <1>0 DEF SyncInv, SyncTypes, RecordOk
  <2>2. Answers(p, a)'
      BY MessageFacts DEF Answers
  <2> QED  BY <1>3, <2>1, <2>2 DEF AckOk
<1>8. ASSUME NEW i \in 1..Len(toServer'), toServer'[i].type = "ack"
      PROVE  AckOk(toServer[i].project, toServer[i].ack)'
  <2>1. PICK x \in ServerMessages : x = toServer'[i]
      BY <1>0
  <2>2. AckOk(x.project, x.ack)'
    <3>1. CASE i = Len(toServer) + 1
        BY <1>2, <1>4, <1>7, <2>1, <3>1
    <3>2. CASE i \in 1..Len(toServer)
      <4>1. AckOk(x.project, x.ack) /\ x.project \in Project /\ x.ack \in Acks
          BY <1>4, <1>5, <1>8, <2>1, <3>2
      <4>2. projectSent[x.project] <= projectSent'[x.project] /\ ack[x.project].gen <= ack'[x.project].gen
          BY <1>0, <4>1
      <4> QED  BY <1>0, <4>1, <4>2, AckStays
    <3> QED  BY <1>0, <1>4, <3>1, <3>2
  <2> QED  BY <2>1, <2>2
<1> QED  BY <1>6, <1>8 DEF ToServerOk

LEMMA ToServerOffers ==
    ASSUME SyncInv, SyncTypes', UNCHANGED <<projectSent, projectApplied, ack>>,
           Linked' => Linked /\ AnswersKept, toServer' = Append(toServer, [type |-> "offer"])
    PROVE  ToServerOk'
<1>0. /\ SyncTypes /\ ToServerOk /\ toServer \in Seq(ServerMessages)
      /\ toServer' \in Seq(ServerMessages) /\ \A q \in Project : projectSent[q] \in Nat /\ ack[q].gen \in Nat
    BY MessageFacts DEF SyncInv, SyncTypes
<1>1. PICK m : m = [type |-> "offer"]
    OBVIOUS
<1>2. m \in ServerMessages /\ m.type # "ack"
    BY <1>1 DEF ServerMessages
<1>4. /\ toServer' = Append(toServer, m) /\ Len(toServer') = Len(toServer) + 1
      /\ toServer'[Len(toServer) + 1] = m
      /\ \A i \in 1..Len(toServer) : toServer'[i] = toServer[i]
    BY <1>0, <1>1, <1>2
<1>6. OneOutcome(toServer')
    BY <1>0, <1>2, <1>4, OneOutcomeAppend DEF ToServerOk
<1>8. ASSUME NEW i \in 1..Len(toServer'), toServer'[i].type = "ack"
      PROVE  AckOk(toServer[i].project, toServer[i].ack)'
  <2>1. PICK x \in ServerMessages : x = toServer'[i] /\ i \in 1..Len(toServer) /\ x = toServer[i]
      BY <1>0, <1>2, <1>4, <1>8
  <2>2. AckOk(x.project, x.ack) /\ x.project \in Project /\ x.ack \in Acks
      BY <1>0, <1>8, <2>1, MessageFacts DEF ToServerOk
  <2>3. projectSent[x.project] <= projectSent'[x.project] /\ ack[x.project].gen <= ack'[x.project].gen
      BY <1>0, <2>2
  <2>4. AckOk(x.project, x.ack)'
      BY <1>0, <2>2, <2>3, AckStays
  <2> QED  BY <2>1, <2>4
<1> QED  BY <1>6, <1>8 DEF ToServerOk

LEMMA MutationsStay ==
    ASSUME SyncInv, outbound' \subseteq outbound, work' \subseteq work,
           Linked' => Linked, AnswersKept
    PROVE  MutationsOk'
<1>1. \A m \in outbound \cup work : m.project \in Project /\ m.ack \in Acks
    BY MessageFacts DEF SyncInv, SyncTypes
<1> QED  BY <1>1 DEF SyncInv, MutationsOk, MutationOk, Admitted, AnswersKept

(* The records that no message has reached. *)
LEMMA RecordsStay ==
    ASSUME SyncInv, UNCHANGED <<desired, lastAck, config, ack, appliedAck, projectCurrent>>,
           \A p \in Project : projectSent'[p] <= desired[p].gen,
           Linked' => Linked /\ projectApplied' = projectApplied
    PROVE  \A p \in Project : RecordOk(p)'
  BY DEF SyncInv, RecordOk, Answers

LEMMA ApplyingStays ==
    ASSUME SyncInv, SyncTypes', UNCHANGED <<config, projectCurrent, applying>>,
           Linked' => Linked /\ \A p \in Project : projectSent[p] <= projectSent'[p]
    PROVE  ApplyingOk'
<1>1. applying # Idle => applying.project \in Project
    BY DEF SyncInv, SyncTypes, Saved, Outcomes
<1>2. \A p \in Project : projectSent[p] \in Nat /\ projectSent'[p] \in Nat /\ config[p].gen \in Nat
    BY MessageFacts DEF SyncInv, SyncTypes
<1> QED  BY <1>1, <1>2 DEF SyncInv, ApplyingOk

(* Desired registrations move on; the node is not involved. *)
LEMMA DesiredMoves ==
    ASSUME SyncInv, desired' \in [Project -> Desired],
           \A p \in Project :
              \/ desired'[p] = desired[p]
              \/ desired'[p].gen = desired[p].gen + 1 /\ desired'[p].cfg # None,
           toServer' = toServer \/ (toServer # <<>> /\ toServer' = Tail(toServer)), cur = 0 => toServer' = <<>>,
           UNCHANGED <<lastAck, cur, projectSent, projectApplied, outbound, hello, toNode,
                       sessionVars, cacheVars, handlerVars, fs, fault>>
    PROVE  SyncInv'
<1>0. SyncTypes /\ StreamsOk /\ toServer \in Seq(ServerMessages)
    BY DEF SyncInv, SyncTypes
<1>1. SyncTypes'
  <2>1. toServer' \in Seq(ServerMessages)
    <3>1. CASE toServer' = toServer
        BY <1>0, <3>1
    <3>2. CASE toServer # <<>> /\ toServer' = Tail(toServer)
        BY <1>0, <3>2
    <3> QED  BY <3>1, <3>2
  <2> QED  BY <1>0, <2>1 DEF SyncTypes, sessionVars, cacheVars, handlerVars
<1>2. /\ UNCHANGED <<config, projectCurrent, ack, appliedAck, applying, work>>
      /\ Linked' = Linked
    BY DEF Linked, sessionVars, cacheVars, handlerVars
<1>3. AnswersKept
    BY <1>2, SameAnswers
<1>4. \A p \in Project :
         /\ desired[p].gen \in Nat /\ desired'[p].gen \in Nat /\ config[p].gen \in Nat
         /\ ack[p].gen \in Nat /\ projectSent[p] \in Nat
    BY <1>0, MessageFacts DEF SyncTypes
<1>5. Steady
    BY <1>2, <1>3, <1>4 DEF Steady
<1>6. StreamsOk'
    BY <1>0 DEF StreamsOk, NothingBegun, sessionVars, handlerVars
<1>7. ASSUME NEW p \in Project PROVE RecordOk(p)'
  <2>1. RecordOk(p)
      BY DEF SyncInv
  <2>2. CASE desired'[p] = desired[p]
      BY <1>2, <2>1, <2>2 DEF RecordOk, Answers
  <2>3. CASE desired'[p].gen = desired[p].gen + 1 /\ desired'[p].cfg # None
      BY <1>2, <1>4, <2>1, <2>3 DEF RecordOk, Answers
  <2> QED  BY <2>2, <2>3
<1>8. ApplyingOk'
    BY <1>1, <1>2, <1>4, ApplyingStays
<1>9. ToNodeOk'
    BY <1>1, <1>2, <1>3, <1>5, ToNodeStays
<1>10. ToServerOk'
    BY <1>1, <1>2, <1>3, <1>4, ToServerStays
<1>11. MutationsOk'
    BY <1>2, <1>3, MutationsStay
<1> QED  BY <1>1, <1>6, <1>7, <1>8, <1>9, <1>10, <1>11 DEF SyncInv

LEMMA ConfigFacts ==
    /\ \A p \in Project : Config[p] \subseteq Configs
    /\ \A p \in Project : Legacy[p] \in Configs \cup {None}
    /\ None \notin Configs
  BY ConfigAssumption

LEMMA RegisterKeeps ==
    ASSUME SyncInv, NEW p \in Project, NEW cfg \in Config[p], RegisterProject(p, cfg)
    PROVE  SyncInv'
<1>1. desired \in [Project -> Desired] /\ cfg \in Configs /\ cfg # None
    BY ConfigFacts DEF SyncInv, SyncTypes
<1>2. PICK d : d = [gen |-> desired[p].gen + 1, cfg |-> cfg]
    OBVIOUS
<1>3. d \in Desired /\ d.gen = desired[p].gen + 1 /\ d.cfg = cfg
    BY <1>1, <1>2, MessageFacts DEF Desired
<1>4. desired' = [desired EXCEPT ![p] = d]
    BY <1>2 DEF RegisterProject, UpsertProject
<1>5. cur = 0 => toServer' = <<>>
    BY DEF SyncInv, StreamsOk, RegisterProject, netVars
<1> QED  BY <1>1, <1>3, <1>4, <1>5, DesiredMoves DEF RegisterProject, netVars

LEMMA AdoptKeeps == ASSUME SyncInv, adoptProjects PROVE SyncInv'
<1>1. desired \in [Project -> Desired] /\ cur # 0
    BY DEF SyncInv, SyncTypes, adoptProjects
<1>2. ASSUME NEW p \in Project
      PROVE  /\ desired'[p] \in Desired
             /\ \/ desired'[p] = desired[p]
                \/ desired'[p].gen = desired[p].gen + 1 /\ desired'[p].cfg # None
  <2>1. CASE Legacy[p] # None /\ desired[p].gen = 0
    <3>1. PICK d : d = [gen |-> 1, cfg |-> Legacy[p]]
        OBVIOUS
    <3>2. d \in Desired /\ d.gen = 1 /\ d.cfg # None
        BY <2>1, <3>1, ConfigFacts DEF Desired
    <3>3. desired'[p] = d
        BY <2>1, <3>1 DEF adoptProjects, AdoptProjects
    <3> QED  BY <2>1, <3>2, <3>3
  <2>2. CASE ~(Legacy[p] # None /\ desired[p].gen = 0)
      BY <1>1, <2>2 DEF adoptProjects, AdoptProjects
  <2> QED  BY <2>1, <2>2
<1>3. desired' \in [Project -> Desired]
    BY <1>2 DEF adoptProjects, AdoptProjects
<1> QED  BY <1>1, <1>2, <1>3, DesiredMoves DEF adoptProjects

LEMMA SubmitMutationKeeps == ASSUME SyncInv, NEW p \in Project, SubmitMutation(p) PROVE SyncInv'
<1>0. /\ SyncTypes /\ StreamsOk /\ projectApplied[p] \in Acks /\ desired[p].gen \in Nat
      /\ UNCHANGED <<desired, lastAck, cur, projectSent, projectApplied, hello, toNode, toServer,
                     phase, sess, opened, config, ack, appliedAck, projectCurrent, bindings,
                     applying, work, held, fs, fault>>
    BY MessageFacts DEF SyncInv, SyncTypes, SubmitMutation, recordVars, netVars, sessionVars, cacheVars,
       handlerVars
<1>1. PICK m : m = [type |-> "mutation", project |-> p, gen |-> desired[p].gen, ack |-> projectApplied[p]]
    OBVIOUS
<1>2. m \in Mutations /\ m.project = p /\ m.gen = desired[p].gen /\ m.ack = projectApplied[p]
    BY <1>0, <1>1 DEF Mutations
<1>3. /\ outbound' = outbound \cup {m} /\ cur # 0 /\ desired[p].gen > 0
      /\ projectApplied[p].gen = desired[p].gen /\ projectApplied[p].status = "applied"
    BY <1>1 DEF SubmitMutation, managedProjectReady, Readiness
<1>4. SyncTypes'
    BY <1>0, <1>2, <1>3 DEF SyncTypes
<1>5. StreamsOk'
    BY <1>0, <1>3 DEF StreamsOk, NothingBegun
<1>6. Linked' = Linked /\ AnswersKept
    BY <1>0, SameAnswers DEF Linked
<1>7. \A q \in Project : /\ ack[q].gen \in Nat /\ desired[q].gen \in Nat /\ projectSent[q] \in Nat
                         /\ projectSent[q] <= desired[q].gen
    BY <1>0, MessageFacts DEF SyncInv, SyncTypes, RecordOk
<1>8. Steady
    BY <1>0, <1>6, <1>7 DEF Steady
<1>9. ApplyingOk' /\ ToNodeOk' /\ ToServerOk'
    BY <1>0, <1>4, <1>6, <1>7, <1>8, ApplyingStays, ToNodeStays, ToServerStays
<1>10. \A q \in Project : RecordOk(q)'
    BY <1>0, <1>6, <1>7, RecordsStay
<1>11. MutationsOk'
  <2>1. Admitted(m) /\ (Linked => Answers(m.project, m.ack))
      BY <1>2, <1>3 DEF Admitted, SyncInv, RecordOk
  <2>2. \A x \in outbound' \cup work' : x.project \in Project /\ x.ack \in Acks
      BY <1>4, MessageFacts DEF SyncTypes
  <2> QED  BY <1>0, <1>2, <1>3, <1>6, <2>1, <2>2 DEF SyncInv, MutationsOk, MutationOk, Admitted, AnswersKept
<1> QED  BY <1>4, <1>5, <1>9, <1>10, <1>11 DEF SyncInv

-----------------------------------------------------------------------------
(* Functions that are computed along the order of the projects. *)
Less == {p \in Nat \X Nat : p[1] < p[2]}

LEMMA UpTo ==
    ASSUME NEW N \in Nat, NEW S \in SUBSET (0..N), 0 \in S, \A n \in 1..N : n - 1 \in S => n \in S
    PROVE  S = 0..N
<1>1. IsWellFoundedOn(Less, Nat)
  <2>1. OpToRel(<, Nat) = Less
      BY Zenon DEF OpToRel, Less
  <2> QED  BY <2>1, NatLessThanWellFounded, Zenon
<1>2. SUFFICES ASSUME NEW z \in 0..N, z \notin S PROVE FALSE
    OBVIOUS
<1> DEFINE Missing == {n \in Nat : n \in 0..N /\ n \notin S}
<1>3. PICK x \in Missing : \A y \in Missing : ~(<<y, x>> \in Less)
  <2>1. Missing \in SUBSET Nat /\ Missing # {}
      BY <1>2
  <2> HIDE DEF Missing
  <2> QED  BY <1>1, <2>1, WFMin
<1>4. x \in Nat /\ x <= N /\ x \notin S /\ x # 0
    OBVIOUS
<1>5. x \in 1..N /\ x - 1 \in Nat /\ x - 1 \in 0..N /\ x - 1 < x
    BY <1>4
<1>6. x - 1 \notin S
    BY <1>4, <1>5
<1>7. x - 1 \in Missing
    BY <1>5, <1>6
<1>8. <<x - 1, x>> \in Less
    BY <1>4, <1>5 DEF Less
<1> QED  BY <1>3, <1>7, <1>8

Along(G, S, b, n, f) == f \in [0..n -> S] /\ f[0] = b /\ \A k \in 1..n : f[k] = G[k][f[k - 1]]

Reached(G, S, b, N) == {n \in 0..N : \E f \in [0..n -> S] : Along(G, S, b, n, f)}

LEMMA AlongNext ==
    ASSUME NEW N \in Nat, NEW S, NEW b \in S, NEW G \in [1..N -> [S -> S]], NEW n \in 1..N,
           NEW f \in [0..(n - 1) -> S], Along(G, S, b, n - 1, f)
    PROVE  \E g \in [0..n -> S] : Along(G, S, b, n, g)
<1>1. n - 1 \in 0..(n - 1) /\ f[n - 1] \in S
    OBVIOUS
<1>2. PICK v \in S : v = G[n][f[n - 1]]
    BY <1>1
<1>3. PICK g : g = [k \in 0..n |-> IF k = n THEN v ELSE f[k]]
    OBVIOUS
<1>4. g \in [0..n -> S] /\ g[0] = b /\ g[n] = v /\ \A k \in 0..(n - 1) : g[k] = f[k]
    BY <1>2, <1>3 DEF Along
<1>5. ASSUME NEW k \in 1..n PROVE g[k] = G[k][g[k - 1]]
  <2>1. CASE k = n
    <3>1. g[n - 1] = f[n - 1]
        BY <1>1, <1>4
    <3> QED  BY <1>2, <1>4, <2>1, <3>1
  <2>2. CASE k \in 1..(n - 1)
    <3>1. g[k] = f[k] /\ g[k - 1] = f[k - 1]
        BY <1>4, <2>2
    <3> QED  BY <2>2, <3>1 DEF Along
  <2> QED  BY <2>1, <2>2
<1> QED  BY <1>4, <1>5 DEF Along

LEMMA FiniteRecursion ==
    ASSUME NEW N \in Nat, NEW S, NEW b \in S, NEW G \in [1..N -> [S -> S]]
    PROVE  \E f \in [0..N -> S] : Along(G, S, b, N, f)
<1>1. 0 \in Reached(G, S, b, N)
  <2>1. PICK f : f = [k \in 0..0 |-> b]
      OBVIOUS
  <2>2. f \in [0..0 -> S] /\ Along(G, S, b, 0, f)
      BY <2>1 DEF Along
  <2> QED  BY <2>2 DEF Reached
<1>2. ASSUME NEW n \in 1..N, n - 1 \in Reached(G, S, b, N) PROVE n \in Reached(G, S, b, N)
  <2>1. PICK f \in [0..(n - 1) -> S] : Along(G, S, b, n - 1, f)
      BY <1>2 DEF Reached
  <2>2. \E g \in [0..n -> S] : Along(G, S, b, n, g)
      BY <2>1, AlongNext
  <2> QED  BY <2>2 DEF Reached
<1>3. Reached(G, S, b, N) \in SUBSET (0..N)
    BY DEF Reached
<1>4. N \in Reached(G, S, b, N)
  <2>1. Reached(G, S, b, N) = 0..N
      BY <1>1, <1>2, <1>3, UpTo
  <2> QED  BY <2>1
<1> QED  BY <1>4 DEF Reached

(* The order is one of distinct projects. *)
LEMMA OrderFacts ==
    /\ Len(Order) \in Nat /\ \A n \in 1..Len(Order) : Order[n] \in Project
    /\ \A m, n \in 1..Len(Order) : Order[m] = Order[n] => m = n
<1>1. Len(Order) \in Nat /\ Order \in [1..Len(Order) -> Project]
    BY ConfigAssumption
<1>2. Order \in Surjection(1..Len(Order), Project)
    BY <1>1, ConfigAssumption DEF Surjection
<1>3. IsFiniteSet(1..Len(Order)) /\ Cardinality(1..Len(Order)) = Len(Order)
  <2> DEFINE N == Len(Order)
  <2>1. N \in Nat
      BY <1>1
  <2> HIDE DEF N
  <2>2. IsFiniteSet(1..N) /\ Cardinality(1..N) = N
      BY <2>1, FS_Interval
  <2> QED  BY <2>2 DEF N
<1>4. Cardinality(Project) = Cardinality(1..Len(Order))
    BY <1>3, ConfigAssumption
<1>5. \A m, n \in 1..Len(Order) : Order[m] = Order[n] => m = n
  <2>1. Order \in Injection(1..Len(Order), Project)
      BY <1>2, <1>3, <1>4, FS_Surjection
  <2> QED  BY <2>1 DEF Injection, IsInjective
<1> QED  BY <1>1, <1>5

UpdatesOf(g) ==
    [n \in 0..Len(Order) |->
       IF n = 0 THEN <<>>
       ELSE IF News(Order[n]) THEN Append(g[n - 1], ProjectConfig(Order[n])) ELSE g[n - 1]]

UpdateStep(S) ==
    [n \in 1..Len(Order) |->
       [s \in S |-> IF News(Order[n]) THEN Append(s, ProjectConfig(Order[n])) ELSE s]]

LEMMA ProjectConfigFacts ==
    ASSUME SyncTypes, NEW p \in Project, RecordOk(p), News(p)
    PROVE  /\ ProjectConfig(p) \in NodeMessages
           /\ ProjectConfig(p).type = "config" /\ ProjectConfig(p).project = p
           /\ ProjectConfig(p).gen = desired[p].gen /\ ProjectConfig(p).cfg = desired[p].cfg
<1>1. desired[p].gen \in Nat /\ desired[p].cfg \in Configs
    BY MessageFacts DEF SyncTypes, RecordOk, News
<1> QED  BY <1>1 DEF ProjectConfig, NodeMessages, ConfigMessages

LEMMA UpdatesAre ==
    ASSUME SyncTypes, \A p \in Project : RecordOk(p) PROVE Updates = UpdatesOf(Updates)
<1> DEFINE S == Seq(NodeMessages)
           N == Len(Order)
           G == UpdateStep(S)
<1>1. \A n \in 1..N : News(Order[n]) => ProjectConfig(Order[n]) \in NodeMessages
    BY OrderFacts, ProjectConfigFacts
<1>2. <<>> \in S
    OBVIOUS
<1>3. \A n \in 1..N, s \in S : (IF News(Order[n]) THEN Append(s, ProjectConfig(Order[n])) ELSE s) \in S
    BY <1>1
<1>4. N \in Nat
    BY OrderFacts
<1> HIDE DEF S, N, G
<1>5. G \in [1..N -> [S -> S]]
  <2>1. G = [n \in 1..N |->
               [s \in S |-> IF News(Order[n]) THEN Append(s, ProjectConfig(Order[n])) ELSE s]]
      BY DEF UpdateStep, G, N
  <2>2. \A n \in 1..N :
           [s \in S |-> IF News(Order[n]) THEN Append(s, ProjectConfig(Order[n])) ELSE s] \in [S -> S]
      BY <1>3
  <2> QED  BY <2>1, <2>2
<1>6. PICK f \in [0..N -> S] : Along(G, S, <<>>, N, f)
    BY <1>2, <1>4, <1>5, FiniteRecursion, Zenon
<1>7. ASSUME NEW n \in 0..N
      PROVE  f[n] = IF n = 0 THEN <<>>
                    ELSE IF News(Order[n]) THEN Append(f[n - 1], ProjectConfig(Order[n])) ELSE f[n - 1]
  <2>1. CASE n = 0
      BY <1>6, <2>1 DEF Along
  <2>2. CASE n # 0
    <3>1. n \in 1..N /\ n - 1 \in 0..N
        BY <1>4, <2>2
    <3>2. f[n - 1] \in S
        BY <1>6, <3>1
    <3>3. f[n] = G[n][f[n - 1]]
        BY <1>6, <3>1 DEF Along
    <3>4. G[n][f[n - 1]] = IF News(Order[n]) THEN Append(f[n - 1], ProjectConfig(Order[n])) ELSE f[n - 1]
        BY <3>1, <3>2 DEF UpdateStep, N, G
    <3> QED  BY <2>2, <3>3, <3>4
  <2> QED  BY <2>1, <2>2
<1>8. f = UpdatesOf(f)
  <2>1. f \in [0..Len(Order) -> S]
      BY <1>6 DEF N
  <2> QED  BY <1>7, <2>1 DEF UpdatesOf, N
<1>9. Updates = CHOOSE g : g = UpdatesOf(g)
    BY DEF Updates, UpdatesOf
<1> QED  BY <1>8, <1>9

(* The registrations of some of the first n projects, each once. *)
NewsOf(n, s) ==
    /\ s \in Seq(NodeMessages)
    /\ \A k \in 1..Len(s) : \E i \in 1..n : News(Order[i]) /\ s[k] = ProjectConfig(Order[i])
    /\ \A k, l \in 1..Len(s) : k # l => s[k].project # s[l].project

LEMMA NewsOfNext ==
    ASSUME SyncTypes, \A p \in Project : RecordOk(p), NEW n \in 1..Len(Order), NEW s, NewsOf(n - 1, s)
    PROVE  /\ NewsOf(n, s)
           /\ News(Order[n]) => NewsOf(n, Append(s, ProjectConfig(Order[n])))
<1>1. Len(Order) \in Nat /\ n \in Nat /\ s \in Seq(NodeMessages)
    BY OrderFacts DEF NewsOf
<1>2. \A i \in 1..(n - 1) : i \in 1..n /\ i \in 1..Len(Order) /\ i # n
    BY <1>1
<1>3. NewsOf(n, s)
    BY <1>2 DEF NewsOf
<1>4. ASSUME News(Order[n]) PROVE NewsOf(n, Append(s, ProjectConfig(Order[n])))
  <2>1. PICK m \in NodeMessages : m = ProjectConfig(Order[n]) /\ m.project = Order[n]
      BY <1>4, OrderFacts, ProjectConfigFacts
  <2> DEFINE t == Append(s, m)
  <2>2. /\ t \in Seq(NodeMessages) /\ Len(t) = Len(s) + 1 /\ t[Len(s) + 1] = m
        /\ \A k \in 1..Len(s) : t[k] = s[k]
      BY <1>1
  <2>7. t = Append(s, ProjectConfig(Order[n]))
      BY <2>1
  <2> HIDE DEF t
  <2>3. ASSUME NEW k \in 1..Len(s) PROVE s[k].project # m.project
    <3>1. PICK i \in 1..(n - 1) : News(Order[i]) /\ s[k] = ProjectConfig(Order[i])
        BY DEF NewsOf
    <3>2. s[k].project = Order[i] /\ i # n /\ i \in 1..Len(Order)
        BY <1>2, <3>1, OrderFacts, ProjectConfigFacts
    <3> QED  BY <2>1, <3>2, OrderFacts
  <2>4. \A k \in 1..Len(t) : k \in 1..Len(s) \/ k = Len(s) + 1
      BY <1>1, <2>2
  <2>5. \A k \in 1..Len(t) : \E i \in 1..n : News(Order[i]) /\ t[k] = ProjectConfig(Order[i])
    <3>1. n \in 1..n
        BY <1>1
    <3> QED  BY <1>3, <1>4, <2>1, <2>2, <2>4, <3>1 DEF NewsOf
  <2>6. \A k, l \in 1..Len(t) : k # l => t[k].project # t[l].project
      BY <2>2, <2>3, <2>4 DEF NewsOf
  <2> QED  BY <2>2, <2>5, <2>6, <2>7 DEF NewsOf
<1> QED  BY <1>3, <1>4

LEMMA UpdatesAreNews ==
    ASSUME SyncTypes, \A p \in Project : RecordOk(p) PROVE NewsOf(Len(Order), Updates[Len(Order)])
<1> DEFINE N == Len(Order)
           S == {n \in 0..N : NewsOf(n, Updates[n])}
<1>1. N \in Nat
    BY OrderFacts
<1>2. /\ Updates[0] = <<>>
      /\ \A n \in 1..N : /\ News(Order[n]) => Updates[n] = Append(Updates[n - 1], ProjectConfig(Order[n]))
                         /\ ~News(Order[n]) => Updates[n] = Updates[n - 1]
  <2>1. \A n \in 0..N : UpdatesOf(Updates)[n] =
           IF n = 0 THEN <<>>
           ELSE IF News(Order[n]) THEN Append(Updates[n - 1], ProjectConfig(Order[n])) ELSE Updates[n - 1]
      BY DEF UpdatesOf
  <2>2. 0 \in 0..N /\ \A n \in 1..N : n \in 0..N /\ n # 0
      BY <1>1
  <2> HIDE DEF N
  <2> QED  BY <2>1, <2>2, UpdatesAre
<1>3. 0 \in S
  <2>1. NewsOf(0, <<>>)
      BY DEF NewsOf
  <2> QED  BY <1>1, <1>2, <2>1
<1>4. ASSUME NEW n \in 1..N, n - 1 \in S PROVE n \in S
  <2>1. NewsOf(n - 1, Updates[n - 1])
      BY <1>4
  <2>2. NewsOf(n, Updates[n])
    <3>1. CASE News(Order[n])
      <4>1. Updates[n] = Append(Updates[n - 1], ProjectConfig(Order[n]))
          BY <1>2, <3>1
      <4>2. NewsOf(n, Append(Updates[n - 1], ProjectConfig(Order[n])))
        <5> HIDE DEF S
        <5> QED  BY <2>1, <3>1, NewsOfNext
      <4> QED  BY <4>1, <4>2
    <3>2. CASE ~News(Order[n])
      <4>1. Updates[n] = Updates[n - 1]
          BY <1>2, <3>2
      <4> QED  BY <2>1, <4>1, NewsOfNext
    <3> QED  BY <3>1, <3>2
  <2>3. n \in 0..N
      BY <1>1
  <2> QED  BY <2>2, <2>3
<1>5. S \in SUBSET (0..N)
    OBVIOUS
<1>6. S = 0..N
  <2> HIDE DEF S, N
  <2> QED  BY <1>1, <1>3, <1>4, <1>5, UpTo
<1>7. N \in S
    BY <1>1, <1>6
<1> QED  BY <1>7

(* Messages are added behind the ones on their way to the node. *)
LEMMA ToNodeExtends ==
    ASSUME SyncInv, SyncTypes', Steady, AnswersKept, config' = config,
           NEW u \in Seq(NodeMessages), Len(toNode') = Len(toNode) + Len(u),
           \A i \in 1..Len(toNode) : toNode'[i] = toNode[i],
           \A k \in 1..Len(u) : toNode'[Len(toNode) + k] = u[k],
           \A m \in NodeMessages : (\E k \in 1..Len(u) : u[k] = m) =>
              (m.type = "config" => ConfigOk(m)') /\ (m.type = "mutation" => MutationOk(m)'),
           Rising(u),
           \A i \in 1..Len(toNode), k \in 1..Len(u) :
              /\ toNode[i].type = "config" /\ u[k].type = "config" /\ toNode[i].project = u[k].project
              => toNode[i].gen < u[k].gen
    PROVE  ToNodeOk'
<1>0. SyncTypes /\ ToNodeOk /\ toNode \in Seq(NodeMessages) /\ toNode' \in Seq(NodeMessages)
    BY DEF SyncInv, SyncTypes
<1>1. PICK N \in Nat, M \in Nat : N = Len(toNode) /\ M = Len(u)
    BY <1>0
<1>2. ASSUME NEW i \in 1..Len(toNode')
      PROVE  i \in 1..N \/ \E k \in 1..M : i = N + k
  <2>1. CASE i \in 1..N
      BY <2>1
  <2>2. CASE i \notin 1..N
    <3>1. i - N \in 1..M /\ i = N + (i - N)
        BY <1>1, <2>2
    <3> QED  BY <3>1
  <2> QED  BY <2>1, <2>2
<1>3. ASSUME NEW i \in 1..Len(toNode')
      PROVE  /\ toNode'[i].type = "config" => ConfigOk(toNode[i])'
             /\ toNode'[i].type = "mutation" => MutationOk(toNode[i])'
  <2>1. PICK m \in NodeMessages : m = toNode'[i]
      BY <1>0
  <2>2. CASE i \in 1..N
    <3>1. m = toNode[i] /\ i \in 1..Len(toNode)
        BY <1>1, <2>1, <2>2
    <3>2. m.type = "config" => ConfigOk(m)'
        BY <1>0, <3>1, ConfigStays DEF ToNodeOk
    <3>3. m.type = "mutation" => MutationOk(m) /\ m.project \in Project /\ m.ack \in Acks
        BY <1>0, <3>1, MessageFacts DEF ToNodeOk
    <3>4. m.type = "mutation" => MutationOk(m)'
        BY <3>3 DEF MutationOk, AnswersKept, Admitted
    <3> QED  BY <2>1, <3>2, <3>4
  <2>3. CASE \E k \in 1..M : i = N + k
    <3>1. \E k \in 1..Len(u) : u[k] = m
        BY <1>1, <2>1, <2>3
    <3> QED  BY <2>1, <3>1
  <2> QED  BY <1>2, <2>2, <2>3
<1>4. Rising(toNode')
  <2> DEFINE t == toNode'
  <2> SUFFICES ASSUME NEW i \in 1..Len(t), NEW j \in 1..Len(t), i < j,
                      t[i].type = "config", t[j].type = "config", t[i].project = t[j].project
               PROVE  t[i].gen < t[j].gen
      BY DEF Rising
  <2>1. CASE i \in 1..N /\ j \in 1..N
      BY <1>0, <1>1, <2>1 DEF ToNodeOk, Rising
  <2>2. CASE i \in 1..N /\ \E k \in 1..M : j = N + k
      BY <1>1, <2>2
  <2>3. CASE (\E k \in 1..M : i = N + k) /\ \E k \in 1..M : j = N + k
    <3>1. PICK k \in 1..M, l \in 1..M : i = N + k /\ j = N + l
        BY <2>3
    <3>2. k < l /\ k \in 1..Len(u) /\ l \in 1..Len(u)
        BY <1>1, <3>1
    <3>3. t[i] = u[k] /\ t[j] = u[l]
        BY <1>1, <3>1, <3>2
    <3> QED  BY <3>2, <3>3 DEF Rising
  <2>4. CASE (\E k \in 1..M : i = N + k) /\ j \in 1..N
      BY <1>1, <2>4
  <2> QED  BY <1>2, <2>1, <2>2, <2>3, <2>4
<1> QED  BY <1>3, <1>4 DEF ToNodeOk

LEMMA UpdatesKeep == ASSUME SyncInv, projectUpdates PROVE SyncInv'
<1>0. /\ SyncTypes /\ StreamsOk /\ toNode \in Seq(NodeMessages) /\ cur # 0
      /\ UNCHANGED <<desired, lastAck, cur, projectApplied, outbound, hello, toServer,
                     phase, sess, opened, config, ack, appliedAck, projectCurrent, bindings,
                     applying, work, held, fs, fault>>
    BY DEF SyncInv, SyncTypes, projectUpdates, recordVars, sessionVars, cacheVars, handlerVars
<1>1. \A p \in Project : /\ desired[p].gen \in Nat /\ projectSent[p] \in Nat /\ ack[p].gen \in Nat
                         /\ config[p].gen \in Nat
    BY <1>0, MessageFacts DEF SyncTypes
<1>2. ASSUME NEW p \in Project
      PROVE  /\ projectSent'[p] \in Nat /\ projectSent[p] <= projectSent'[p]
             /\ projectSent'[p] <= desired[p].gen
             /\ News(p) => projectSent'[p] = desired[p].gen /\ projectSent[p] < desired[p].gen
  <2>1. projectSent'[p] = IF News(p) THEN desired[p].gen ELSE projectSent[p]
      BY DEF projectUpdates
  <2>2. projectSent[p] <= desired[p].gen
      BY DEF SyncInv, RecordOk
  <2> QED  BY <1>1, <2>1, <2>2 DEF News
<1>3. PICK u \in Seq(NodeMessages) : u = Updates[Len(Order)] /\ NewsOf(Len(Order), u)
    BY UpdatesAreNews DEF SyncInv, NewsOf
<1>4. SyncTypes'
  <2>1. toNode' \in Seq(NodeMessages)
    <3>1. toNode' = toNode \/ toNode' = toNode \o u
        BY <1>3 DEF projectUpdates
    <3>2. toNode \o u \in Seq(NodeMessages)
        BY <1>0
    <3> QED  BY <1>0, <3>1, <3>2
  <2>2. projectSent' \in [Project -> Nat]
      BY <1>2 DEF projectUpdates
  <2> QED  BY <1>0, <2>1, <2>2 DEF SyncTypes
<1>5. Linked' = Linked /\ AnswersKept
    BY <1>0, SameAnswers DEF Linked
<1>6. StreamsOk'
  <2>1. sess = 0 \/ sess \in hello => toNode' = <<>>
      BY <1>0 DEF StreamsOk, Linked, projectUpdates
  <2> QED  BY <1>0, <2>1 DEF StreamsOk, NothingBegun
<1>7. Steady
    BY <1>0, <1>1, <1>2, <1>5 DEF Steady
<1>8. ApplyingOk' /\ ToServerOk'
    BY <1>0, <1>1, <1>2, <1>4, <1>5, ApplyingStays, ToServerStays
<1>9. \A p \in Project : RecordOk(p)'
    BY <1>0, <1>2, <1>5, RecordsStay
<1>10. MutationsOk'
    BY <1>0, <1>5, MutationsStay
<1>11. ToNodeOk'
  <2>1. CASE ~Linked
    <3>1. toNode' = toNode
        BY <2>1 DEF projectUpdates
    <3> QED  BY <1>0, <1>4, <1>5, <1>7, <3>1, ToNodeStays
  <2>2. CASE Linked
    <3>1. toNode' = toNode \o u
        BY <1>3, <2>2 DEF projectUpdates
    <3>2. /\ Len(toNode') = Len(toNode) + Len(u)
          /\ \A i \in 1..Len(toNode) : toNode'[i] = toNode[i]
          /\ \A k \in 1..Len(u) : toNode'[Len(toNode) + k] = u[k]
        BY <1>0, <3>1
    <3>3. ASSUME NEW k \in 1..Len(u)
          PROVE  /\ u[k].type = "config" /\ u[k].project \in Project /\ News(u[k].project)
                 /\ u[k].gen = desired[u[k].project].gen /\ u[k].cfg = desired[u[k].project].cfg
      <4>1. PICK i \in 1..Len(Order) : News(Order[i]) /\ u[k] = ProjectConfig(Order[i])
          BY <1>3 DEF NewsOf
      <4>2. Order[i] \in Project /\ RecordOk(Order[i])
          BY OrderFacts DEF SyncInv
      <4> QED  BY <1>0, <4>1, <4>2, ProjectConfigFacts
    <3>4. ASSUME NEW m \in NodeMessages, NEW k \in 1..Len(u), u[k] = m
          PROVE  m.type = "config" /\ ConfigOk(m)'
      <4>1. /\ m.type = "config" /\ m.project \in Project /\ News(m.project)
            /\ m.gen = desired[m.project].gen /\ m.cfg = desired[m.project].cfg
          BY <3>3, <3>4
      <4>2. RecordOk(m.project)
          BY <4>1 DEF SyncInv
      <4>3. m.gen > 0 /\ m.gen <= projectSent'[m.project]
          BY <1>1, <1>2, <4>1 DEF News
      <4> QED  BY <1>0, <1>1, <4>1, <4>2, <4>3 DEF ConfigOk, RecordOk
    <3>5. Rising(u)
        BY <1>3 DEF Rising, NewsOf
    <3>6. ASSUME NEW i \in 1..Len(toNode), NEW k \in 1..Len(u), toNode[i].type = "config",
                 u[k].type = "config", toNode[i].project = u[k].project
          PROVE  toNode[i].gen < u[k].gen
      <4>1. PICK m \in NodeMessages : m = toNode[i]
          BY <1>0
      <4>2. ConfigOk(m) /\ m.gen \in Nat
          BY <3>6, <4>1, MessageFacts DEF SyncInv, ToNodeOk
      <4>3. m.gen <= projectSent[u[k].project]
          BY <2>2, <3>6, <4>1, <4>2 DEF ConfigOk
      <4> QED  BY <1>1, <1>2, <3>3, <4>1, <4>2, <4>3
    <3>7. \A m \in NodeMessages : (\E k \in 1..Len(u) : u[k] = m) =>
             (m.type = "config" => ConfigOk(m)') /\ (m.type = "mutation" => MutationOk(m)')
        BY <3>4
    <3> QED  BY <1>0, <1>4, <1>5, <1>7, <3>2, <3>5, <3>6, <3>7, ToNodeExtends
  <2> QED  BY <2>1, <2>2
<1> QED  BY <1>4, <1>6, <1>8, <1>9, <1>10, <1>11 DEF SyncInv

LEMMA DispatchKeeps == ASSUME SyncInv, NEW m \in outbound, DispatchMutation(m) PROVE SyncInv'
<1>0. /\ SyncTypes /\ StreamsOk /\ toNode \in Seq(NodeMessages) /\ cur # 0 /\ m \in NodeMessages
      /\ m \in Mutations
      /\ UNCHANGED <<desired, lastAck, cur, projectSent, projectApplied, hello, toServer,
                     phase, sess, opened, config, ack, appliedAck, projectCurrent, bindings,
                     applying, work, held, fs, fault>>
      /\ outbound' \subseteq outbound
    BY DEF SyncInv, SyncTypes, DispatchMutation, recordVars, sessionVars, cacheVars, handlerVars, NodeMessages
<1>1. \A p \in Project : /\ desired[p].gen \in Nat /\ projectSent[p] \in Nat /\ ack[p].gen \in Nat
                         /\ config[p].gen \in Nat /\ projectSent[p] <= desired[p].gen
    BY <1>0, MessageFacts DEF SyncTypes, SyncInv, RecordOk
<1>2. toNode' = toNode \/ (Linked /\ toNode' = Append(toNode, m))
    BY DEF DispatchMutation
<1>3. SyncTypes'
  <2>1. toNode' \in Seq(NodeMessages)
      BY <1>0, <1>2
  <2> QED  BY <1>0, <2>1 DEF SyncTypes
<1>5. Linked' = Linked /\ AnswersKept
    BY <1>0, SameAnswers DEF Linked
<1>6. StreamsOk'
  <2>1. sess = 0 \/ sess \in hello => toNode' = <<>>
      BY <1>0, <1>2 DEF StreamsOk, Linked
  <2> QED  BY <1>0, <2>1 DEF StreamsOk, NothingBegun
<1>7. Steady
    BY <1>0, <1>1, <1>5 DEF Steady
<1>8. ApplyingOk' /\ ToServerOk'
    BY <1>0, <1>1, <1>3, <1>5, ApplyingStays, ToServerStays
<1>9. \A p \in Project : RecordOk(p)'
    BY <1>0, <1>1, <1>5, RecordsStay
<1>10. MutationsOk'
    BY <1>0, <1>5, MutationsStay
<1>11. ToNodeOk'
  <2>1. CASE toNode' = toNode
      BY <1>0, <1>3, <1>5, <1>7, <2>1, ToNodeStays
  <2>2. CASE Linked /\ toNode' = Append(toNode, m)
    <3>1. PICK u \in Seq(NodeMessages) : Len(u) = 1 /\ u[1] = m
      <4>1. <<m>> \in Seq(NodeMessages) /\ Len(<<m>>) = 1 /\ <<m>>[1] = m
          BY <1>0
      <4> QED  BY <4>1
    <3>2. /\ Len(toNode') = Len(toNode) + Len(u)
          /\ \A i \in 1..Len(toNode) : toNode'[i] = toNode[i]
          /\ \A k \in 1..Len(u) : u[k] = m /\ toNode'[Len(toNode) + k] = u[k]
        BY <1>0, <2>2, <3>1
    <3>3. m.type = "mutation" /\ m.project \in Project /\ m.ack \in Acks /\ MutationOk(m)
        BY <1>0, <2>2, MessageFacts DEF SyncInv, MutationsOk, MutationOk
    <3>4. MutationOk(m)'
        BY <1>5, <3>3 DEF MutationOk, AnswersKept, Admitted
    <3>5. Rising(u)
        BY <3>2, <3>3 DEF Rising
    <3>6. \A x \in NodeMessages : (\E k \in 1..Len(u) : u[k] = x) =>
             (x.type = "config" => ConfigOk(x)') /\ (x.type = "mutation" => MutationOk(x)')
        BY <3>2, <3>3, <3>4
    <3> QED  BY <1>0, <1>3, <1>5, <1>7, <3>2, <3>3, <3>5, <3>6, ToNodeExtends
  <2> QED  BY <1>2, <2>1, <2>2
<1> QED  BY <1>3, <1>6, <1>8, <1>9, <1>10, <1>11 DEF SyncInv

LEMMA HeadOfServer ==
    ASSUME SyncInv, toServer # <<>>, Head(toServer).type = "ack"
    PROVE  /\ Head(toServer).project \in Project /\ Head(toServer).ack \in Acks
           /\ AckOk(Head(toServer).project, Head(toServer).ack)
           /\ Head(toServer) = toServer[1] /\ 1 \in 1..Len(toServer)
<1>1. toServer \in Seq(ServerMessages) /\ ToServerOk
    BY DEF SyncInv, SyncTypes
<1>2. Head(toServer) = toServer[1] /\ 1 \in 1..Len(toServer) /\ Head(toServer) \in ServerMessages
    BY <1>1
<1> QED  BY <1>1, <1>2, MessageFacts DEF ToServerOk

LEMMA AcknowledgeKeeps == ASSUME SyncInv, acknowledgeProject PROVE SyncInv'
<1> DEFINE p == Head(toServer).project
           a == Head(toServer).ack
<1>0. /\ SyncTypes /\ StreamsOk /\ toServer \in Seq(ServerMessages) /\ cur # 0 /\ toServer # <<>>
      /\ Head(toServer).type = "ack" /\ toServer' = Tail(toServer)
      /\ UNCHANGED <<desired, cur, projectSent, outbound, hello, toNode,
                     phase, sess, opened, config, ack, appliedAck, projectCurrent, bindings,
                     applying, work, held, fs, fault>>
    BY DEF SyncInv, SyncTypes, acknowledgeProject, sessionVars, cacheVars, handlerVars
<1>1. \A q \in Project : /\ desired[q].gen \in Nat /\ projectSent[q] \in Nat /\ ack[q].gen \in Nat
                         /\ config[q].gen \in Nat /\ projectSent[q] <= desired[q].gen
    BY <1>0, MessageFacts DEF SyncTypes, SyncInv, RecordOk
<1>2. /\ p \in Project /\ a \in Acks /\ AckOk(p, a) /\ Head(toServer) = toServer[1] /\ 1 \in 1..Len(toServer)
    BY <1>0, HeadOfServer
<1>3. ASSUME NEW q \in Project
      PROVE  /\ lastAck'[q] \in Acks /\ projectApplied'[q] \in Acks
             /\ lastAck'[q] = lastAck[q] \/ (q = p /\ lastAck'[q] = a)
             /\ projectApplied'[q] = projectApplied[q] \/ (q = p /\ projectApplied'[q] = a)
    BY <1>0, <1>2 DEF acknowledgeProject, SyncTypes
<1>4. SyncTypes'
  <2>1. toServer' \in Seq(ServerMessages)
      BY <1>0
  <2>2. lastAck' \in [Project -> Acks] /\ projectApplied' \in [Project -> Acks]
      BY <1>0, <1>2 DEF acknowledgeProject, SyncTypes
  <2> QED  BY <1>0, <2>1, <2>2 DEF SyncTypes
<1>5. Linked' = Linked /\ AnswersKept
    BY <1>0, SameAnswers DEF Linked
<1>6. StreamsOk'
    BY <1>0 DEF StreamsOk, NothingBegun
<1>7. Steady
    BY <1>0, <1>1, <1>5 DEF Steady
<1>8. ApplyingOk'
    BY <1>0, <1>1, <1>4, <1>5, ApplyingStays
<1>9. ToNodeOk'
    BY <1>0, <1>4, <1>5, <1>7, ToNodeStays
<1>10. MutationsOk'
    BY <1>0, <1>5, MutationsStay
<1>11. ASSUME NEW q \in Project PROVE RecordOk(q)'
  <2>1. RecordOk(q)
      BY DEF SyncInv
  <2>2. lastAck'[q].gen <= ack[q].gen
      BY <1>2, <1>3, <2>1 DEF RecordOk, AckOk
  <2>3. Linked => Answers(q, projectApplied'[q])
      BY <1>2, <1>3, <2>1 DEF RecordOk, AckOk
  <2>4. (Linked => Answers(q, projectApplied[q]))'
      BY <1>0, <1>5, <2>3 DEF Answers
  <2> HIDE DEF p, a
  <2> QED  BY <1>0, <2>1, <2>2, <2>4 DEF RecordOk
<1>12. ToServerOk'
  <2>1. OneOutcome(toServer')
      BY <1>0, OneOutcomeTail DEF SyncInv, ToServerOk
  <2>2. ASSUME NEW i \in 1..Len(toServer'), toServer'[i].type = "ack"
        PROVE  AckOk(toServer[i].project, toServer[i].ack)'
    <3>1. PICK x \in ServerMessages :
              x = toServer'[i] /\ x = toServer[i + 1] /\ i + 1 \in 1..Len(toServer)
        BY <1>0
    <3>2. x.project \in Project /\ x.ack \in Acks /\ AckOk(x.project, x.ack)
        BY <2>2, <3>1, MessageFacts DEF SyncInv, ToServerOk
    <3>3. x.project = p /\ x.ack.gen = a.gen => x.ack = a
        BY <1>0, <1>2, <2>2, <3>1 DEF SyncInv, ToServerOk, OneOutcome
    <3>4. projectApplied'[x.project].gen = x.ack.gen => projectApplied'[x.project] = x.ack
        BY <1>3, <3>2, <3>3 DEF AckOk
    <3>5. (Linked => Answers(x.project, x.ack))'
        BY <1>0, <1>5, <3>2 DEF AckOk, Answers
    <3>6. AckOk(x.project, x.ack)'
        BY <1>0, <3>2, <3>4, <3>5 DEF AckOk
    <3> QED  BY <3>1, <3>6
  <2> QED  BY <2>1, <2>2 DEF ToServerOk
<1> QED  BY <1>4, <1>6, <1>8, <1>9, <1>10, <1>11, <1>12 DEF SyncInv

LEMMA EntryEnds ==
    ASSUME SyncInv, Entry(0), fault' # "protocol",
           UNCHANGED <<recordVars, hello, toNode, sessionVars, cacheVars, handlerVars, fs>>
    PROVE  SyncInv'
<1>0. /\ SyncTypes /\ StreamsOk
      /\ UNCHANGED <<desired, lastAck, hello, toNode, phase, sess, opened, config, ack, appliedAck,
                     projectCurrent, bindings, applying, work, held, fs>>
      /\ cur' = 0 /\ toServer' = <<>> /\ outbound' = {} /\ projectApplied' = NoAcks
      /\ \A p \in Project : projectSent'[p] = 0
      /\ projectSent' \in [Project -> Nat]
    BY DEF SyncInv, Entry, recordVars, sessionVars, cacheVars, handlerVars
<1>1. \A p \in Project : desired[p].gen \in Nat /\ ack[p].gen \in Nat
    BY <1>0, MessageFacts DEF SyncTypes
<1>2. SyncTypes'
    BY <1>0, MessageFacts DEF SyncTypes
<1>3. ~Linked' /\ AnswersKept
    BY <1>0, SameAnswers DEF Linked
<1>4. StreamsOk'
  <2>1. 0 \notin hello /\ 0 <= opened
      BY <1>0 DEF StreamsOk, SyncTypes
  <2> QED  BY <1>0, <2>1 DEF StreamsOk, NothingBegun
<1>5. Steady
    BY <1>0, <1>1, <1>3 DEF Steady
<1>6. ApplyingOk'
    BY <1>0, <1>2, <1>3, ApplyingStays
<1>7. ToNodeOk'
    BY <1>0, <1>2, <1>3, <1>5, ToNodeStays
<1>8. MutationsOk'
    BY <1>0, <1>3, MutationsStay
<1>9. \A p \in Project : RecordOk(p)'
    BY <1>0, <1>1, <1>3, RecordsStay
<1>10. ToServerOk'
    BY <1>0 DEF ToServerOk, OneOutcome
<1> QED  BY <1>2, <1>4, <1>6, <1>7, <1>8, <1>9, <1>10 DEF SyncInv

LEMMA EndSessionKeeps == ASSUME SyncInv, EndSession PROVE SyncInv'
  BY EntryEnds DEF EndSession, SyncInv, SyncTypes

LEMMA RefuseKeeps == ASSUME SyncInv, refuseAcknowledgement PROVE SyncInv'
<1>1. /\ Head(toServer).project \in Project /\ Head(toServer).ack \in Acks
      /\ AckOk(Head(toServer).project, Head(toServer).ack)
    BY HeadOfServer DEF refuseAcknowledgement
<1>2. /\ Head(toServer).ack.gen \in Nat /\ projectSent[Head(toServer).project] \in Nat
    BY <1>1, MessageFacts DEF SyncInv, SyncTypes
<1>3. /\ ~Unsolicited(Head(toServer).project, Head(toServer).ack)
      /\ ~Conflicting(Head(toServer).project, Head(toServer).ack)
    BY <1>1, <1>2 DEF AckOk, Unsolicited, Conflicting
<1>4. fault' = "identity"
    BY <1>3 DEF refuseAcknowledgement
<1> QED  BY <1>4, EntryEnds DEF refuseAcknowledgement

LEMMA BeginSessionKeeps == ASSUME SyncInv, NEW s \in hello, BeginSession(s) PROVE SyncInv'
<1>0. /\ SyncTypes /\ StreamsOk
      /\ UNCHANGED <<desired, lastAck, phase, sess, opened, config, ack, appliedAck,
                     projectCurrent, bindings, applying, work, held, fs, fault>>
      /\ cur' = s /\ toServer' = <<>> /\ outbound' = {} /\ projectApplied' = NoAcks
      /\ \A p \in Project : projectSent'[p] = 0
      /\ projectSent' \in [Project -> Nat] /\ hello' = hello \ {s}
    BY DEF SyncInv, BeginSession, Entry, recordVars, sessionVars, cacheVars, handlerVars
<1>1. \A p \in Project : desired[p].gen \in Nat /\ ack[p].gen \in Nat /\ config[p].gen \in Nat
    BY <1>0, MessageFacts DEF SyncTypes
<1>2. /\ s = sess => toNode' = <<[type |-> "welcome"]>> /\ toNode = <<>> /\ NothingBegun
      /\ s # sess => toNode' = toNode
    BY <1>0 DEF BeginSession, StreamsOk
<1>3. [type |-> "welcome"] \in NodeMessages
    BY DEF NodeMessages
<1>4. SyncTypes'
  <2>1. toNode' \in Seq(NodeMessages)
    <3>1. <<[type |-> "welcome"]>> \in Seq(NodeMessages)
        BY <1>3
    <3> QED  BY <1>0, <1>2, <3>1 DEF SyncTypes
  <2>2. s \in Nat /\ hello' \subseteq Nat /\ toServer' \in Seq(ServerMessages)
      BY <1>0 DEF SyncTypes
  <2> QED  BY <1>0, <2>1, <2>2, MessageFacts DEF SyncTypes
<1>5. StreamsOk'
  <2>1. s \in 1..opened /\ s \in Nat /\ s # 0 /\ s <= opened
      BY <1>0 DEF StreamsOk, SyncTypes
  <2>2. sess = 0 \/ sess \in hello' => toNode' = <<>>
      BY <1>0, <1>2, <2>1 DEF StreamsOk
  <2> QED  BY <1>0, <2>1, <2>2 DEF StreamsOk, NothingBegun
<1>6. AnswersKept
    BY <1>0, SameAnswers
<1>7. \A p \in Project : projectSent'[p] <= desired[p].gen
    BY <1>0, <1>1
<1>8. ToServerOk'
    BY <1>0 DEF ToServerOk, OneOutcome
<1>9. CASE s # sess
  <2>1. ~Linked'
      BY <1>0, <1>9 DEF Linked
  <2>2. Steady
      BY <1>0, <1>1, <2>1 DEF Steady
  <2>3. ApplyingOk' /\ ToNodeOk'
      BY <1>0, <1>2, <1>4, <1>6, <1>9, <2>1, <2>2, ApplyingStays, ToNodeStays
  <2>4. MutationsOk'
      BY <1>0, <1>6, <2>1, MutationsStay
  <2>5. \A p \in Project : RecordOk(p)'
      BY <1>0, <1>7, <2>1, RecordsStay
  <2> QED  BY <1>4, <1>5, <1>8, <2>3, <2>4, <2>5 DEF SyncInv
<1>10. CASE s = sess
  <2>1. ApplyingOk' /\ MutationsOk'
      BY <1>0, <1>2, <1>10 DEF ApplyingOk, MutationsOk, NothingBegun
  <2>2. ToNodeOk'
    <3>1. Len(toNode') = 1 /\ toNode'[1] = [type |-> "welcome"]
        BY <1>2, <1>10
    <3>2. \A i \in 1..Len(toNode') : toNode'[i].type = "welcome"
        BY <3>1
    <3> QED  BY <3>2 DEF ToNodeOk, Rising
  <2>3. ASSUME NEW p \in Project PROVE RecordOk(p)'
    <3>1. RecordOk(p)
        BY DEF SyncInv
    <3>2. projectApplied'[p] = NoAck
        BY <1>0 DEF NoAcks
    <3>3. Answers(p, projectApplied[p])'
        BY <1>0, <1>1, <3>2, MessageFacts DEF Answers
    <3> QED  BY <1>0, <1>7, <3>1, <3>3 DEF RecordOk
  <2> QED  BY <1>4, <1>5, <1>8, <2>1, <2>2, <2>3 DEF SyncInv
<1> QED  BY <1>9, <1>10

(* A step that is about neither generations nor their outcomes. *)
LEMMA QuietKeeps ==
    ASSUME SyncInv, SyncTypes', StreamsOk', ApplyingOk', MutationsOk', Linked' => Linked,
           UNCHANGED <<desired, lastAck, projectSent, projectApplied, config, ack, appliedAck,
                       projectCurrent, toServer>>,
           toNode' = toNode \/ (toNode # <<>> /\ toNode' = Tail(toNode))
    PROVE  SyncInv'
<1>1. \A p \in Project : /\ desired[p].gen \in Nat /\ ack[p].gen \in Nat /\ projectSent[p] \in Nat
                         /\ projectSent[p] <= desired[p].gen
    BY MessageFacts DEF SyncInv, SyncTypes, RecordOk
<1>2. AnswersKept
    BY SameAnswers
<1>3. Steady
    BY <1>1, <1>2 DEF Steady
<1>4. ToNodeOk'
    BY <1>2, <1>3, ToNodeStays
<1>5. ToServerOk'
    BY <1>1, <1>2, ToServerStays
<1>6. \A p \in Project : RecordOk(p)'
    BY <1>1, RecordsStay
<1> QED  BY <1>4, <1>5, <1>6 DEF SyncInv

LEMMA SentFacts ==
    ASSUME SyncInv
    PROVE  /\ \A p \in Project : projectSent[p] \in Nat /\ projectSent[p] <= projectSent[p]
           /\ SyncTypes /\ StreamsOk /\ ApplyingOk /\ MutationsOk
<1>1. SyncTypes /\ StreamsOk /\ ApplyingOk /\ MutationsOk
    BY DEF SyncInv
<1>2. projectSent \in [Project -> Nat]
    BY <1>1 DEF SyncTypes
<1> QED  BY <1>1, <1>2

LEMMA NodeStartKeeps == ASSUME SyncInv, NodeStart PROVE SyncInv'
<1>1. /\ phase = "down" /\ phase' = "idle"
      /\ UNCHANGED <<desired, lastAck, projectSent, projectApplied, config, ack, appliedAck,
                     projectCurrent, toServer, toNode, cur, sess, opened, hello, outbound, work,
                     applying, held, bindings, fs, fault>>
    BY DEF NodeStart, recordVars, entryVars, netVars, cacheVars, handlerVars
<1>2. SyncTypes' /\ Linked' = Linked /\ AnswersKept
    BY <1>1, SentFacts, SameAnswers DEF SyncTypes, Linked
<1>3. StreamsOk'
    BY <1>1, SentFacts DEF StreamsOk, NothingBegun
<1>4. ApplyingOk' /\ MutationsOk'
    BY <1>1, <1>2, SentFacts, ApplyingStays, MutationsStay
<1> QED  BY <1>1, <1>2, <1>3, <1>4, QuietKeeps

LEMMA OpenStreamKeeps == ASSUME SyncInv, OpenStream PROVE SyncInv'
<1>1. /\ phase = "idle" /\ phase' = "greeting" /\ sess' = opened + 1 /\ opened' = opened + 1
      /\ hello' = hello \cup {opened + 1}
      /\ UNCHANGED <<desired, lastAck, projectSent, projectApplied, config, ack, appliedAck,
                     projectCurrent, toServer, toNode, cur, outbound, work,
                     applying, held, bindings, fs, fault>>
    BY DEF OpenStream, recordVars, entryVars, cacheVars, handlerVars
<1>2. SyncTypes' /\ AnswersKept
    BY <1>1, SentFacts, SameAnswers DEF SyncTypes
<1>3. opened \in Nat /\ cur \in Nat /\ cur <= opened /\ sess = 0 /\ hello \subseteq 1..opened
    BY <1>1, SentFacts DEF SyncTypes, StreamsOk
<1>4. ~Linked'
    BY <1>1, <1>3 DEF Linked
<1>5. StreamsOk'
  <2>1. hello' \subseteq 1..(opened + 1) /\ cur # opened + 1 /\ cur <= opened + 1
      BY <1>1, <1>3
  <2>2. toNode = <<>> /\ NothingBegun
      BY <1>1, <1>3, SentFacts DEF StreamsOk
  <2> QED  BY <1>1, <1>3, <2>1, <2>2, SentFacts DEF StreamsOk, NothingBegun
<1>6. ApplyingOk' /\ MutationsOk'
    BY <1>1, <1>2, <1>4, SentFacts, ApplyingStays, MutationsStay
<1> QED  BY <1>1, <1>2, <1>4, <1>5, <1>6, QuietKeeps

LEMMA CloseSessionKeeps == ASSUME SyncInv, CloseSession PROVE SyncInv'
<1>1. /\ phase \in {"greeting", "open"} /\ phase' = "closing"
      /\ UNCHANGED <<desired, lastAck, projectSent, projectApplied, config, ack, appliedAck,
                     projectCurrent, toServer, toNode, cur, sess, opened, hello, outbound, work,
                     applying, held, bindings, fs, fault>>
    BY DEF CloseSession, recordVars, entryVars, netVars, cacheVars, handlerVars
<1>2. SyncTypes' /\ Linked' = Linked /\ AnswersKept
    BY <1>1, SentFacts, SameAnswers DEF SyncTypes, Linked
<1>3. StreamsOk'
    BY <1>1, SentFacts DEF StreamsOk, NothingBegun
<1>4. ApplyingOk' /\ MutationsOk'
    BY <1>1, <1>2, SentFacts, ApplyingStays, MutationsStay
<1> QED  BY <1>1, <1>2, <1>3, <1>4, QuietKeeps

LEMMA ForgetKeeps ==
    ASSUME SyncInv, NEW next \in {"idle", "down"}, Forget(next), fault' # "protocol",
           UNCHANGED <<recordVars, entryVars, hello, toServer, opened, cacheVars, fs>>
    PROVE  SyncInv'
<1>1. /\ phase' = next /\ sess' = 0 /\ toNode' = <<>> /\ projectCurrent' = NoAcks
      /\ bindings' = [p \in Project |-> NoBinding] /\ applying' = Idle /\ work' = {}
      /\ held' = NoMutation
      /\ UNCHANGED <<desired, lastAck, cur, projectSent, projectApplied, outbound, hello, toServer,
                     opened, config, ack, appliedAck, fs>>
      /\ SyncTypes /\ StreamsOk
    BY SentFacts DEF Forget, recordVars, entryVars, cacheVars
<1>2. NoBinding \in Bindings
    BY DEF NoBinding, Bindings
<1>3. SyncTypes'
    BY <1>1, <1>2, MessageFacts DEF SyncTypes
<1>4. ~Linked'
    BY <1>1 DEF Linked
<1>5. StreamsOk'
  <2>1. 0 <= opened /\ NothingBegun'
      BY <1>1 DEF SyncTypes, NothingBegun
  <2> QED  BY <1>1, <2>1 DEF StreamsOk
<1>6. ApplyingOk' /\ ToNodeOk'
    BY <1>1 DEF ApplyingOk, ToNodeOk, Rising
<1>7. MutationsOk'
    BY <1>1, <1>4 DEF SyncInv, MutationsOk, Admitted
<1>8. \A p \in Project : ack[p].gen \in Nat /\ ack[p].gen <= ack'[p].gen
    BY <1>1, MessageFacts DEF SyncTypes
<1>9. ToServerOk'
    BY <1>1, <1>3, <1>4, <1>8, SentFacts, ToServerStays
<1>10. \A p \in Project : RecordOk(p)'
    BY <1>1, <1>4 DEF SyncInv, RecordOk, NoAcks
<1> QED  BY <1>3, <1>5, <1>6, <1>7, <1>9, <1>10 DEF SyncInv

LEMMA LeavingKeeps ==
    ASSUME SyncInv, SessionClosed \/ NodeCrash \/ RefuseProjectAck PROVE SyncInv'
<1>1. CASE SessionClosed
    BY <1>1, ForgetKeeps, SentFacts DEF SessionClosed, SyncTypes
<1>2. CASE NodeCrash
    BY <1>2, ForgetKeeps, SentFacts DEF NodeCrash, SyncTypes
<1>3. CASE RefuseProjectAck
    BY <1>3, ForgetKeeps DEF RefuseProjectAck
<1> QED  BY <1>1, <1>2, <1>3

RootStates == {"missing", "empty", "used"}

LEMMA RootTypes ==
    ASSUME NEW f \in Filesystems, NEW r, NEW v \in RootStates
    PROVE  [f EXCEPT !.roots[r] = v] \in Filesystems
<1>1. PICK t, o, s : f = [target |-> t, online |-> o, roots |-> s]
                     /\ t \in [Path -> Dir] /\ o \in SUBSET Dir /\ s \in [Root -> RootStates]
    BY DEF Filesystems, RootStates
<1>2. [f EXCEPT !.roots[r] = v] = [target |-> t, online |-> o, roots |-> [s EXCEPT ![r] = v]]
    BY <1>1
<1>3. [s EXCEPT ![r] = v] \in [Root -> RootStates]
    BY <1>1
<1> QED  BY <1>1, <1>2, <1>3 DEF Filesystems, RootStates

LEMMA OnlineTypes ==
    ASSUME NEW f \in Filesystems, NEW x \in SUBSET Dir PROVE [f EXCEPT !.online = x] \in Filesystems
<1>1. PICK t, o, s : f = [target |-> t, online |-> o, roots |-> s]
                     /\ t \in [Path -> Dir] /\ o \in SUBSET Dir /\ s \in [Root -> RootStates]
    BY DEF Filesystems, RootStates
<1>2. [f EXCEPT !.online = x] = [target |-> t, online |-> x, roots |-> s]
    BY <1>1
<1> QED  BY <1>1, <1>2 DEF Filesystems, RootStates

LEMMA TargetTypes ==
    ASSUME NEW f \in Filesystems, NEW l \in Path, NEW d \in Dir PROVE [f EXCEPT !.target[l] = d] \in Filesystems
<1>1. PICK t, o, s : f = [target |-> t, online |-> o, roots |-> s]
                     /\ t \in [Path -> Dir] /\ o \in SUBSET Dir /\ s \in [Root -> RootStates]
    BY DEF Filesystems, RootStates
<1>2. [f EXCEPT !.target[l] = d] = [target |-> [t EXCEPT ![l] = d], online |-> o, roots |-> s]
    BY <1>1
<1>3. [t EXCEPT ![l] = d] \in [Path -> Dir]
    BY <1>1
<1> QED  BY <1>1, <1>2, <1>3 DEF Filesystems, RootStates

(* Only the filesystem changes, or what the node's workers hold. *)
LEMMA LocalKeeps ==
    ASSUME SyncInv, fs' \in Filesystems, work' \subseteq work,
           \/ UNCHANGED <<work, held>>
           \/ held' \in {NoMutation} \cup Helds /\ ~NothingBegun,
           UNCHANGED <<recordVars, entryVars, netVars, sessionVars, cacheVars,
                       projectCurrent, bindings, applying, fault>>
    PROVE  SyncInv'
<1>1. /\ UNCHANGED <<desired, lastAck, projectSent, projectApplied, config, ack, appliedAck,
                     projectCurrent, toServer, toNode, cur, phase, sess, opened, hello, outbound,
                     applying, bindings, fault>>
    BY DEF recordVars, entryVars, netVars, sessionVars, cacheVars
<1>2. SyncTypes' /\ Linked' = Linked /\ AnswersKept
  <2>1. work' \subseteq Mutations /\ held' \in {NoMutation} \cup Helds
      BY SentFacts DEF SyncTypes
  <2>2. SyncTypes'
      BY <1>1, <2>1, SentFacts DEF SyncTypes
  <2> QED  BY <1>1, <2>2, SameAnswers DEF Linked
<1>3. StreamsOk'
    BY <1>1, SentFacts DEF StreamsOk, NothingBegun
<1>4. ApplyingOk' /\ MutationsOk'
    BY <1>1, <1>2, SentFacts, ApplyingStays, MutationsStay
<1> QED  BY <1>1, <1>2, <1>3, <1>4, QuietKeeps

LEMMA FilesystemKeeps == ASSUME SyncInv, FilesystemStep PROVE SyncInv'
<1>1. fs \in Filesystems /\ Removable \subseteq Dir /\ \A l \in Path : Targets[l] \subseteq Dir
    BY ConfigAssumption, SentFacts DEF SyncTypes
<1>2. fs' \in Filesystems
  <2>1. CASE \E d \in Removable : Unmount(d) \/ Mount(d)
    <3>1. PICK d \in Removable : Unmount(d) \/ Mount(d)
        BY <2>1
    <3>2. fs.online \ {d} \in SUBSET Dir /\ fs.online \cup {d} \in SUBSET Dir
        BY <1>1 DEF Filesystems
    <3>3. fs' = [fs EXCEPT !.online = fs.online \ {d}] \/ fs' = [fs EXCEPT !.online = fs.online \cup {d}]
        BY <3>1 DEF Unmount, Mount, Filesystem
    <3>4. PICK x \in SUBSET Dir : fs' = [fs EXCEPT !.online = x]
        BY <3>2, <3>3
    <3> QED  BY <1>1, <3>4, OnlineTypes
  <2>2. CASE \E l \in Path : \E d \in Targets[l] : Repoint(l, d)
    <3>1. PICK l \in Path, d \in Dir : fs' = [fs EXCEPT !.target[l] = d]
        BY <1>1, <2>2 DEF Repoint, Filesystem
    <3> QED  BY <1>1, <3>1, TargetTypes
  <2> QED  BY <2>1, <2>2 DEF FilesystemStep
<1>3. UNCHANGED <<recordVars, entryVars, netVars, sessionVars, cacheVars, handlerVars, fault>>
    BY DEF FilesystemStep, Unmount, Mount, Repoint, Filesystem
<1> QED  BY <1>2, <1>3, LocalKeeps DEF handlerVars

LEMMA ResolveKeeps == ASSUME SyncInv, NEW m \in work, resolveManaged(m) PROVE SyncInv'
<1>1. m \in Mutations /\ bindings[m.project] \in Bindings /\ fs \in Filesystems /\ held \in {NoMutation} \cup Helds
    BY SentFacts, MessageFacts DEF SyncTypes
<1>2. PICK h : h = [type |-> "held", mutation |-> m, binding |-> bindings[m.project]]
    OBVIOUS
<1>3. h \in Helds
    BY <1>1, <1>2 DEF Helds
<1>4. held' = h \/ held' = held
    BY <1>2 DEF resolveManaged
<1>5. held' \in {NoMutation} \cup Helds /\ ~NothingBegun
    BY <1>1, <1>3, <1>4 DEF NothingBegun
<1> QED  BY <1>1, <1>5, LocalKeeps DEF resolveManaged

LEMMA UseKeeps == ASSUME SyncInv, UseBinding PROVE SyncInv'
<1>1. fs \in Filesystems /\ held # NoMutation /\ held' = NoMutation
    BY SentFacts DEF SyncTypes, UseBinding
<1>2. fs' \in Filesystems
    BY <1>1, RootTypes DEF UseBinding, RootStates
<1>3. ~NothingBegun
    BY <1>1 DEF NothingBegun
<1> QED  BY <1>1, <1>2, <1>3, LocalKeeps DEF UseBinding

LEMMA HeadOfNode ==
    ASSUME SyncInv, toNode # <<>>
    PROVE  /\ Head(toNode) \in NodeMessages /\ toNode \in Seq(NodeMessages) /\ Tail(toNode) \in Seq(NodeMessages)
           /\ Head(toNode) = toNode[1] /\ 1 \in 1..Len(toNode)
           /\ Head(toNode).type = "config" => ConfigOk(Head(toNode))
           /\ Head(toNode).type = "mutation" => MutationOk(Head(toNode))
           /\ sess # 0 /\ sess \notin hello
<1>1. toNode \in Seq(NodeMessages) /\ ToNodeOk /\ StreamsOk
    BY DEF SyncInv, SyncTypes
<1>2. Head(toNode) = toNode[1] /\ 1 \in 1..Len(toNode) /\ Head(toNode) \in NodeMessages /\ Tail(toNode) \in Seq(NodeMessages)
    BY <1>1
<1> QED  BY <1>1, <1>2 DEF ToNodeOk, StreamsOk

LEMMA ReceiveMutationKeeps == ASSUME SyncInv, ReceiveMutation PROVE SyncInv'
<1>1. /\ phase = "open" /\ toNode # <<>> /\ Head(toNode).type = "mutation" /\ toNode' = Tail(toNode)
      /\ work' = work \cup {Head(toNode)}
      /\ UNCHANGED <<desired, lastAck, projectSent, projectApplied, config, ack, appliedAck,
                     projectCurrent, toServer, cur, phase, sess, opened, hello, outbound,
                     applying, held, bindings, fs, fault>>
    BY DEF ReceiveMutation, recordVars, entryVars, sessionVars, cacheVars
<1>2. PICK m \in Mutations : m = Head(toNode) /\ MutationOk(m) /\ sess # 0 /\ sess \notin hello
    BY <1>1, HeadOfNode, MessageFacts
<1>3. SyncTypes' /\ Linked' = Linked /\ AnswersKept
    BY <1>1, <1>2, HeadOfNode, SentFacts, SameAnswers DEF SyncTypes, Linked
<1>4. StreamsOk'
    BY <1>1, <1>2, SentFacts DEF StreamsOk
<1>5. ApplyingOk'
    BY <1>1, <1>3, SentFacts, ApplyingStays
<1>6. MutationsOk'
  <2>1. \A x \in outbound' \cup work' : x.project \in Project /\ x.ack \in Acks
      BY <1>3, MessageFacts DEF SyncTypes
  <2> QED  BY <1>1, <1>2, <1>3, <2>1, SentFacts DEF MutationsOk, MutationOk, Admitted, AnswersKept
<1> QED  BY <1>1, <1>3, <1>4, <1>5, <1>6, QuietKeeps

LEMMA SaveProjectAckKeeps == ASSUME SyncInv, SaveProjectAck PROVE SyncInv'
<1>1. PICK p \in Project, a \in Acks : applying.project = p /\ applying.ack = a /\ applying.step = "bound"
  <2>1. applying.step = "bound" /\ applying \in {Idle} \cup Saved \cup Outcomes
      BY SentFacts DEF SaveProjectAck, SyncTypes
  <2>2. applying \in Outcomes
      BY <2>1 DEF Idle, Saved
  <2> QED  BY <2>1, <2>2 DEF Outcomes
<1>2. /\ ack' = [ack EXCEPT ![p] = a]
      /\ appliedAck' = IF a.status = "applied" THEN [appliedAck EXCEPT ![p] = a] ELSE appliedAck
      /\ projectCurrent' = [projectCurrent EXCEPT ![p] = a] /\ applying' = Idle
      /\ \/ Linked /\ toServer' = Append(toServer, [type |-> "ack", project |-> p, ack |-> a])
         \/ toServer' = toServer
      /\ UNCHANGED <<desired, lastAck, cur, projectSent, projectApplied, outbound, hello, toNode, phase,
                     sess, opened, config, bindings, work, held, fs, fault>>
    BY <1>1 DEF SaveProjectAck, recordVars, entryVars, sessionVars
<1>3. applying # Idle /\ ~NothingBegun
    BY <1>1 DEF Idle, NothingBegun
<1>4. /\ config[p].gen > 0 /\ projectCurrent[p] = NoAck /\ a.gen = config[p].gen
      /\ Linked => config[p].gen <= projectSent[p]
    BY <1>1, <1>3, SentFacts DEF ApplyingOk
<1>5. \A q \in Project : /\ desired[q].gen \in Nat /\ projectSent[q] \in Nat /\ ack[q].gen \in Nat
                         /\ config[q].gen \in Nat /\ lastAck[q].gen \in Nat /\ appliedAck[q].gen \in Nat
    BY SentFacts, MessageFacts DEF SyncTypes
<1>6. \A q \in Project : /\ ack'[q] = IF q = p THEN a ELSE ack[q]
                         /\ projectCurrent'[q] = IF q = p THEN a ELSE projectCurrent[q]
                         /\ appliedAck'[q] = IF q = p /\ a.status = "applied" THEN a ELSE appliedAck[q]
    BY <1>2, SentFacts DEF SyncTypes
<1>7. \A q \in Project : ack[q].gen <= ack'[q].gen
    BY <1>4, <1>5, <1>6 DEF SyncInv, RecordOk
<1>8. AnswersKept
    BY <1>2, <1>4, <1>6, MessageFacts DEF AnswersKept, Answers
<1>9. SyncTypes'
  <2>1. [type |-> "ack", project |-> p, ack |-> a] \in ServerMessages
      BY DEF ServerMessages, AckMessages
  <2>2. toServer' \in Seq(ServerMessages)
    <3>1. \A m \in ServerMessages : Append(toServer, m) \in Seq(ServerMessages)
        BY SentFacts DEF SyncTypes
    <3> QED  BY <1>2, <2>1, <3>1, SentFacts DEF SyncTypes
  <2>3. ack' \in [Project -> Acks] /\ appliedAck' \in [Project -> Acks] /\ projectCurrent' \in [Project -> Acks]
      BY <1>2, SentFacts DEF SyncTypes
  <2> QED  BY <1>2, <2>2, <2>3, SentFacts DEF SyncTypes
<1>10. Linked' = Linked
    BY <1>2 DEF Linked
<1>11. StreamsOk'
  <2>1. cur = 0 => toServer' = <<>>
      BY <1>2, SentFacts DEF StreamsOk, Linked
  <2> QED  BY <1>2, <1>3, <2>1, SentFacts DEF StreamsOk
<1>12. ApplyingOk'
    BY <1>2 DEF ApplyingOk
<1>13. MutationsOk'
    BY <1>2, <1>8, <1>10, MutationsStay
<1>14. Steady
    BY <1>2, <1>5, <1>7, <1>8, <1>10 DEF Steady
<1>15. ToNodeOk'
    BY <1>2, <1>8, <1>9, <1>14, ToNodeStays
<1>16. ToServerOk'
  <2>1. CASE toServer' = toServer
      BY <1>2, <1>5, <1>7, <1>8, <1>9, <1>10, <2>1, ToServerStays, SentFacts
  <2>2. CASE Linked /\ toServer' = Append(toServer, [type |-> "ack", project |-> p, ack |-> a])
      BY <1>2, <1>4, <1>5, <1>6, <1>7, <1>8, <1>9, <1>10, <2>2, ToServerAnswers
  <2> QED  BY <1>2, <2>1, <2>2
<1>17. ASSUME NEW q \in Project PROVE RecordOk(q)'
  <2>1. RecordOk(q) /\ projectApplied[q] \in Acks
      BY SentFacts DEF SyncInv, SyncTypes
  <2>2. (Linked => Answers(q, projectApplied[q]))'
      BY <1>2, <1>8, <1>10, <2>1 DEF RecordOk, AnswersKept, Answers
  <2>3. /\ lastAck[q].gen <= ack'[q].gen /\ ack'[q].gen <= config[q].gen
        /\ appliedAck'[q].gen <= ack'[q].gen
        /\ ack'[q].status = "applied" => appliedAck'[q] = ack'[q]
        /\ projectCurrent'[q] \in {NoAck, ack'[q]}
      BY <1>4, <1>5, <1>6, <2>1 DEF RecordOk
  <2> QED  BY <1>2, <2>1, <2>2, <2>3 DEF RecordOk
<1> QED  BY <1>9, <1>11, <1>12, <1>13, <1>15, <1>16, <1>17 DEF SyncInv

(* A new generation is saved: the rest of the stream is of newer ones. *)
LEMMA ConfigSavedKeeps ==
    ASSUME SyncInv, NEW msg \in NodeMessages, toNode # <<>>, msg = Head(toNode), msg.type = "config",
           phase = "open", msg.gen >= config[msg.project].gen,
           ~(msg.gen = config[msg.project].gen /\ projectCurrent[msg.project].gen = msg.gen),
           toNode' = Tail(toNode),
           config' = [config EXCEPT ![msg.project] = [gen |-> msg.gen, cfg |-> msg.cfg]],
           projectCurrent' = [projectCurrent EXCEPT ![msg.project] = NoAck],
           applying' = [step |-> "saved", project |-> msg.project],
           UNCHANGED <<desired, lastAck, cur, projectSent, projectApplied, outbound, hello, toServer, phase,
                       sess, opened, ack, appliedAck, bindings, work, held, fs, fault>>
    PROVE  SyncInv'
<1>1. PICK p \in Project : p = msg.project /\ ConfigOk(msg) /\ msg.gen \in Nat /\ msg.cfg \in Configs
    BY HeadOfNode, MessageFacts
<1>2. sess # 0 /\ sess \notin hello /\ toNode \in Seq(NodeMessages) /\ Tail(toNode) \in Seq(NodeMessages)
    BY HeadOfNode
<1>3. PICK c \in Desired : c = [gen |-> msg.gen, cfg |-> msg.cfg] /\ c.gen = msg.gen /\ c.cfg = msg.cfg
    BY <1>1 DEF Desired
<1>4. \A q \in Project : /\ desired[q].gen \in Nat /\ projectSent[q] \in Nat /\ ack[q].gen \in Nat
                         /\ config[q].gen \in Nat /\ lastAck[q].gen \in Nat /\ appliedAck[q].gen \in Nat
                         /\ desired[q] \in Desired
    BY SentFacts, MessageFacts DEF SyncTypes
<1>5. \A q \in Project : /\ config'[q] = IF q = p THEN c ELSE config[q]
                         /\ projectCurrent'[q] = IF q = p THEN NoAck ELSE projectCurrent[q]
    BY <1>1, <1>3, SentFacts DEF SyncTypes
<1>6. msg.gen > 0 /\ config[p].gen <= msg.gen /\ msg.gen <= desired[p].gen
    BY <1>1 DEF ConfigOk
<1>7. AnswersKept
  <2>1. ASSUME NEW q \in Project, NEW a \in Acks, Answers(q, a) PROVE Answers(q, a)'
    <3>1. a.gen \in Nat
        BY MessageFacts
    <3>2. CASE q # p
        BY <1>5, <2>1, <3>2 DEF Answers
    <3>3. CASE q = p
      <4>1. a.gen > 0 /\ a.gen = msg.gen => FALSE
          BY <1>1, <1>4, <1>6, <2>1, <3>1, <3>3 DEF Answers
      <4>2. a.gen <= msg.gen
          BY <1>1, <1>4, <1>6, <2>1, <3>1, <3>3 DEF Answers
      <4>3. config'[q].gen = msg.gen
          BY <1>3, <1>5, <3>3
      <4> QED  BY <4>1, <4>2, <4>3 DEF Answers
    <3> QED  BY <3>2, <3>3
  <2> QED  BY <2>1 DEF AnswersKept
<1>8. SyncTypes'
  <2>1. [step |-> "saved", project |-> msg.project] \in Saved
      BY <1>1 DEF Saved
  <2>2. config' \in [Project -> Desired] /\ projectCurrent' \in [Project -> Acks]
      BY <1>3, SentFacts, MessageFacts DEF SyncTypes
  <2> QED  BY <1>2, <2>1, <2>2, SentFacts DEF SyncTypes
<1>9. Linked' = Linked
    BY DEF Linked
<1>10. StreamsOk'
    BY <1>2, SentFacts DEF StreamsOk
<1>11. ApplyingOk'
  <2>1. /\ applying'.project = p /\ applying'.step = "saved" /\ config'[p].gen = msg.gen
        /\ projectCurrent'[p] = NoAck
      BY <1>1, <1>3, <1>5
  <2>2. Linked => msg.gen <= projectSent[p]
      BY <1>1 DEF ConfigOk
  <2> QED  BY <1>6, <1>9, <2>1, <2>2 DEF ApplyingOk
<1>12. MutationsOk'
    BY <1>7, <1>9, MutationsStay
<1>13. ToServerOk'
    BY <1>4, <1>7, <1>8, <1>9, SentFacts, ToServerStays
<1>14. ToNodeOk'
  <2>1. Rising(toNode')
      BY <1>2, RisingTail DEF SyncInv, ToNodeOk
  <2>2. ASSUME NEW i \in 1..Len(toNode')
        PROVE  /\ toNode'[i].type = "config" => ConfigOk(toNode[i])'
               /\ toNode'[i].type = "mutation" => MutationOk(toNode[i])'
    <3>1. PICK x \in NodeMessages : x = toNode'[i] /\ x = toNode[i + 1] /\ i + 1 \in 1..Len(toNode) /\ 1 < i + 1
        BY <1>2
    <3>2. ASSUME x.type = "config" PROVE ConfigOk(x)'
      <4>1. ConfigOk(x) /\ x.project \in Project /\ x.gen \in Nat /\ x.cfg \in Configs
          BY <3>1, <3>2, MessageFacts DEF SyncInv, ToNodeOk
      <4>2. x.project = p => msg.gen < x.gen
          BY <1>1, <3>1, <3>2, HeadOfNode DEF SyncInv, ToNodeOk, Rising
      <4>3. x.gen = config'[x.project].gen => x.cfg = config'[x.project].cfg
          BY <1>1, <1>3, <1>5, <4>1, <4>2 DEF ConfigOk
      <4> QED  BY <1>9, <4>1, <4>3 DEF ConfigOk
    <3>3. ASSUME x.type = "mutation" PROVE MutationOk(x)'
      <4>1. MutationOk(x) /\ x.project \in Project /\ x.ack \in Acks
          BY <3>1, <3>3, MessageFacts DEF SyncInv, ToNodeOk
      <4> QED  BY <1>7, <4>1 DEF MutationOk, AnswersKept, Admitted
    <3> QED  BY <3>1, <3>2, <3>3
  <2> QED  BY <2>1, <2>2 DEF ToNodeOk
<1>15. ASSUME NEW q \in Project PROVE RecordOk(q)'
  <2>1. RecordOk(q) /\ projectApplied[q] \in Acks
      BY SentFacts DEF SyncInv, SyncTypes
  <2>2. (Linked => Answers(q, projectApplied[q]))'
      BY <1>7, <1>9, <2>1 DEF RecordOk, AnswersKept, Answers
  <2>3. CASE q # p
      BY <1>5, <2>1, <2>2, <2>3 DEF RecordOk
  <2>4. CASE q = p
    <3>1. config'[p] = c /\ projectCurrent'[p] = NoAck
        BY <1>5
    <3>2. c.gen = desired[p].gen => c = desired[p]
        BY <1>1, <1>3, <1>4 DEF ConfigOk, Desired
    <3>3. ack[p].gen <= c.gen /\ c.gen # 0 /\ c.cfg # None
        BY <1>1, <1>3, <1>4, <1>6, <2>1, <2>4, ConfigFacts DEF RecordOk
    <3> QED  BY <1>3, <1>6, <2>1, <2>2, <2>4, <3>1, <3>2, <3>3 DEF RecordOk
  <2> QED  BY <2>3, <2>4
<1> QED  BY <1>8, <1>10, <1>11, <1>12, <1>13, <1>14, <1>15 DEF SyncInv

LEMMA SaveProjectConfigKeeps == ASSUME SyncInv, SaveProjectConfig PROVE SyncInv'
<1>1. /\ phase = "open" /\ applying = Idle /\ toNode # <<>> /\ Head(toNode).type = "config"
      /\ toNode' = Tail(toNode)
    BY DEF SaveProjectConfig
<1>2. PICK msg \in NodeMessages : /\ msg = Head(toNode) /\ msg.type = "config" /\ ConfigOk(msg)
                                  /\ msg.project \in Project /\ msg.gen \in Nat /\ msg.cfg \in Configs
    BY <1>1, HeadOfNode, MessageFacts
<1>3. sess # 0 /\ sess \notin hello
    BY <1>1, HeadOfNode
<1> DEFINE p == msg.project
           same == msg.gen = config[p].gen
           repeated == same /\ projectCurrent[p].gen = msg.gen
           save == msg.gen >= config[p].gen /\ ~repeated
<1>4. same => msg.cfg = config[p].cfg
    BY <1>2 DEF ConfigOk
<1>5. /\ fault' = fault /\ phase' = phase
      /\ toServer' = IF repeated /\ Linked
                     THEN Append(toServer, [type |-> "ack", project |-> p, ack |-> projectCurrent[p]])
                     ELSE toServer
      /\ config' = IF save THEN [config EXCEPT ![p] = [gen |-> msg.gen, cfg |-> msg.cfg]] ELSE config
      /\ projectCurrent' = IF save THEN [projectCurrent EXCEPT ![p] = NoAck] ELSE projectCurrent
      /\ applying' = IF save THEN [step |-> "saved", project |-> p] ELSE applying
      /\ UNCHANGED <<desired, lastAck, cur, projectSent, projectApplied, outbound, hello,
                     sess, opened, ack, appliedAck, bindings, work, held, fs>>
    BY <1>2, <1>4 DEF SaveProjectConfig, recordVars, entryVars
<1>6. \A q \in Project : /\ desired[q].gen \in Nat /\ projectSent[q] \in Nat /\ ack[q].gen \in Nat
                         /\ config[q].gen \in Nat /\ projectCurrent[q] \in Acks
    BY SentFacts, MessageFacts DEF SyncTypes
<1>7. CASE save
    BY <1>1, <1>2, <1>5, <1>7, ConfigSavedKeeps
<1>8. CASE ~save
  <2>1. UNCHANGED <<config, projectCurrent, applying>>
      BY <1>5, <1>8
  <2>2. AnswersKept /\ Linked' = Linked
      BY <1>5, <2>1, SameAnswers DEF Linked
  <2>3. SyncTypes'
    <3>1. toServer' \in Seq(ServerMessages)
      <4>1. [type |-> "ack", project |-> p, ack |-> projectCurrent[p]] \in ServerMessages
          BY <1>2, <1>6 DEF ServerMessages, AckMessages
      <4>2. \A m \in ServerMessages : Append(toServer, m) \in Seq(ServerMessages)
          BY SentFacts DEF SyncTypes
      <4> QED  BY <1>5, <4>1, <4>2, SentFacts DEF SyncTypes
    <3> QED  BY <1>1, <1>5, <2>1, <3>1, HeadOfNode, SentFacts DEF SyncTypes
  <2>4. StreamsOk'
    <3>1. cur = 0 => toServer' = <<>>
        BY <1>5, SentFacts DEF StreamsOk, Linked
    <3> QED  BY <1>1, <1>3, <1>5, <2>1, <3>1, SentFacts DEF StreamsOk
  <2>5. Steady
      BY <1>5, <1>6, <2>2, SentFacts DEF Steady
  <2>6. ApplyingOk' /\ MutationsOk'
      BY <1>5, <2>1, <2>2, <2>3, SentFacts, ApplyingStays, MutationsStay
  <2>7. ToNodeOk'
      BY <1>1, <2>1, <2>2, <2>3, <2>5, ToNodeStays
  <2>8. \A q \in Project : RecordOk(q)'
    <3>1. \A q \in Project : projectSent'[q] <= desired[q].gen
        BY <1>5 DEF SyncInv, RecordOk
    <3> QED  BY <1>5, <2>1, <2>2, <3>1, RecordsStay
  <2>9. ToServerOk'
    <3>1. CASE ~(repeated /\ Linked)
      <4>1. toServer' = toServer
          BY <1>5, <3>1
      <4> QED  BY <1>5, <1>6, <2>2, <2>3, <4>1, ToServerStays, SentFacts
    <3>2. CASE repeated /\ Linked
      <4>1. PICK a \in Acks : a = projectCurrent[p] /\ a.gen = msg.gen
          BY <1>2, <1>6, <3>2
      <4>2. projectCurrent[p] \in {NoAck, ack[p]} /\ a # NoAck /\ a = ack[p]
          BY <1>2, <4>1, MessageFacts DEF SyncInv, RecordOk, ConfigOk
      <4>3. a.gen > 0 /\ a.gen <= projectSent[p] /\ a.gen = config'[p].gen /\ projectCurrent'[p] = a
          BY <1>2, <2>1, <3>2, <4>1 DEF ConfigOk
      <4>4. a.gen <= ack'[p].gen /\ \A q \in Project : ack[q].gen <= ack'[q].gen
          BY <1>2, <1>5, <1>6, <4>2
      <4>5. toServer' = Append(toServer, [type |-> "ack", project |-> p, ack |-> a])
          BY <1>5, <3>2, <4>1
      <4>6. p \in Project /\ Linked /\ Linked'
          BY <1>2, <2>2, <3>2
      <4>7. UNCHANGED <<projectSent, projectApplied>>
          BY <1>5
      <4> HIDE DEF p, same, repeated, save
      <4> QED  BY <2>2, <2>3, <4>3, <4>4, <4>5, <4>6, <4>7, ToServerAnswers
    <3> QED  BY <3>1, <3>2
  <2> QED  BY <2>3, <2>4, <2>6, <2>7, <2>8, <2>9 DEF SyncInv
<1> QED  BY <1>7, <1>8

-----------------------------------------------------------------------------
(* The cache and the filesystem it leaves behind. *)
NodeStates == [fs : Filesystems, m : [Project -> Bindings]]

LEMMA NodeStateFacts ==
    /\ \A st \in NodeStates : st.fs \in Filesystems /\ st.m \in [Project -> Bindings]
    /\ \A f \in Filesystems : /\ f.online \subseteq Dir /\ f.roots \in [Root -> RootStates]
                              /\ \A l \in Path : f.target[l] \in Dir
    /\ SyncTypes => NodeState \in NodeStates /\ NodeState.fs = fs /\ NodeState.m = bindings
<1>1. \A st \in NodeStates : st.fs \in Filesystems /\ st.m \in [Project -> Bindings]
    BY DEF NodeStates
<1>2. \A f \in Filesystems : /\ f.online \subseteq Dir /\ f.roots \in [Root -> RootStates]
                             /\ \A l \in Path : f.target[l] \in Dir
    BY DEF Filesystems, RootStates
<1>3. SyncTypes => NodeState \in NodeStates /\ NodeState.fs = fs /\ NodeState.m = bindings
    BY DEF SyncTypes, NodeState, NodeStates
<1> QED  BY <1>1, <1>2, <1>3

Places == Root \cup {Default, None}

LEMMA PlaceFacts ==
    ASSUME NEW f \in Filesystems, NEW src \in Path \cup Dir, NEW root \in Places
    PROVE  /\ Leads(f, src) \in Dir
           /\ RootFor(root, Leads(f, src)) \in Root \cup {None}
           /\ root # None => RootFor(root, Leads(f, src)) \in Root
<1>1. Leads(f, src) \in Dir
    BY NodeStateFacts DEF Leads
<1> QED  BY <1>1, PlacesAssumption DEF RootFor, Places

(* apply binds project p. *)
Accepted(st, new, p, gen, src, root, granted) ==
    /\ st \in NodeStates /\ p \in Project /\ gen \in Nat /\ src \in Path \cup Dir /\ root \in Places
    /\ Refusals(st.fs, st.m, p, gen, src, root, granted) = {}
    /\ new = apply(st, p, gen, src, root, granted)

(* The state new is st with p bound by b. *)
Rebound(st, new, p, b) ==
    /\ b \in Bindings /\ new \in NodeStates /\ new.m = [st.m EXCEPT ![p] = b]
    /\ new.fs.online = st.fs.online /\ new.fs.target = st.fs.target

Names(st, b, gen, src, root) ==
    /\ b.gen = gen /\ b.src = src /\ b.dir = Leads(st.fs, src)
    /\ b.root = RootFor(root, Leads(st.fs, src))

LEMMA ApplyIs ==
    ASSUME NEW st, NEW new, NEW p, NEW gen, NEW src, NEW root, NEW granted,
           Accepted(st, new, p, gen, src, root, granted)
    PROVE  \E b : Rebound(st, new, p, b) /\ Names(st, b, gen, src, root)
<1>0. /\ st \in NodeStates /\ p \in Project /\ gen \in Nat /\ src \in Path \cup Dir /\ root \in Places
      /\ Refusals(st.fs, st.m, p, gen, src, root, granted) = {}
      /\ new = apply(st, p, gen, src, root, granted)
    BY DEF Accepted
<1>1. PICK f \in Filesystems, m \in [Project -> Bindings] : st = [fs |-> f, m |-> m]
    BY <1>0 DEF NodeStates
<1>2. PICK t, o, s : f = [target |-> t, online |-> o, roots |-> s]
                     /\ t \in [Path -> Dir] /\ o \in SUBSET Dir /\ s \in [Root -> RootStates]
    BY DEF Filesystems, RootStates
<1>3. PICK dir \in Dir : dir = Leads(f, src)
    BY <1>0, PlaceFacts
<1>4. PICK place \in Root \cup {None} : place = RootFor(root, dir)
    BY <1>0, <1>3, PlaceFacts
<1>5. PICK b \in Bindings : b = [gen |-> gen, src |-> src, dir |-> dir, root |-> place]
  <2>1. [gen |-> gen, src |-> src, dir |-> dir, root |-> place] \in Bindings
      BY <1>0 DEF Bindings
  <2> QED  BY <2>1
<1>6. PICK v : v = IF s[place] = "missing" THEN "empty" ELSE s[place]
    OBVIOUS
<1>7. PICK g \in Filesystems : g = [target |-> t, online |-> o, roots |-> [s EXCEPT ![place] = v]]
  <2>1. [s EXCEPT ![place] = v] \in [Root -> RootStates]
      BY <1>2, <1>6 DEF RootStates
  <2> QED  BY <1>2, <2>1 DEF Filesystems, RootStates
<1>8. new = [st EXCEPT !.m[p] = b, !.fs.roots[place] = v]
    BY <1>0, <1>1, <1>2, <1>3, <1>4, <1>5, <1>6 DEF apply
<1>9. new = [fs |-> g, m |-> [m EXCEPT ![p] = b]]
    BY <1>1, <1>2, <1>7, <1>8
<1>10. new \in NodeStates
    BY <1>9 DEF NodeStates
<1>11. b.gen = gen /\ b.src = src /\ b.dir = Leads(st.fs, src) /\ b.root = RootFor(root, Leads(st.fs, src))
    BY <1>1, <1>3, <1>4, <1>5
<1>12. new.m = [st.m EXCEPT ![p] = b] /\ new.fs = g /\ st.fs = f
  <2>1. st.m = m /\ st.fs = f
      BY <1>1
  <2>2. new.fs = g
      BY <1>9
  <2>3. new.m = [m EXCEPT ![p] = b]
      BY <1>9
  <2> QED  BY <2>1, <2>2, <2>3
<1>13. g.online = f.online /\ g.target = f.target
    BY <1>2, <1>7
<1> QED  BY <1>10, <1>11, <1>12, <1>13 DEF Rebound, Names

LEMMA NotRefused ==
    ASSUME NEW f, NEW m, NEW p \in Project, NEW gen, NEW src, NEW root, NEW granted,
           Refusals(f, m, p, gen, src, root, granted) = {}
    PROVE  /\ Leads(f, src) \in f.online
           /\ \A q \in Project : q # p /\ Bound(m[q]) =>
                 m[q].dir # Leads(f, src) /\ m[q].root # RootFor(root, Leads(f, src))
<1> DEFINE dir == Leads(f, src)
           place == RootFor(root, dir)
           old == m[p]
           others == {m[q] : q \in {q \in Project \ {p} : Bound(m[q])}}
           moved == /\ Bound(old)
                    /\ old.gen = gen
                    /\ ~ValidateWorktreeRoot(f, old) \/ old.dir # dir \/ old.root # place
           refused == {code \in {"invalid_path", "configuration_conflict"} :
                          IF code = "invalid_path"
                          THEN \E b \in others : ~ValidateWorktreeRoot(f, b)
                          ELSE CheckoutTaken(f, others, dir)}
           full == /\ f.roots[place] = "used"
                   /\ ~(\/ Bound(old) /\ ValidateWorktreeRoot(f, old) /\ old.root = place
                        \/ place \in granted)
<1>1. Refusals(f, m, p, gen, src, root, granted) =
         IF dir \notin f.online THEN {"invalid_path"}
         ELSE IF moved THEN {"configuration_conflict"}
         ELSE IF refused # {} THEN refused
         ELSE IF \E b \in others : b.root = place THEN {"configuration_conflict"}
         ELSE IF full THEN {"invalid_path"}
         ELSE {}
    BY Zenon DEF Refusals
<1>2. \A q \in Project : q # p /\ Bound(m[q]) => m[q] \in others
    OBVIOUS
<1> HIDE DEF others, moved, full
<1>3. dir \in f.online /\ refused = {} /\ ~\E b \in others : b.root = place
  <2> HIDE DEF refused, dir, place
  <2> QED  BY <1>1
<1>4. (\A b \in others : ValidateWorktreeRoot(f, b)) /\ ~CheckoutTaken(f, others, dir)
    BY <1>3
<1>5. \A b \in others : b.dir # dir
    BY <1>4 DEF CheckoutTaken
<1> QED  BY <1>2, <1>3, <1>5

(* The directories p is bound to are there, and apart from the others. *)
Valid(st, new, b) ==
    /\ b.dir \in st.fs.online /\ Leads(st.fs, b.src) = b.dir
    /\ BindingsApart(st.m) => BindingsApart(new.m)

LEMMA ApplyIsValid ==
    ASSUME NEW st, NEW new, NEW p, NEW gen, NEW src, NEW root, NEW granted,
           Accepted(st, new, p, gen, src, root, granted),
           NEW b, Rebound(st, new, p, b), Names(st, b, gen, src, root)
    PROVE  Valid(st, new, b) /\ b.dir \in Dir /\ (root # None => b.root \in Root)
<1>1. /\ st \in NodeStates /\ p \in Project /\ src \in Path \cup Dir /\ root \in Places
      /\ Refusals(st.fs, st.m, p, gen, src, root, granted) = {}
      /\ b.src = src /\ b.dir = Leads(st.fs, src) /\ b.root = RootFor(root, Leads(st.fs, src))
      /\ new.m = [st.m EXCEPT ![p] = b]
    BY DEF Accepted, Rebound, Names
<1>2. PICK m \in [Project -> Bindings] : m = st.m /\ st.fs \in Filesystems
    BY <1>1, NodeStateFacts
<1>3. /\ b.dir \in st.fs.online
      /\ \A q \in Project : q # p /\ Bound(m[q]) => m[q].dir # b.dir /\ m[q].root # b.root
    BY <1>1, <1>2, NotRefused
<1>4. BindingsApart(m) => BindingsApart(new.m)
  <2>1. \A q \in Project : new.m[q] = IF q = p THEN b ELSE m[q]
      BY <1>1, <1>2
  <2> QED  BY <1>3, <2>1 DEF BindingsApart
<1>5. b.dir \in Dir /\ (root # None => b.root \in Root)
    BY <1>1, <1>2, PlaceFacts
<1> QED  BY <1>1, <1>2, <1>3, <1>4, <1>5 DEF Valid

LEMMA RestoreIs ==
    ASSUME NEW st \in NodeStates, NEW p \in Project, NEW a \in Acks,
           NEW new, new = RestoreOwnership(st, p, a), new # st
    PROVE  \E b : Rebound(st, new, p, b) /\ Valid(st, new, b) /\ Tied(b, a) /\ b.src = b.dir
<1>1. a.gen \in Nat /\ a.root \in Root \cup {None} /\ a.root \in Places /\ a.root # Default
  <2>1. a.gen \in Nat /\ a.root \in Root \cup {None}
      BY DEF Acks
  <2> QED  BY <2>1, PlacesAssumption DEF Places
<1>2. a.dir \in st.fs.online /\ new = apply(st, p, a.gen, a.dir, a.root, {a.root})
    BY DEF RestoreOwnership
<1>3. Refusals(st.fs, st.m, p, a.gen, a.dir, a.root, {a.root}) = {}
    BY <1>2 DEF apply
<1>4. st.fs.online \subseteq Dir
    BY NodeStateFacts
<1>5. a.dir \in Dir /\ Leads(st.fs, a.dir) = a.dir /\ RootFor(a.root, a.dir) = a.root
    BY <1>1, <1>2, <1>4, PlacesAssumption DEF Leads, RootFor
<1>6. Accepted(st, new, p, a.gen, a.dir, a.root, {a.root})
    BY <1>1, <1>2, <1>3, <1>5 DEF Accepted
<1>7. PICK b : Rebound(st, new, p, b) /\ Names(st, b, a.gen, a.dir, a.root)
    BY <1>6, ApplyIs
<1>8. Valid(st, new, b)
    BY <1>6, <1>7, ApplyIsValid
<1>9. Tied(b, a) /\ b.src = b.dir
    BY <1>5, <1>7 DEF Names, Tied
<1> QED  BY <1>7, <1>8, <1>9

LEMMA AdoptIs ==
    ASSUME NEW st \in NodeStates, NEW p \in Project, NEW cfg \in Configs,
           NEW new, new = AdoptLegacy(st, p, cfg), new # st
    PROVE  \E b : Rebound(st, new, p, b) /\ Valid(st, new, b) /\ b.gen = 0 /\ b.root \in Root
<1>1. cfg.path \in Path \cup Dir /\ cfg.root \in Places /\ cfg.root # None
    BY PlacesAssumption DEF Configs, Places
<1>2. new = apply(st, p, 0, cfg.path, cfg.root, {cfg.root} \ {Default})
    BY DEF AdoptLegacy
<1>3. Refusals(st.fs, st.m, p, 0, cfg.path, cfg.root, {cfg.root} \ {Default}) = {}
    BY <1>2 DEF apply
<1>4. Accepted(st, new, p, 0, cfg.path, cfg.root, {cfg.root} \ {Default})
    BY <1>1, <1>2, <1>3 DEF Accepted
<1>5. PICK b : Rebound(st, new, p, b) /\ Names(st, b, 0, cfg.path, cfg.root)
    BY <1>4, ApplyIs
<1>6. Valid(st, new, b) /\ b.root \in Root
    BY <1>1, <1>4, <1>5, ApplyIsValid
<1> QED  BY <1>5, <1>6 DEF Names

(* What a step of the cache may make of project p's binding. *)
Owned(b, a) == a # NoAck /\ Tied(b, a) /\ b.src = b.dir
Adopted(b) == b.gen = 0 /\ b.root \in Root

RestoredOk(st) ==
    /\ st \in NodeStates /\ st.fs.target = fs.target
    /\ (\A q \in Project : ~Bound(bindings[q])) =>
          /\ BindingsApart(st.m)
          /\ \A q \in Project : Bound(st.m[q]) => Owned(st.m[q], appliedAck[q])

LEMMA RestoreOk ==
    ASSUME SyncTypes, NEW st, RestoredOk(st), NEW p \in Project, appliedAck[p] # NoAck,
           NEW new, new = RestoreOwnership(st, p, appliedAck[p])
    PROVE  RestoredOk(new)
<1>1. CASE new = st
    BY <1>1
<1>2. CASE new # st
  <2>1. st \in NodeStates /\ appliedAck[p] \in Acks
      BY DEF RestoredOk, SyncTypes
  <2>2. PICK b : Rebound(st, new, p, b) /\ Valid(st, new, b) /\ Tied(b, appliedAck[p]) /\ b.src = b.dir
      BY <1>2, <2>1, RestoreIs
  <2>3. st.m \in [Project -> Bindings]
      BY <2>1, NodeStateFacts
  <2>4. \A q \in Project : new.m[q] = IF q = p THEN b ELSE st.m[q]
      BY <2>2, <2>3 DEF Rebound
  <2> QED  BY <2>2, <2>4 DEF RestoredOk, Rebound, Valid, Owned
<1> QED  BY <1>1, <1>2

RestoreStep(n, st) ==
    IF appliedAck[Order[n]] = NoAck THEN st ELSE RestoreOwnership(st, Order[n], appliedAck[Order[n]])

RestoredOf(g) ==
    [n \in 0..Len(Order) |-> IF n = 0 THEN NodeState ELSE RestoreStep(n, g[n - 1])]

LEMMA RestoreStepOk ==
    ASSUME SyncTypes, NEW n \in 1..Len(Order), NEW st
    PROVE  /\ st \in NodeStates => RestoreStep(n, st) \in NodeStates
           /\ RestoredOk(st) => RestoredOk(RestoreStep(n, st))
<1>1. PICK p \in Project : p = Order[n] /\ appliedAck[p] \in Acks
    BY OrderFacts DEF SyncTypes
<1>2. ASSUME st \in NodeStates PROVE RestoreStep(n, st) \in NodeStates
  <2>1. PICK new : new = RestoreOwnership(st, p, appliedAck[p])
      OBVIOUS
  <2>2. new \in NodeStates
    <3>1. CASE new = st
        BY <1>2, <3>1
    <3>2. CASE new # st
      <4>1. \E b : Rebound(st, new, p, b)
          BY <1>1, <1>2, <2>1, <3>2, RestoreIs
      <4> QED  BY <4>1 DEF Rebound
    <3> QED  BY <3>1, <3>2
  <2> QED  BY <1>1, <1>2, <2>1, <2>2 DEF RestoreStep
<1>3. ASSUME RestoredOk(st) PROVE RestoredOk(RestoreStep(n, st))
  <2>1. PICK new : new = RestoreOwnership(st, p, appliedAck[p])
      OBVIOUS
  <2>2. appliedAck[p] # NoAck => RestoredOk(new)
      BY <1>3, <2>1, RestoreOk
  <2>3. RestoreStep(n, st) = IF appliedAck[p] = NoAck THEN st ELSE new
      BY <1>1, <2>1 DEF RestoreStep
  <2> QED  BY <1>3, <2>2, <2>3
<1> QED  BY <1>2, <1>3

LEMMA RestoredIs == ASSUME SyncTypes PROVE RestoredUpTo = RestoredOf(RestoredUpTo)
<1> DEFINE S == NodeStates
           N == Len(Order)
           G == [n \in 1..N |-> [st \in S |-> RestoreStep(n, st)]]
<1>1. N \in Nat /\ NodeState \in S
    BY OrderFacts, NodeStateFacts
<1>2. \A n \in 1..N : \A st \in S : RestoreStep(n, st) \in S
    BY RestoreStepOk
<1> HIDE DEF S, N
<1>3. G \in [1..N -> [S -> S]]
    BY <1>2
<1>4. \A n \in 1..N : \A st \in S : G[n][st] = RestoreStep(n, st)
    OBVIOUS
<1> HIDE DEF G
<1>5. PICK f \in [0..N -> S] : Along(G, S, NodeState, N, f)
    BY <1>1, <1>3, FiniteRecursion, Zenon
<1>6. ASSUME NEW n \in 0..N PROVE f[n] = IF n = 0 THEN NodeState ELSE RestoreStep(n, f[n - 1])
  <2>1. CASE n = 0
      BY <1>5, <2>1 DEF Along
  <2>2. CASE n # 0
    <3>1. n \in 1..N /\ n - 1 \in 0..N
        BY <1>1, <2>2
    <3>2. f[n - 1] \in S
        BY <1>5, <3>1
    <3>3. f[n] = G[n][f[n - 1]]
        BY <1>5, <3>1 DEF Along
    <3> QED  BY <1>4, <2>2, <3>1, <3>2, <3>3
  <2> QED  BY <2>1, <2>2
<1>7. f = RestoredOf(f)
  <2>1. f \in [0..Len(Order) -> S]
      BY <1>5 DEF N
  <2> QED  BY <1>6, <2>1 DEF RestoredOf, N
<1>8. RestoredUpTo = CHOOSE g : g = RestoredOf(g)
  <2>1. \A g : RestoredOf(g) = [n \in 0..Len(Order) |->
                                  IF n = 0 THEN NodeState
                                  ELSE IF appliedAck[Order[n]] = NoAck THEN g[n - 1]
                                  ELSE RestoreOwnership(g[n - 1], Order[n], appliedAck[Order[n]])]
      BY Zenon DEF RestoredOf, RestoreStep
  <2> QED  BY <2>1, Zenon DEF RestoredUpTo
<1> QED  BY <1>7, <1>8

LEMMA RestoredIsOk == ASSUME SyncTypes PROVE RestoredOk(Restored)
<1> DEFINE N == Len(Order)
           S == {n \in 0..N : RestoredOk(RestoredUpTo[n])}
<1>1. N \in Nat
    BY OrderFacts
<1>2. RestoredUpTo[0] = NodeState /\ \A n \in 1..N : RestoredUpTo[n] = RestoreStep(n, RestoredUpTo[n - 1])
  <2>1. \A n \in 0..N : RestoredOf(RestoredUpTo)[n] =
           IF n = 0 THEN NodeState ELSE RestoreStep(n, RestoredUpTo[n - 1])
      BY DEF RestoredOf
  <2>2. 0 \in 0..N /\ \A n \in 1..N : n \in 0..N /\ n # 0
      BY <1>1
  <2> HIDE DEF N
  <2> QED  BY <2>1, <2>2, RestoredIs
<1>3. 0 \in S
  <2>1. RestoredOk(NodeState)
      BY NodeStateFacts DEF RestoredOk, BindingsApart
  <2> QED  BY <1>1, <1>2, <2>1
<1>4. ASSUME NEW n \in 1..N, n - 1 \in S PROVE n \in S
  <2>1. RestoredOk(RestoredUpTo[n - 1])
      BY <1>4
  <2>2. RestoredOk(RestoreStep(n, RestoredUpTo[n - 1]))
      BY <2>1, RestoreStepOk
  <2>3. n \in 0..N
      BY <1>1
  <2> QED  BY <1>2, <2>2, <2>3
<1>5. S \in SUBSET (0..N)
    OBVIOUS
<1>6. S = 0..N
  <2> HIDE DEF S, N
  <2> QED  BY <1>1, <1>3, <1>4, <1>5, UpTo
<1>7. N \in S
    BY <1>1, <1>6
<1> QED  BY <1>7 DEF Restored

PreparedOk(st, p) ==
    /\ st \in NodeStates
    /\ st.fs.online = fs.online /\ st.fs.target = fs.target
    /\ \A q \in Project : q # p => st.m[q] = bindings[q]
    /\ st.m[p] = bindings[p] \/ Owned(st.m[p], appliedAck[p]) \/ Adopted(st.m[p])
    /\ BindingsApart(bindings) => BindingsApart(st.m)

LEMMA ReboundPrepared ==
    ASSUME NEW p \in Project, NEW st, PreparedOk(st, p), NEW new, NEW b, Rebound(st, new, p, b),
           Valid(st, new, b), Owned(b, appliedAck[p]) \/ Adopted(b)
    PROVE  PreparedOk(new, p)
<1>1. st.m \in [Project -> Bindings]
    BY NodeStateFacts DEF PreparedOk
<1>2. \A q \in Project : new.m[q] = IF q = p THEN b ELSE st.m[q]
    BY <1>1 DEF Rebound
<1> QED  BY <1>2 DEF PreparedOk, Rebound, Valid

LEMMA PreparedIs ==
    ASSUME SyncTypes, NEW p \in Project, config[p].cfg \in Configs
    PROVE  PreparedOk(Prepared(p), p)
<1> DEFINE owner == appliedAck[p]
           restored == owner # NoAck /\ ~(Bound(bindings[p]) /\ bindings[p].gen = owner.gen)
           first == IF restored THEN RestoreOwnership(NodeState, p, owner) ELSE NodeState
           adopts == p \in projectLegacy /\ Legacy[p] = config[p].cfg
           second == IF adopts THEN AdoptLegacy(first, p, Legacy[p]) ELSE first
<1>1. Prepared(p) = second
    BY DEF Prepared
<1>2. NodeState \in NodeStates /\ PreparedOk(NodeState, p) /\ owner \in Acks
  <2>1. NodeState \in NodeStates /\ NodeState.fs = fs /\ NodeState.m = bindings
      BY NodeStateFacts
  <2> QED  BY <2>1 DEF PreparedOk, SyncTypes
<1>3. PreparedOk(first, p)
  <2>1. CASE first = NodeState
      BY <1>2, <2>1
  <2>2. CASE first # NodeState
    <3>1. owner # NoAck /\ first = RestoreOwnership(NodeState, p, owner)
        BY <2>2
    <3> HIDE DEF first, owner, restored
    <3>2. PICK b : /\ Rebound(NodeState, first, p, b) /\ Valid(NodeState, first, b)
                   /\ Tied(b, owner) /\ b.src = b.dir
        BY <1>2, <2>2, <3>1, RestoreIs
    <3>3. Owned(b, appliedAck[p])
        BY <3>1, <3>2 DEF Owned, owner
    <3> QED  BY <1>2, <3>2, <3>3, ReboundPrepared
  <2> QED  BY <2>1, <2>2
<1>4. PreparedOk(second, p)
  <2> HIDE DEF first
  <2>1. CASE second = first
      BY <1>3, <2>1
  <2>2. CASE second # first
    <3>1. Legacy[p] \in Configs /\ second = AdoptLegacy(first, p, Legacy[p]) /\ first \in NodeStates
        BY <1>3, <2>2 DEF PreparedOk
    <3> HIDE DEF second, adopts
    <3>2. PICK b : /\ Rebound(first, second, p, b) /\ Valid(first, second, b)
                   /\ b.gen = 0 /\ b.root \in Root
        BY <2>2, <3>1, AdoptIs
    <3>3. Adopted(b)
        BY <3>2 DEF Adopted
    <3> QED  BY <1>3, <3>2, <3>3, ReboundPrepared
  <2> QED  BY <2>1, <2>2
<1> QED  BY <1>1, <1>4

LEMMA RefusalCodes ==
    ASSUME NEW f, NEW m, NEW p, NEW gen, NEW src, NEW root, NEW granted
    PROVE  Refusals(f, m, p, gen, src, root, granted) \subseteq {"invalid_path", "configuration_conflict"}
<1> DEFINE dir == Leads(f, src)
           place == RootFor(root, dir)
           old == m[p]
           others == {m[q] : q \in {q \in Project \ {p} : Bound(m[q])}}
           moved == /\ Bound(old)
                    /\ old.gen = gen
                    /\ ~ValidateWorktreeRoot(f, old) \/ old.dir # dir \/ old.root # place
           refused == {code \in {"invalid_path", "configuration_conflict"} :
                          IF code = "invalid_path"
                          THEN \E b \in others : ~ValidateWorktreeRoot(f, b)
                          ELSE CheckoutTaken(f, others, dir)}
           full == /\ f.roots[place] = "used"
                   /\ ~(\/ Bound(old) /\ ValidateWorktreeRoot(f, old) /\ old.root = place
                        \/ place \in granted)
<1>1. Refusals(f, m, p, gen, src, root, granted) =
         IF dir \notin f.online THEN {"invalid_path"}
         ELSE IF moved THEN {"configuration_conflict"}
         ELSE IF refused # {} THEN refused
         ELSE IF \E b \in others : b.root = place THEN {"configuration_conflict"}
         ELSE IF full THEN {"invalid_path"}
         ELSE {}
    BY Zenon DEF Refusals
<1>2. refused \subseteq {"invalid_path", "configuration_conflict"}
    BY Zenon
<1> HIDE DEF others, moved, full, refused, dir, place
<1> QED  BY <1>1, <1>2

(* What ApplyBinding makes of a prepared cache. *)
AppliedOk(p, code, new) ==
    /\ new \in NodeStates
    /\ new.fs.online = fs.online /\ new.fs.target = fs.target
    /\ \A q \in Project : q # p => new.m[q] = bindings[q]
    /\ BindingsApart(bindings) => BindingsApart(new.m)
    /\ code # "applied" => PreparedOk(new, p)
    /\ code = "applied" =>
          /\ new.m[p].gen = config[p].gen /\ new.m[p].dir \in Dir /\ new.m[p].root \in Root
          /\ new.m[p].dir \in fs.online /\ new.m[p].dir = Leads(fs, config[p].cfg.path)
          /\ new.m[p].root = RootFor(config[p].cfg.root, new.m[p].dir)

LEMMA ApplyingCodes ==
    ASSUME SyncTypes, NEW p \in Project, config[p].cfg \in Configs, NEW st, st = Prepared(p),
           NEW codes, codes = Refusals(st.fs, st.m, p, config[p].gen, config[p].cfg.path, config[p].cfg.root, {}),
           NEW new, new = apply(st, p, config[p].gen, config[p].cfg.path, config[p].cfg.root, {}),
           NEW code, code \in (IF codes = {} THEN {"applied"} ELSE codes)
    PROVE  AppliedOk(p, code, new) /\ code \in {"applied", "invalid_path", "configuration_conflict"}
<1>1. PICK cfg \in Configs, gen \in Nat : cfg = config[p].cfg /\ gen = config[p].gen
    BY MessageFacts DEF SyncTypes
<1>2. PreparedOk(st, p) /\ st \in NodeStates /\ st.m \in [Project -> Bindings]
    BY PreparedIs, NodeStateFacts DEF PreparedOk
<1>3. cfg.path \in Path \cup Dir /\ cfg.root \in Places /\ cfg.root # None
    BY PlacesAssumption DEF Configs, Places
<1>4. CASE codes # {}
  <2>1. new = st
      BY <1>4 DEF apply
  <2>2. code \in {"invalid_path", "configuration_conflict"}
      BY <1>4, RefusalCodes
  <2> QED  BY <1>2, <2>1, <2>2 DEF AppliedOk, PreparedOk
<1>5. CASE codes = {}
  <2>1. Accepted(st, new, p, gen, cfg.path, cfg.root, {})
      BY <1>1, <1>2, <1>3, <1>5 DEF Accepted
  <2>2. PICK b : Rebound(st, new, p, b) /\ Names(st, b, gen, cfg.path, cfg.root)
      BY <2>1, ApplyIs
  <2>3. Valid(st, new, b) /\ b.dir \in Dir /\ b.root \in Root
      BY <1>3, <2>1, <2>2, ApplyIsValid
  <2>4. \A q \in Project : new.m[q] = IF q = p THEN b ELSE st.m[q]
      BY <1>2, <2>2 DEF Rebound
  <2>5. code = "applied"
      BY <1>5
  <2>6. Leads(st.fs, cfg.path) = Leads(fs, cfg.path)
      BY <1>2 DEF PreparedOk, Leads
  <2>7. /\ new \in NodeStates /\ new.fs.online = fs.online /\ new.fs.target = fs.target
        /\ BindingsApart(bindings) => BindingsApart(new.m)
        /\ b.dir \in fs.online
      BY <1>2, <2>2, <2>3 DEF PreparedOk, Rebound, Valid
  <2>8. b.gen = gen /\ b.dir = Leads(fs, cfg.path) /\ b.root = RootFor(cfg.root, b.dir)
      BY <2>2, <2>6 DEF Names
  <2> QED  BY <1>1, <1>2, <2>3, <2>4, <2>5, <2>7, <2>8 DEF AppliedOk, PreparedOk
<1> QED  BY <1>4, <1>5

LEMMA ApplyingFacts ==
    ASSUME SyncInv, applying.step = "saved"
    PROVE  /\ applying # Idle /\ applying.project \in Project /\ ~NothingBegun
           /\ config[applying.project].gen > 0 /\ config[applying.project].gen \in Nat
           /\ config[applying.project].cfg \in Configs
           /\ projectCurrent[applying.project] = NoAck
<1>1. applying \in Saved
    BY SentFacts DEF SyncTypes, Idle, Outcomes
<1>2. applying # Idle /\ applying.project \in Project
    BY <1>1 DEF Saved, Idle
<1>3. config[applying.project].gen > 0 /\ projectCurrent[applying.project] = NoAck
    BY <1>2, SentFacts DEF ApplyingOk
<1>4. RecordOk(applying.project) /\ config[applying.project] \in Desired
    BY <1>2, SentFacts DEF SyncInv, SyncTypes
<1> QED  BY <1>2, <1>3, <1>4, MessageFacts DEF RecordOk, NothingBegun

(* The outcome of applying a generation; the cache and the filesystem may differ. *)
LEMMA AppliedKeeps ==
    ASSUME SyncInv, applying.step = "saved", NEW a \in Acks, a.gen = config[applying.project].gen,
           applying' = [step |-> "bound", project |-> applying.project, ack |-> a],
           fs' \in Filesystems, bindings' \in [Project -> Bindings],
           UNCHANGED <<recordVars, entryVars, netVars, sessionVars, cacheVars, projectCurrent, work, held, fault>>
    PROVE  SyncInv'
<1>1. UNCHANGED <<desired, lastAck, projectSent, projectApplied, config, ack, appliedAck,
                  projectCurrent, toServer, toNode, cur, phase, sess, opened, hello, outbound, work, held, fault>>
    BY DEF recordVars, entryVars, netVars, sessionVars, cacheVars
<1>2. PICK p \in Project : p = applying.project
    BY ApplyingFacts
<1>3. PICK x \in Outcomes : x = applying' /\ x.step = "bound" /\ x.project = p /\ x.ack = a
  <2>1. PICK y : y = [step |-> "bound", project |-> p, ack |-> a]
      OBVIOUS
  <2>2. y \in Outcomes /\ y.step = "bound" /\ y.project = p /\ y.ack = a
      BY <2>1 DEF Outcomes
  <2> QED  BY <1>2, <2>1, <2>2
<1>4. SyncTypes' /\ Linked' = Linked /\ AnswersKept
    BY <1>1, <1>3, SentFacts, SameAnswers DEF SyncTypes, Linked
<1>5. StreamsOk'
    BY <1>1, SentFacts, ApplyingFacts DEF StreamsOk
<1>6. ApplyingOk'
  <2>1. /\ config[p].gen > 0 /\ projectCurrent[p] = NoAck
        /\ Linked => config[p].gen <= projectSent[p]
      BY <1>2, ApplyingFacts, SentFacts DEF ApplyingOk
  <2> QED  BY <1>1, <1>2, <1>3, <1>4, <2>1 DEF ApplyingOk
<1>7. MutationsOk'
    BY <1>1, <1>4, MutationsStay
<1> QED  BY <1>1, <1>4, <1>5, <1>6, <1>7, QuietKeeps

LEMMA OutcomeIs ==
    ASSUME NEW gen \in Nat, NEW b, NEW code \in {"applied", "invalid_path", "configuration_conflict"},
           code = "applied" => b.dir \in Dir /\ b.root \in Root
    PROVE  /\ Outcome(gen, code, b) \in Acks
           /\ Outcome(gen, code, b).gen = gen /\ Outcome(gen, code, b).status = code
           /\ code = "applied" => Outcome(gen, code, b).dir = b.dir /\ Outcome(gen, code, b).root = b.root
<1>1. PICK d \in Dir \cup {None}, r \in Root \cup {None} :
         /\ d = IF code = "applied" THEN b.dir ELSE None
         /\ r = IF code = "applied" THEN b.root ELSE None
    OBVIOUS
<1>2. PICK a : a = [gen |-> gen, status |-> code, dir |-> d, root |-> r]
    OBVIOUS
<1>3. Outcome(gen, code, b) = a
    BY <1>1, <1>2 DEF Outcome
<1>4. a \in Acks /\ a.gen = gen /\ a.status = code /\ a.dir = d /\ a.root = r
    BY <1>2 DEF Acks
<1> QED  BY <1>1, <1>3, <1>4

(* ApplyBinding as the proofs use it. *)
LEMMA ApplyBindingIs ==
    ASSUME SyncInv, ApplyBinding
    PROVE  /\ applying.step = "saved"
           /\ \E new : \E code \in {"applied", "invalid_path", "configuration_conflict"} :
                 /\ AppliedOk(applying.project, code, new) /\ bindings' = new.m /\ fs' = new.fs
                 /\ applying' = [step |-> "bound", project |-> applying.project,
                                 ack |-> Outcome(config[applying.project].gen, code, new.m[applying.project])]
           /\ UNCHANGED <<recordVars, entryVars, netVars, sessionVars, cacheVars, projectCurrent, work, held,
                          submitted, fault>>
<1>1. applying.step = "saved"
    BY DEF ApplyBinding
<1>2. PICK p \in Project : p = applying.project /\ config[p].cfg \in Configs
    BY <1>1, ApplyingFacts
<1>3. PICK st : st = Prepared(p)
    OBVIOUS
<1>4. PICK codes : codes = Refusals(st.fs, st.m, p, config[p].gen, config[p].cfg.path, config[p].cfg.root, {})
    OBVIOUS
<1>5. PICK new : new = apply(st, p, config[p].gen, config[p].cfg.path, config[p].cfg.root, {})
    OBVIOUS
<1>6. /\ bindings' = new.m /\ fs' = new.fs
      /\ \E code \in (IF codes = {} THEN {"applied"} ELSE codes) :
            applying' = [step |-> "bound", project |-> p, ack |-> Outcome(config[p].gen, code, new.m[p])]
      /\ UNCHANGED <<recordVars, entryVars, netVars, sessionVars, cacheVars, projectCurrent, work, held,
                     submitted, fault>>
    BY <1>2, <1>3, <1>4, <1>5, Zenon DEF ApplyBinding
<1>7. PICK code \in (IF codes = {} THEN {"applied"} ELSE codes) :
         applying' = [step |-> "bound", project |-> p, ack |-> Outcome(config[p].gen, code, new.m[p])]
    BY <1>6
<1>8. AppliedOk(p, code, new) /\ code \in {"applied", "invalid_path", "configuration_conflict"}
  <2>1. SyncTypes
      BY SentFacts
  <2> QED  BY <1>2, <1>3, <1>4, <1>5, <2>1, ApplyingCodes
<1> QED  BY <1>1, <1>2, <1>6, <1>7, <1>8

LEMMA ApplyBindingKeeps == ASSUME SyncInv, ApplyBinding PROVE SyncInv'
<1>1. PICK new : \E code \in {"applied", "invalid_path", "configuration_conflict"} :
         /\ AppliedOk(applying.project, code, new) /\ bindings' = new.m /\ fs' = new.fs
         /\ applying' = [step |-> "bound", project |-> applying.project,
                         ack |-> Outcome(config[applying.project].gen, code, new.m[applying.project])]
    BY ApplyBindingIs
<1>2. PICK code \in {"applied", "invalid_path", "configuration_conflict"} :
         /\ AppliedOk(applying.project, code, new) /\ bindings' = new.m /\ fs' = new.fs
         /\ applying' = [step |-> "bound", project |-> applying.project,
                         ack |-> Outcome(config[applying.project].gen, code, new.m[applying.project])]
    BY <1>1
<1>3. new.m \in [Project -> Bindings] /\ new.fs \in Filesystems
    BY <1>1, NodeStateFacts DEF AppliedOk
<1>4. applying.step = "saved" /\ config[applying.project].gen \in Nat
    BY ApplyBindingIs, ApplyingFacts
<1>5. PICK a \in Acks : /\ a = Outcome(config[applying.project].gen, code, new.m[applying.project])
                        /\ a.gen = config[applying.project].gen
    BY <1>2, <1>4, OutcomeIs DEF AppliedOk
<1> QED  BY <1>2, <1>3, <1>4, <1>5, AppliedKeeps, ApplyBindingIs

LEMMA ApplyCancelledIs ==
    ASSUME SyncInv, ApplyCancelled
    PROVE  /\ applying.step = "saved" /\ fs' \in Filesystems
           /\ fs'.target = fs.target
           /\ \E a \in Acks :
                 /\ applying' = [step |-> "bound", project |-> applying.project, ack |-> a]
                 /\ a.gen = config[applying.project].gen /\ a.status = "invalid_path"
           /\ UNCHANGED <<recordVars, entryVars, netVars, sessionVars, cacheVars, projectCurrent, bindings,
                          work, held, submitted, fault>>
<1>1. applying.step = "saved"
    BY DEF ApplyCancelled
<1>2. PICK p \in Project : p = applying.project /\ config[p].cfg \in Configs /\ config[p].gen \in Nat
    BY <1>1, ApplyingFacts
<1>3. PICK st : st = Prepared(p)
    OBVIOUS
<1>4. PICK codes : codes = Refusals(st.fs, st.m, p, config[p].gen, config[p].cfg.path, config[p].cfg.root, {})
    OBVIOUS
<1>5. PICK new : new = apply(st, p, config[p].gen, config[p].cfg.path, config[p].cfg.root, {})
    OBVIOUS
<1>6. fs' = fs \/ fs' = new.fs
    BY <1>2, <1>3, <1>5, Zenon DEF ApplyCancelled
<1>7. /\ applying' = [step |-> "bound", project |-> p, ack |-> Outcome(config[p].gen, "invalid_path", NoBinding)]
      /\ UNCHANGED <<recordVars, entryVars, netVars, sessionVars, cacheVars, projectCurrent, bindings,
                     work, held, submitted, fault>>
    BY <1>2, Zenon DEF ApplyCancelled
<1>8. PICK code : code \in (IF codes = {} THEN {"applied"} ELSE codes)
    OBVIOUS
<1>9. SyncTypes
    BY SentFacts
<1>10. AppliedOk(p, code, new)
    BY <1>2, <1>3, <1>4, <1>5, <1>8, <1>9, ApplyingCodes
<1>11. fs' \in Filesystems /\ fs'.target = fs.target
    BY <1>6, <1>9, <1>10, NodeStateFacts DEF AppliedOk, SyncTypes
<1>12. PICK a \in Acks : /\ a = Outcome(config[p].gen, "invalid_path", NoBinding)
                         /\ a.gen = config[p].gen /\ a.status = "invalid_path"
    BY <1>2, OutcomeIs
<1> QED  BY <1>1, <1>2, <1>7, <1>11, <1>12

LEMMA ApplyCancelledKeeps == ASSUME SyncInv, ApplyCancelled PROVE SyncInv'
<1>1. PICK a \in Acks :
         /\ applying' = [step |-> "bound", project |-> applying.project, ack |-> a]
         /\ a.gen = config[applying.project].gen
    BY ApplyCancelledIs
<1>2. bindings' \in [Project -> Bindings]
    BY ApplyCancelledIs, SentFacts DEF SyncTypes
<1> QED  BY <1>1, <1>2, ApplyCancelledIs, AppliedKeeps

LEMMA RegisteredKeeps == ASSUME SyncInv, Registered PROVE SyncInv'
<1>1. /\ phase = "greeting" /\ toNode # <<>> /\ toNode' = Tail(toNode) /\ phase' = "open"
      /\ bindings' = Restored.m /\ fs' = Restored.fs
      /\ \/ Linked /\ toServer' = Append(toServer, [type |-> "offer"])
         \/ toServer' = toServer
      /\ UNCHANGED <<desired, lastAck, cur, projectSent, projectApplied, outbound, hello, sess, opened,
                     config, ack, appliedAck, projectCurrent, applying, work, held, fault>>
    BY DEF Registered, recordVars, entryVars, cacheVars
<1>2. Restored.m \in [Project -> Bindings] /\ Restored.fs \in Filesystems
    BY SentFacts, RestoredIsOk, NodeStateFacts DEF RestoredOk
<1>3. sess # 0 /\ sess \notin hello /\ toNode \in Seq(NodeMessages) /\ Tail(toNode) \in Seq(NodeMessages)
    BY <1>1, HeadOfNode
<1>4. Linked' = Linked /\ AnswersKept
    BY <1>1, SameAnswers DEF Linked
<1>5. SyncTypes'
  <2>1. toServer' \in Seq(ServerMessages)
    <3>1. [type |-> "offer"] \in ServerMessages
        BY DEF ServerMessages
    <3>2. \A m \in ServerMessages : Append(toServer, m) \in Seq(ServerMessages)
        BY SentFacts DEF SyncTypes
    <3> QED  BY <1>1, <3>1, <3>2, SentFacts DEF SyncTypes
  <2> QED  BY <1>1, <1>2, <1>3, <2>1, SentFacts DEF SyncTypes
<1>6. StreamsOk'
  <2>1. cur = 0 => toServer' = <<>>
      BY <1>1, SentFacts DEF StreamsOk, Linked
  <2> QED  BY <1>1, <1>3, <2>1, SentFacts DEF StreamsOk
<1>7. \A q \in Project : /\ desired[q].gen \in Nat /\ projectSent[q] \in Nat /\ ack[q].gen \in Nat
                         /\ projectSent[q] <= desired[q].gen
    BY SentFacts, MessageFacts DEF SyncTypes, SyncInv, RecordOk
<1>8. Steady
    BY <1>1, <1>4, <1>7 DEF Steady
<1>9. ApplyingOk' /\ MutationsOk'
    BY <1>1, <1>4, <1>5, SentFacts, ApplyingStays, MutationsStay
<1>10. ToNodeOk'
    BY <1>1, <1>4, <1>5, <1>8, ToNodeStays
<1>11. ToServerOk'
  <2>1. CASE toServer' = toServer
      BY <1>1, <1>4, <1>5, <1>7, <2>1, SentFacts, ToServerStays
  <2>2. CASE Linked /\ toServer' = Append(toServer, [type |-> "offer"])
      BY <1>1, <1>4, <1>5, <2>2, ToServerOffers
  <2> QED  BY <1>1, <2>1, <2>2
<1>12. \A q \in Project : RecordOk(q)'
    BY <1>1, <1>4, <1>7, RecordsStay
<1> QED  BY <1>5, <1>6, <1>9, <1>10, <1>11, <1>12 DEF SyncInv

LEMMA SyncStarts == ASSUME Init PROVE SyncInv
<1>1. NoDesired \in Desired /\ NoDesired.gen = 0 /\ NoDesired.cfg = None
    BY DEF NoDesired, Desired
<1>2. NoBinding \in Bindings
    BY DEF NoBinding, Bindings
<1>3. fs \in Filesystems
  <2>1. PICK t \in [Path -> Dir], o \in SUBSET Dir, s \in [Root -> {"missing", "empty", "used"}] :
            /\ fs.target = t /\ fs.online = o /\ fs.roots = s
            /\ fs = [target |-> t, online |-> o, roots |-> s]
      BY DEF Init
  <2> QED  BY <2>1 DEF Filesystems
<1>4. SyncTypes
    BY <1>1, <1>2, <1>3, MessageFacts DEF Init, SyncTypes
<1>5. StreamsOk
    BY DEF Init, StreamsOk, NothingBegun
<1>6. ApplyingOk /\ ToNodeOk /\ ToServerOk /\ MutationsOk
    BY DEF Init, ApplyingOk, ToNodeOk, ToServerOk, MutationsOk, Rising, OneOutcome
<1>7. ASSUME NEW p \in Project PROVE RecordOk(p)
  <2>1. /\ desired[p] = NoDesired /\ config[p] = NoDesired /\ lastAck[p] = NoAck /\ ack[p] = NoAck
        /\ appliedAck[p] = NoAck /\ projectCurrent[p] = NoAck /\ projectSent[p] = 0 /\ ~Linked
      BY DEF Init, NoAcks, Linked
  <2> QED  BY <1>1, <2>1, MessageFacts DEF RecordOk
<1> QED  BY <1>4, <1>5, <1>6, <1>7 DEF SyncInv

LEMMA SyncStep == ASSUME SyncInv, [Next]_vars PROVE SyncInv'
<1>1. CASE UNCHANGED vars
  <2>1. UNCHANGED <<recordVars, entryVars, netVars, sessionVars, cacheVars, handlerVars, fs, fault>>
      BY <1>1 DEF vars
  <2>2. fs' \in Filesystems
      BY <2>1, SentFacts DEF SyncTypes
  <2> QED  BY <2>1, <2>2, LocalKeeps DEF handlerVars
<1>2. CASE CoordinatorStep
  <2>1. CASE \E p \in Project : (\E cfg \in Config[p] : RegisterProject(p, cfg)) \/ SubmitMutation(p)
      BY <2>1, RegisterKeeps, SubmitMutationKeeps
  <2>2. CASE projectUpdates
      BY <2>2, UpdatesKeep
  <2>3. CASE acknowledgeProject
      BY <2>3, AcknowledgeKeeps
  <2>4. CASE refuseAcknowledgement
      BY <2>4, RefuseKeeps
  <2>5. CASE adoptProjects
      BY <2>5, AdoptKeeps
  <2>6. CASE \E m \in outbound : DispatchMutation(m)
      BY <2>6, DispatchKeeps
  <2>7. CASE \E s \in hello : BeginSession(s)
      BY <2>7, BeginSessionKeeps
  <2>8. CASE EndSession
      BY <2>8, EndSessionKeeps
  <2> QED  BY <1>2, <2>1, <2>2, <2>3, <2>4, <2>5, <2>6, <2>7, <2>8 DEF CoordinatorStep
<1>3. CASE NodeStep
  <2>1. CASE NodeStart \/ OpenStream \/ Registered
      BY <2>1, NodeStartKeeps, OpenStreamKeeps, RegisteredKeeps
  <2>2. CASE SaveProjectConfig \/ SaveProjectAck
      BY <2>2, SaveProjectConfigKeeps, SaveProjectAckKeeps
  <2>3. CASE ApplyBinding \/ ApplyCancelled
      BY <2>3, ApplyBindingKeeps, ApplyCancelledKeeps
  <2>4. CASE RefuseProjectAck \/ SessionClosed \/ NodeCrash
      BY <2>4, LeavingKeeps
  <2>5. CASE ReceiveMutation
      BY <2>5, ReceiveMutationKeeps
  <2>6. CASE \E m \in work : resolveManaged(m)
      BY <2>6, ResolveKeeps
  <2>7. CASE UseBinding \/ CloseSession
      BY <2>7, UseKeeps, CloseSessionKeeps
  <2> QED  BY <1>3, <2>1, <2>2, <2>3, <2>4, <2>5, <2>6, <2>7 DEF NodeStep
<1>4. CASE FilesystemStep
    BY <1>4, FilesystemKeeps
<1> QED  BY <1>1, <1>2, <1>3, <1>4 DEF Next

(* The generations agree on every stream and in both journals. *)
THEOREM SyncInvariant == Spec => []SyncInv
<1>1. Init => SyncInv
    BY SyncStarts
<1>2. SyncInv /\ [Next]_vars => SyncInv'
    BY SyncStep
<1> QED  BY <1>1, <1>2, PTL DEF Spec

(* Both journals agree on what a generation is: no stream brings a project's  *)
(* generations out of order or a registration under the generation of         *)
(* another, and the coordinator is never told what it cannot have sent.       *)
THEOREM GenerationsAgreeAlways == Spec => []GenerationsAgree
<1>1. SyncInv => GenerationsAgree
    BY DEF SyncInv, SyncTypes, RecordOk, GenerationsAgree
<1> QED  BY <1>1, SyncInvariant, PTL

-----------------------------------------------------------------------------
(* The cache. *)
LEMMA CacheStays ==
    ASSUME CacheInv, UNCHANGED <<bindings, appliedAck, config, projectCurrent>>,
           \A p \in Project : ~Binds(p) /\ ~Binds(p)',
           held' \in {held, NoMutation}
    PROVE  CacheInv'
<1>1. \A p \in Project : BindingOk(p)'
    BY DEF CacheInv, BindingOk
<1>2. BindingsApart(bindings)'
    BY DEF CacheInv, BindingsApart
<1>3. BindingKept'
    BY DEF CacheInv, BindingKept
<1> QED  BY <1>1, <1>2, <1>3 DEF CacheInv

LEMMA CacheSame ==
    ASSUME CacheInv, UNCHANGED <<bindings, appliedAck, config, projectCurrent, applying>>,
           held' \in {held, NoMutation}
    PROVE  CacheInv'
<1>1. \A p \in Project : BindingOk(p)'
    BY DEF CacheInv, BindingOk, Binds
<1>2. BindingsApart(bindings)'
    BY DEF CacheInv, BindingsApart
<1>3. BindingKept'
    BY DEF CacheInv, BindingKept
<1> QED  BY <1>1, <1>2, <1>3 DEF CacheInv

LEMMA CacheApplies == ASSUME SyncInv, CacheInv, ApplyBinding PROVE CacheInv'
<1>1. PICK p \in Project : p = applying.project /\ projectCurrent[p] = NoAck /\ applying.step = "saved"
                           /\ config[p].gen \in Nat
    BY ApplyBindingIs, ApplyingFacts
<1>2. PICK new : \E code \in {"applied", "invalid_path", "configuration_conflict"} :
         /\ AppliedOk(p, code, new) /\ bindings' = new.m
         /\ applying' = [step |-> "bound", project |-> p, ack |-> Outcome(config[p].gen, code, new.m[p])]
    BY <1>1, ApplyBindingIs
<1>3. PICK code \in {"applied", "invalid_path", "configuration_conflict"} :
         /\ AppliedOk(p, code, new) /\ bindings' = new.m
         /\ applying' = [step |-> "bound", project |-> p, ack |-> Outcome(config[p].gen, code, new.m[p])]
    BY <1>2
<1>4. UNCHANGED <<config, appliedAck, projectCurrent, held>>
    BY ApplyBindingIs DEF cacheVars
<1>5. PICK a : /\ a = Outcome(config[p].gen, code, new.m[p]) /\ a.status = code /\ a.gen = config[p].gen
               /\ code = "applied" => a.dir = new.m[p].dir /\ a.root = new.m[p].root
    BY <1>1, <1>3, OutcomeIs DEF AppliedOk
<1>6. applying'.step = "bound" /\ applying'.project = p /\ applying'.ack = a
    BY <1>3, <1>5
<1>7. ASSUME NEW q \in Project PROVE BindingOk(q)'
  <2>1. BindingOk(q) /\ ~Binds(q)
      BY <1>1 DEF CacheInv, Binds
  <2>2. CASE q # p
    <3>1. bindings'[q] = bindings[q] /\ ~Binds(q)'
        BY <1>3, <1>6, <2>2 DEF AppliedOk, Binds
    <3> QED  BY <1>4, <2>1, <3>1 DEF BindingOk
  <2>3. CASE q = p /\ code = "applied"
    <3>1. /\ bindings'[p].gen = a.gen /\ bindings'[p].dir = a.dir /\ bindings'[p].root = a.root
          /\ bindings'[p].dir \in Dir /\ bindings'[p].root \in Root
        BY <1>3, <1>5, <2>3 DEF AppliedOk
    <3>2. Binds(p)' /\ Bound(bindings[p])'
        BY <1>5, <1>6, <2>3, <3>1, PlacesAssumption DEF Binds, Bound
    <3>3. projectCurrent'[p] = NoAck
        BY <1>1, <1>4
    <3> QED  BY <1>4, <1>6, <2>1, <2>3, <3>1, <3>2, <3>3, MessageFacts DEF BindingOk, Tied
  <2>4. CASE q = p /\ code # "applied"
    <3>1. /\ ~Binds(p)'
          /\ bindings'[p] = bindings[p] \/ Owned(bindings'[p], appliedAck[p]) \/ Adopted(bindings'[p])
        BY <1>3, <1>5, <1>6, <2>4 DEF Binds, AppliedOk, PreparedOk
    <3>2. projectCurrent'[p] = NoAck
        BY <1>1, <1>4
    <3>3. Bound(bindings'[p]) => bindings'[p].root \in Root
        BY <2>1, <2>4, <3>1 DEF BindingOk, Owned, Adopted, Tied
    <3>4. Bound(bindings'[p]) => bindings'[p].gen = 0 \/ Tied(bindings'[p], appliedAck[p])
        BY <2>1, <2>4, <3>1 DEF BindingOk, Owned, Adopted
    <3> QED  BY <1>4, <2>1, <2>4, <3>1, <3>2, <3>3, <3>4, MessageFacts DEF BindingOk
  <2> QED  BY <2>2, <2>3, <2>4
<1>8. BindingsApart(bindings')
    BY <1>3 DEF CacheInv, AppliedOk
<1>9. BindingKept'
    BY <1>4 DEF CacheInv, BindingKept
<1> QED  BY <1>7, <1>8, <1>9 DEF CacheInv

LEMMA CacheAcknowledges == ASSUME SyncInv, CacheInv, SaveProjectAck PROVE CacheInv'
<1>1. PICK p \in Project, a \in Acks : applying.project = p /\ applying.ack = a /\ applying.step = "bound"
  <2>1. applying.step = "bound" /\ applying \in {Idle} \cup Saved \cup Outcomes
      BY SentFacts DEF SaveProjectAck, SyncTypes
  <2>2. applying \in Outcomes
      BY <2>1 DEF Idle, Saved
  <2> QED  BY <2>1, <2>2 DEF Outcomes
<1>2. /\ appliedAck' = IF a.status = "applied" THEN [appliedAck EXCEPT ![p] = a] ELSE appliedAck
      /\ projectCurrent' = [projectCurrent EXCEPT ![p] = a] /\ applying' = Idle
      /\ UNCHANGED <<config, bindings, held>>
    BY <1>1 DEF SaveProjectAck
<1>3. \A q \in Project : /\ projectCurrent'[q] = IF q = p THEN a ELSE projectCurrent[q]
                         /\ appliedAck'[q] = IF q = p /\ a.status = "applied" THEN a ELSE appliedAck[q]
    BY <1>2, SentFacts DEF SyncTypes
<1>4. config[p].gen > 0 /\ a.gen = config[p].gen
  <2>1. applying # Idle
      BY <1>1 DEF Idle
  <2> QED  BY <1>1, <2>1, SentFacts DEF ApplyingOk
<1>5. ASSUME NEW q \in Project PROVE BindingOk(q)'
  <2>1. BindingOk(q) /\ ~Binds(q)'
      BY <1>2 DEF CacheInv, Binds, Idle
  <2>2. CASE q # p
    <3>1. ~Binds(q)
        BY <1>1, <2>2 DEF Binds
    <3> QED  BY <1>2, <1>3, <2>1, <2>2, <3>1 DEF BindingOk
  <2>3. CASE q = p /\ a.status = "applied"
    <3>1. Binds(p) /\ Bound(bindings[p]) /\ Tied(bindings[p], a)
        BY <1>1, <2>1, <2>3 DEF Binds, BindingOk
    <3>2. bindings[p] \in Bindings
        BY SentFacts DEF SyncTypes
    <3>3. bindings[p].dir \in Dir /\ bindings[p].root \in Root
        BY <2>1, <2>3, <3>1, <3>2 DEF Bindings, Bound, BindingOk
    <3> QED  BY <1>2, <1>3, <1>4, <2>1, <2>3, <3>1, <3>3 DEF BindingOk, Tied
  <2>4. CASE q = p /\ a.status # "applied"
    <3>1. ~Binds(p)
        BY <1>1, <2>4 DEF Binds
    <3> QED  BY <1>2, <1>3, <1>4, <2>1, <2>4, <3>1 DEF BindingOk
  <2> QED  BY <2>2, <2>3, <2>4
<1>6. BindingsApart(bindings')
    BY <1>2 DEF CacheInv
<1>7. BindingKept'
    BY <1>2 DEF CacheInv, BindingKept
<1> QED  BY <1>5, <1>6, <1>7 DEF CacheInv

LEMMA CacheConfigures == ASSUME SyncInv, CacheInv, SaveProjectConfig PROVE CacheInv'
<1> DEFINE msg == Head(toNode)
           p == msg.project
<1>1. applying = Idle /\ UNCHANGED <<appliedAck, bindings, held>>
    BY DEF SaveProjectConfig
<1>2. \/ UNCHANGED <<config, projectCurrent, applying>>
      \/ /\ config' = [config EXCEPT ![p] = [gen |-> msg.gen, cfg |-> msg.cfg]]
         /\ projectCurrent' = [projectCurrent EXCEPT ![p] = NoAck]
         /\ applying' = [step |-> "saved", project |-> p]
    BY DEF SaveProjectConfig
<1>3. \A q \in Project : ~Binds(q) /\ ~Binds(q)'
    BY <1>1, <1>2 DEF Binds, Idle
<1>4. ASSUME NEW q \in Project
      PROVE  projectCurrent'[q] = NoAck \/ (projectCurrent'[q] = projectCurrent[q] /\ config'[q] = config[q])
    BY <1>2, SentFacts DEF SyncTypes
<1>5. ASSUME NEW q \in Project PROVE BindingOk(q)'
  <2>1. BindingOk(q)
      BY DEF CacheInv
  <2> QED  BY <1>1, <1>3, <1>4, <2>1, MessageFacts DEF BindingOk
<1>6. BindingsApart(bindings')
    BY <1>1 DEF CacheInv
<1>7. BindingKept'
    BY <1>1 DEF CacheInv, BindingKept
<1> QED  BY <1>5, <1>6, <1>7 DEF CacheInv

LEMMA CacheForgets == ASSUME CacheInv, NEW next, Forget(next), UNCHANGED appliedAck PROVE CacheInv'
<1>1. /\ \A p \in Project : ~Bound(bindings'[p]) /\ projectCurrent'[p] = NoAck /\ ~Binds(p)'
      /\ held' = NoMutation
    BY DEF Forget, Bound, NoBinding, NoAcks, Binds, Idle
<1>2. \A p \in Project : BindingOk(p)'
    BY <1>1, MessageFacts DEF CacheInv, BindingOk
<1> QED  BY <1>1, <1>2 DEF CacheInv, BindingsApart, BindingKept

LEMMA CacheRestores == ASSUME SyncInv, CacheInv, Registered PROVE CacheInv'
<1>1. phase = "greeting" /\ bindings' = Restored.m
      /\ UNCHANGED <<config, appliedAck, projectCurrent, applying, held>>
    BY DEF Registered, cacheVars
<1>2. applying = Idle /\ projectCurrent = NoAcks /\ \A p \in Project : ~Bound(bindings[p])
    BY <1>1, SentFacts DEF StreamsOk, NothingBegun, NoBinding, Bound
<1>3. /\ BindingsApart(bindings')
      /\ \A q \in Project : Bound(bindings'[q]) => Owned(bindings'[q], appliedAck[q])
  <2>1. RestoredOk(Restored)
      BY SentFacts, RestoredIsOk
  <2> QED  BY <1>1, <1>2, <2>1 DEF RestoredOk
<1>4. ASSUME NEW p \in Project PROVE BindingOk(p)'
  <2>1. BindingOk(p) /\ ~Binds(p)' /\ projectCurrent'[p] = NoAck
      BY <1>1, <1>2 DEF CacheInv, Binds, Idle, NoAcks
  <2> QED  BY <1>1, <1>3, <2>1, MessageFacts DEF BindingOk, Owned, Tied
<1>5. BindingKept'
    BY <1>1 DEF CacheInv, BindingKept
<1> QED  BY <1>3, <1>4, <1>5 DEF CacheInv

LEMMA CacheResolves == ASSUME SyncInv, CacheInv, NEW m \in work, resolveManaged(m) PROVE CacheInv'
<1>1. /\ UNCHANGED <<config, appliedAck, projectCurrent, applying, bindings>>
      /\ held' = IF Resolvable(m)
                 THEN [type |-> "held", mutation |-> m, binding |-> bindings[m.project]] ELSE held
    BY DEF resolveManaged, cacheVars
<1>2. CASE ~Resolvable(m)
    BY <1>1, <1>2, CacheSame
<1>3. CASE Resolvable(m)
  <2>1. PICK p \in Project : /\ p = m.project /\ m.ack \in Acks /\ MutationOk(m)
      BY SentFacts, MessageFacts DEF SyncTypes, MutationsOk
  <2>2. BindingOk(p) /\ projectCurrent[p].status = "applied" /\ projectCurrent[p].gen = m.gen
      BY <1>3, <2>1 DEF CacheInv, Resolvable
  <2>3. m.ack.gen = config[p].gen /\ m.ack.gen > 0
      BY <2>1, <2>2, MessageFacts DEF MutationOk, Admitted, BindingOk
  <2>4. projectCurrent[p] = m.ack
      BY <2>1, <2>3 DEF MutationOk, Answers
  <2>5. bindings[p].dir = m.ack.dir /\ bindings[p].root = m.ack.root
      BY <2>2, <2>4 DEF BindingOk, Tied
  <2>6. held'.binding = bindings[p] /\ held'.mutation = m
      BY <1>1, <1>3, <2>1
  <2>7. BindingKept'
      BY <2>5, <2>6 DEF BindingKept
  <2>8. \A q \in Project : BindingOk(q)'
      BY <1>1 DEF CacheInv, BindingOk, Binds
  <2> QED  BY <1>1, <2>7, <2>8 DEF CacheInv, BindingsApart
<1> QED  BY <1>2, <1>3

LEMMA CacheStarts == ASSUME Init PROVE CacheInv
<1>1. \A p \in Project : /\ bindings[p] = NoBinding /\ appliedAck[p] = NoAck /\ projectCurrent[p] = NoAck
                         /\ ~Binds(p)
    BY DEF Init, NoAcks, Binds, Idle
<1>2. held = NoMutation /\ ~Bound(NoBinding)
    BY DEF Init, Bound, NoBinding
<1> QED  BY <1>1, <1>2, MessageFacts DEF CacheInv, BindingOk, BindingsApart, BindingKept

LEMMA CacheStep == ASSUME SyncInv, CacheInv, [Next]_vars PROVE CacheInv'
<1>1. CASE UNCHANGED vars
    BY <1>1, CacheSame DEF vars, cacheVars, handlerVars
<1>2. CASE CoordinatorStep
  <2>1. UNCHANGED <<cacheVars, handlerVars>>
      BY <1>2 DEF CoordinatorStep, RegisterProject, SubmitMutation, projectUpdates, acknowledgeProject,
         refuseAcknowledgement, adoptProjects, DispatchMutation, BeginSession, EndSession
  <2> QED  BY <2>1, CacheSame DEF cacheVars, handlerVars
<1>3. CASE NodeStep
  <2>1. CASE NodeStart \/ OpenStream \/ CloseSession \/ ReceiveMutation \/ UseBinding
      BY <2>1, CacheSame DEF NodeStart, OpenStream, CloseSession, ReceiveMutation, UseBinding, cacheVars,
         handlerVars
  <2>2. CASE Registered
      BY <2>2, CacheRestores
  <2>3. CASE SaveProjectConfig \/ SaveProjectAck \/ ApplyBinding
      BY <2>3, CacheConfigures, CacheAcknowledges, CacheApplies
  <2>4. CASE ApplyCancelled
    <3>1. PICK a : /\ applying' = [step |-> "bound", project |-> applying.project, ack |-> a]
                   /\ a.status = "invalid_path"
        BY <2>4, ApplyCancelledIs
    <3>2. applying'.ack.status # "applied" /\ applying.step = "saved"
        BY <2>4, <3>1, ApplyCancelledIs
    <3>3. \A p \in Project : ~Binds(p) /\ ~Binds(p)'
        BY <3>2 DEF Binds
    <3> QED  BY <2>4, <3>3, ApplyCancelledIs, CacheStays DEF cacheVars
  <2>5. CASE RefuseProjectAck \/ SessionClosed \/ NodeCrash
      BY <2>5, CacheForgets DEF RefuseProjectAck, SessionClosed, NodeCrash, cacheVars
  <2>6. CASE \E m \in work : resolveManaged(m)
      BY <2>6, CacheResolves
  <2> QED  BY <1>3, <2>1, <2>2, <2>3, <2>4, <2>5, <2>6 DEF NodeStep
<1>4. CASE FilesystemStep
  <2>1. UNCHANGED <<cacheVars, handlerVars>>
      BY <1>4 DEF FilesystemStep, Unmount, Mount, Repoint, Filesystem
  <2> QED  BY <2>1, CacheSame DEF cacheVars, handlerVars
<1> QED  BY <1>1, <1>2, <1>3, <1>4 DEF Next

(* The node's cache is what was applied, about to be acknowledged, or adopted. *)
THEOREM CacheInvariant == Spec => []CacheInv
<1>1. Init => CacheInv
    BY CacheStarts
<1>2. SyncInv /\ CacheInv /\ [Next]_vars => CacheInv'
    BY CacheStep
<1> QED  BY <1>1, <1>2, SyncInvariant, PTL DEF Spec

(* The binding a worker holds is the one its mutation was admitted for. *)
THEOREM BindingKeptAlways == Spec => []BindingKept
<1>1. CacheInv => BindingKept
    BY DEF CacheInv
<1> QED  BY <1>1, CacheInvariant, PTL

(* What the coordinator shows as applied is bound at a listening node. *)
THEOREM ReadyMeansBoundAlways == Spec => []ReadyMeansBound
<1>1. ASSUME SyncInv, CacheInv PROVE ReadyMeansBound
  <2> SUFFICES ASSUME NEW p \in Project, Linked, Readiness(p) = "applied"
               PROVE  /\ projectCurrent[p] = projectApplied[p]
                      /\ bindings[p].gen = desired[p].gen
                      /\ bindings[p].dir = projectApplied[p].dir
                      /\ bindings[p].root = projectApplied[p].root
      BY DEF ReadyMeansBound
  <2>1. projectApplied[p].gen = desired[p].gen /\ desired[p].gen > 0 /\ projectApplied[p].status = "applied"
      BY DEF Readiness, Linked
  <2>2. RecordOk(p) /\ BindingOk(p) /\ config[p].gen \in Nat /\ desired[p].gen \in Nat
      BY <1>1, SentFacts, MessageFacts DEF SyncInv, CacheInv, SyncTypes
  <2>3. projectCurrent[p] = projectApplied[p]
      BY <2>1, <2>2 DEF RecordOk, Answers
  <2> QED  BY <2>1, <2>2, <2>3 DEF BindingOk, Tied
<1> QED  BY <1>1, SyncInvariant, CacheInvariant, PTL

(* Projects that are applied share neither a checkout nor a worktree root. *)
THEOREM RootsApartAlways == Spec => []RootsApart
<1>1. CacheInv => RootsApart
    BY DEF CacheInv, BindingOk, BindingsApart, RootsApart, Tied
<1> QED  BY <1>1, CacheInvariant, PTL

-----------------------------------------------------------------------------
(* Ownership survives. *)

(* When apply refuses nothing: dir and place are what the registration names. *)
Unopposed(f, m, p, gen, src, root, granted, dir, place) ==
    /\ p \in Project /\ dir = Leads(f, src) /\ place = RootFor(root, dir) /\ dir \in f.online
    /\ \A q \in Project \ {p} : Bound(m[q]) =>
          ValidateWorktreeRoot(f, m[q]) /\ m[q].dir # dir /\ m[q].root # place
    /\ Bound(m[p]) /\ m[p].gen = gen =>
          ValidateWorktreeRoot(f, m[p]) /\ m[p].dir = dir /\ m[p].root = place
    /\ \/ place \in granted
       \/ Bound(m[p]) /\ ValidateWorktreeRoot(f, m[p]) /\ m[p].root = place

LEMMA NotRefusedIf ==
    ASSUME NEW f, NEW m, NEW p, NEW gen, NEW src, NEW root, NEW granted, NEW dir, NEW place,
           Unopposed(f, m, p, gen, src, root, granted, dir, place)
    PROVE  Refusals(f, m, p, gen, src, root, granted) = {}
<1> DEFINE at == Leads(f, src)
           into == RootFor(root, at)
           old == m[p]
           others == {m[q] : q \in {q \in Project \ {p} : Bound(m[q])}}
           moved == /\ Bound(old)
                    /\ old.gen = gen
                    /\ ~ValidateWorktreeRoot(f, old) \/ old.dir # at \/ old.root # into
           refused == {code \in {"invalid_path", "configuration_conflict"} :
                          IF code = "invalid_path"
                          THEN \E b \in others : ~ValidateWorktreeRoot(f, b)
                          ELSE CheckoutTaken(f, others, at)}
           full == /\ f.roots[into] = "used"
                   /\ ~(\/ Bound(old) /\ ValidateWorktreeRoot(f, old) /\ old.root = into
                        \/ into \in granted)
<1>1. Refusals(f, m, p, gen, src, root, granted) =
         IF at \notin f.online THEN {"invalid_path"}
         ELSE IF moved THEN {"configuration_conflict"}
         ELSE IF refused # {} THEN refused
         ELSE IF \E b \in others : b.root = into THEN {"configuration_conflict"}
         ELSE IF full THEN {"invalid_path"}
         ELSE {}
    BY Zenon DEF Refusals
<1>2. at = dir /\ into = place /\ dir \in f.online
    BY DEF Unopposed
<1>3. \A b \in others : ValidateWorktreeRoot(f, b) /\ b.dir # dir /\ b.root # place
    BY DEF Unopposed
<1>4. ~moved /\ ~full
    BY <1>2 DEF Unopposed
<1> HIDE DEF others, moved, full, at, into
<1>5. refused = {}
    BY <1>2, <1>3 DEF CheckoutTaken
<1> HIDE DEF refused
<1> QED  BY <1>1, <1>2, <1>3, <1>4, <1>5

(* What applications of p leave alone. *)
Beside(st, p) ==
    /\ st \in NodeStates /\ st.fs.online = fs.online /\ st.fs.target = fs.target
    /\ \A q \in Project \ {p} : st.m[q] = bindings[q]

(* p is bound, and its binding is good. *)
Holds(st, p, gen, dir, root) ==
    /\ Beside(st, p) /\ Bound(st.m[p]) /\ ValidateWorktreeRoot(fs, st.m[p])
    /\ st.m[p].gen = gen /\ st.m[p].dir = dir /\ st.m[p].root = root

Asks(p, gen, src, root, dir, place) ==
    /\ p \in Project /\ gen \in Nat /\ src \in Path \cup Dir /\ root \in Places
    /\ dir = Leads(fs, src) /\ place = RootFor(root, dir) /\ dir \in fs.online /\ dir \in Dir

(* An application that nothing is in the way of, of a root p owns. *)
LEMMA ApplyHolds ==
    ASSUME NEW st, NEW p, NEW gen, NEW src, NEW root, NEW granted, NEW dir, NEW place, NEW dirs,
           Asks(p, gen, src, root, dir, place), Beside(st, p), dir \in dirs,
           ~InTheWay(p, dirs, place),
           \/ ~(Bound(st.m[p]) /\ st.m[p].gen = gen)
           \/ Holds(st, p, gen, dir, place),
           place \in granted \/ \E g, d : Holds(st, p, g, d, place),
           NEW new, new = apply(st, p, gen, src, root, granted)
    PROVE  /\ Refusals(st.fs, st.m, p, gen, src, root, granted) = {}
           /\ Holds(new, p, gen, dir, place)
<1>1. /\ p \in Project /\ gen \in Nat /\ src \in Path \cup Dir /\ root \in Places
      /\ dir = Leads(fs, src) /\ place = RootFor(root, dir) /\ dir \in fs.online /\ dir \in Dir
    BY DEF Asks
<1>2. /\ st \in NodeStates /\ st.fs.online = fs.online /\ st.fs.target = fs.target
      /\ \A q \in Project \ {p} : st.m[q] = bindings[q]
    BY DEF Beside
<1>3. \A b : ValidateWorktreeRoot(st.fs, b) <=> ValidateWorktreeRoot(fs, b)
    BY <1>2 DEF ValidateWorktreeRoot, Leads
<1>4. \A s : Leads(st.fs, s) = Leads(fs, s)
    BY <1>2 DEF Leads
<1>5. \A q \in Project \ {p} : Bound(st.m[q]) =>
         ValidateWorktreeRoot(st.fs, st.m[q]) /\ st.m[q].dir # dir /\ st.m[q].root # place
    BY <1>2, <1>3 DEF InTheWay
<1>6. Bound(st.m[p]) /\ st.m[p].gen = gen =>
         ValidateWorktreeRoot(st.fs, st.m[p]) /\ st.m[p].dir = dir /\ st.m[p].root = place
    BY <1>3 DEF Holds
<1>7. \/ place \in granted
      \/ Bound(st.m[p]) /\ ValidateWorktreeRoot(st.fs, st.m[p]) /\ st.m[p].root = place
    BY <1>3 DEF Holds
<1>8. dir = Leads(st.fs, src) /\ dir \in st.fs.online
    BY <1>1, <1>2, <1>4
<1>9. Unopposed(st.fs, st.m, p, gen, src, root, granted, dir, place)
    BY <1>1, <1>5, <1>6, <1>7, <1>8 DEF Unopposed
<1>10. Refusals(st.fs, st.m, p, gen, src, root, granted) = {}
    BY <1>9, NotRefusedIf
<1>11. Accepted(st, new, p, gen, src, root, granted)
    BY <1>1, <1>2, <1>10 DEF Accepted
<1>12. PICK b : Rebound(st, new, p, b) /\ Names(st, b, gen, src, root)
    BY <1>11, ApplyIs
<1>13. Valid(st, new, b)
    BY <1>11, <1>12, ApplyIsValid
<1>14. b.gen = gen /\ b.dir = dir /\ b.root = place
    BY <1>1, <1>4, <1>12 DEF Names
<1>15. st.m \in [Project -> Bindings] /\ new \in NodeStates
    BY <1>2, <1>12, NodeStateFacts DEF Rebound
<1>16. \A q \in Project : new.m[q] = IF q = p THEN b ELSE st.m[q]
    BY <1>12, <1>15 DEF Rebound
<1>17. Beside(new, p)
    BY <1>2, <1>12, <1>15, <1>16 DEF Beside, Rebound
<1>18. ValidateWorktreeRoot(fs, b) /\ Bound(b)
    BY <1>1, <1>2, <1>4, <1>13, <1>14, PlacesAssumption DEF Valid, ValidateWorktreeRoot, Bound
<1> QED  BY <1>1, <1>10, <1>14, <1>16, <1>17, <1>18 DEF Holds

(* Nothing is in the way of applying what project p owns already. *)
Owns(p, dir, place) ==
    /\ dir = Leads(fs, config[p].cfg.path) /\ dir \in fs.online
    /\ place = RootFor(config[p].cfg.root, dir) /\ place = appliedAck[p].root
    /\ appliedAck[p].dir \in fs.online
    /\ Bound(bindings[p]) => ValidateWorktreeRoot(fs, bindings[p])
    /\ ~InTheWay(p, {dir, appliedAck[p].dir}, place)

(* The binding that was applied is restored; a legacy one may take its place. *)
LEMMA PreparedHolds ==
    ASSUME SyncInv, CacheInv, NEW p \in Project, config[p].cfg \in Configs, ~Binds(p),
           NEW dir, NEW place, Owns(p, dir, place)
    PROVE  \/ Holds(Prepared(p), p, appliedAck[p].gen, appliedAck[p].dir, place)
           \/ Holds(Prepared(p), p, 0, dir, place)
<1> DEFINE owner == appliedAck[p]
           restored == owner # NoAck /\ ~(Bound(bindings[p]) /\ bindings[p].gen = owner.gen)
           first == IF restored THEN RestoreOwnership(NodeState, p, owner) ELSE NodeState
           adopts == p \in projectLegacy /\ Legacy[p] = config[p].cfg
           second == IF adopts THEN AdoptLegacy(first, p, Legacy[p]) ELSE first
           dirs == {dir, owner.dir}
<1>1. Prepared(p) = second
    BY DEF Prepared
<1>2. /\ NodeState \in NodeStates /\ NodeState.fs = fs /\ NodeState.m = bindings /\ owner \in Acks
      /\ fs.online \subseteq Dir
    BY SentFacts, NodeStateFacts DEF SyncTypes
<1>3. owner # NoAck /\ owner.gen > 0 /\ owner.gen \in Nat /\ owner.dir \in Dir /\ owner.root \in Root
  <2>1. owner.dir \in Dir
      BY <1>2 DEF Owns
  <2>2. owner # NoAck
      BY <2>1, PlacesAssumption DEF NoAck
  <2> QED  BY <1>2, <2>1, <2>2, MessageFacts DEF CacheInv, BindingOk
<1>4. Beside(NodeState, p)
    BY <1>2 DEF Beside
<1>5. owner.root = place /\ owner.dir \in fs.online /\ dir \in fs.online /\ ~InTheWay(p, dirs, place)
    BY DEF Owns
<1>6. Holds(first, p, owner.gen, owner.dir, place)
  <2>1. CASE restored
    <3>1. first = apply(NodeState, p, owner.gen, owner.dir, owner.root, {owner.root})
        BY <1>2, <1>5, <2>1 DEF RestoreOwnership
    <3>2. Asks(p, owner.gen, owner.dir, owner.root, owner.dir, place)
        BY <1>3, <1>5, PlacesAssumption DEF Asks, Places, Leads, RootFor
    <3>3. ~(Bound(NodeState.m[p]) /\ NodeState.m[p].gen = owner.gen)
        BY <1>2, <2>1
    <3>4. owner.dir \in dirs /\ place \in {owner.root}
        BY <1>5
    <3>5. PICK new : new = apply(NodeState, p, owner.gen, owner.dir, owner.root, {owner.root})
        OBVIOUS
    <3> HIDE DEF first, restored, owner, dirs
    <3>6. Holds(new, p, owner.gen, owner.dir, place)
        BY <1>4, <1>5, <3>2, <3>3, <3>4, <3>5, ApplyHolds
    <3> QED  BY <3>1, <3>5, <3>6
  <2>2. CASE ~restored
    <3>1. Bound(bindings[p]) /\ bindings[p].gen = owner.gen /\ first = NodeState
        BY <1>3, <2>2
    <3>2. bindings[p].dir = owner.dir /\ bindings[p].root = owner.root
        BY <1>3, <3>1 DEF CacheInv, BindingOk, Tied
    <3> HIDE DEF first, restored, owner
    <3> QED  BY <1>2, <1>4, <1>5, <3>1, <3>2 DEF Holds, Owns
  <2> QED  BY <2>1, <2>2
<1>7. CASE adopts
  <2>1. PICK cfg \in Configs : cfg = config[p].cfg /\ cfg = Legacy[p]
      BY <1>7
  <2>2. dir = Leads(fs, cfg.path) /\ place = RootFor(cfg.root, dir)
      BY <2>1 DEF Owns
  <2>3. first.fs.online = fs.online /\ Leads(first.fs, cfg.path) = dir /\ Beside(first, p)
    <3> HIDE DEF first
    <3> QED  BY <1>6, <2>2 DEF Holds, Beside, Leads
  <2>4. second = apply(first, p, 0, cfg.path, cfg.root, {cfg.root} \ {Default})
    <3> HIDE DEF first
    <3> QED  BY <1>5, <1>7, <2>1, <2>3 DEF AdoptLegacy
  <2>5. Asks(p, 0, cfg.path, cfg.root, dir, place)
      BY <1>2, <1>5, <2>2 DEF Asks, Configs, Places
  <2>6. PICK new : new = apply(first, p, 0, cfg.path, cfg.root, {cfg.root} \ {Default})
      OBVIOUS
  <2> HIDE DEF first, second
  <2>7. ~(Bound(first.m[p]) /\ first.m[p].gen = 0)
      BY <1>3, <1>6 DEF Holds
  <2>8. dir \in dirs /\ \E g, d : Holds(first, p, g, d, place)
      BY <1>6
  <2> HIDE DEF owner, dirs
  <2>9. Holds(new, p, 0, dir, place)
      BY <1>5, <2>3, <2>5, <2>6, <2>7, <2>8, ApplyHolds
  <2> QED  BY <1>1, <2>4, <2>6, <2>9
<1>8. CASE ~adopts
    BY <1>1, <1>6, <1>8
<1> QED  BY <1>7, <1>8

(* What applyProject answers then. *)
LEMMA OwnedIsApplied ==
    ASSUME SyncInv, CacheInv, ApplyBinding, NEW p, p = applying.project, NEW dir, NEW place,
           Owns(p, dir, place), appliedAck[p].gen = config[p].gen => appliedAck[p].dir = dir
    PROVE  applying'.ack.status = "applied"
<1>1. applying.step = "saved"
    BY DEF ApplyBinding
<1>2. PICK cfg \in Configs : cfg = config[p].cfg
    BY <1>1, ApplyingFacts
<1>3. PICK gen \in Nat : gen = config[p].gen /\ gen > 0
    BY <1>1, ApplyingFacts
<1>4. p \in Project /\ ~Binds(p) /\ dir \in Dir
    BY <1>1, ApplyingFacts, SentFacts, NodeStateFacts DEF Binds, Owns, SyncTypes
<1>5. PICK st : st = Prepared(p)
    OBVIOUS
<1>6. PICK g, d : /\ Holds(st, p, g, d, place)
                  /\ g = 0 \/ (g = gen => d = dir)
    BY <1>2, <1>3, <1>4, <1>5, PreparedHolds
<1>7. Beside(st, p) /\ (~(Bound(st.m[p]) /\ st.m[p].gen = gen) \/ Holds(st, p, gen, dir, place))
    BY <1>3, <1>6 DEF Holds
<1>8. Asks(p, gen, cfg.path, cfg.root, dir, place) /\ ~InTheWay(p, {dir, appliedAck[p].dir}, place)
    BY <1>2, <1>4 DEF Asks, Configs, Places, Owns
<1>9. PICK new : new = apply(st, p, gen, cfg.path, cfg.root, {})
    OBVIOUS
<1>10. /\ Refusals(st.fs, st.m, p, gen, cfg.path, cfg.root, {}) = {}
       /\ dir \in {dir, appliedAck[p].dir} /\ \E g2, d2 : Holds(st, p, g2, d2, place)
  <2>1. dir \in {dir, appliedAck[p].dir} /\ \E g2, d2 : Holds(st, p, g2, d2, place)
      BY <1>6
  <2> QED  BY <1>7, <1>8, <1>9, <2>1, ApplyHolds
<1>11. PICK codes : codes = Refusals(st.fs, st.m, p, gen, cfg.path, cfg.root, {}) /\ codes = {}
    BY <1>10
<1>12. \E code \in (IF codes = {} THEN {"applied"} ELSE codes) :
          applying' = [step |-> "bound", project |-> p, ack |-> Outcome(gen, code, new.m[p])]
    BY <1>2, <1>3, <1>5, <1>9, <1>11, Zenon DEF ApplyBinding
<1>13. applying' = [step |-> "bound", project |-> p, ack |-> Outcome(gen, "applied", new.m[p])]
    BY <1>11, <1>12
<1> QED  BY <1>13 DEF Outcome

(* A registration that keeps its root is refused only while a checkout is *)
(* gone or another project is in the way.                                  *)
THEOREM OwnershipSurvivesAlways == Spec => OwnershipSurvives
<1> DEFINE Survives ==
      \A p \in Project :
          LET dir == Leads(fs, config[p].cfg.path)
          IN  /\ phase = "open"
              /\ applying.step = "saved"
              /\ applying.project = p
              /\ applying'.step = "bound"
              /\ dir \in fs.online
              /\ RootFor(config[p].cfg.root, dir) = appliedAck[p].root
              /\ appliedAck[p].dir \in fs.online
              /\ Bound(bindings[p]) => ValidateWorktreeRoot(fs, bindings[p])
              /\ appliedAck[p].gen = config[p].gen => appliedAck[p].dir = dir
              /\ ~InTheWay(p, {dir, appliedAck[p].dir}, appliedAck[p].root)
              => applying'.ack.status = "applied"
<1>1. ASSUME SyncInv, CacheInv, Next PROVE Survives
  <2> SUFFICES ASSUME NEW p \in Project, NEW dir, dir = Leads(fs, config[p].cfg.path),
                      phase = "open", applying.step = "saved", applying.project = p,
                      applying'.step = "bound", dir \in fs.online,
                      RootFor(config[p].cfg.root, dir) = appliedAck[p].root,
                      appliedAck[p].dir \in fs.online,
                      Bound(bindings[p]) => ValidateWorktreeRoot(fs, bindings[p]),
                      appliedAck[p].gen = config[p].gen => appliedAck[p].dir = dir,
                      ~InTheWay(p, {dir, appliedAck[p].dir}, appliedAck[p].root)
               PROVE  applying'.ack.status = "applied"
      OBVIOUS
  <2>1. ApplyBinding
    <3>1. applying' # applying
        OBVIOUS
    <3>2. ~CoordinatorStep /\ ~FilesystemStep
        BY <3>1 DEF CoordinatorStep, RegisterProject, SubmitMutation, projectUpdates, acknowledgeProject,
           refuseAcknowledgement, adoptProjects, DispatchMutation, BeginSession, EndSession,
           FilesystemStep, Unmount, Mount, Repoint, Filesystem, handlerVars
    <3>3. ~ApplyCancelled /\ ~SaveProjectAck /\ ~SaveProjectConfig /\ ~RefuseProjectAck
        BY DEF ApplyCancelled, SaveProjectAck, SaveProjectConfig, RefuseProjectAck, Idle
    <3>4. ~NodeStart /\ ~OpenStream /\ ~Registered /\ ~ReceiveMutation /\ ~UseBinding /\ ~CloseSession
        BY <3>1 DEF NodeStart, OpenStream, Registered, ReceiveMutation, UseBinding, CloseSession, handlerVars
    <3>5. ~SessionClosed /\ ~NodeCrash
        BY DEF SessionClosed, NodeCrash, Forget, Idle
    <3>6. ~\E m \in work : resolveManaged(m)
        BY <3>1 DEF resolveManaged
    <3> QED  BY <1>1, <3>2, <3>3, <3>4, <3>5, <3>6 DEF Next, NodeStep
  <2>2. PICK place : place = appliedAck[p].root
      OBVIOUS
  <2>3. Owns(p, dir, place)
      BY <2>2 DEF Owns
  <2> QED  BY <1>1, <2>1, <2>3, OwnedIsApplied
<1>2. ASSUME SyncInv, CacheInv, [Next]_vars PROVE [Survives]_vars
    BY <1>1, <1>2
<1>3. OwnershipSurvives <=> [][Survives]_vars
    BY DEF OwnershipSurvives
<1> HIDE DEF Survives
<1>4. Spec => [][Survives]_vars
    BY <1>2, SyncInvariant, CacheInvariant, PTL DEF Spec
<1> QED  BY <1>3, <1>4

-----------------------------------------------------------------------------
(* Directories that do not move. *)
LEMMA PlacedStays ==
    ASSUME fs'.target = fs.target, NEW a, NEW cfg, Placed(a, cfg) PROVE Placed(a, cfg)'
  BY DEF Placed, Leads

LEMMA PlacedFacts ==
    ASSUME SyncInv
    PROVE  \A p \in Project :
              /\ desired[p].gen \in Nat /\ config[p].gen \in Nat /\ ack[p] \in Acks /\ lastAck[p] \in Acks
              /\ config[p].gen <= desired[p].gen
              /\ config[p].gen = desired[p].gen => config[p] = desired[p]
              /\ lastAck[p].gen <= ack[p].gen /\ ack[p].gen <= config[p].gen
              /\ projectSent[p] <= desired[p].gen /\ projectSent[p] \in Nat
  BY MessageFacts DEF SyncInv, SyncTypes, RecordOk

LEMMA SameOutcome ==
    ASSUME NEW a \in Acks, NEW b \in Acks, NEW cfg, Placed(a, cfg), Placed(b, cfg)
    PROVE  ~projectAckConflict(a, b)
<1> SUFFICES ASSUME a.gen = b.gen, a.status = "applied", b.status = "applied" PROVE a = b
    BY DEF projectAckConflict
<1>1. a.dir = b.dir /\ a.root = b.root
    BY DEF Placed
<1> QED  BY <1>1 DEF Acks

(* An outcome of the saved generation is one of the generation that is wanted, *)
(* if they are the same.                                                       *)
LEMMA HereIsWanted ==
    ASSUME SyncInv, NEW p \in Project, NEW a \in Acks, a.gen = config[p].gen, PlacedHere(p, a)
    PROVE  PlacedWanted(p, a)
  BY PlacedFacts DEF PlacedHere, PlacedWanted

(* Operators may register anew; the messages to the coordinator are read. *)
Onward ==
    /\ fs'.target = fs.target
    /\ \A p \in Project : desired'[p] = desired[p] \/ desired[p].gen < desired'[p].gen

LEMMA WantedStays ==
    ASSUME Onward, NEW p \in Project, NEW a \in Acks, PlacedWanted(p, a), a.gen <= desired[p].gen,
           desired[p].gen \in Nat, desired'[p].gen \in Nat
    PROVE  PlacedWanted(p, a)'
<1>1. CASE desired'[p] = desired[p]
    BY <1>1, PlacedStays DEF PlacedWanted, Onward
<1>2. CASE desired[p].gen < desired'[p].gen
    BY <1>2, MessageFacts DEF PlacedWanted
<1> QED  BY <1>1, <1>2 DEF Onward

GoodNews(m) ==
    PlacedWanted(m.project, m.ack) /\ m.ack.gen <= desired[m.project].gen

LEMMA SentStays ==
    ASSUME SyncInv, SyncInv', PlaceInv, Onward,
           \/ toServer' = toServer
           \/ toServer # <<>> /\ toServer' = Tail(toServer)
           \/ toServer' = <<>>
           \/ toServer' = Append(toServer, [type |-> "offer"])
           \/ \E m \in AckMessages : toServer' = Append(toServer, m) /\ GoodNews(m)
    PROVE  SentPlaced'
<1>1. /\ toServer \in Seq(ServerMessages) /\ toServer' \in Seq(ServerMessages)
      /\ ToServerOk /\ SyncTypes
      /\ \A q \in Project : desired'[q].gen \in Nat
    BY MessageFacts DEF SyncInv, SyncTypes
<1>2. SUFFICES ASSUME NEW i \in 1..Len(toServer'), toServer'[i].type = "ack"
               PROVE  PlacedWanted(toServer[i].project, toServer[i].ack)'
    BY DEF SentPlaced
<1>3. PICK m \in AckMessages : m = toServer'[i] /\ GoodNews(m)
  <2>1. ASSUME NEW j \in 1..Len(toServer), toServer[j] = toServer'[i]
        PROVE  toServer[j] \in AckMessages /\ GoodNews(toServer[j])
    <3>1. toServer[j].type = "ack" /\ toServer[j] \in ServerMessages
        BY <1>1, <1>2, <2>1
    <3>2. AckOk(toServer[j].project, toServer[j].ack) /\ toServer[j] \in AckMessages
        BY <1>1, <3>1 DEF ToServerOk, ServerMessages
    <3>3. toServer[j].project \in Project /\ toServer[j].ack \in Acks
        BY <3>1, MessageFacts
    <3>4. toServer[j].ack.gen <= desired[toServer[j].project].gen
        BY <3>2, <3>3, PlacedFacts, MessageFacts DEF AckOk
    <3> QED  BY <3>1, <3>2, <3>4 DEF PlaceInv, SentPlaced, GoodNews
  <2>2. CASE toServer' = toServer
      BY <1>2, <2>1, <2>2
  <2>3. CASE toServer # <<>> /\ toServer' = Tail(toServer)
    <3>1. i + 1 \in 1..Len(toServer) /\ toServer[i + 1] = toServer'[i]
        BY <1>1, <2>3
    <3> QED  BY <2>1, <3>1
  <2>4. CASE toServer' = Append(toServer, [type |-> "offer"])
    <3>1. PICK o : o = [type |-> "offer"]
        OBVIOUS
    <3>2. o.type = "offer" /\ toServer' = Append(toServer, o) /\ o \in ServerMessages
        BY <2>4, <3>1 DEF ServerMessages
    <3>3. i \in 1..Len(toServer) /\ toServer[i] = toServer'[i]
        BY <1>1, <1>2, <3>2
    <3> QED  BY <2>1, <3>3
  <2>5. CASE \E m \in AckMessages : toServer' = Append(toServer, m) /\ GoodNews(m)
    <3>1. PICK m \in AckMessages : toServer' = Append(toServer, m) /\ GoodNews(m)
        BY <2>5
    <3>2. m \in ServerMessages
        BY DEF ServerMessages
    <3>3. (i \in 1..Len(toServer) /\ toServer[i] = toServer'[i]) \/ m = toServer'[i]
        BY <1>1, <3>1, <3>2
    <3> QED  BY <2>1, <3>1, <3>3
  <2>6. CASE toServer' = <<>>
      BY <1>1, <2>6
  <2> QED  BY <2>2, <2>3, <2>4, <2>5, <2>6
<1>4. m.project \in Project /\ m.ack \in Acks /\ desired[m.project].gen \in Nat
    BY PlacedFacts DEF AckMessages
<1>5. PlacedWanted(m.project, m.ack)'
    BY <1>1, <1>3, <1>4, WantedStays DEF GoodNews
<1> QED  BY <1>3, <1>5

(* A step that saves nothing and acknowledges nothing. *)
LEMMA PlaceStays ==
    ASSUME SyncInv, SyncInv', PlaceInv, Onward, UNCHANGED <<config, ack, lastAck, fault>>,
           SentPlaced', BoundPlaced'
    PROVE  PlaceInv'
<1>1. ASSUME NEW p \in Project PROVE PlacedHere(p, ack[p])' /\ PlacedWanted(p, lastAck[p])'
  <2>1. /\ PlacedHere(p, ack[p]) /\ PlacedWanted(p, lastAck[p]) /\ lastAck[p].gen <= desired[p].gen
        /\ desired[p].gen \in Nat /\ lastAck[p] \in Acks
      BY PlacedFacts, MessageFacts DEF PlaceInv
  <2>2. desired'[p].gen \in Nat
      BY MessageFacts DEF SyncInv, SyncTypes
  <2>3. PICK a \in Acks : a = lastAck[p]
      BY <2>1
  <2>4. PlacedWanted(p, a)'
      BY <2>1, <2>2, <2>3, WantedStays
  <2>5. PlacedHere(p, ack[p])'
      BY <2>1, PlacedStays DEF PlacedHere, Onward
  <2> QED  BY <2>3, <2>4, <2>5
<1> QED  BY <1>1 DEF PlaceInv, NoFault, Onward

LEMMA BoundStays ==
    ASSUME PlaceInv, Onward, (applying' = applying /\ config' = config) \/ applying'.step # "bound"
    PROVE  BoundPlaced'
  BY PlacedStays DEF PlaceInv, BoundPlaced, PlacedHere, Onward

LEMMA PlaceQuiet ==
    ASSUME SyncInv, SyncInv', PlaceInv, Onward, UNCHANGED <<config, ack, lastAck, fault>>,
           \/ toServer' = toServer
           \/ toServer # <<>> /\ toServer' = Tail(toServer)
           \/ toServer' = <<>>
           \/ toServer' = Append(toServer, [type |-> "offer"]),
           applying' = applying \/ applying'.step # "bound"
    PROVE  PlaceInv'
  BY SentStays, BoundStays, PlaceStays

LEMMA PlaceRegisters ==
    ASSUME SyncInv, SyncInv', PlaceInv, NEW p \in Project, NEW cfg, RegisterProject(p, cfg) PROVE PlaceInv'
<1>1. Onward
  <2>1. desired' = [desired EXCEPT ![p] = [gen |-> desired[p].gen + 1, cfg |-> cfg]] /\ fs' = fs
      BY DEF RegisterProject, UpsertProject
  <2> QED  BY <2>1, PlacedFacts, SentFacts DEF Onward, SyncTypes
<1> QED  BY <1>1, PlaceQuiet DEF RegisterProject, netVars, cacheVars, handlerVars

LEMMA PlaceAdopts == ASSUME SyncInv, SyncInv', PlaceInv, adoptProjects PROVE PlaceInv'
<1>1. Onward
  <2>1. \A p \in Project : desired'[p] = desired[p] \/ (desired[p].gen = 0 /\ desired'[p].gen = 1)
      BY DEF adoptProjects, AdoptProjects
  <2> QED  BY <2>1 DEF Onward, adoptProjects
<1> QED  BY <1>1, PlaceQuiet DEF adoptProjects, cacheVars, handlerVars

LEMMA PlaceAcknowledges == ASSUME SyncInv, SyncInv', PlaceInv, acknowledgeProject PROVE PlaceInv'
<1>1. PICK p \in Project, a \in Acks :
         /\ p = Head(toServer).project /\ a = Head(toServer).ack /\ toServer # <<>>
         /\ PlacedWanted(p, a) /\ toServer' = Tail(toServer)
         /\ lastAck' \in {lastAck, [lastAck EXCEPT ![p] = a]}
         /\ UNCHANGED <<config, ack, desired, fault, fs, applying>>
  <2>1. Head(toServer).type = "ack" /\ toServer # <<>>
      BY DEF acknowledgeProject
  <2>2. PICK m : /\ m = Head(toServer) /\ m = toServer[1] /\ 1 \in 1..Len(toServer)
                 /\ m.project \in Project /\ m.ack \in Acks
      BY <2>1, HeadOfServer
  <2>3. PlacedWanted(m.project, m.ack)
      BY <2>1, <2>2 DEF PlaceInv, SentPlaced
  <2> QED  BY <2>1, <2>2, <2>3 DEF acknowledgeProject, cacheVars, handlerVars
<1>2. Onward
    BY <1>1 DEF Onward
<1>3. SentPlaced' /\ BoundPlaced'
    BY <1>1, <1>2, SentStays, BoundStays
<1>4. ASSUME NEW q \in Project PROVE PlacedHere(q, ack[q])' /\ PlacedWanted(q, lastAck[q])'
  <2>1. PlacedHere(q, ack[q])'
      BY <1>1, <1>2, PlacedStays DEF PlacedHere, PlaceInv, Onward
  <2>2. PICK b : b = lastAck'[q] /\ (b = lastAck[q] \/ (q = p /\ b = a))
      BY <1>1, SentFacts DEF SyncTypes
  <2>3. PlacedWanted(q, b)
      BY <1>1, <2>2 DEF PlaceInv
  <2>4. PlacedWanted(q, b)'
      BY <1>1, <1>2, <2>3, PlacedStays DEF PlacedWanted, Onward
  <2> QED  BY <2>1, <2>2, <2>4
<1> QED  BY <1>1, <1>2, <1>3, <1>4 DEF PlaceInv, NoFault, Onward

(* No stream is ended for what it brought. *)
LEMMA NothingRefused == ASSUME SyncInv, PlaceInv PROVE ~refuseAcknowledgement
<1> SUFFICES ASSUME refuseAcknowledgement PROVE FALSE
    OBVIOUS
<1>1. Head(toServer).type = "ack" /\ toServer # <<>>
    BY DEF refuseAcknowledgement
<1>2. PICK m : /\ m = Head(toServer) /\ m = toServer[1] /\ 1 \in 1..Len(toServer)
               /\ m.project \in Project /\ m.ack \in Acks /\ AckOk(m.project, m.ack)
    BY <1>1, HeadOfServer
<1>3. PICK p \in Project, a \in Acks : p = m.project /\ a = m.ack
    BY <1>2
<1>4. PlacedWanted(p, a) /\ AckOk(p, a)
    BY <1>1, <1>2, <1>3 DEF PlaceInv, SentPlaced
<1>5. Unsolicited(p, a) \/ Conflicting(p, a) \/ Changed(p, a)
    BY <1>2, <1>3 DEF refuseAcknowledgement
<1>6. ~Unsolicited(p, a)
    BY <1>3, <1>4, PlacedFacts, MessageFacts DEF AckOk, Unsolicited
<1>7. ~Conflicting(p, a)
    BY <1>4 DEF AckOk, Conflicting
<1>8. ~Changed(p, a)
  <2> SUFFICES ASSUME a.gen = desired[p].gen, projectAckConflict(lastAck[p], a) PROVE FALSE
      BY DEF Changed
  <2>1. lastAck[p].gen = a.gen /\ a.gen > 0 /\ PlacedWanted(p, lastAck[p]) /\ lastAck[p] \in Acks
      BY <1>4, PlacedFacts DEF projectAckConflict, AckOk, PlaceInv
  <2>2. Placed(a, desired[p].cfg) /\ Placed(lastAck[p], desired[p].cfg)
      BY <1>4, <2>1 DEF PlacedWanted
  <2> QED  BY <2>1, <2>2, SameOutcome
<1> QED  BY <1>5, <1>6, <1>7, <1>8

LEMMA BoundIs ==
    ASSUME SyncInv, applying.step = "bound"
    PROVE  /\ applying.project \in Project /\ applying.ack \in Acks
           /\ applying.ack.gen = config[applying.project].gen /\ applying.ack.gen > 0
<1>1. applying \in Outcomes /\ applying # Idle
    BY SentFacts DEF SyncTypes, Idle, Saved
<1>2. applying.project \in Project /\ applying.ack \in Acks
    BY <1>1 DEF Outcomes
<1> QED  BY <1>1, <1>2, SentFacts DEF ApplyingOk

(* Nor is an outcome at odds with the journal. *)
LEMMA NoConflict == ASSUME SyncInv, PlaceInv PROVE ~RefuseProjectAck
<1> SUFFICES ASSUME RefuseProjectAck PROVE FALSE
    OBVIOUS
<1>1. applying.step = "bound" /\ projectAckConflict(ack[applying.project], applying.ack)
    BY DEF RefuseProjectAck
<1>2. PICK p \in Project, a \in Acks : /\ p = applying.project /\ a = applying.ack
                                       /\ a.gen = config[p].gen /\ a.gen > 0
    BY <1>1, BoundIs
<1>3. Placed(a, config[p].cfg)
    BY <1>1, <1>2 DEF PlaceInv, BoundPlaced, PlacedHere
<1>4. ack[p].gen = a.gen
    BY <1>1, <1>2 DEF projectAckConflict
<1>5. Placed(ack[p], config[p].cfg) /\ ack[p] \in Acks
    BY <1>2, <1>4, PlacedFacts DEF PlaceInv, PlacedHere
<1> QED  BY <1>1, <1>2, <1>3, <1>5, SameOutcome

(* The node's own outcomes. *)
LEMMA PlaceSavesAck == ASSUME SyncInv, SyncInv', PlaceInv, SaveProjectAck PROVE PlaceInv'
<1>1. applying.step = "bound"
    BY DEF SaveProjectAck
<1>2. PICK p \in Project, a \in Acks : /\ p = applying.project /\ a = applying.ack
                                       /\ a.gen = config[p].gen /\ a.gen > 0
    BY <1>1, BoundIs
<1>3. PlacedHere(p, a) /\ PlacedWanted(p, a)
    BY <1>1, <1>2, HereIsWanted DEF PlaceInv, BoundPlaced
<1>4. /\ ack' = [ack EXCEPT ![p] = a] /\ applying' = Idle
      /\ toServer' = toServer \/ toServer' = Append(toServer, [type |-> "ack", project |-> p, ack |-> a])
      /\ UNCHANGED <<desired, lastAck, config, fault, fs>>
    BY <1>2 DEF SaveProjectAck, recordVars
<1>5. Onward /\ BoundPlaced'
    BY <1>4 DEF Onward, BoundPlaced, Idle
<1>6. SentPlaced'
  <2>1. PICK m : m = [type |-> "ack", project |-> p, ack |-> a]
      OBVIOUS
  <2>2. m \in AckMessages /\ m.project = p /\ m.ack = a
      BY <2>1 DEF AckMessages
  <2>3. GoodNews(m)
      BY <1>2, <1>3, <2>2, PlacedFacts DEF GoodNews
  <2> QED  BY <1>4, <1>5, <2>1, <2>2, <2>3, SentStays
<1>7. ASSUME NEW q \in Project PROVE PlacedHere(q, ack[q])' /\ PlacedWanted(q, lastAck[q])'
  <2>1. PlacedWanted(q, lastAck[q])'
      BY <1>4, <1>5, PlacedStays DEF PlacedWanted, PlaceInv, Onward
  <2>2. PICK b : b = ack'[q] /\ (b = ack[q] \/ (q = p /\ b = a))
      BY <1>4, SentFacts DEF SyncTypes
  <2>3. PlacedHere(q, b)
      BY <1>3, <2>2 DEF PlaceInv
  <2>4. PlacedHere(q, b)'
      BY <1>4, <1>5, <2>3, PlacedStays DEF PlacedHere, Onward
  <2> QED  BY <2>1, <2>2, <2>4
<1> QED  BY <1>4, <1>5, <1>6, <1>7 DEF PlaceInv, NoFault, Onward

LEMMA PlaceSavesConfig == ASSUME SyncInv, SyncInv', PlaceInv, SaveProjectConfig PROVE PlaceInv'
<1>1. PICK msg : /\ msg = Head(toNode) /\ msg.project \in Project /\ msg.gen \in Nat /\ msg.gen > 0
                 /\ msg.gen = config[msg.project].gen => msg.cfg = config[msg.project].cfg
  <2>1. toNode # <<>> /\ Head(toNode).type = "config"
      BY DEF SaveProjectConfig
  <2>2. Head(toNode) \in NodeMessages /\ ConfigOk(Head(toNode))
      BY <2>1, HeadOfNode
  <2> QED  BY <2>1, <2>2, MessageFacts DEF ConfigOk
<1>2. PICK p \in Project : p = msg.project
    BY <1>1
<1> DEFINE repeated == msg.gen = config[p].gen /\ projectCurrent[p].gen = msg.gen
           save == msg.gen >= config[p].gen /\ ~repeated
<1>3. /\ fault' = fault /\ UNCHANGED <<desired, lastAck, ack, fs>>
      /\ toServer' = toServer \/ (repeated /\ toServer' =
            Append(toServer, [type |-> "ack", project |-> p, ack |-> projectCurrent[p]]))
      /\ config' = IF save THEN [config EXCEPT ![p] = [gen |-> msg.gen, cfg |-> msg.cfg]] ELSE config
      /\ applying' = IF save THEN [step |-> "saved", project |-> p] ELSE applying
    BY <1>1, <1>2 DEF SaveProjectConfig, recordVars
<1>4. Onward /\ BoundPlaced'
  <2>1. Onward
      BY <1>3 DEF Onward
  <2>2. (applying' = applying /\ config' = config) \/ applying'.step # "bound"
      BY <1>3
  <2> QED  BY <2>1, <2>2, BoundStays
<1>5. SentPlaced'
  <2>1. CASE toServer' = toServer
      BY <1>4, <2>1, SentStays
  <2>2. CASE toServer' # toServer
    <3>1. PICK a : a = projectCurrent[p] /\ a = ack[p] /\ a \in Acks /\ a.gen = config[p].gen
      <4>1. projectCurrent[p] \in {NoAck, ack[p]}
          BY DEF SyncInv, RecordOk
      <4> QED  BY <1>1, <1>3, <2>2, <4>1, PlacedFacts, MessageFacts
    <3>2. PlacedWanted(p, a) /\ a.gen <= desired[p].gen
        BY <3>1, PlacedFacts, HereIsWanted DEF PlaceInv
    <3>3. PICK m : m = [type |-> "ack", project |-> p, ack |-> a]
        OBVIOUS
    <3>4. m \in AckMessages /\ m.project = p /\ m.ack = a
        BY <3>1, <3>3 DEF AckMessages
    <3>5. toServer' = Append(toServer, m) /\ GoodNews(m)
        BY <1>3, <2>2, <3>1, <3>2, <3>3, <3>4 DEF GoodNews
    <3> QED  BY <1>4, <3>4, <3>5, SentStays
  <2> QED  BY <2>1, <2>2
<1>6. ASSUME NEW q \in Project PROVE PlacedHere(q, ack[q])' /\ PlacedWanted(q, lastAck[q])'
  <2>1. PlacedWanted(q, lastAck[q])'
      BY <1>3, <1>4, PlacedStays DEF PlacedWanted, PlaceInv, Onward
  <2>2. config'[q] = config[q] \/ config'[q].gen > config[q].gen
           \/ (config'[q].gen = config[q].gen /\ config'[q].cfg = config[q].cfg)
      BY <1>1, <1>2, <1>3, PlacedFacts, SentFacts DEF SyncTypes
  <2>3. PICK b : b = ack[q] /\ b = ack'[q] /\ PlacedHere(q, b) /\ b.gen <= config[q].gen
                 /\ b.gen \in Nat /\ config[q].gen \in Nat
      BY <1>3, PlacedFacts, MessageFacts DEF PlaceInv
  <2>4. PICK cfg : cfg = config[q].cfg
      OBVIOUS
  <2>5. config'[q].gen \in Nat
      BY MessageFacts DEF SyncInv, SyncTypes
  <2>6. b.gen > 0 /\ b.gen = config'[q].gen => Placed(b, cfg) /\ config'[q].cfg = cfg
      BY <2>2, <2>3, <2>4, <2>5 DEF PlacedHere
  <2>7. Placed(b, cfg) => Placed(b, cfg)'
      BY <1>4, PlacedStays DEF Onward
  <2> QED  BY <2>1, <2>3, <2>6, <2>7 DEF PlacedHere
<1> QED  BY <1>3, <1>4, <1>5, <1>6 DEF PlaceInv, NoFault, Onward

LEMMA PlaceApplies == ASSUME SyncInv, SyncInv', PlaceInv, ApplyBinding PROVE PlaceInv'
<1>1. PICK p \in Project : p = applying.project /\ config[p].gen \in Nat /\ applying.step = "saved"
    BY ApplyBindingIs, ApplyingFacts
<1>2. PICK new : \E code \in {"applied", "invalid_path", "configuration_conflict"} :
         /\ AppliedOk(p, code, new) /\ fs' = new.fs
         /\ applying' = [step |-> "bound", project |-> p, ack |-> Outcome(config[p].gen, code, new.m[p])]
    BY <1>1, ApplyBindingIs
<1>3. PICK code \in {"applied", "invalid_path", "configuration_conflict"} :
         /\ AppliedOk(p, code, new) /\ fs' = new.fs
         /\ applying' = [step |-> "bound", project |-> p, ack |-> Outcome(config[p].gen, code, new.m[p])]
    BY <1>2
<1>4. UNCHANGED <<config, desired, lastAck, ack, toServer, fault>>
    BY ApplyBindingIs DEF cacheVars, recordVars, netVars
<1>5. Onward
    BY <1>3, <1>4 DEF Onward, AppliedOk
<1>6. BoundPlaced'
  <2>1. PICK a : /\ a = Outcome(config[p].gen, code, new.m[p]) /\ a.status = code
                 /\ code = "applied" => a.dir = new.m[p].dir /\ a.root = new.m[p].root
      BY <1>1, <1>3, OutcomeIs DEF AppliedOk
  <2>2. applying'.project = p /\ applying'.ack = a
      BY <1>3, <2>1
  <2>3. a.status = "applied" =>
           a.dir = Leads(fs, config[p].cfg.path) /\ a.root = RootFor(config[p].cfg.root, a.dir)
      BY <1>3, <2>1 DEF AppliedOk
  <2>4. Placed(a, config[p].cfg)
      BY <2>3 DEF Placed
  <2>5. Placed(a, config[p].cfg)'
      BY <1>4, <1>5, <2>4 DEF Placed, Leads, Onward
  <2> QED  BY <2>2, <2>5 DEF BoundPlaced, PlacedHere
<1>7. SentPlaced'
    BY <1>4, <1>5, SentStays
<1> QED  BY <1>4, <1>5, <1>6, <1>7, PlaceStays

LEMMA PlaceCancels == ASSUME SyncInv, SyncInv', PlaceInv, ApplyCancelled PROVE PlaceInv'
<1>1. PICK a : /\ applying' = [step |-> "bound", project |-> applying.project, ack |-> a]
               /\ a.status = "invalid_path"
    BY ApplyCancelledIs
<1>2. UNCHANGED <<config, desired, lastAck, ack, toServer, fault>> /\ fs'.target = fs.target
    BY ApplyCancelledIs DEF cacheVars, recordVars, netVars
<1>3. Onward
    BY <1>2 DEF Onward
<1>4. BoundPlaced'
    BY <1>1 DEF BoundPlaced, PlacedHere, Placed
<1>5. SentPlaced'
    BY <1>2, <1>3, SentStays
<1> QED  BY <1>2, <1>3, <1>4, <1>5, PlaceStays

LEMMA PlaceRestores == ASSUME SyncInv, SyncInv', PlaceInv, Registered PROVE PlaceInv'
<1>1. /\ UNCHANGED <<config, desired, lastAck, ack, fault, applying>> /\ fs' = Restored.fs
      /\ toServer' = toServer \/ toServer' = Append(toServer, [type |-> "offer"])
    BY DEF Registered, cacheVars, recordVars
<1>2. Onward
    BY <1>1, SentFacts, RestoredIsOk DEF Onward, RestoredOk
<1> QED  BY <1>1, <1>2, PlaceQuiet

LEMMA PlaceFilesystem ==
    ASSUME Still, SyncInv, SyncInv', PlaceInv, FilesystemStep PROVE PlaceInv'
<1>1. UNCHANGED <<config, desired, lastAck, ack, fault, applying, toServer>>
    BY DEF FilesystemStep, Unmount, Mount, Repoint, Filesystem, cacheVars, recordVars, handlerVars, netVars
<1>2. fs'.target = fs.target
  <2>1. ~\E l \in Path : \E d \in Targets[l] : Repoint(l, d)
      BY DEF Still, PlaceInv, Repoint
  <2>2. PICK x : fs' = [fs EXCEPT !.online = x]
      BY <2>1 DEF FilesystemStep, Unmount, Mount, Filesystem
  <2> QED  BY <2>2
<1> QED  BY <1>1, <1>2, PlaceQuiet DEF Onward

LEMMA PlaceStarts == ASSUME Init PROVE PlaceInv
<1>1. \A l \in Path : fs.target[l] \in Targets[l]
    BY DEF Init
<1>2. \A p \in Project : ack[p].gen = 0 /\ lastAck[p].gen = 0
    BY MessageFacts DEF Init, NoAcks
<1>3. toServer = <<>> /\ applying.step # "bound" /\ fault = "none"
    BY DEF Init, Idle
<1> QED  BY <1>1, <1>2, <1>3 DEF PlaceInv, PlacedHere, PlacedWanted, SentPlaced, BoundPlaced, NoFault

LEMMA PlaceStep == ASSUME Still, SyncInv, SyncInv', PlaceInv, [Next]_vars PROVE PlaceInv'
<1>1. CASE UNCHANGED vars
    BY <1>1, PlaceQuiet DEF vars, recordVars, netVars, cacheVars, handlerVars, Onward
<1>2. CASE CoordinatorStep
  <2>1. CASE \E p \in Project : \E cfg \in Config[p] : RegisterProject(p, cfg)
      BY <2>1, PlaceRegisters
  <2>2. CASE (\E p \in Project : SubmitMutation(p)) \/ projectUpdates \/ EndSession
             \/ (\E m \in outbound : DispatchMutation(m)) \/ (\E s \in hello : BeginSession(s))
    <3>1. /\ UNCHANGED <<config, ack, lastAck, desired, fault, fs, applying>>
          /\ toServer' = toServer \/ toServer' = <<>>
        BY <2>2 DEF SubmitMutation, projectUpdates, EndSession, DispatchMutation, BeginSession, Entry,
           recordVars, netVars, cacheVars, handlerVars
    <3> QED  BY <3>1, PlaceQuiet DEF Onward
  <2>3. CASE acknowledgeProject
      BY <2>3, PlaceAcknowledges
  <2>4. CASE refuseAcknowledgement
      BY <2>4, NothingRefused
  <2>5. CASE adoptProjects
      BY <2>5, PlaceAdopts
  <2> QED  BY <1>2, <2>1, <2>2, <2>3, <2>4, <2>5 DEF CoordinatorStep
<1>3. CASE NodeStep
  <2>1. CASE NodeStart \/ OpenStream \/ CloseSession \/ ReceiveMutation \/ (\E m \in work : resolveManaged(m))
    <3>1. UNCHANGED <<config, ack, lastAck, desired, fault, fs, applying, toServer>>
        BY <2>1 DEF NodeStart, OpenStream, CloseSession, ReceiveMutation, resolveManaged, recordVars, netVars,
           cacheVars, handlerVars
    <3> QED  BY <3>1, PlaceQuiet DEF Onward
  <2>2. CASE Registered
      BY <2>2, PlaceRestores
  <2>3. CASE SaveProjectConfig \/ SaveProjectAck \/ RefuseProjectAck
      BY <2>3, PlaceSavesConfig, PlaceSavesAck, NoConflict
  <2>4. CASE ApplyBinding \/ ApplyCancelled
      BY <2>4, PlaceApplies, PlaceCancels
  <2>5. CASE SessionClosed \/ NodeCrash
    <3>1. /\ UNCHANGED <<config, ack, lastAck, desired, fault, fs, toServer>>
          /\ applying'.step # "bound"
        BY <2>5 DEF SessionClosed, NodeCrash, Forget, Idle, recordVars, cacheVars
    <3> QED  BY <3>1, PlaceQuiet DEF Onward
  <2>6. CASE UseBinding
    <3>1. /\ UNCHANGED <<config, ack, lastAck, desired, fault, applying, toServer>>
          /\ fs' = fs \/ fs' = [fs EXCEPT !.roots[held.binding.root] = "used"]
        BY <2>6 DEF UseBinding, recordVars, netVars, cacheVars
    <3>2. fs'.target = fs.target
        BY <3>1, SentFacts DEF SyncTypes, Filesystems
    <3> QED  BY <3>1, <3>2, PlaceQuiet DEF Onward
  <2> QED  BY <1>3, <2>1, <2>2, <2>3, <2>4, <2>5, <2>6 DEF NodeStep
<1>4. CASE FilesystemStep
    BY <1>4, PlaceFilesystem
<1> QED  BY <1>1, <1>2, <1>3, <1>4 DEF Next

(* While no link moves, no acknowledgement and no journal entry contradicts *)
(* another: neither side ever ends the node's session for good.             *)
THEOREM NoFaultAlways == ASSUME Still PROVE Spec => []NoFault
<1>1. Init => PlaceInv
    BY PlaceStarts
<1>2. SyncInv /\ SyncInv' /\ PlaceInv /\ [Next]_vars => PlaceInv'
    BY PlaceStep
<1>3. PlaceInv => NoFault
    BY DEF PlaceInv
<1> QED  BY <1>1, <1>2, <1>3, SyncInvariant, PTL DEF Spec
=============================================================================
