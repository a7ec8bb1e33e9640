--------------------------- MODULE ManagedRequests ---------------------------
(***************************************************************************)
(* agent start and agent stop of the managed command line                  *)
(* (app/managed_commands.go) for one agent name, given on several          *)
(* computers and several times.  A start takes three commands (session,    *)
(* workspace, start); before a command is submitted its request and key    *)
(* are kept in a file of the computer's ledger, and whoever comes later    *)
(* takes what is kept.  A process may die at any step, also while it       *)
(* writes; an answer may be lost after the coordinator has acted on it;    *)
(* the session and the project may change under way.                       *)
(***************************************************************************)
EXTENDS Naturals, FiniteSets

CONSTANTS Operator,       \* command line processes that may run together
          Computer,       \* computers they may run on
          Wish,           \* what an operator may ask for: provider and prompt
          MaxGiven,       \* bound on the commands given
          MaxSessions, MaxGeneration,  \* bounds on the changes under way
          Torn,           \* a file whose writing was cut short
          Nothing

Stages == {"intent", "session", "workspace", "start", "stop"}

(* A request: the session and the revision it is for, and what was asked. *)
Bodies == [inc : Nat, gen : Nat, wish : Wish \cup {Nothing}]
Files  == [key : Nat, body : Bodies]

ASSUME RequestAssumption ==
    /\ Nothing \notin Operator \cup Wish
    /\ Torn # Nothing /\ {Torn, Nothing} \cap Files = {}

VARIABLES home,           \* the computer of each process
          ledger,         \* managed-requests/ of each computer
          ledgerLock,     \* who holds its role-state.lock, or Nothing
          run,            \* what each process is doing
          records,        \* commands of the coordinator's journal
          session,        \* incarnation of the session on the node
          generation,     \* of the applied project
          given, keys     \* commands given and keys made so far

requestVars == <<home, ledger, ledgerLock, run, records, session, generation,
                 given, keys>>

NoBody == [inc |-> 0, gen |-> 0, wish |-> Nothing]
Resting == [step |-> "idle", wish |-> Nothing, stage |-> "intent", body |-> NoBody,
         key |-> 0, inc |-> 0]

RequestsInit ==
    /\ home \in [Operator -> Computer]
    /\ ledger = [c \in Computer |-> [s \in Stages |-> Nothing]]
    /\ ledgerLock = [c \in Computer |-> Nothing]
    /\ run = [o \in Operator |-> Resting]
    /\ records = {} /\ session = 1 /\ generation = 1 /\ given = 0 /\ keys = 0

File(o, stage) == ledger[home[o]][stage]
Named == {r \in records : r.stage = "start"}     \* FindNamedAgent
ResolveNamedAgent == Named # {}
Doing(o, step) == run[o].step = step
Still == UNCHANGED <<home, session, generation, given>>
Over(o) == run' = [run EXCEPT ![o] = Resting]

-----------------------------------------------------------------------------
(* executeManaged: the node's view is read first. *)
StartAgent(o, wish) ==
    /\ Doing(o, "idle") /\ given < MaxGiven /\ given' = given + 1
    /\ run' = [run EXCEPT ![o] = [Resting EXCEPT !.step = "persist", !.wish = wish,
                                              !.body = [NoBody EXCEPT !.wish = wish]]]
    /\ UNCHANGED <<home, ledger, ledgerLock, records, session, generation, keys>>

StopAgent(o) ==
    /\ Doing(o, "idle") /\ given < MaxGiven /\ given' = given + 1
    /\ run' = [run EXCEPT ![o] = [Resting EXCEPT !.step = "readStop", !.stage = "stop",
                                              !.inc = session]]
    /\ UNCHANGED <<home, ledger, ledgerLock, records, session, generation, keys>>

(***************************************************************************)
(* managedSaveRequest with a fresh key, and managedPersist: under the      *)
(* ledger's lock, take the file that is there or make it, and finish it    *)
(* before going on.                                                        *)
(***************************************************************************)
Save(o, stage, body) ==
    /\ keys' = keys + 1
    /\ run' = [run EXCEPT ![o].step = "persist", ![o].stage = stage,
                          ![o].body = body, ![o].key = keys']

AfterPersist(stage) == IF stage = "intent" THEN "original" ELSE "submit"

(* Mutant of Preserved: the request just made is used, not the kept one. *)
JustMade(kept, mine) == mine

(* The request a process goes on with. *)
Preserved(kept, mine) == kept

Persist(o) ==
    /\ Doing(o, "persist") /\ ledgerLock[home[o]] = Nothing
    /\ LET kept == File(o, run[o].stage)
           mine == [key |-> run[o].key, body |-> run[o].body]
       IN  \/ /\ kept = Nothing
              /\ ledger' = [ledger EXCEPT ![home[o]][run[o].stage] = Torn]
              /\ ledgerLock' = [ledgerLock EXCEPT ![home[o]] = o]
              /\ run' = [run EXCEPT ![o].step = "write"]
           \/ /\ kept \notin {Nothing, Torn} /\ kept.body = mine.body
              /\ run' = [run EXCEPT ![o].step = AfterPersist(run[o].stage),
                                    ![o].key = Preserved(kept, mine).key]
              /\ UNCHANGED <<ledger, ledgerLock>>
           \/ /\ kept # Nothing /\ (kept # Torn => kept.body # mine.body)
              /\ Over(o) /\ UNCHANGED <<ledger, ledgerLock>>
    /\ UNCHANGED <<records, keys>> /\ Still

FinishWrite(o) ==
    /\ Doing(o, "write")
    /\ ledger' = [ledger EXCEPT ![home[o]][run[o].stage] =
                      [key |-> run[o].key, body |-> run[o].body]]
    /\ ledgerLock' = [ledgerLock EXCEPT ![home[o]] = Nothing]
    /\ run' = [run EXCEPT ![o].step = AfterPersist(run[o].stage)]
    /\ UNCHANGED <<records, keys>> /\ Still

(* managedReadRequest takes no lock, and may meet a file half written. *)
Resume(o, stage) ==
    run' = [run EXCEPT ![o].step = "submit", ![o].stage = stage,
                       ![o].key = File(o, stage).key, ![o].body = File(o, stage).body]
ReadOriginal(o) ==
    /\ Doing(o, "original")
    /\ \/ File(o, "start") = Nothing /\ run' = [run EXCEPT ![o].step = "resolve"]
       \/ File(o, "start") = Torn /\ Over(o)
       \/ /\ File(o, "start") \notin {Nothing, Torn}
          /\ IF File(o, "start").body.wish = run[o].wish THEN Resume(o, "start") ELSE Over(o)
    /\ UNCHANGED <<ledger, ledgerLock, records, keys>> /\ Still

(* A name that has a start is not set up again, wherever it came from. *)
ResolveName(o) ==
    /\ Doing(o, "resolve")
    /\ \/ ~ResolveNamedAgent /\ Save(o, "session", NoBody)
       \/ ResolveNamedAgent /\ Over(o) /\ UNCHANGED keys
    /\ UNCHANGED <<ledger, ledgerLock, records>> /\ Still

ReadStop(o) ==
    /\ Doing(o, "readStop")
    /\ \/ File(o, "stop") = Nothing /\ run' = [run EXCEPT ![o].step = "find"]
       \/ File(o, "stop") = Torn /\ Over(o)
       \/ File(o, "stop") \notin {Nothing, Torn} /\ Resume(o, "stop")
    /\ UNCHANGED <<ledger, ledgerLock, records, keys>> /\ Still

(* managedHandle and managedCurrentSession: the original's confirmed pane, *)
(* in the session the node's view has shown.                               *)
FindHandle(o) ==
    /\ Doing(o, "find")
    /\ \/ \E r \in Named : /\ r.receipt # 0 /\ r.receipt = run[o].inc
                           /\ Save(o, "stop", [NoBody EXCEPT !.inc = r.receipt])
       \/ /\ \A r \in Named : r.receipt = 0 \/ r.receipt # run[o].inc
          /\ Over(o) /\ UNCHANGED keys
    /\ UNCHANGED <<ledger, ledgerLock, records>> /\ Still

-----------------------------------------------------------------------------
(* SubmitCommand: the same key gives the same record; a second start of    *)
(* the name is refused.  The answer may be lost.                           *)
Mine(o) == {r \in records : r.by = home[o] /\ r.key = run[o].key}
checkNamedAgentClaim(o) == run[o].stage = "start" => Named = {}
NewCommand(o) == [by |-> home[o], key |-> run[o].key, stage |-> run[o].stage,
                  body |-> run[o].body, status |-> "open", receipt |-> 0]

SubmitRequest(o) ==
    /\ Doing(o, "submit")
    /\ \/ /\ Mine(o) # {} /\ run' = [run EXCEPT ![o].step = "wait"]
          /\ UNCHANGED records
       \/ /\ Mine(o) = {} /\ checkNamedAgentClaim(o)
          /\ records' = records \cup {NewCommand(o)}
          /\ run' \in {[run EXCEPT ![o].step = "wait"], [run EXCEPT ![o] = Resting]}
       \/ Mine(o) = {} /\ ~checkNamedAgentClaim(o) /\ Over(o) /\ UNCHANGED records
    /\ UNCHANGED <<ledger, ledgerLock, keys>> /\ Still

(* waitCommand, and what managedStart does with the receipt. *)
WaitCommand(o) ==
    /\ Doing(o, "wait")
    /\ \E r \in Mine(o) :
         \/ r.status = "failed" /\ Over(o)
         \/ /\ r.status = "succeeded" /\ r.stage = "session"
            /\ run' = [run EXCEPT ![o].step = "project", ![o].inc = r.receipt]
         \/ /\ r.status = "succeeded" /\ r.stage = "workspace"
            /\ run' = [run EXCEPT ![o].step = "pinned"]
         \/ r.status = "succeeded" /\ r.stage \in {"start", "stop"} /\ Over(o)
    /\ UNCHANGED <<ledger, ledgerLock, records, keys>> /\ Still

WaitProject(o) ==
    /\ Doing(o, "project")
    /\ Save(o, "workspace", [NoBody EXCEPT !.inc = run[o].inc, !.gen = generation])
    /\ UNCHANGED <<ledger, ledgerLock, records>> /\ Still

SaveStart(o) ==
    /\ Doing(o, "pinned")
    /\ Save(o, "start", [run[o].body EXCEPT !.wish = run[o].wish])
    /\ UNCHANGED <<ledger, ledgerLock, records>> /\ Still

(* Every step may fail, give up waiting, or the process die; the lock goes *)
(* with the process and a file half written stays.                         *)
GiveUp(o) ==
    /\ ~Doing(o, "idle") /\ Over(o)
    /\ ledgerLock' = [c \in Computer |-> IF ledgerLock[c] = o THEN Nothing ELSE ledgerLock[c]]
    /\ UNCHANGED <<ledger, records, keys>> /\ Still

-----------------------------------------------------------------------------
(***************************************************************************)
(* The node, as far as the commands' outcomes tell.                        *)
(***************************************************************************)
Update(r, status, receipt) ==
    records' = (records \ {r}) \cup {[r EXCEPT !.status = status, !.receipt = receipt]}

Fits(r) ==
    CASE r.stage = "session"   -> TRUE
      [] r.stage = "stop"      -> r.body.inc = session
      [] OTHER                 -> r.body.inc = session /\ r.body.gen = generation

Execute(r) ==
    /\ r \in records /\ r.status = "open"
    /\ \/ Update(r, "failed", r.receipt)
       \/ r.stage = "start" /\ r.receipt = 0 /\ Fits(r) /\ Update(r, "open", session)
       \/ r.stage = "start" /\ r.receipt # 0 /\ Update(r, "succeeded", r.receipt)
       \/ r.stage # "start" /\ Fits(r) /\ Update(r, "succeeded", session)
    /\ UNCHANGED <<home, ledger, ledgerLock, run, session, generation, given, keys>>

ReplaceSession ==
    /\ session < MaxSessions /\ session' = session + 1
    /\ UNCHANGED <<home, ledger, ledgerLock, run, records, generation, given, keys>>

RegisterAgain ==
    /\ generation < MaxGeneration /\ generation' = generation + 1
    /\ UNCHANGED <<home, ledger, ledgerLock, run, records, session, given, keys>>

RequestsNext ==
    \/ \E o \in Operator :
         \/ \E wish \in Wish : StartAgent(o, wish)
         \/ StopAgent(o) \/ Persist(o) \/ FinishWrite(o) \/ ReadOriginal(o)
         \/ ResolveName(o) \/ ReadStop(o) \/ FindHandle(o) \/ SubmitRequest(o)
         \/ WaitCommand(o) \/ WaitProject(o) \/ SaveStart(o) \/ GiveUp(o)
    \/ \E r \in records : Execute(r)
    \/ ReplaceSession \/ RegisterAgain

RequestsSpec == RequestsInit /\ [][RequestsNext]_requestVars

-----------------------------------------------------------------------------
(***************************************************************************)
(* However often a start or stop is repeated, wherever, and whatever it    *)
(* was interrupted by: every command the coordinator has is the one its    *)
(* computer's ledger keeps for that stage (managed_commands.go:537); the   *)
(* name is started once, as its operator first asked, in the session and   *)
(* on the revision that the receipts of that computer's earlier stages     *)
(* name; and a stop is for the pane that start made (492).                 *)
(***************************************************************************)
StartedOnce ==
    /\ Cardinality(Named) <= 1
    /\ \A r \in records : ledger[r.by][r.stage] = [key |-> r.key, body |-> r.body]
    /\ \A r \in Named :
         /\ ledger[r.by]["intent"].body.wish = r.body.wish
         /\ \E s \in records : /\ s.by = r.by /\ s.stage = "session"
                               /\ s.status = "succeeded" /\ s.receipt = r.body.inc
         /\ \E w \in records : /\ w.by = r.by /\ w.stage = "workspace"
                               /\ w.status = "succeeded"
                               /\ w.body = [r.body EXCEPT !.wish = Nothing]
    /\ \A r \in records : r.stage = "stop" =>
         r.body.inc # 0 /\ \E n \in Named : n.receipt = r.body.inc

=============================================================================
