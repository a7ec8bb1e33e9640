-------------------------- MODULE MCAgentLifecycle --------------------------
(* One question at a time.  "lifecycle": two starts in one workspace, the     *)
(* first with a prompt and the second in the default session; a control of    *)
(* the first agent; and two controls and a stop of an agent that was there    *)
(* before.  "requests": two operators, on one computer or on two, who start   *)
(* and stop one name.                                                         *)
EXTENDS AgentLifecycle, ManagedRequests, TLC

CONSTANTS s1, s2, k1, k2, k3, p1, t0, w1, o1, o2, here, there

VARIABLE part

MCCommand     == {s1, s2, k1, k2, k3, p1}
MCKindOf      == [c \in MCCommand |-> CASE c \in {s1, s2} -> "start"
                                       [] c \in {k1, k2, k3} -> "control"
                                       [] c = p1 -> "stop"]
MCWorkspaceOf == [c \in MCCommand |-> w1]
MCTerminalOf  == [c \in MCCommand |-> IF c = k1 THEN s1 ELSE t0]

(* The pairs of commands that can get into each other's way. *)
Related == part = "lifecycle" =>
           \E pair \in {{s1, s2}, {s1, k1}, {k2, k3}, {k2, p1}} :
              {c \in MCCommand : rec[c].status # "none"} \subseteq pair

MCInit ==
    /\ part \in {"lifecycle", "requests"}
    /\ Init /\ RequestsInit
    /\ home[o1] = here
    /\ part = "lifecycle" => home[o2] = here

(* The first command is the first operator's, and only the second operator    *)
(* may ask for something else; a third command is a stop on one computer,     *)
(* while no start runs; the session or the project changes once, before it.   *)
RequestBounds ==
    /\ given' = 1 => run'[o2] = Resting
    /\ run'[o1].wish # 2
    /\ given' = 3 => /\ home[o2] = here
                     /\ \A o \in Operator : run'[o].stage = "stop" \/ run'[o] = Resting
                     /\ UNCHANGED <<session, generation>>
    /\ session' + generation' <= 3

MCNext ==
    \/ part = "lifecycle" /\ Next /\ UNCHANGED <<part, requestVars>>
    \/ part = "requests" /\ RequestsNext /\ RequestBounds /\ UNCHANGED <<part, vars>>

MCSpec == MCInit /\ [][MCNext]_<<part, vars, requestVars>>

=============================================================================
