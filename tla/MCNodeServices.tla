--------------------------- MODULE MCNodeServices ---------------------------
(* One question at a time: two ensures of a session, its observer alone, or   *)
(* two queries of it while the observer follows the server, one report at a   *)
(* time, and reads no more trees.  The constraint leaves out the behaviours   *)
(* in which two of these groups are active.                                   *)
EXTENDS AgentQueries, TLC

CONSTANTS e1, e2, q1, q2

ReadsTrees == watch.tree # None \/ updates # <<>>
Ensures    == \E e \in Ensurer : ensure[e].step # "idle"
Queries    == \E q \in Query : call[q].step # "idle"

OneGroup ==
    /\ Ensures => ~Queries /\ inventory = <<>> /\ cview.incarnation = 0
    /\ Queries => ~ReadsTrees /\ (discovery = <<>> \/ inventory = <<>>)

Interchangeable == Permutations({e1, e2}) \cup Permutations({q1, q2})
=============================================================================
