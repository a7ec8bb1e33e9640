------------------------- MODULE MCCommandDelivery --------------------------
(***************************************************************************)
(* Small instances of CommandDelivery.                                     *)
(***************************************************************************)
EXTENDS CommandDelivery, TLC

CONSTANTS c1, c2, c3, k1, k2, p1

\* c1 and c2 are two attempts with one key; c3 mutates the same project.
ProjectIds == {c1, c2, c3}
ProjectKeyOf == (c1 :> k1) @@ (c2 :> k1) @@ (c3 :> k2)
ProjectKindOf == [c \in ProjectIds |-> "project"]
ProjectProjectOf == [c \in ProjectIds |-> p1]
ProjectSymmetry == Permutations({c1, c2})

\* A probe and a session ensure.
MixedIds == {c1, c2}
MixedKeyOf == (c1 :> k1) @@ (c2 :> k2)
MixedKindOf == (c1 :> "probe") @@ (c2 :> "session_ensure")
MixedProjectOf == [c \in MixedIds |-> NoProject]
=============================================================================
