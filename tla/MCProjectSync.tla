--------------------------- MODULE MCProjectSync ----------------------------
(***************************************************************************)
(* Small instances of ProjectSync.                                         *)
(***************************************************************************)
EXTENDS ProjectSync, TLC

CONSTANTS p1, p2, link, d1, d2, r1, r2

Roots == (d1 :> r1) @@ (d2 :> r2)

\* One project whose registered path is a link, and where it may lead.
LinkConfig == p1 :> {[path |-> link, root |-> Default], [path |-> d2, root |-> r2]}
LinkLegacy == p1 :> None
LinkOrder == <<p1>>
LinkTargets == link :> {d1, d2}

\* Two projects that may be given the same checkout or the same root; one
\* comes from a policy file, with a root that is already full.
RootsConfig ==
    (p1 :> {[path |-> d1, root |-> r1], [path |-> d2, root |-> r1], [path |-> d1, root |-> r2]})
      @@ (p2 :> {[path |-> d2, root |-> Default]})
RootsLegacy == (p1 :> [path |-> d1, root |-> r1]) @@ (p2 :> None)
RootsOrder == <<p1, p2>>
RootsTargets == <<>>
=============================================================================
