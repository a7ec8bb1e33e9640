-------------------------- MODULE ManagedProjects ---------------------------
(***************************************************************************)
(* A node's cache of managed project bindings (projects/managed.go): which *)
(* checkout and which worktree root each project is bound to, and when the *)
(* local filesystem lets a project be bound.                               *)
(*                                                                         *)
(* A checkout is named by its canonical directory (Dir) or by a link       *)
(* (Path) that leads to one.  fs is the part of the filesystem the cache   *)
(* looks at: where each link leads, which directories are valid checkouts  *)
(* just now, and whether each root exists and holds anything.  Distinct    *)
(* directories and roots do not contain one another, a directory that      *)
(* comes back is the one that went away, and roots are never removed.      *)
(***************************************************************************)
EXTENDS Naturals

CONSTANTS
    Project,
    Path,         \* links that may be registered as a checkout path
    Dir,          \* canonical checkout directories
    Root,         \* worktree root directories
    Default,      \* a registration that names no root
    DefaultRoot,  \* the sibling <checkout>-worktrees of each directory
    None

ASSUME PlacesAssumption ==
    /\ DefaultRoot \in [Dir -> Root]
    /\ Path \cap Dir = {}
    /\ Default \notin Root
    /\ None \notin Path \cup Dir \cup Root \cup {Default}

Configs == [path : Path \cup Dir, root : Root \cup {Default}]

\* gen is the project's generation, 0 for the revision of a legacy policy;
\* src is the path that was pinned.
Bindings ==
    [gen : Nat, src : Path \cup Dir \cup {None}, dir : Dir \cup {None},
     root : Root \cup {None}]

NoBinding == [gen |-> 0, src |-> None, dir |-> None, root |-> None]

Bound(b) == b.dir # None

Leads(fs, src) == IF src \in Path THEN fs.target[src] ELSE src

ValidateWorktreeRoot(fs, b) == b.dir \in fs.online /\ Leads(fs, b.src) = b.dir

RootFor(root, dir) == IF root = Default THEN DefaultRoot[dir] ELSE root

\* Mutant: only roots are kept apart.
CheckoutTakenNever(fs, others, dir) == FALSE

\* Another valid binding is in the directory.
CheckoutTaken(fs, others, dir) ==
    \E b \in others : ValidateWorktreeRoot(fs, b) /\ b.dir = dir

(***************************************************************************)
(* Why apply refuses to bind project p in the cache m, if it does: each    *)
(* code it may answer with.  granted holds the root a pinned legacy or     *)
(* formerly applied binding brings along.  The other bindings are looked   *)
(* at in no particular order.                                              *)
(***************************************************************************)
Refusals(fs, m, p, gen, src, root, granted) ==
    LET dir == Leads(fs, src)
        place == RootFor(root, dir)
        old == m[p]
        others == {m[q] : q \in {q \in Project \ {p} : Bound(m[q])}}
        moved ==
            /\ Bound(old)
            /\ old.gen = gen
            /\ ~ValidateWorktreeRoot(fs, old) \/ old.dir # dir \/ old.root # place
        refused ==
            {code \in {"invalid_path", "configuration_conflict"} :
                IF code = "invalid_path"
                THEN \E b \in others : ~ValidateWorktreeRoot(fs, b)
                ELSE CheckoutTaken(fs, others, dir)}
        owned ==
            \/ Bound(old) /\ ValidateWorktreeRoot(fs, old) /\ old.root = place
            \/ place \in granted
    IN  IF dir \notin fs.online THEN {"invalid_path"}
        ELSE IF moved THEN {"configuration_conflict"}
        ELSE IF refused # {} THEN refused
        ELSE IF \E b \in others : b.root = place THEN {"configuration_conflict"}
        ELSE IF fs.roots[place] = "used" /\ ~owned THEN {"invalid_path"}
        ELSE {}

\* A state of the node is [fs, m]; a missing root is created.
apply(st, p, gen, src, root, granted) ==
    IF Refusals(st.fs, st.m, p, gen, src, root, granted) # {} THEN st
    ELSE LET dir == Leads(st.fs, src)
             place == RootFor(root, dir)
         IN  [st EXCEPT
                !.m[p] = [gen |-> gen, src |-> src, dir |-> dir, root |-> place],
                !.fs.roots[place] = IF @ = "missing" THEN "empty" ELSE @]

\* Mutant: a restored binding is applied like a new one.
RestoreOwnershipAfresh(st, p, applied) ==
    apply(st, p, applied.gen, applied.dir, applied.root, {})

RestoreOwnership(st, p, applied) ==
    IF applied.dir \in st.fs.online
    THEN apply(st, p, applied.gen, applied.dir, applied.root, {applied.root})
    ELSE st

AdoptLegacy(st, p, cfg) ==
    IF Leads(st.fs, cfg.path) \in st.fs.online
    THEN apply(st, p, 0, cfg.path, cfg.root, {cfg.root} \ {Default})
    ELSE st
=============================================================================
