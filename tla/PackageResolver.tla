--------------------------- MODULE PackageResolver ---------------------------
(***************************************************************************)
(* Dependency resolution (src/package/mod.rs): resolve_dependencies walks  *)
(* the manifests depth first and keeps one instance of every package;      *)
(* resolve_locked_dependencies walks the graph of a Cell.lock and accepts  *)
(* it only if it is the graph the manifests describe.                      *)
(*                                                                         *)
(* Packages are named by naturals in the order of their aliases; a version *)
(* is a natural.  A dependency [from, accepts, exact, features, optional]  *)
(* names its source, the versions its requirement admits, whether that is  *)
(* an =x.y.z pin, the features it asks for, and whether it is optional.  A *)
(* node [name, version, from, features] is a package_node_id.  Sources are *)
(* immutable once published, so digests and source hashes always match.    *)
(* Environments are left out, and so are versions that the compiler or the *)
(* verification status rules out for good: they are not available.  No     *)
(* dependency sets allow_quarantined.                                      *)
(***************************************************************************)
EXTENDS Integers, FiniteSets, FiniteSetsExt, Functions, Sequences, TLC

CONSTANTS
    Feature   \* the feature that switches optional dependencies on

(* selected_dependencies: optional ones only with their feature. *)
SelectedDependencies(deps, features) ==
    {n \in DOMAIN deps : ~deps[n].optional \/ Feature \in features}

\* Mutant of Blocked: a yanked version is taken like any other.
Blocked_Quarantine(w, n, v, d) == <<n, v>> \in w.quarantined \ w.yanked

\* resolver_block_reason: a yanked version only for an exact pin, a quarantined
\* one not even then; of one that is both, the yank is looked at.
Blocked(w, n, v, d) ==
    IF <<n, v>> \in w.yanked THEN ~d.exact ELSE <<n, v>> \in w.quarantined

(* Registry resolution takes the highest version that the requirement admits *)
(* and that is not blocked; a path has the version in its tree.              *)
Candidates(w, n, d) ==
    IF d.from = "path" THEN {1}
    ELSE {v \in w.avail[n] : v \in d.accepts /\ ~Blocked(w, n, v, d)}

NodeId(n, v, d) == [name |-> n, version |-> v, from |-> d.from, features |-> d.features]

\* Only a registry dependency carries a requirement to reconcile.
Admits(d, v) == d.from = "path" \/ v \in d.accepts

(* register_package_instance: the instance selected first serves every later *)
(* request it can; there is no second instance and no backtracking.          *)
Conflicts(have, node, d, locked) ==
    \/ have.features # node.features
    \/ have.version = node.version /\ have.from # node.from
    \/ /\ have.version # node.version
       /\ locked \/ have.from # "registry" \/ node.from # "registry" \/ ~Admits(d, have.version)

\* Mutant of Register: a locked graph may carry two instances of a package.
Register_LockedTwice(acc, node, d, locked) ==
    IF locked \/ node.name \notin DOMAIN acc.selected
    THEN [acc EXCEPT !.selected = @ @@ (node.name :> node), !.node = node]
    ELSE IF Conflicts(acc.selected[node.name], node, d, locked)
    THEN [acc EXCEPT !.ok = FALSE]
    ELSE [acc EXCEPT !.node = acc.selected[node.name]]

Register(acc, node, d, locked) ==
    IF node.name \notin DOMAIN acc.selected
    THEN [acc EXCEPT !.selected = @ @@ (node.name :> node), !.node = node]
    ELSE IF Conflicts(acc.selected[node.name], node, d, locked)
    THEN [acc EXCEPT !.ok = FALSE]
    ELSE [acc EXCEPT !.node = acc.selected[node.name]]

Empty == [x \in {} |-> x]
Start == [ok |-> TRUE, selected |-> Empty, nodes |-> Empty, edges |-> Empty, node |-> Empty]
Failed(acc) == [acc EXCEPT !.ok = FALSE]

-----------------------------------------------------------------------------
RECURSIVE ResolveAll(_, _, _, _, _)

\* resolve_dependency_from_root for one edge.
ResolveDependency(w, acc, n, d, stack) ==
    LET versions == Candidates(w, n, d)
        found == NodeId(n, Max(versions), d)
        reg == Register(acc, found, d, FALSE)
        deps == w.manifest[<<found.name, found.version>>]
        sub == ResolveAll(w, [reg EXCEPT !.edges = Empty],
                          SelectedDependencies(deps, d.features), deps, stack \cup {reg.node})
    IN  IF versions = {} \/ ~reg.ok \/ reg.node \in stack THEN Failed(acc)
        ELSE IF reg.node \in DOMAIN reg.nodes THEN reg
        ELSE IF ~sub.ok THEN Failed(acc)
        ELSE [sub EXCEPT !.nodes = @ @@ (reg.node :> sub.edges), !.node = reg.node]

\* The selected dependencies of one manifest, in alias order.
ResolveAll(w, acc, todo, deps, stack) ==
    IF todo = {} \/ ~acc.ok THEN acc
    ELSE LET n == Min(todo)
             one == ResolveDependency(w, acc, n, deps[n], stack)
         IN  ResolveAll(w, [one EXCEPT !.edges = acc.edges @@ (n :> one.node)],
                        todo \ {n}, deps, stack)

\* A lock made from a resolution with every feature of the root.
ResolveDependencies(w, root) ==
    LET r == ResolveAll(w, Start, DOMAIN root, root, {})
    IN  [ok |-> r.ok, lock |-> [manifest |-> root, root |-> r.edges, nodes |-> r.nodes]]

-----------------------------------------------------------------------------
\* lock_dependency_consistency_issues: the locked node is one this dependency
\* may have been resolved to.  Here a path's version is held to a requirement.
Consistent(n, d, node) == node.name = n /\ node.from = d.from /\ node.version \in d.accepts

RECURSIVE MaterializeAll(_, _, _, _, _, _, _)

MaterializeLockedNode(w, lock, acc, node, d, stack) ==
    LET reg == Register(acc, node, d, TRUE)
        deps == w.manifest[<<node.name, node.version>>]
        sub == MaterializeAll(w, lock, [reg EXCEPT !.edges = Empty],
                              SelectedDependencies(deps, node.features), deps,
                              lock.nodes[node], stack \cup {node})
    IN  IF \/ node \in stack \/ node.features # d.features
           \/ ~reg.ok \/ reg.node # node THEN Failed(acc)
        ELSE IF node \in DOMAIN reg.nodes THEN reg
        ELSE IF ~sub.ok THEN Failed(acc)
        ELSE [sub EXCEPT !.nodes = @ @@ (node :> sub.edges), !.node = node]

MaterializeAll(w, lock, acc, todo, deps, edges, stack) ==
    IF todo = {} \/ ~acc.ok THEN acc
    ELSE LET n == Min(todo)
             one == MaterializeLockedNode(w, lock, acc, edges[n], deps[n], stack)
         IN  IF \/ n \notin DOMAIN edges
                \/ edges[n] \notin DOMAIN lock.nodes
                \/ ~Consistent(n, deps[n], edges[n])
             THEN Failed(acc)
             ELSE MaterializeAll(w, lock, [one EXCEPT !.edges = acc.edges @@ (n :> edges[n])],
                                 todo \ {n}, deps, edges, stack)

\* resolve_locked_dependencies for a build with these features of the root.
ResolveLocked(w, root, lock, features) ==
    LET r == MaterializeAll(w, lock, Start, SelectedDependencies(root, features), root, lock.root, {})
    IN  [ok |-> lock.manifest = root /\ r.ok, nodes |-> r.nodes]
=============================================================================
