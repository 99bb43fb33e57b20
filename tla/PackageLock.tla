----------------------------- MODULE PackageLock -----------------------------
(***************************************************************************)
(* The life of one package's Cell.lock: the registry publishes and yanks   *)
(* versions, the manifest is edited, `cellc lock` re-resolves everything   *)
(* and `cellc update` plans and applies an upgrade of everything or of one *)
(* package (src/package/upgrade.rs).  A plan is compiled against its own   *)
(* candidate lock before it may be applied; the replacement of the file is *)
(* the subject of LockFiles.                                               *)
(***************************************************************************)
EXTENDS PackageResolver

CONSTANTS
    Names,       \* package names
    Versions,    \* versions
    Worlds,      \* what the packages declare: [manifest, roots]
    Yankable,    \* bound: the versions that may be yanked
    Suspect,     \* bound: the versions that may be quarantined
    MaxEdits,    \* bound: edits of the root manifest
    NoLock       \* there is no Cell.lock yet

VARIABLES
    world,    \* the manifests of every version, and those the root may have
    avail,    \* published versions
    yanked,   \* yanked versions
    quarantined, \* quarantined versions
    root,     \* [dependencies] of Cell.toml
    lock,     \* Cell.lock
    edits,
    last      \* history: how the last step wrote the lock

vars == <<world, avail, yanked, quarantined, root, lock, edits, last>>

Universe == [manifest |-> world.manifest, avail |-> avail, yanked |-> yanked, quarantined |-> quarantined]

Written(op, package, acks) == [op |-> op, package |-> package, acks |-> acks]
Unwritten == Written("none", 0, {})

Init ==
    /\ world \in Worlds
    /\ avail = [n \in Names |-> {1}]
    /\ yanked = {}
    /\ quarantined = {}
    /\ root \in world.roots
    /\ lock = NoLock
    /\ edits = 0
    /\ last = Unwritten

-----------------------------------------------------------------------------
(* targeted_lock and what it calls *)

\* Every node reached from these.
RECURSIVE Reach(_, _)
Reach(nodes, from) ==
    LET next == from \cup UNION {Range(nodes[x]) : x \in from \cap DOMAIN nodes}
    IN  IF next = from THEN from ELSE Reach(nodes, next)

Selected(l, s) == {x \in DOMAIN l.nodes : x.name = s} \cup {l.root[a] : a \in DOMAIN l.root \cap {s}}

DescendantCoordinates(l, from) == {x.name : x \in Reach(l.nodes, from) \cap DOMAIN l.nodes}

\* merge_edge_map: an edge into the selected packages is the candidate's, any
\* other is the old one, or the candidate's where there was none.
Merge(old, new, oldAllowed, newAllowed) ==
    LET touched(a) == \/ a \in DOMAIN old /\ old[a].name \in oldAllowed
                      \/ a \in DOMAIN new /\ new[a].name \in newAllowed
        kept == {a \in DOMAIN old \cup DOMAIN new : touched(a) => a \in DOMAIN new}
    IN  [a \in kept |-> IF touched(a) \/ a \notin DOMAIN old THEN new[a] ELSE old[a]]

\* The edges of a node that stays: those into the selected packages follow the
\* candidate's node of the same identity, if it has one.
Retarget(edges, other, oldAllowed, newAllowed) ==
    LET stays == {a \in DOMAIN edges : edges[a].name \notin oldAllowed \/ a \in DOMAIN other}
        comes == {a \in DOMAIN other : other[a].name \in newAllowed}
    IN  [a \in stays \cup comes |->
           IF a \in comes \/ edges[a].name \in oldAllowed THEN other[a] ELSE edges[a]]

Acyclic(nodes) == \A x \in DOMAIN nodes : x \notin Reach(nodes, Range(nodes[x]))

\* validate_graph: edges end at nodes, and there is no cycle.
ValidGraph(l) ==
    /\ Range(l.root) \subseteq DOMAIN l.nodes
    /\ \A x \in DOMAIN l.nodes : Range(l.nodes[x]) \subseteq DOMAIN l.nodes
    /\ Acyclic(l.nodes)

\* prune_unreachable fails on an edge to a missing node, then drops what the
\* root does not reach.
Prune(l) ==
    LET live == Reach(l.nodes, Range(l.root))
        pruned == [l EXCEPT !.nodes = Restrict(@, live \cap DOMAIN @)]
    IN  [ok |-> live \subseteq DOMAIN l.nodes /\ ValidGraph(pruned), lock |-> pruned]

\* The selected packages and what they need come from the candidate, the rest
\* from the old lock.
TargetedNodes(old, cand, oldAllowed, newAllowed) ==
    LET new == {y \in DOMAIN cand.nodes : y.name \in newAllowed}
        stay == {y \in DOMAIN old.nodes : y.name \notin oldAllowed} \ new
    IN  [x \in new \cup stay |->
           IF x \in new THEN cand.nodes[x]
           ELSE IF x.name \in newAllowed \/ x \notin DOMAIN cand.nodes THEN old.nodes[x]
           ELSE Retarget(old.nodes[x], cand.nodes[x], oldAllowed, newAllowed)]

\* Mutant of TargetedLock: the selection is ignored.
TargetedLock_Whole(old, cand, s) == Prune(cand)

TargetedLock(old, cand, s) ==
    LET oldAllowed == DescendantCoordinates(old, Selected(old, s))
        newAllowed == DescendantCoordinates(cand, Selected(cand, s))
    IN  Prune([manifest |-> cand.manifest,
               root |-> Merge(old.root, cand.root, oldAllowed, newAllowed),
               nodes |-> TargetedNodes(old, cand, oldAllowed, newAllowed)])

-----------------------------------------------------------------------------
(* node_changes and classify_node_policy: which changes must be acknowledged. *)

\* indexed_nodes: one node for each package and feature selection, the last in
\* the order of the node ids.
Indexed(l) ==
    {x \in DOMAIN l.nodes : \A y \in DOMAIN l.nodes :
        x.name = y.name /\ x.features = y.features =>
            \/ y.version < x.version
            \/ y.version = x.version /\ (y.from = x.from \/ x.from = "registry")}

\* The indexed nodes of one package paired by their feature selection; the
\* ones left over are paired with each other.
Pairs(old, new) ==
    LET same == {<<x, y>> \in Indexed(old) \X Indexed(new) :
                    x.name = y.name /\ x.features = y.features}
        restOld == Indexed(old) \ {p[1] : p \in same}
        restNew == Indexed(new) \ {p[2] : p \in same}
    IN  same \cup {<<x, y>> \in restOld \X restNew : x.name = y.name}

Required(old, new) ==
    LET changed == {p \in Pairs(old, new) : p[1] # p[2]}
        code(x, y) == IF x.from # y.from \/ (x.from = "registry" /\ x.version # y.version)
                      THEN "UPG2002"
                      ELSE IF y.version < x.version THEN "UPG2001"
                      ELSE IF x.features # y.features THEN "UPG2003" ELSE "none"
    IN  {code(p[1], p[2]) : p \in changed} \ {"none"}

-----------------------------------------------------------------------------
(* The registry and the manifest change. *)

Publish(n, v) ==
    /\ v \notin avail[n]
    /\ avail' = [avail EXCEPT ![n] = @ \cup {v}]
    /\ last' = Unwritten
    /\ UNCHANGED <<world, yanked, quarantined, root, lock, edits>>

Yank(n, v) ==
    /\ v \in avail[n] /\ <<n, v>> \notin yanked
    /\ <<n, v>> \in Yankable
    /\ yanked' = yanked \cup {<<n, v>>}
    /\ last' = Unwritten
    /\ UNCHANGED <<world, avail, quarantined, root, lock, edits>>

Quarantine(n, v) ==
    /\ v \in avail[n] /\ <<n, v>> \notin quarantined
    /\ <<n, v>> \in Suspect
    /\ quarantined' = quarantined \cup {<<n, v>>}
    /\ last' = Unwritten
    /\ UNCHANGED <<world, avail, yanked, root, lock, edits>>

EditManifest(r) ==
    /\ r # root
    /\ edits < MaxEdits
    /\ edits' = edits + 1
    /\ root' = r
    /\ last' = Unwritten
    /\ UNCHANGED <<world, avail, yanked, quarantined, lock>>

Replace(l, how) ==
    /\ lock' = l
    /\ last' = how
    /\ UNCHANGED <<world, avail, yanked, quarantined, root, edits>>

\* refresh_lockfile_from_manifest: the graph is resolved from nothing.
LockCommand ==
    \E r \in {ResolveDependencies(Universe, root)} :
        r.ok /\ Replace(r.lock, Written("lock", 0, {}))

\* Mutant of Compiles: the candidate is not compiled.
Compiles_Unchecked(l) == TRUE

\* compile_against_lock: without it the plan is blocked by UPG3000.
Compiles(l) == ResolveLocked(Universe, root, l, {Feature}).ok

\* Mutant of Acknowledged: a plan needs no acknowledgement.
Acknowledged_Always(l, acks) == TRUE

\* apply_upgrade_plan refuses a plan that lacks an acknowledgement.
Acknowledged(l, acks) == Required(lock, l) \subseteq acks

\* What the compilation finds to acknowledge (UPG3001, UPG31xx, UPG400x) adds no
\* behaviour: a plan that lacks such a code is refused, which changes nothing.
Codes == {"UPG2001", "UPG2002", "UPG2003"}

Apply(l, op, package) ==
    /\ Compiles(l)
    /\ \E acks \in {{}, Codes} :
         /\ Acknowledged(l, acks)
         /\ Replace(l, Written(op, package, acks))

UpdateAll ==
    /\ lock # NoLock
    /\ \E r \in {ResolveDependencies(Universe, root)} :
         r.ok /\ Apply(r.lock, "update", 0)

UpdatePackage(s) ==
    /\ lock # NoLock
    /\ \E r \in {ResolveDependencies(Universe, root)} :
         /\ r.ok
         /\ Selected(lock, s) \cup Selected(r.lock, s) # {}
         /\ \E t \in {TargetedLock(lock, r.lock, s)} :
              t.ok /\ Apply(t.lock, "package", s)

\* exactify_direct_dependency pins a direct registry dependency for this
\* resolution only; the lock is still that of the manifest on disk.
UpdatePrecise(s, v) ==
    /\ lock # NoLock
    /\ s \in DOMAIN root /\ root[s].from = "registry" /\ v \in root[s].accepts
    /\ \E r \in {ResolveDependencies(Universe, [root EXCEPT ![s].accepts = {v}, ![s].exact = TRUE])} :
         /\ r.ok
         /\ \E t \in {TargetedLock(lock, [r.lock EXCEPT !.manifest = root], s)} :
              t.ok /\ Apply(t.lock, "precise", s)

Next ==
    \/ \E n \in Names, v \in Versions : Publish(n, v) \/ Yank(n, v) \/ Quarantine(n, v)
    \/ \E r \in world.roots : EditManifest(r)
    \/ LockCommand
    \/ UpdateAll
    \/ \E s \in Names : UpdatePackage(s) \/ \E v \in Versions : UpdatePrecise(s, v)

Spec == Init /\ [][Next]_vars

-----------------------------------------------------------------------------
\* Whatever was published, yanked or upgraded since, and in part only, a lock
\* written for this manifest is accepted by a build of it, with or without its
\* optional features; a lock of an edited manifest is refused.
LockIsBuildable ==
    lock # NoLock =>
        \A features \in {{}, {Feature}} :
            ResolveLocked(Universe, root, lock, features).ok <=> lock.manifest = root

Incoming(l, x) ==
    {l.manifest[n] : n \in {m \in DOMAIN l.root \cap DOMAIN l.manifest : l.root[m] = x}}
    \cup UNION {{world.manifest[<<y.name, y.version>>][n] : n \in {m \in DOMAIN l.nodes[y] : l.nodes[y][m] = x}}
                  : y \in DOMAIN l.nodes}

\* The graph a lock pins for the dependencies the manifest declares has one
\* instance of every package, no cycle and no node the root does not need, and
\* every node is a version every dependency on it admits.
GraphIsSound ==
    lock # NoLock /\ DOMAIN lock.root = DOMAIN lock.manifest =>
        /\ \A x, y \in DOMAIN lock.nodes : x.name = y.name => x = y
        /\ ValidGraph(lock)
        /\ DOMAIN lock.nodes = Reach(lock.nodes, Range(lock.root))
        /\ \A x \in DOMAIN lock.nodes : \A d \in Incoming(lock, x) : Admits(d, x.version)

\* An upgrade nobody acknowledged, of a lock that pins just what its manifest
\* declares, neither moves a package to another version, source or feature
\* selection nor brings a second one beside it.
UnacknowledgedChangesNothing ==
    [][last'.op \in {"update", "package", "precise"} /\ last'.acks = {}
       /\ lock' # lock /\ DOMAIN lock.root = DOMAIN lock.manifest =>
         \A x \in DOMAIN lock.nodes, y \in DOMAIN lock'.nodes : x.name = y.name => x = y]_vars

\* --package s: a package outside what s needs in the old lock and in a full
\* resolution keeps its node.
Unrelated(s) ==
    LET cand == ResolveDependencies(Universe, root).lock
    IN  {x \in DOMAIN lock.nodes : /\ x.name \notin DescendantCoordinates(lock, Selected(lock, s))
                                   /\ x.name \notin DescendantCoordinates(cand, Selected(cand, s))}
OnlyTheSelectedMoves ==
    [][last'.op = "package" /\ lock' # lock =>
         \A x \in Unrelated(last'.package), y \in DOMAIN lock'.nodes :
             y.name = x.name => y = x]_vars

\* Re-resolving everything leaves no yanked version in the lock that no
\* dependency pins exactly, and no quarantined one that is not yanked.
BlockedStaysOut ==
    [][last'.op \in {"lock", "update"} /\ lock' # lock =>
         \A x \in {y \in DOMAIN lock'.nodes : y.from = "registry"} :
            IF <<x.name, x.version>> \in yanked THEN \E d \in Incoming(lock', x) : d.exact
            ELSE <<x.name, x.version>> \notin quarantined]_vars
=============================================================================
