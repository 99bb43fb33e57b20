---------------------------- MODULE MCPackageLock ----------------------------
(***************************************************************************)
(* PackageLock for TLC.  The root depends on packages 1 and 3, which both  *)
(* may need package 2: every way the four versions of 1 and 3 may ask for  *)
(* 2 is a world, and so are a dependency of 2 back on 1 and a path source. *)
(***************************************************************************)
EXTENDS PackageLock

MCNames == 1..3
MCVersions == 1..2

Dep(from, accepts, exact, features, optional) ==
    [from |-> from, accepts |-> accepts, exact |-> exact, features |-> features, optional |-> optional]

Loose == Dep("registry", MCVersions, FALSE, {}, FALSE)
Pin(v) == Dep("registry", {v}, TRUE, {}, FALSE)
Path == Dep("path", MCVersions, FALSE, {}, FALSE)
Featured == Dep("registry", MCVersions, FALSE, {Feature}, FALSE)
Optional == Dep("registry", MCVersions, FALSE, {}, TRUE)

On(n, ds) == {n :> d : d \in ds}
None == {Empty}

\* What each version declares.
First1 == None
First2 == On(2, {Loose, Pin(1), Featured})
Third1 == None \cup On(2, {Pin(1)})
Third2 == On(2, {Loose, Pin(2)})
Second2 == None \cup On(1, {Loose}) \cup On(3, {Optional})

MCYankable == {<<2, 1>>}
MCSuspect == {<<2, 1>>, <<2, 2>>}

MCRoots ==
    { {(1 :> Loose) @@ (3 :> Loose), (1 :> Loose)},
      {(1 :> Loose) @@ (3 :> Pin(1))},
      {(1 :> Loose) @@ (2 :> Path) @@ (3 :> Loose)} }

MCWorlds ==
    {[manifest |-> (<<1, 1>> :> a) @@ (<<1, 2>> :> b) @@ (<<2, 1>> :> Empty) @@ (<<2, 2>> :> c)
                   @@ (<<3, 1>> :> d) @@ (<<3, 2>> :> e),
      roots |-> r]
       : a \in First1, b \in First2, c \in Second2, d \in Third1, e \in Third2, r \in MCRoots}
=============================================================================
