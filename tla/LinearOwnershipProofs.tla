------------------------ MODULE LinearOwnershipProofs ------------------------
(***************************************************************************)
(* What the ownership checker of LinearOwnership promises of the bodies it *)
(* accepts, for bodies of any length and depth and any set of names.       *)
(***************************************************************************)
EXTENDS LinearOwnership, TLAPS

-----------------------------------------------------------------------------
(* Types *)

Maps == UNION {[N -> States] : N \in SUBSET Names}

Ends == {"on", "break", "continue", "return", "tail"}

Paths == [from : Maps, st : Maps, end : Ends, bad : BOOLEAN, strayed : BOOLEAN,
          lost : SUBSET {"jump", "branch", "end"}]

Blocks == [kind : Kinds, st : Maps, own : SUBSET Names, marked : Maps, returns : BOOLEAN,
           stops : BOOLEAN, value : BOOLEAN, runs : SUBSET Paths]

Frames == [kind : Kinds, root : Names \cup {None}, st : Maps, own : SUBSET Names, marked : Maps,
           returns : BOOLEAN, stops : BOOLEAN, value : BOOLEAN,
           after : {"any", "nothing", "something"}, tail : {"no", "value", "mark"},
           strict : BOOLEAN, inLoop : BOOLEAN, held : SUBSET Names, done : Seq(Blocks),
           entry : Maps, runs : SUBSET Paths]

TypeOK ==
  /\ callable \in Callables
  /\ stack \in Seq(Frames) /\ stack # <<>>
  /\ size \in Nat
  /\ accepted \in BOOLEAN

-----------------------------------------------------------------------------
(* The invariant *)

\* What is gone in a is gone in b, in the same way or in any.
Grows(a, b) == DOMAIN a \subseteq DOMAIN b /\ \A n \in DOMAIN a : a[n] # "Available" => b[n] = a[n]
Covers(a, b) == DOMAIN a \subseteq DOMAIN b /\ \A n \in DOMAIN a : a[n] # "Available" => b[n] # "Available"

(* A path of a block that began, or whose loop began, with the states E, and *)
(* where the checker now has the states S (M where it marked a returned      *)
(* statement).  From E itself the path uses nothing it may not use and is in *)
(* the state the checker has, or jumped in a state between; from where at    *)
(* least as much is gone, at least as much stays gone and nothing is lost at *)
(* the end of a scope.                                                       *)
PathOK(p, E, S, M) ==
  /\ p.end \in {"on", "tail"} => DOMAIN p.st = DOMAIN S
  /\ p.from = E =>
       /\ p.bad => p.strayed
       /\ ~p.strayed => /\ p.end = "on" => p.st = S
                        /\ p.end \in Jumps => Grows(E, p.st) /\ Grows(p.st, S)
  /\ Covers(E, p.from) =>
       /\ "end" \notin p.lost
       /\ p.end = "on" => Covers(S, p.st)
       /\ p.end \in {"on", "tail"} => Covers(M, p.st)
       /\ p.end \in Jumps => Covers(E, p.st)

(* An open or a finished block. *)
Sound(b, E) ==
  /\ Grows(E, b.st)
  /\ DOMAIN b.marked = DOMAIN b.st
  /\ b.returns => Going(b) = {}
  /\ \A p \in b.runs : PathOK(p, E, b.st, b.marked)

(* Block b of a statement in the block f. *)
Within(f, b) ==
  /\ DOMAIN b.st = DOMAIN f.st \cup b.own
  /\ Grows(f.st, b.st)
  /\ \A p \in b.runs : DOMAIN f.st \subseteq DOMAIN p.st

Starts(f, b) == \A p \in b.runs : \E q \in Going(f) : p.from = q.from

FrameInv(f) ==
  /\ Sound(f, f.entry)
  /\ f.own \subseteq DOMAIN f.st
  /\ f.tail = "mark" => f.strict
  /\ MayFollow(f) => \A p \in f.runs : p.end # "tail"
  /\ f.kind = "else" => Len(f.done) = 1

DoneInv(f, c, b) ==
  /\ c.kind \in {"else", "arm"}
  /\ Sound(b, f.entry) /\ Within(f, b) /\ Starts(f, b)
  /\ b.kind = "then" \/ LinearComplete(b.own, b.st)
  /\ \A p \in b.runs : p.end = "tail" => c.tail = "mark"

NestInv(f, c) ==
  /\ MayFollow(f) /\ c.kind # "body"
  /\ Within(f, c)
  /\ IF c.kind = "while" THEN c.entry = f.st ELSE c.entry = f.entry /\ Starts(f, c)
  /\ c.tail = "mark" => f.tail = "mark" /\ c.kind \in {"then", "else"}
  /\ \A p \in c.runs : p.end = "tail" => c.tail = "mark"
  /\ \A i \in DOMAIN c.done : DoneInv(f, c, c.done[i])

BodyInv(f) ==
  /\ f.kind = "body" /\ f.strict
  /\ DOMAIN f.st = f.own
  /\ \A p \in f.runs : p.from = f.entry

HeldInv == \A i, j \in DOMAIN stack : j <= i /\ stack[j].kind = "borrow" => stack[j].root \in stack[i].held

OwnershipInv ==
  /\ TypeOK
  /\ \A i \in DOMAIN stack : FrameInv(stack[i])
  /\ \A i \in DOMAIN stack : i > 1 => NestInv(stack[i - 1], stack[i])
  /\ BodyInv(stack[1])
  /\ HeldInv
  /\ accepted => Len(stack) = 1 /\ LinearComplete(Top.own, Top.marked)

-----------------------------------------------------------------------------
(* States of names *)

LEMMA MapsElim ==
  ASSUME NEW s \in Maps
  PROVE  s \in [DOMAIN s -> States] /\ DOMAIN s \subseteq Names /\ \A n \in DOMAIN s : s[n] \in States
BY DEF Maps

LEMMA MapsIntro ==
  ASSUME NEW N, N \subseteq Names, NEW s \in [N -> States]
  PROVE  s \in Maps
BY DEF Maps

LEMMA MapsEqual ==
  ASSUME NEW s \in Maps, NEW t \in Maps, DOMAIN s = DOMAIN t, \A n \in DOMAIN s : s[n] = t[n]
  PROVE  s = t
BY MapsElim

LEMMA BindMap ==
  ASSUME NEW s \in Maps, NEW n \in Names
  PROVE  /\ Bind(s, n) \in Maps /\ DOMAIN Bind(s, n) = DOMAIN s \cup {n}
         /\ Bind(s, n)[n] = "Available"
         /\ \A m \in DOMAIN s : m # n => Bind(s, n)[m] = s[m]
<1>1. Bind(s, n) \in [DOMAIN s \cup {n} -> States]
  BY MapsElim DEF Bind, States
<1>2. DOMAIN s \cup {n} \subseteq Names
  BY MapsElim
<1> QED BY <1>1, <1>2, MapsIntro DEF Bind

LEMMA PutMap ==
  ASSUME NEW s \in Maps, NEW r \in DOMAIN s, NEW as \in States
  PROVE  /\ [s EXCEPT ![r] = as] \in Maps /\ DOMAIN [s EXCEPT ![r] = as] = DOMAIN s
         /\ [s EXCEPT ![r] = as][r] = as
         /\ \A m \in DOMAIN s : m # r => [s EXCEPT ![r] = as][m] = s[m]
<1>1. [s EXCEPT ![r] = as] \in [DOMAIN s -> States]
  BY ZenonT(30), MapsElim
<1>2. DOMAIN s \subseteq Names
  BY MapsElim
<1> QED BY ZenonT(30), <1>1, <1>2, MapsIntro, MapsElim

LEMMA RestrictMap ==
  ASSUME NEW s \in Maps, NEW D, D \subseteq DOMAIN s
  PROVE  /\ Restrict(s, D) \in Maps /\ DOMAIN Restrict(s, D) = D
         /\ \A n \in D : Restrict(s, D)[n] = s[n]
<1>1. Restrict(s, D) \in [D -> States]
  BY MapsElim DEF Restrict
<1>2. D \subseteq Names
  BY MapsElim
<1> QED BY <1>1, <1>2, MapsIntro DEF Restrict

LEMMA GrowsRefl == \A s : Grows(s, s) /\ Covers(s, s)
BY DEF Grows, Covers

LEMMA GrowsTrans == \A a, b, c : Grows(a, b) /\ Grows(b, c) => Grows(a, c)
BY DEF Grows

LEMMA GrowsCovers == \A a, b : Grows(a, b) => Covers(a, b)
BY DEF Grows, Covers

LEMMA CoversTrans == \A a, b, c : Covers(a, b) /\ Covers(b, c) => Covers(a, c)
BY DEF Covers

\* Both orders hold of the smaller functions between.
LEMMA RestrictOrder ==
  ASSUME NEW s \in Maps, NEW t \in Maps, NEW D, D \subseteq DOMAIN s, D \subseteq DOMAIN t
  PROVE  /\ Grows(s, t) => Grows(Restrict(s, D), Restrict(t, D))
         /\ Covers(s, t) => Covers(Restrict(s, D), Restrict(t, D))
<1>1. /\ DOMAIN Restrict(s, D) = D /\ \A n \in D : Restrict(s, D)[n] = s[n]
      /\ DOMAIN Restrict(t, D) = D /\ \A n \in D : Restrict(t, D)[n] = t[n]
  BY RestrictMap
<1> QED BY <1>1 DEF Grows, Covers

LEMMA RestrictAbove ==
  ASSUME NEW s, NEW t \in Maps, NEW D, D \subseteq DOMAIN t, DOMAIN s \subseteq D
  PROVE  /\ Grows(s, t) => Grows(s, Restrict(t, D))
         /\ Covers(s, t) => Covers(s, Restrict(t, D))
<1>1. DOMAIN Restrict(t, D) = D /\ \A n \in D : Restrict(t, D)[n] = t[n]
  BY RestrictMap
<1> QED BY <1>1 DEF Grows, Covers

-----------------------------------------------------------------------------
(* Paths *)

LEMMA PathType ==
  ASSUME NEW p \in Paths
  PROVE  /\ p.from \in Maps /\ p.st \in Maps /\ p.end \in Ends
         /\ p.bad \in BOOLEAN /\ p.strayed \in BOOLEAN /\ p.lost \subseteq {"jump", "branch", "end"}
BY DEF Paths

LEMMA UsePath ==
  ASSUME NEW p \in Paths, NEW r \in DOMAIN p.st, NEW as \in States
  PROVE  LET q == Use(p, r, as)
         IN  /\ q \in Paths
             /\ q.from = p.from /\ q.end = p.end /\ q.strayed = p.strayed /\ q.lost = p.lost
             /\ q.st = [p.st EXCEPT ![r] = as]
             /\ q.bad => p.bad \/ p.st[r] # "Available" \/ r \in Lent
<1>1. p.st \in Maps
  BY DEF Paths
<1>2. [p.st EXCEPT ![r] = as] \in Maps
  BY ZenonT(30), <1>1, PutMap
<1> QED BY ZenonT(30), <1>1, <1>2 DEF Use, Paths

LEMMA BindPath ==
  ASSUME NEW p \in Paths, NEW n \in Names
  PROVE  LET q == [p EXCEPT !.st = Bind(@, n)]
         IN  /\ q \in Paths
             /\ q.from = p.from /\ q.end = p.end /\ q.strayed = p.strayed /\ q.lost = p.lost
             /\ q.st = Bind(p.st, n) /\ q.bad = p.bad
<1>1. p.st \in Maps
  BY DEF Paths
<1>2. Bind(p.st, n) \in Maps
  BY ZenonT(30), <1>1, BindMap
<1> QED BY <1>1, <1>2 DEF Paths

LEMMA EndPath ==
  ASSUME NEW p \in Paths, NEW e \in Ends
  PROVE  LET q == [p EXCEPT !.end = e]
         IN  /\ q \in Paths
             /\ q.from = p.from /\ q.end = e /\ q.strayed = p.strayed /\ q.lost = p.lost
             /\ q.st = p.st /\ q.bad = p.bad
BY DEF Paths

LEMMA ReturnedPath ==
  ASSUME NEW p \in Paths
  PROVE  LET q == Returned(p)
         IN  /\ q \in Paths
             /\ q.from = p.from /\ q.st = p.st /\ q.bad = p.bad /\ q.strayed = p.strayed
             /\ q.end = IF AtTail THEN "tail" ELSE "return"
             /\ "end" \in q.lost => "end" \in p.lost
BY ZenonT(30) DEF Returned, Paths, Ends

LEMMA LeavePath ==
  ASSUME NEW f, NEW c, NEW p \in Paths, DOMAIN f.st \subseteq DOMAIN p.st
  PROVE  LET q == Leave(f, c, p)
         IN  /\ q \in Paths
             /\ q.from = p.from /\ q.bad = p.bad /\ q.strayed = p.strayed /\ q.end = p.end
             /\ q.st = Restrict(p.st, DOMAIN f.st)
             /\ "end" \in q.lost =>
                  "end" \in p.lost \/ (p.end = "on" /\ c.kind \notin {"then", "else"}
                                       /\ Live(p.st) \ DOMAIN f.st # {})
<1>1. p.st \in Maps
  BY DEF Paths
<1>2. Restrict(p.st, DOMAIN f.st) \in Maps
  BY <1>1, RestrictMap
<1> QED BY ZenonT(30), <1>1, <1>2 DEF Leave, Paths

LEMMA StrayPath ==
  ASSUME NEW runs, runs \subseteq Paths, NEW aside \in BOOLEAN, NEW q \in Stray(runs, aside)
  PROVE  /\ q \in Paths
         /\ \E p \in runs :
              /\ q.from = p.from /\ q.st = p.st /\ q.bad = p.bad /\ q.end = p.end /\ q.lost = p.lost
              /\ q.strayed = IF aside /\ p.end \in Jumps THEN TRUE ELSE p.strayed
BY ZenonT(30) DEF Stray, Paths

LEMMA JoinedPath ==
  ASSUME NEW o \in Paths, NEW r \in Paths
  PROVE  LET q == Joined(o, r)
         IN  /\ q \in Paths
             /\ q.from = o.from /\ q.st = r.st /\ q.end = r.end
             /\ q.bad => o.bad \/ r.bad
             /\ o.strayed \/ r.strayed => q.strayed
             /\ q.lost = o.lost \cup r.lost
BY ZenonT(30) DEF Joined, Paths

-----------------------------------------------------------------------------
(* What becomes of a path *)

\* It ended before, and the statements go on.
LEMMA EndedOK ==
  ASSUME NEW p, NEW E, NEW S, NEW M, NEW T, NEW N, PathOK(p, E, S, M),
         p.end \notin {"on", "tail"}, Grows(S, T)
  PROVE  PathOK(p, E, T, N)
BY GrowsTrans DEF PathOK

LEMMA OnOK ==
  ASSUME NEW p, NEW E, NEW S, NEW M, PathOK(p, E, S, M), p.end = "on"
  PROVE  PathOK(p, E, S, S)
BY DEF PathOK

LEMMA BindOK ==
  ASSUME NEW p \in Paths, NEW E, NEW S \in Maps, NEW M, PathOK(p, E, S, M), p.end = "on",
         NEW n \in Names
  PROVE  PathOK([p EXCEPT !.st = Bind(@, n)], E, Bind(S, n), Bind(S, n))
<1> DEFINE q == [p EXCEPT !.st = Bind(@, n)]
<1>1. /\ q.from = p.from /\ q.end = p.end /\ q.strayed = p.strayed /\ q.lost = p.lost
      /\ q.st = Bind(p.st, n) /\ q.bad = p.bad /\ p.st \in Maps
  BY BindPath, PathType
<1> HIDE DEF q
<1>2. DOMAIN p.st = DOMAIN S
  BY DEF PathOK
<1>a. /\ DOMAIN Bind(S, n) = DOMAIN S \cup {n} /\ Bind(S, n)[n] = "Available"
      /\ \A m \in DOMAIN S : m # n => Bind(S, n)[m] = S[m]
  BY BindMap, Zenon
<1>b. /\ DOMAIN Bind(p.st, n) = DOMAIN p.st \cup {n} /\ Bind(p.st, n)[n] = "Available"
      /\ \A m \in DOMAIN p.st : m # n => Bind(p.st, n)[m] = p.st[m]
  BY <1>1, BindMap, ZenonT(30)
<1>3. Covers(S, p.st) => Covers(Bind(S, n), Bind(p.st, n))
  BY <1>2, <1>a, <1>b DEF Covers
<1>4. DOMAIN q.st = DOMAIN Bind(S, n)
  BY <1>1, <1>2, <1>a, <1>b
<1>5. p.st = S => q.st = Bind(S, n)
  BY <1>1
<1>6. PathOK(q, E, Bind(S, n), Bind(S, n))
  BY <1>1, <1>3, <1>4, <1>5 DEF PathOK, Jumps
<1> QED BY <1>6 DEF q

LEMMA UseOK ==
  ASSUME NEW p \in Paths, NEW E, NEW S \in Maps, NEW M, PathOK(p, E, S, M), p.end = "on",
         NEW r \in DOMAIN S, S[r] = "Available", r \notin Lent, NEW as \in States, as # "Available",
         NEW q, q = Use(p, r, as), NEW T, T = [S EXCEPT ![r] = as]
  PROVE  /\ q \in Paths /\ DOMAIN q.st = DOMAIN S /\ q.from = p.from /\ q.end = "on"
         /\ PathOK(q, E, T, T)
<1>1. DOMAIN p.st = DOMAIN S /\ p.st \in Maps
  BY PathType DEF PathOK
<1>2. /\ q \in Paths
      /\ q.from = p.from /\ q.end = p.end /\ q.strayed = p.strayed /\ q.lost = p.lost
      /\ q.st = [p.st EXCEPT ![r] = as]
      /\ q.bad => p.bad \/ p.st[r] # "Available" \/ r \in Lent
  <2> DEFINE u == Use(p, r, as)
  <2>1. /\ u \in Paths
        /\ u.from = p.from /\ u.end = p.end /\ u.strayed = p.strayed /\ u.lost = p.lost
        /\ u.st = [p.st EXCEPT ![r] = as]
        /\ u.bad => p.bad \/ p.st[r] # "Available" \/ r \in Lent
    BY ZenonT(30), <1>1, UsePath
  <2>2. q = u
    OBVIOUS
  <2> HIDE DEF u
  <2> QED BY <2>1, <2>2
<1>a. /\ DOMAIN T = DOMAIN S /\ T[r] = as
      /\ \A m \in DOMAIN S : m # r => T[m] = S[m]
  BY <1>1, PutMap
<1>b. /\ DOMAIN q.st = DOMAIN p.st /\ q.st[r] = as
      /\ \A m \in DOMAIN p.st : m # r => q.st[m] = p.st[m]
  BY ZenonT(30), <1>1, <1>2, PutMap
<1>3. DOMAIN q.st = DOMAIN T
  BY <1>1, <1>a, <1>b, Zenon
<1>4. Covers(S, p.st) => Covers(T, q.st)
  BY ZenonT(30), <1>1, <1>a, <1>b DEF Covers
<1>5. p.st = S => q.st = T
  BY <1>2
<1>6. q.bad => p.bad \/ p.st # S
  BY <1>2
<1>8. PathOK(q, E, T, T)
  BY ZenonT(30), <1>2, <1>3, <1>4, <1>5, <1>6 DEF PathOK, Jumps
<1> QED BY ZenonT(30), <1>2, <1>3, <1>a, <1>8

LEMMA ReturnedOK ==
  ASSUME NEW p \in Paths, NEW E, NEW S, NEW M, PathOK(p, E, S, M), p.end = "on"
  PROVE  PathOK(Returned(p), E, S, S)
<1> DEFINE q == Returned(p)
<1>1. /\ q.from = p.from /\ q.st = p.st /\ q.bad = p.bad /\ q.strayed = p.strayed
      /\ q.end \in {"tail", "return"}
      /\ "end" \in q.lost => "end" \in p.lost
  BY ReturnedPath
<1> HIDE DEF q
<1>2. PathOK(q, E, S, S)
  BY <1>1 DEF PathOK, Jumps
<1> QED BY <1>2 DEF q

LEMMA JumpOK ==
  ASSUME NEW p \in Paths, NEW E, NEW S, NEW M, PathOK(p, E, S, M), p.end = "on",
         Grows(E, S), NEW kind \in Jumps
  PROVE  PathOK([p EXCEPT !.end = kind], E, S, S)
<1> DEFINE q == [p EXCEPT !.end = kind]
<1>1. /\ q.from = p.from /\ q.end = kind /\ q.strayed = p.strayed /\ q.lost = p.lost
      /\ q.st = p.st /\ q.bad = p.bad
  BY EndPath DEF Ends, Jumps
<1> HIDE DEF q
<1>2. Covers(S, p.st) => Covers(E, p.st)
  BY GrowsCovers, CoversTrans
<1>3. PathOK(q, E, S, S)
  BY <1>1, <1>2, GrowsRefl DEF PathOK, Jumps
<1> QED BY <1>3 DEF q

(* A path leaves block b of a statement in f, where the checker goes on with *)
(* the states S: the ones it had in b, unless b is set aside.                *)
Merges(f, b, E, S, M, aside) ==
  /\ S \in Maps /\ M \in Maps /\ aside \in BOOLEAN
  /\ f.st \in Maps /\ b.st \in Maps /\ b.marked \in Maps /\ b.runs \subseteq Paths
  /\ Sound(b, E) /\ Within(f, b) /\ DOMAIN E \subseteq DOMAIN f.st
  /\ DOMAIN S = DOMAIN f.st /\ DOMAIN M = DOMAIN f.st
  /\ aside => Going(b) = {}
  /\ ~aside => \A n \in DOMAIN f.st : S[n] = b.st[n]
  /\ \/ M = S /\ \A p \in b.runs : p.end # "tail"
     \/ \A n \in DOMAIN f.st : M[n] = b.marked[n]
  /\ b.kind \in {"then", "else"} \/ LinearComplete(b.own, b.st)

Leaves(f, b, E, S, M, q) ==
  /\ q \in Paths /\ PathOK(q, E, S, M) /\ DOMAIN q.st = DOMAIN f.st
  /\ \E p \in b.runs : q.from = p.from /\ q.end = p.end

LEMMA LeaveOK ==
  ASSUME NEW f, NEW b, NEW E, NEW S, NEW M, NEW aside, Merges(f, b, E, S, M, aside)
  PROVE  \A q \in Stray(Left(f, b), aside) : Leaves(f, b, E, S, M, q)
<1> SUFFICES ASSUME NEW q \in Stray(Left(f, b), aside) PROVE Leaves(f, b, E, S, M, q)
  OBVIOUS
<1>0. /\ S \in Maps /\ M \in Maps /\ aside \in BOOLEAN
      /\ f.st \in Maps /\ b.st \in Maps /\ b.marked \in Maps /\ b.runs \subseteq Paths
      /\ Sound(b, E) /\ Within(f, b) /\ DOMAIN E \subseteq DOMAIN f.st
      /\ DOMAIN S = DOMAIN f.st /\ DOMAIN M = DOMAIN f.st
      /\ aside => Going(b) = {}
      /\ ~aside => \A n \in DOMAIN f.st : S[n] = b.st[n]
      /\ \/ M = S /\ \A p \in b.runs : p.end # "tail"
         \/ \A n \in DOMAIN f.st : M[n] = b.marked[n]
      /\ b.kind \in {"then", "else"} \/ LinearComplete(b.own, b.st)
  BY DEF Merges
<1> USE <1>0
<1>1. Left(f, b) \subseteq Paths
  BY LeavePath DEF Left, Within
<1>2. PICK l \in Left(f, b) :
        /\ q.from = l.from /\ q.st = l.st /\ q.bad = l.bad /\ q.end = l.end /\ q.lost = l.lost
        /\ q.strayed = IF aside /\ l.end \in Jumps THEN TRUE ELSE l.strayed
  BY <1>1, StrayPath, ZenonT(60)
<1>3. q \in Paths
  BY <1>1, StrayPath, ZenonT(30)
<1>4. PICK p \in b.runs : l = Leave(f, b, p)
  BY DEF Left
<1>5. p \in Paths /\ p.st \in Maps /\ DOMAIN f.st \subseteq DOMAIN p.st /\ PathOK(p, E, b.st, b.marked)
  BY PathType DEF Sound, Within
<1>a. /\ l.from = p.from /\ l.bad = p.bad /\ l.strayed = p.strayed /\ l.end = p.end
      /\ l.st = Restrict(p.st, DOMAIN f.st)
      /\ "end" \in l.lost =>
           "end" \in p.lost \/ (p.end = "on" /\ b.kind \notin {"then", "else"}
                                /\ Live(p.st) \ DOMAIN f.st # {})
  BY <1>4, <1>5, LeavePath
<1>6. /\ q.from = p.from /\ q.bad = p.bad /\ q.end = p.end
      /\ q.strayed = IF aside /\ p.end \in Jumps THEN TRUE ELSE p.strayed
      /\ q.st = Restrict(p.st, DOMAIN f.st)
      /\ "end" \in q.lost =>
           "end" \in p.lost \/ (p.end = "on" /\ b.kind \notin {"then", "else"}
                                /\ Live(p.st) \ DOMAIN f.st # {})
  BY <1>2, <1>a
<1>7. DOMAIN q.st = DOMAIN f.st /\ \A n \in DOMAIN f.st : q.st[n] = p.st[n]
  BY <1>5, <1>6, RestrictMap
<1>8. q.st \in Maps
  BY <1>3, PathType
<1>9. ~aside => S = Restrict(b.st, DOMAIN f.st)
  <2>1. DOMAIN f.st \subseteq DOMAIN b.st
    BY DEF Within
  <2> QED BY <2>1, RestrictMap, MapsEqual
<1>10. p.end = "on" => ~aside
  BY DEF Going
<1>11. ASSUME q.from = E, ~q.strayed, q.end = "on" PROVE q.st = S
  BY <1>11, <1>5, <1>6, <1>9, <1>10 DEF PathOK, Jumps
<1>12. ASSUME q.from = E, ~q.strayed, q.end \in Jumps PROVE Grows(E, q.st) /\ Grows(q.st, S)
  <2>1. ~aside /\ ~p.strayed
    BY <1>6, <1>12
  <2>2. Grows(E, p.st) /\ Grows(p.st, b.st)
    BY Z3T(30), <2>1, <1>5, <1>6, <1>12 DEF PathOK
  <2>3. Grows(E, q.st)
    BY Z3T(30), <2>2, <1>5, <1>6, RestrictAbove
  <2>4. DOMAIN f.st \subseteq DOMAIN b.st
    BY DEF Within
  <2>5. Grows(q.st, S)
    BY Z3T(30), <2>1, <2>2, <2>4, <1>5, <1>6, <1>9, RestrictOrder
  <2> QED BY <2>3, <2>5
<1>13. ASSUME Covers(E, q.from)
       PROVE  /\ "end" \notin q.lost
              /\ q.end = "on" => Covers(S, q.st)
              /\ q.end \in {"on", "tail"} => Covers(M, q.st)
              /\ q.end \in Jumps => Covers(E, q.st)
  <2>1. /\ "end" \notin p.lost
        /\ p.end = "on" => Covers(b.st, p.st)
        /\ p.end \in {"on", "tail"} => Covers(b.marked, p.st)
        /\ p.end \in Jumps => Covers(E, p.st)
        /\ p.end = "on" => DOMAIN p.st = DOMAIN b.st
    BY Z3T(30), <1>5, <1>6, <1>13 DEF PathOK
  <2>2. ASSUME p.end = "on", LinearComplete(b.own, b.st) PROVE Live(p.st) \ DOMAIN f.st = {}
    BY Z3T(30), <2>1, <2>2 DEF Live, LinearComplete, Covers, Within
  <2>3. "end" \notin q.lost
    BY Z3T(30), <2>1, <2>2, <1>6
  <2>4. q.end = "on" => Covers(S, q.st)
    BY Z3T(30), <2>1, <1>6, <1>7, <1>10 DEF Covers, Within
  <2>5. q.end \in {"on", "tail"} => Covers(M, q.st)
    <3>1. CASE M = S /\ \A r \in b.runs : r.end # "tail"
      BY Z3T(30), <3>1, <2>4, <1>6
    <3>2. CASE \A n \in DOMAIN f.st : M[n] = b.marked[n]
      BY Z3T(30), <3>2, <2>1, <1>6, <1>7 DEF Covers, Sound, Within
    <3> QED BY Z3T(30), <3>1, <3>2
  <2>6. q.end \in Jumps => Covers(E, q.st)
    BY Z3T(30), <2>1, <1>5, <1>6, RestrictAbove
  <2> QED BY Z3T(30), <2>3, <2>4, <2>5, <2>6
<1>14. q.from = E /\ q.bad => q.strayed
  BY Z3T(30), <1>5, <1>6 DEF PathOK
<1>15. PathOK(q, E, S, M)
  BY Z3T(30), <1>7, <1>11, <1>12, <1>13, <1>14 DEF PathOK
<1> QED BY <1>3, <1>6, <1>7, <1>15 DEF Leaves

-----------------------------------------------------------------------------
(* Loops *)

(* A path after some rounds of a loop that the checker has in the states S.  *)
PassOK(o, E, S) ==
  /\ DOMAIN o.st = DOMAIN S /\ o.end # "tail"
  /\ o.from = E =>
       /\ o.bad => o.strayed
       /\ ~o.strayed /\ o.end \in {"on"} \cup Jumps => o.st = S
  /\ Covers(E, o.from) =>
       /\ "end" \notin o.lost
       /\ o.end \in {"on"} \cup Jumps => Covers(S, o.st)

\* A jump out of a body that changes nothing left in the state it came in.
LEMMA BodyPass ==
  ASSUME NEW r \in Paths, NEW S \in Maps, PathOK(r, S, S, S), DOMAIN r.st = DOMAIN S, r.end # "tail"
  PROVE  PassOK(r, S, S)
<1>1. r.st \in Maps
  BY PathType
<1>2. Grows(S, r.st) /\ Grows(r.st, S) => \A n \in DOMAIN S : S[n] = r.st[n]
  BY DEF Grows
<1>3. Grows(S, r.st) /\ Grows(r.st, S) => r.st = S
  BY Z3T(30), <1>1, <1>2, MapsEqual
<1> QED BY <1>3 DEF PathOK, PassOK

LEMMA GoingPass ==
  ASSUME NEW o, NEW E, NEW S, NEW M, PathOK(o, E, S, M), o.end = "on"
  PROVE  PassOK(o, E, S)
BY DEF PathOK, PassOK, Jumps

LEMMA JoinedPass ==
  ASSUME NEW o \in Paths, NEW r \in Paths, NEW E, NEW S,
         PassOK(o, E, S), o.end = "on", PassOK(r, S, S), r.from = o.st
  PROVE  Joined(o, r) \in Paths /\ Joined(o, r).from = o.from /\ PassOK(Joined(o, r), E, S)
<1> DEFINE q == Joined(o, r)
<1>1. /\ q \in Paths
      /\ q.from = o.from /\ q.st = r.st /\ q.end = r.end
      /\ q.bad => o.bad \/ r.bad
      /\ o.strayed \/ r.strayed => q.strayed
      /\ q.lost = o.lost \cup r.lost
  BY JoinedPath
<1> HIDE DEF q
<1>2. PassOK(q, E, S)
  BY <1>1 DEF PassOK
<1> QED BY <1>1, <1>2 DEF q

\* The paths of P go round the loop.
Rounds(P, f) ==
  /\ P \subseteq Paths
  /\ \A o \in P : PassOK(o, f.entry, f.st) /\ \E p \in Going(f) : o.from = p.from

LEMMA RoundPass ==
  ASSUME NEW f, NEW P, Rounds(P, f), \A o \in P : o.end = "on",
         NEW body, body \subseteq Paths, \A r \in body : PassOK(r, f.st, f.st)
  PROVE  Rounds(Round(P, body), f)
<1> SUFFICES ASSUME NEW q \in Round(P, body)
             PROVE  q \in Paths /\ PassOK(q, f.entry, f.st) /\ \E p \in Going(f) : q.from = p.from
  BY DEF Rounds
<1>1. PICK o \in P, r \in body : r.from = o.st /\ q = Joined(o, r)
  BY DEF Round
<1>2. o \in Paths /\ r \in Paths /\ PassOK(o, f.entry, f.st) /\ o.end = "on" /\ PassOK(r, f.st, f.st)
  BY DEF Rounds
<1>3. q \in Paths /\ q.from = o.from /\ PassOK(q, f.entry, f.st)
  BY <1>1, <1>2, JoinedPass
<1> QED BY <1>3 DEF Rounds

LEMMA AgainPass ==
  ASSUME NEW f, NEW P, Rounds(P, f)
  PROVE  Rounds(Again(P), f) /\ \A o \in Again(P) : o.end = "on"
<1> SUFFICES ASSUME NEW q \in Again(P)
             PROVE  /\ q \in Paths /\ PassOK(q, f.entry, f.st) /\ q.end = "on"
                    /\ \E p \in Going(f) : q.from = p.from
  BY DEF Rounds
<1>1. PICK o \in P : o.end \in {"on", "continue"} /\ q = [o EXCEPT !.end = "on"]
  BY DEF Again
<1>2. o \in Paths /\ PassOK(o, f.entry, f.st) /\ \E p \in Going(f) : o.from = p.from
  BY DEF Rounds
<1>3. /\ q \in Paths
      /\ q.from = o.from /\ q.end = "on" /\ q.strayed = o.strayed /\ q.lost = o.lost
      /\ q.st = o.st /\ q.bad = o.bad
  BY ZenonT(30), <1>1, <1>2, EndPath DEF Ends
<1> QED BY <1>1, <1>2, <1>3 DEF PassOK, Jumps

LEMMA OutPass ==
  ASSUME NEW f, NEW o \in Paths, PassOK(o, f.entry, f.st)
  PROVE  /\ Out(o) \in Paths /\ Out(o).from = o.from /\ DOMAIN Out(o).st = DOMAIN f.st
         /\ Out(o).end # "tail"
         /\ PathOK(Out(o), f.entry, f.st, f.st)
<1> DEFINE e == IF o.end \in Jumps THEN "on" ELSE o.end
           q == Out(o)
<1>1. e \in Ends
  BY PathType DEF Ends
<1>2. q = [o EXCEPT !.end = e]
  BY DEF Out
<1> HIDE DEF q
<1>3. /\ q \in Paths
      /\ q.from = o.from /\ q.end = e /\ q.strayed = o.strayed /\ q.lost = o.lost
      /\ q.st = o.st /\ q.bad = o.bad
  BY Z3T(30), <1>1, <1>2, EndPath
<1>4. o.end \in Jumps \/ o.end = "on" \/ (o.end = "return" /\ e = "return")
  BY Z3T(30), PathType DEF Ends, Jumps, PassOK
<1>5. q.end # "tail" /\ PathOK(q, f.entry, f.st, f.st)
  BY <1>3, <1>4 DEF PathOK, PassOK, Jumps
<1> QED BY <1>3, <1>5 DEF q, PassOK

LEMMA LoopedOK ==
  ASSUME NEW f, f.runs \subseteq Paths, NEW M,
         \A p \in f.runs : PathOK(p, f.entry, f.st, M),
         NEW body, body \subseteq Paths, \A r \in body : PassOK(r, f.st, f.st),
         NEW q \in Looped(f, body)
  PROVE  /\ q \in Paths
         /\ \/ q \in f.runs
            \/ /\ PathOK(q, f.entry, f.st, f.st) /\ DOMAIN q.st = DOMAIN f.st /\ q.end # "tail"
               /\ \E p \in Going(f) : q.from = p.from
<1> DEFINE once == Round(Going(f), body)
<1>1. Rounds(Going(f), f) /\ \A o \in Going(f) : o.end = "on"
  BY GoingPass DEF Rounds, Going
<1>2. Rounds(once, f)
  BY <1>1, RoundPass
<1>3. Rounds(Round(Again(once), body), f)
  BY <1>2, AgainPass, RoundPass
<1>4. CASE q \in f.runs
  BY Z3T(30), <1>4
<1>5. ASSUME NEW o \in once \cup Round(Again(once), body), q = Out(o)
      PROVE  /\ q \in Paths /\ PathOK(q, f.entry, f.st, f.st) /\ DOMAIN q.st = DOMAIN f.st
             /\ q.end # "tail" /\ \E p \in Going(f) : q.from = p.from
  <2>1. o \in Paths /\ PassOK(o, f.entry, f.st) /\ \E p \in Going(f) : o.from = p.from
    BY Z3T(30), <1>2, <1>3 DEF Rounds
  <2> QED BY Z3T(30), <2>1, <1>5, OutPass
<1> QED BY Z3T(30), <1>4, <1>5 DEF Looped

-----------------------------------------------------------------------------
(* Frames *)

(* Statement after statement, the block f becomes g. *)
GoesOn(f, g) ==
  /\ g \in Frames
  /\ g.kind = f.kind /\ g.root = f.root /\ g.tail = f.tail /\ g.strict = f.strict
  /\ g.held = f.held /\ g.done = f.done /\ g.entry = f.entry
  /\ DOMAIN g.marked = DOMAIN g.st
  /\ f.own \subseteq g.own /\ DOMAIN g.st = DOMAIN f.st \cup (g.own \ f.own)
  /\ Grows(f.st, g.st)
  /\ g.returns => Going(g) = {}
  /\ \A q \in g.runs : q.end = "tail" => ~MayFollow(g) /\ (g.tail = "mark" \/ g.kind = "body")
  /\ \A q \in g.runs :
       \/ q \in Ended(f)
       \/ /\ PathOK(q, f.entry, g.st, g.marked)
          /\ \E p \in Going(f) : q.from = p.from /\ DOMAIN p.st \subseteq DOMAIN q.st

LEMMA GoesOnFrame ==
  ASSUME NEW f, NEW g, GoesOn(f, g), FrameInv(f), MayFollow(f)
  PROVE  FrameInv(g)
<1>1. Grows(g.entry, g.st)
  BY Z3T(30), GrowsTrans DEF GoesOn, FrameInv, Sound
<1>2. ASSUME NEW q \in g.runs PROVE PathOK(q, g.entry, g.st, g.marked)
  <2>1. CASE q \in Ended(f)
    <3>1. q \in f.runs /\ q.end # "on" /\ q.end # "tail"
      BY <2>1 DEF Ended, Going, FrameInv
    <3>2. PathOK(q, f.entry, f.st, f.marked)
      BY Z3T(30), <3>1 DEF FrameInv, Sound
    <3> QED BY Z3T(30), <3>1, <3>2, EndedOK DEF GoesOn
  <2> QED BY Z3T(30), <2>1 DEF GoesOn
<1>3. Sound(g, g.entry)
  BY Z3T(30), <1>1, <1>2 DEF GoesOn, Sound
<1>4. g.own \subseteq DOMAIN g.st
  BY Z3T(30) DEF GoesOn, FrameInv
<1> QED BY Z3T(30), <1>3, <1>4 DEF GoesOn, FrameInv

LEMMA GoesOnNest ==
  ASSUME NEW e, NEW f, NEW g, GoesOn(f, g), NestInv(e, f)
  PROVE  NestInv(e, g)
<1>1. ASSUME NEW q \in g.runs
      PROVE  \E p \in f.runs : q.from = p.from /\ DOMAIN p.st \subseteq DOMAIN q.st
  BY DEF GoesOn, Ended, Going
<1>2. Within(e, g)
  <2>1. DOMAIN g.st = DOMAIN e.st \cup g.own
    BY Z3T(30) DEF GoesOn, NestInv, Within
  <2>2. Grows(e.st, g.st)
    BY Z3T(30), GrowsTrans DEF GoesOn, NestInv, Within
  <2>3. ASSUME NEW q \in g.runs PROVE DOMAIN e.st \subseteq DOMAIN q.st
    BY Z3T(30), <1>1 DEF NestInv, Within
  <2> QED BY Z3T(30), <2>1, <2>2, <2>3 DEF Within
<1>3. IF g.kind = "while" THEN g.entry = e.st ELSE g.entry = e.entry /\ Starts(e, g)
  BY Z3T(30), <1>1 DEF GoesOn, NestInv, Starts
<1>4. \A i \in DOMAIN g.done : DoneInv(e, g, g.done[i])
  BY Z3T(30) DEF GoesOn, NestInv, DoneInv
<1> QED BY Z3T(30), <1>2, <1>3, <1>4 DEF GoesOn, NestInv

LEMMA GoesOnBody ==
  ASSUME NEW f, NEW g, GoesOn(f, g), BodyInv(f)
  PROVE  BodyInv(g)
<1>1. ASSUME NEW q \in g.runs PROVE q.from = g.entry
  BY DEF GoesOn, BodyInv, Ended, Going
<1> QED BY <1>1 DEF GoesOn, BodyInv

-----------------------------------------------------------------------------
(* The stack *)

LEMMA StackType ==
  ASSUME OwnershipInv
  PROVE  /\ Len(stack) \in Nat /\ Len(stack) >= 1 /\ DOMAIN stack = 1..Len(stack)
         /\ Len(stack) \in DOMAIN stack /\ 1 \in DOMAIN stack
         /\ Top \in Frames /\ FrameInv(Top)
         /\ \A i \in DOMAIN stack : stack[i] \in Frames
BY DEF OwnershipInv, TypeOK, Top

LEMMA BelowType ==
  ASSUME OwnershipInv, Len(stack) > 1
  PROVE  /\ Below \in Frames /\ FrameInv(Below) /\ NestInv(Below, Top)
         /\ Len(stack) - 1 \in DOMAIN stack
         /\ ~accepted
<1>1. Len(stack) \in DOMAIN stack /\ Len(stack) - 1 \in DOMAIN stack
  BY StackType
<1>2. NestInv(Below, Top)
  BY <1>1 DEF OwnershipInv, Below, Top
<1> QED BY <1>1, <1>2, StackType DEF OwnershipInv, Below

\* What is borrowed where the execution is, the checker has in its borrows.
LEMMA LentHeld ==
  ASSUME OwnershipInv
  PROVE  Lent \subseteq Top.held
BY Z3T(30), StackType DEF OwnershipInv, HeldInv, Lent, Top

LEMMA ReplaceTop ==
  ASSUME OwnershipInv, ~accepted, UNCHANGED <<callable, accepted>>, size' \in Nat,
         NEW g \in Frames, stack' = [stack EXCEPT ![Len(stack)] = g],
         FrameInv(g), Len(stack) = 1 => BodyInv(g), Len(stack) > 1 => NestInv(Below, g),
         g.kind = "borrow" => g.root \in g.held,
         \A j \in DOMAIN stack : j < Len(stack) /\ stack[j].kind = "borrow" => stack[j].root \in g.held
  PROVE  OwnershipInv'
<1> DEFINE L == Len(stack)
<1>1. /\ L \in Nat /\ L >= 1 /\ DOMAIN stack = 1..L /\ stack \in Seq(Frames)
  BY StackType DEF OwnershipInv, TypeOK
<1>2. /\ stack' \in Seq(Frames) /\ Len(stack') = L /\ DOMAIN stack' = 1..L
      /\ stack'[L] = g /\ \A i \in 1..L : i # L => stack'[i] = stack[i]
  BY <1>1
<1>a. /\ L = 1 => BodyInv(g)
      /\ L > 1 => NestInv(stack[L - 1], g)
      /\ \A k \in 1..L : k # L /\ stack[k].kind = "borrow" => stack[k].root \in g.held
  <2>1. (L = 1 => BodyInv(g)) /\ (L > 1 => NestInv(stack[L - 1], g))
    BY DEF Below
  <2>2. \A k \in 1..L : k < L /\ stack[k].kind = "borrow" => stack[k].root \in g.held
    BY <1>1
  <2> HIDE DEF L
  <2>3. \A k \in 1..L : k # L => k < L
    BY <1>1
  <2> QED BY <2>1, <2>2, <2>3
<1> HIDE DEF L
<1>3. TypeOK'
  BY Z3T(30), <1>1, <1>2 DEF OwnershipInv, TypeOK
<1>4. \A i \in 1..L : FrameInv(stack'[i])
  BY Z3T(30), <1>1, <1>2 DEF OwnershipInv
<1>5. ASSUME NEW i \in 1..L, i > 1 PROVE NestInv(stack'[i - 1], stack'[i])
  <2>1. CASE i = L
    <3>1. i - 1 \in 1..L /\ i - 1 # L
      BY <2>1, <1>1, <1>5
    <3> QED BY Z3T(30), <2>1, <3>1, <1>a, <1>2, <1>5
  <2>2. CASE i # L
    <3>1. i - 1 \in 1..L /\ i - 1 # L
      BY Z3T(30), <2>2, <1>1, <1>5
    <3> QED BY ZenonT(30), <2>2, <3>1, <1>1, <1>2, <1>5 DEF OwnershipInv
  <2> QED BY Z3T(30), <2>1, <2>2
<1>6. BodyInv(stack'[1])
  <2>1. CASE L = 1
    BY Z3T(30), <2>1, <1>2, <1>a
  <2>2. CASE L # 1
    BY Z3T(30), <2>2, <1>1, <1>2 DEF OwnershipInv
  <2> QED BY <2>1, <2>2
<1>7. ASSUME NEW i \in 1..L, NEW j \in 1..L, j <= i, stack'[j].kind = "borrow"
      PROVE  stack'[j].root \in stack'[i].held
  <2>1. CASE i = L /\ j = L
    BY Z3T(30), <2>1, <1>2, <1>7
  <2>2. CASE i = L /\ j # L
    BY Z3T(30), <2>2, <1>a, <1>2, <1>7
  <2>3. CASE i # L
    <3>1. j # L
      BY Z3T(30), <2>3, <1>1, <1>7
    <3> QED BY Z3T(30), <2>3, <3>1, <1>1, <1>2, <1>7 DEF OwnershipInv, HeldInv
  <2> QED BY Z3T(30), <2>1, <2>2, <2>3
<1> QED BY Z3T(30), <1>2, <1>3, <1>4, <1>5, <1>6, <1>7 DEF OwnershipInv, HeldInv

\* A statement in the block on top.
LEMMA SimpleStep ==
  ASSUME OwnershipInv, ~accepted, NEW g, Simple(g), MayFollow(Top), GoesOn(Top, g)
  PROVE  OwnershipInv'
<1>1. g \in Frames /\ g.kind = Top.kind /\ g.root = Top.root /\ g.held = Top.held
  BY DEF GoesOn
<1>2. FrameInv(g)
  BY StackType, GoesOnFrame
<1>3. Len(stack) = 1 => BodyInv(g)
  BY GoesOnBody DEF OwnershipInv, Top
<1>4. Len(stack) > 1 => NestInv(Below, g)
  BY Z3T(30), BelowType, GoesOnNest
<1>5. \A j \in DOMAIN stack : stack[j].kind = "borrow" => stack[j].root \in g.held
  BY <1>1, StackType DEF OwnershipInv, HeldInv, Top
<1>6. g.kind = "borrow" => g.root \in g.held
  BY ZenonT(30), <1>1, <1>5, StackType DEF Top
<1>7. size' \in Nat
  BY Z3T(30) DEF Simple, OwnershipInv, TypeOK
<1> QED BY ZenonT(30), <1>1, <1>2, <1>3, <1>4, <1>5, <1>6, <1>7, ReplaceTop DEF Simple

\* A statement with blocks begins.
LEMMA EnterStep ==
  ASSUME OwnershipInv, NEW c \in Frames, Enter(c), FrameInv(c), NestInv(Top, c),
         Top.held \subseteq c.held, c.kind = "borrow" => c.root \in c.held
  PROVE  OwnershipInv'
<1> DEFINE L == Len(stack)
<1>1. /\ L \in Nat /\ L >= 1 /\ DOMAIN stack = 1..L /\ stack \in Seq(Frames)
  BY Z3T(30), StackType DEF OwnershipInv, TypeOK
<1>2. /\ stack' \in Seq(Frames) /\ Len(stack') = L + 1 /\ DOMAIN stack' = 1..(L + 1)
      /\ stack'[L + 1] = c /\ \A i \in 1..L : stack'[i] = stack[i]
  BY Z3T(30), <1>1 DEF Enter
<1>3. TypeOK'
  BY Z3T(30), <1>1, <1>2 DEF OwnershipInv, TypeOK, Enter
<1>4. \A i \in 1..(L + 1) : FrameInv(stack'[i])
  BY Z3T(30), <1>1, <1>2 DEF OwnershipInv
<1>5. ASSUME NEW i \in 1..(L + 1), i > 1 PROVE NestInv(stack'[i - 1], stack'[i])
  <2>1. CASE i = L + 1
    BY Z3T(30), <2>1, <1>1, <1>2 DEF Top
  <2>2. CASE i # L + 1
    <3>1. i - 1 \in 1..L /\ i \in 1..L
      BY Z3T(30), <2>2, <1>1, <1>5
    <3> QED BY ZenonT(30), <3>1, <1>1, <1>2, <1>5 DEF OwnershipInv
  <2> QED BY Z3T(30), <2>1, <2>2
<1>6. BodyInv(stack'[1])
  BY Z3T(30), <1>1, <1>2 DEF OwnershipInv
<1>7. ASSUME NEW i \in 1..(L + 1), NEW j \in 1..(L + 1), j <= i, stack'[j].kind = "borrow"
      PROVE  stack'[j].root \in stack'[i].held
  <2>1. CASE j = L + 1
    <3>1. i = L + 1
      BY Z3T(30), <2>1, <1>1, <1>7
    <3> QED BY Z3T(30), <2>1, <3>1, <1>2, <1>7
  <2>2. CASE i = L + 1 /\ j # L + 1
    <3>1. j \in 1..L /\ j <= L
      BY Z3T(30), <2>2, <1>1
    <3>2. stack[j].root \in Top.held
      BY Z3T(30), <3>1, <1>1, <1>2, <1>7 DEF OwnershipInv, HeldInv, Top
    <3> QED BY Z3T(30), <2>2, <3>1, <3>2, <1>2
  <2>3. CASE i # L + 1 /\ j # L + 1
    <3>1. i \in 1..L /\ j \in 1..L
      BY Z3T(30), <2>3, <1>1
    <3> QED BY Z3T(30), <3>1, <1>1, <1>2, <1>7 DEF OwnershipInv, HeldInv
  <2> QED BY Z3T(30), <2>1, <2>2, <2>3
<1>8. ~accepted'
  BY Z3T(30) DEF Enter
<1> QED BY Z3T(30), <1>2, <1>3, <1>4, <1>5, <1>6, <1>7, <1>8 DEF OwnershipInv, HeldInv

\* A statement with blocks ends.
LEMMA ExitStep ==
  ASSUME OwnershipInv, Len(stack) > 1, NEW g, Exit(g), GoesOn(Below, g)
  PROVE  OwnershipInv'
<1> DEFINE L == Len(stack) - 1
<1>1. /\ L \in Nat /\ L >= 1 /\ DOMAIN stack = 1..(L + 1) /\ stack \in Seq(Frames)
  BY StackType DEF OwnershipInv, TypeOK
<1>a. Below = stack[L]
  BY Z3T(30) DEF Below
<1>2. g \in Frames /\ g.kind = Below.kind /\ g.root = Below.root /\ g.held = Below.held
  BY DEF GoesOn
<1>3. /\ stack' \in Seq(Frames) /\ Len(stack') = L /\ DOMAIN stack' = 1..L
      /\ stack'[L] = g /\ \A i \in 1..L : i # L => stack'[i] = stack[i]
  <2>1. stack' = [i \in 1..L |-> IF i = L THEN g ELSE stack[i]]
    BY DEF Exit
  <2> HIDE DEF L
  <2>2. \A i \in 1..L : stack[i] \in Frames
    BY <1>1
  <2> QED BY <2>1, <2>2, <1>1, <1>2
<1> HIDE DEF L
<1>4. TypeOK'
  BY Z3T(30), <1>1, <1>3 DEF OwnershipInv, TypeOK, Exit
<1>5. FrameInv(g)
  BY Z3T(30), BelowType, GoesOnFrame DEF NestInv
<1>6. \A i \in 1..L : FrameInv(stack'[i])
  BY <1>1, <1>3, <1>5 DEF OwnershipInv
<1>7. ASSUME NEW i \in 1..L, i > 1 PROVE NestInv(stack'[i - 1], stack'[i])
  <2>1. i - 1 \in 1..L /\ i - 1 # L /\ i \in 1..(L + 1)
    BY <1>1, <1>7
  <2>2. NestInv(stack[i - 1], stack[i])
    BY ZenonT(30), <2>1, <1>1, <1>7 DEF OwnershipInv
  <2>3. CASE i = L
    <3>1. stack[i] = Below
      BY <2>3, <1>a
    <3> QED BY Z3T(30), <2>1, <2>2, <2>3, <3>1, <1>3, GoesOnNest
  <2>4. CASE i # L
    BY <2>1, <2>2, <2>4, <1>3
  <2> QED BY <2>3, <2>4
<1>8. BodyInv(stack'[1])
  <2>1. CASE L = 1
    BY Z3T(30), <2>1, <1>1, <1>3, <1>a, GoesOnBody DEF OwnershipInv
  <2>2. CASE L # 1
    BY Z3T(30), <2>2, <1>1, <1>3 DEF OwnershipInv
  <2> QED BY Z3T(30), <2>1, <2>2
<1>9. \A i \in 1..L : stack'[i].kind = stack[i].kind /\ stack'[i].root = stack[i].root /\ stack'[i].held = stack[i].held
  BY Z3T(30), <1>1, <1>2, <1>3, <1>a
<1>10. ASSUME NEW i \in 1..L, NEW j \in 1..L, j <= i, stack'[j].kind = "borrow"
       PROVE  stack'[j].root \in stack'[i].held
  <2>1. i \in DOMAIN stack /\ j \in DOMAIN stack
    BY <1>1
  <2> QED BY <2>1, <1>9, <1>10 DEF OwnershipInv, HeldInv
<1>11. ~accepted'
  BY BelowType DEF Exit
<1> QED BY Z3T(30), <1>3, <1>4, <1>6, <1>7, <1>8, <1>10, <1>11 DEF OwnershipInv, HeldInv

-----------------------------------------------------------------------------
(* Statements *)

LEMMA FrameType ==
  ASSUME NEW f \in Frames
  PROVE  /\ f.st \in Maps /\ f.marked \in Maps /\ f.entry \in Maps /\ f.own \subseteq Names
         /\ f.runs \subseteq Paths /\ f.returns \in BOOLEAN /\ f.strict \in BOOLEAN
         /\ Going(f) \subseteq Paths /\ Ended(f) \subseteq Paths
BY DEF Frames, Going, Ended

\* What a statement leaves alone in the frame of its block.
Same(f, g) ==
  /\ g.kind = f.kind /\ g.root = f.root /\ g.tail = f.tail /\ g.strict = f.strict
  /\ g.held = f.held /\ g.done = f.done /\ g.entry = f.entry

\* The frame g is Checked(f, S, R).
IsChecked(f, g, S, R) ==
  /\ g \in Frames /\ Same(f, g)
  /\ g.st = S /\ g.marked = S /\ g.runs = R /\ g.own = f.own /\ g.returns = f.returns

LEMMA CheckedFrame ==
  ASSUME NEW f \in Frames, NEW S \in Maps, NEW R, R \subseteq Paths
  PROVE  IsChecked(f, Checked(f, S, R), S, R)
BY ZenonT(30) DEF Checked, Frames, Same, IsChecked

(* A statement in the block f makes it g: the paths that went on become R.   *)
Statement(f, g, R) ==
  /\ g \in Frames /\ Same(f, g)
  /\ DOMAIN g.marked = DOMAIN g.st
  /\ f.own \subseteq g.own /\ DOMAIN g.st = DOMAIN f.st \cup (g.own \ f.own) /\ Grows(f.st, g.st)
  /\ g.runs = Ended(f) \cup R
  /\ \A q \in R : /\ PathOK(q, f.entry, g.st, g.marked)
                  /\ \E p \in Going(f) : q.from = p.from /\ DOMAIN p.st \subseteq DOMAIN q.st
                  /\ q.end = "tail" => ~MayFollow(g) /\ (g.tail = "mark" \/ g.kind = "body")
  /\ g.returns => f.returns \/ \A q \in R : q.end # "on"

LEMMA StatementOK ==
  ASSUME NEW f, FrameInv(f), MayFollow(f), NEW g, NEW R, Statement(f, g, R)
  PROVE  GoesOn(f, g)
<1>1. g.returns => Going(g) = {}
  <2>1. f.returns => R = {}
    BY Z3T(30) DEF FrameInv, Sound, Statement
  <2>2. \A q \in Ended(f) : q.end # "on"
    BY DEF Ended, Going
  <2> QED BY Z3T(30), <2>1, <2>2 DEF Going, Statement
<1>2. \A q \in Ended(f) : q.end # "tail"
  BY DEF FrameInv, Ended
<1> QED BY Z3T(30), <1>1, <1>2 DEF GoesOn, Same, Statement

LEMMA CreateStep ==
  ASSUME OwnershipInv, NEW n \in Names, Create(n)
  PROVE  OwnershipInv'
<1> DEFINE f == Top
           S == Bind(f.st, n)
           R == {[p EXCEPT !.st = Bind(@, n)] : p \in Going(f)}
           c == Checked(f, S, Ended(f) \cup R)
           g == [c EXCEPT !.own = @ \cup {n}]
<1>1. ~accepted /\ MayFollow(f) /\ n \notin DOMAIN f.st /\ Simple(g)
  BY DEF Create
<1>2. f \in Frames /\ FrameInv(f)
  BY StackType
<1> HIDE DEF f
<1>3. /\ f.st \in Maps /\ f.own \subseteq Names /\ Ended(f) \subseteq Paths /\ Going(f) \subseteq Paths
  BY <1>2, FrameType
<1>4. /\ S \in Maps /\ DOMAIN S = DOMAIN f.st \cup {n} /\ S[n] = "Available"
      /\ \A m \in DOMAIN f.st : m # n => S[m] = f.st[m]
  BY <1>3, BindMap, Zenon
<1>5. Grows(f.st, S)
  BY <1>1, <1>4 DEF Grows
<1>6. ASSUME NEW q \in R
      PROVE  /\ q \in Paths /\ PathOK(q, f.entry, S, S) /\ q.end = "on"
             /\ \E p \in Going(f) : q.from = p.from /\ DOMAIN p.st \subseteq DOMAIN q.st
  <2>1. PICK p \in Going(f) : q = [p EXCEPT !.st = Bind(@, n)]
    OBVIOUS
  <2>2. p \in Paths /\ p.end = "on" /\ PathOK(p, f.entry, f.st, f.marked) /\ p.st \in Maps
    BY <1>2, <1>3, PathType DEF Going, FrameInv, Sound
  <2>3. q \in Paths /\ q.from = p.from /\ q.end = "on" /\ q.st = Bind(p.st, n)
    BY <2>1, <2>2, BindPath
  <2>4. PathOK(q, f.entry, S, S)
    BY <2>1, <2>2, <1>3, BindOK
  <2>5. DOMAIN Bind(p.st, n) = DOMAIN p.st \cup {n}
    BY <2>2, BindMap, ZenonT(30)
  <2> QED BY <2>3, <2>4, <2>5
<1> HIDE DEF S, R
<1>7. /\ c \in Frames /\ Same(f, c) /\ c.st = S /\ c.marked = S /\ c.runs = Ended(f) \cup R
      /\ c.own = f.own /\ c.returns = f.returns
  <2>1. Ended(f) \cup R \subseteq Paths
    BY <1>2, <1>3, <1>4, <1>6
  <2>2. IsChecked(f, c, S, Ended(f) \cup R)
    BY <2>1, <1>2, <1>3, <1>4, <1>6, CheckedFrame, ZenonT(30)
  <2> QED BY Z3T(30), <2>2 DEF IsChecked
<1> HIDE DEF c
<1>8. /\ g \in Frames /\ Same(f, g) /\ g.st = S /\ g.marked = S /\ g.runs = Ended(f) \cup R
      /\ g.own = f.own \cup {n} /\ g.returns = f.returns
  BY <1>3, <1>7 DEF Frames, Same
<1> HIDE DEF g
<1>10. GoesOn(f, g)
  <2>1. f.own \subseteq g.own /\ DOMAIN g.st = DOMAIN f.st \cup (g.own \ f.own)
    BY Z3T(30), <1>1, <1>2, <1>4, <1>8 DEF FrameInv
  <2>2. Statement(f, g, R)
    BY Z3T(30), <2>1, <1>5, <1>6, <1>8 DEF Statement
  <2> QED BY Z3T(30), <2>2, <1>1, <1>2, StatementOK
<1> QED BY <1>1, <1>10, SimpleStep DEF f


LEMMA PutGrows ==
  ASSUME NEW s \in Maps, NEW r \in DOMAIN s, s[r] = "Available", NEW as \in States
  PROVE  Grows(s, [s EXCEPT ![r] = as])
<1> DEFINE t == [s EXCEPT ![r] = as]
<1>1. DOMAIN t = DOMAIN s /\ \A m \in DOMAIN s : m # r => t[m] = s[m]
  BY PutMap
<1> HIDE DEF t
<1>2. Grows(s, t)
  BY <1>1 DEF Grows
<1> QED BY <1>2 DEF t

\* The checker lets r go: it is there, and not lent.
LEMMA UsableNow ==
  ASSUME OwnershipInv, NEW r, Usable(Top, r)
  PROVE  r \in DOMAIN Top.st /\ Top.st[r] = "Available" /\ r \notin Lent
BY LentHeld DEF Usable

LEMMA MoveStep ==
  ASSUME OwnershipInv, NEW r, NEW n \in Names, Move(r, n)
  PROVE  OwnershipInv'
<1> DEFINE f == Top
           T == [f.st EXCEPT ![r] = "Consumed"]
           S == Bind(T, n)
           R == {[Use(p, r, "Consumed") EXCEPT !.st = Bind(@, n)] : p \in Going(f)}
           c == Checked(f, S, Ended(f) \cup R)
           g == [c EXCEPT !.own = @ \cup {n}]
<1>1. ~accepted /\ MayFollow(f) /\ n \notin DOMAIN f.st /\ Simple(g)
  BY DEF Move
<1>2. f \in Frames /\ FrameInv(f)
  BY StackType
<1>a. r \in DOMAIN f.st /\ f.st[r] = "Available" /\ r \notin Lent
  BY Z3T(30), UsableNow DEF Move
<1> HIDE DEF f
<1>3. /\ f.st \in Maps /\ f.own \subseteq Names /\ Ended(f) \subseteq Paths /\ Going(f) \subseteq Paths
      /\ "Consumed" \in States
  BY Z3T(30), <1>2, FrameType DEF States
<1>b. T \in Maps /\ DOMAIN T = DOMAIN f.st /\ Grows(f.st, T)
  BY Z3T(30), <1>3, <1>a, PutMap, PutGrows
<1>6. ASSUME NEW q \in R
      PROVE  /\ q \in Paths /\ PathOK(q, f.entry, S, S) /\ q.end = "on"
             /\ \E p \in Going(f) : q.from = p.from /\ DOMAIN p.st \subseteq DOMAIN q.st
  <2>1. PICK p \in Going(f) : q = [Use(p, r, "Consumed") EXCEPT !.st = Bind(@, n)]
    OBVIOUS
  <2>2. p \in Paths /\ p.end = "on" /\ PathOK(p, f.entry, f.st, f.marked) /\ DOMAIN p.st = DOMAIN f.st
    BY <1>2, <1>3 DEF Going, FrameInv, Sound, PathOK
  <2> DEFINE u == Use(p, r, "Consumed")
  <2>3. u \in Paths /\ DOMAIN u.st = DOMAIN f.st /\ u.from = p.from /\ u.end = "on" /\ PathOK(u, f.entry, T, T)
    BY ZenonT(30), <2>2, <1>3, <1>a, UseOK
  <2> HIDE DEF u
  <2>4. q = [u EXCEPT !.st = Bind(@, n)]
    BY <2>1 DEF u
  <2>5. u.st \in Maps
    BY <2>3, PathType
  <2>6. q \in Paths /\ q.from = p.from /\ q.end = "on" /\ q.st = Bind(u.st, n)
    BY <2>3, <2>4, BindPath
  <2>7. DOMAIN Bind(u.st, n) = DOMAIN u.st \cup {n}
    BY <2>5, BindMap, Zenon
  <2> HIDE DEF T
  <2>8. PathOK(q, f.entry, S, S)
    BY <2>3, <2>4, <1>b, BindOK
  <2> QED BY Z3T(30), <2>2, <2>3, <2>6, <2>7, <2>8
<1> HIDE DEF T, R
<1>4. /\ S \in Maps /\ DOMAIN S = DOMAIN T \cup {n}
      /\ \A m \in DOMAIN T : m # n => S[m] = T[m]
  BY <1>b, BindMap, Zenon
<1>5. Grows(f.st, S)
  BY Z3T(30), <1>1, <1>b, <1>4 DEF Grows
<1> HIDE DEF S
<1>7. /\ c \in Frames /\ Same(f, c) /\ c.st = S /\ c.marked = S /\ c.runs = Ended(f) \cup R
      /\ c.own = f.own /\ c.returns = f.returns
  <2>1. Ended(f) \cup R \subseteq Paths
    BY <1>2, <1>3, <1>4, <1>6
  <2>2. IsChecked(f, c, S, Ended(f) \cup R)
    BY <2>1, <1>2, <1>3, <1>4, <1>6, CheckedFrame, ZenonT(30)
  <2> QED BY Z3T(30), <2>2 DEF IsChecked
<1> HIDE DEF c
<1>8. /\ g \in Frames /\ Same(f, g) /\ g.st = S /\ g.marked = S /\ g.runs = Ended(f) \cup R
      /\ g.own = f.own \cup {n} /\ g.returns = f.returns
  BY Z3T(30), <1>3, <1>7 DEF Frames, Same
<1> HIDE DEF g
<1>9. f.own \subseteq g.own /\ DOMAIN g.st = DOMAIN f.st \cup (g.own \ f.own)
  BY Z3T(30), <1>1, <1>2, <1>b, <1>4, <1>8 DEF FrameInv
<1>10. Statement(f, g, R)
  BY Z3T(30), <1>5, <1>6, <1>8, <1>9 DEF Statement
<1> QED BY Z3T(30), <1>1, <1>2, <1>10, StatementOK, SimpleStep DEF f

LEMMA OpStep ==
  ASSUME OwnershipInv, NEW r, NEW as \in {"Consumed", "Destroyed"}, Op(r, as)
  PROVE  OwnershipInv'
<1> DEFINE f == Top
           S == [f.st EXCEPT ![r] = as]
           R == {Use(p, r, as) : p \in Going(f)}
           c == Checked(f, S, Ended(f) \cup R)
           g == [c EXCEPT !.value = callable.rt = "plain"]
<1>1. ~accepted /\ MayFollow(f) /\ Simple(g)
  BY DEF Op
<1>2. f \in Frames /\ FrameInv(f)
  BY StackType
<1>a. r \in DOMAIN f.st /\ f.st[r] = "Available" /\ r \notin Lent
  BY UsableNow DEF Op
<1> HIDE DEF f
<1>3. /\ f.st \in Maps /\ f.own \subseteq Names /\ Ended(f) \subseteq Paths /\ Going(f) \subseteq Paths
      /\ as \in States /\ as # "Available"
  BY ZenonT(30), <1>2, FrameType DEF States
<1>4. S \in Maps /\ DOMAIN S = DOMAIN f.st /\ Grows(f.st, S)
  BY ZenonT(30), <1>3, <1>a, PutMap, PutGrows
<1>6. ASSUME NEW q \in R
      PROVE  /\ q \in Paths /\ PathOK(q, f.entry, S, S) /\ q.end = "on"
             /\ \E p \in Going(f) : q.from = p.from /\ DOMAIN p.st \subseteq DOMAIN q.st
  <2>1. PICK p \in Going(f) : q = Use(p, r, as)
    BY ZenonT(30)
  <2>2. p \in Paths /\ p.end = "on" /\ PathOK(p, f.entry, f.st, f.marked) /\ DOMAIN p.st = DOMAIN f.st
    BY <1>2, <1>3 DEF Going, FrameInv, Sound, PathOK
  <2> DEFINE u == Use(p, r, as)
  <2>3. u \in Paths /\ DOMAIN u.st = DOMAIN f.st /\ u.from = p.from /\ u.end = "on" /\ PathOK(u, f.entry, S, S)
    BY ZenonT(30), <2>2, <1>3, <1>a, UseOK
  <2> QED BY ZenonT(30), <2>1, <2>2, <2>3
<1> HIDE DEF R, S
<1>7. /\ c \in Frames /\ Same(f, c) /\ c.st = S /\ c.marked = S /\ c.runs = Ended(f) \cup R
      /\ c.own = f.own /\ c.returns = f.returns
  <2>1. Ended(f) \cup R \subseteq Paths
    BY <1>2, <1>3, <1>4, <1>6
  <2>2. IsChecked(f, c, S, Ended(f) \cup R)
    BY <2>1, <1>2, <1>3, <1>4, <1>6, CheckedFrame, ZenonT(30)
  <2> QED BY Z3T(30), <2>2 DEF IsChecked
<1> HIDE DEF c
<1>8. /\ g \in Frames /\ Same(f, g) /\ g.st = S /\ g.marked = S /\ g.runs = Ended(f) \cup R
      /\ g.own = f.own /\ g.returns = f.returns
  BY ZenonT(30), <1>7 DEF Frames, Same
<1> HIDE DEF g
<1>9. Statement(f, g, R)
  BY <1>4, <1>6, <1>8 DEF Statement
<1> QED BY Z3T(30), <1>1, <1>2, <1>9, StatementOK, SimpleStep DEF f

LEMMA JumpStep ==
  ASSUME OwnershipInv, NEW kind \in Jumps, Jump(kind)
  PROVE  OwnershipInv'
<1> DEFINE f == Top
           R == {[p EXCEPT !.end = kind] : p \in Going(f)}
           c == Checked(f, f.st, Ended(f) \cup R)
           g == [c EXCEPT !.stops = TRUE]
<1>1. ~accepted /\ MayFollow(f) /\ Simple(g)
  BY DEF Jump
<1>2. f \in Frames /\ FrameInv(f)
  BY Z3T(30), StackType
<1> HIDE DEF f
<1>3. /\ f.st \in Maps /\ Ended(f) \subseteq Paths /\ Going(f) \subseteq Paths
  BY <1>2, FrameType
<1>4. ASSUME NEW q \in R
      PROVE  /\ q \in Paths /\ PathOK(q, f.entry, f.st, f.st) /\ q.end # "tail"
             /\ \E p \in Going(f) : q.from = p.from /\ DOMAIN p.st \subseteq DOMAIN q.st
  <2>1. PICK p \in Going(f) : q = [p EXCEPT !.end = kind]
    OBVIOUS
  <2>2. p \in Paths /\ p.end = "on" /\ PathOK(p, f.entry, f.st, f.marked) /\ Grows(f.entry, f.st)
    BY <1>2, <1>3 DEF Going, FrameInv, Sound
  <2>3. kind \in Ends /\ kind # "tail"
    BY DEF Ends, Jumps
  <2>4. q \in Paths /\ q.from = p.from /\ q.end = kind /\ q.st = p.st
    BY <2>1, <2>2, <2>3, EndPath
  <2>5. PathOK(q, f.entry, f.st, f.st)
    BY Z3T(30), <2>1, <2>2, JumpOK
  <2> QED BY <2>3, <2>4, <2>5
<1> HIDE DEF R
<1>7. /\ c \in Frames /\ Same(f, c) /\ c.st = f.st /\ c.marked = f.st /\ c.runs = Ended(f) \cup R
      /\ c.own = f.own /\ c.returns = f.returns
  <2>1. Ended(f) \cup R \subseteq Paths
    BY <1>2, <1>3, <1>4
  <2>2. IsChecked(f, c, f.st, Ended(f) \cup R)
    BY <2>1, <1>2, <1>3, <1>4, CheckedFrame, ZenonT(30)
  <2> QED BY <2>2 DEF IsChecked
<1> HIDE DEF c
<1>8. /\ g \in Frames /\ Same(f, g) /\ g.st = f.st /\ g.marked = f.st /\ g.runs = Ended(f) \cup R
      /\ g.own = f.own /\ g.returns = f.returns
  BY ZenonT(30), <1>7 DEF Frames, Same
<1> HIDE DEF g
<1>9. Statement(f, g, R)
  BY <1>4, <1>8, GrowsRefl DEF Statement
<1> QED BY <1>1, <1>2, <1>9, StatementOK, SimpleStep DEF f


LEMMA ReturnStep ==
  ASSUME OwnershipInv, NEW r, Return(r)
  PROVE  OwnershipInv'
<1> DEFINE f == Top
           S == IF r = None THEN f.st ELSE [f.st EXCEPT ![r] = "Consumed"]
           U(p) == IF r = None THEN p ELSE Use(p, r, "Consumed")
           R == {Returned(U(p)) : p \in Going(f)}
           c == Checked(f, S, Ended(f) \cup R)
           g == [c EXCEPT !.returns = TRUE, !.stops = TRUE]
<1>1. ~accepted /\ MayFollow(f) /\ Simple(g)
  BY DEF Return
<1>2. f \in Frames /\ FrameInv(f)
  BY StackType
<1>a. r # None => r \in DOMAIN f.st /\ f.st[r] = "Available" /\ r \notin Lent
  BY Z3T(30), UsableNow DEF Return
<1>b. AtTail => f.strict /\ (f.tail = "mark" \/ f.kind = "body")
  BY Z3T(30), <1>2 DEF AtTail, FrameInv, OwnershipInv, BodyInv, Top
<1> HIDE DEF f
<1>3. /\ f.st \in Maps /\ f.own \subseteq Names /\ Ended(f) \subseteq Paths /\ Going(f) \subseteq Paths
      /\ "Consumed" \in States /\ f.strict \in BOOLEAN
  BY Z3T(30), <1>2, FrameType DEF States
<1>4. S \in Maps /\ DOMAIN S = DOMAIN f.st /\ Grows(f.st, S)
  <2>1. CASE r = None
    BY Z3T(30), <2>1, <1>3, GrowsRefl
  <2>2. CASE r # None
    <3> DEFINE T == [f.st EXCEPT ![r] = "Consumed"]
    <3>1. T \in Maps /\ DOMAIN T = DOMAIN f.st /\ Grows(f.st, T)
      BY Z3T(30), <2>2, <1>3, <1>a, PutMap, PutGrows
    <3>2. S = T
      BY Z3T(30), <2>2
    <3> QED BY Z3T(30), <3>1, <3>2
  <2> QED BY Z3T(30), <2>1, <2>2
<1>5. ASSUME NEW p \in Going(f)
      PROVE  /\ U(p) \in Paths /\ DOMAIN U(p).st = DOMAIN p.st /\ U(p).from = p.from /\ U(p).end = "on"
             /\ PathOK(U(p), f.entry, S, S)
  <2>1. p \in Paths /\ p.end = "on" /\ PathOK(p, f.entry, f.st, f.marked) /\ DOMAIN p.st = DOMAIN f.st
    BY Z3T(30), <1>2, <1>3 DEF Going, FrameInv, Sound, PathOK
  <2>2. CASE r = None
    BY Z3T(30), <2>1, <2>2, OnOK
  <2>3. CASE r # None
    <3> DEFINE T == [f.st EXCEPT ![r] = "Consumed"]
               u == Use(p, r, "Consumed")
    <3>1. /\ u \in Paths /\ DOMAIN u.st = DOMAIN f.st /\ u.from = p.from /\ u.end = "on"
          /\ PathOK(u, f.entry, T, T)
      BY ZenonT(30), <2>1, <2>3, <1>3, <1>a, UseOK
    <3>2. S = T /\ U(p) = u
      BY Z3T(30), <2>3
    <3> HIDE DEF T, u, S, U
    <3> QED BY Z3T(30), <2>1, <3>1, <3>2
  <2> QED BY Z3T(30), <2>2, <2>3
<1> HIDE DEF S, U
<1>6. ASSUME NEW q \in R
      PROVE  /\ q \in Paths /\ PathOK(q, f.entry, S, S) /\ q.end # "on" /\ (q.end = "tail" => AtTail)
             /\ \E p \in Going(f) : q.from = p.from /\ DOMAIN p.st \subseteq DOMAIN q.st
  <2>1. PICK p \in Going(f) : q = Returned(U(p))
    BY Z3T(30)
  <2> DEFINE u == U(p)
  <2>2. /\ u \in Paths /\ DOMAIN u.st = DOMAIN p.st /\ u.from = p.from /\ u.end = "on"
        /\ PathOK(u, f.entry, S, S)
    BY <1>5
  <2>3. q = Returned(u)
    BY <2>1
  <2> HIDE DEF u
  <2>4. /\ q \in Paths /\ q.from = u.from /\ q.st = u.st
        /\ q.end = IF AtTail THEN "tail" ELSE "return"
    BY <2>2, <2>3, ReturnedPath
  <2>5. PathOK(q, f.entry, S, S)
    BY Z3T(30), <2>2, <2>3, ReturnedOK
  <2> QED BY <2>2, <2>4, <2>5
<1> HIDE DEF R
<1>7. /\ c \in Frames /\ Same(f, c) /\ c.st = S /\ c.marked = S /\ c.runs = Ended(f) \cup R
      /\ c.own = f.own
  <2>1. Ended(f) \cup R \subseteq Paths
    BY Z3T(30), <1>2, <1>3, <1>4, <1>6
  <2>2. IsChecked(f, c, S, Ended(f) \cup R)
    BY <2>1, <1>2, <1>3, <1>4, <1>6, CheckedFrame, ZenonT(30)
  <2> QED BY Z3T(30), <2>2 DEF IsChecked
<1> HIDE DEF c
<1>8. /\ g \in Frames /\ Same(f, g) /\ g.st = S /\ g.marked = S /\ g.runs = Ended(f) \cup R
      /\ g.own = f.own /\ g.returns = TRUE
  BY ZenonT(30), <1>7 DEF Frames, Same
<1> HIDE DEF g
<1>9. AtTail => ~MayFollow(g) /\ (g.tail = "mark" \/ g.kind = "body")
  BY Z3T(30), <1>b, <1>8 DEF MayFollow, Same
<1>10. Statement(f, g, R)
  BY Z3T(30), <1>4, <1>6, <1>8, <1>9 DEF Statement
<1> QED BY Z3T(30), <1>1, <1>2, <1>10, StatementOK, SimpleStep DEF f

-----------------------------------------------------------------------------
(* Blocks begin *)

\* The frame c is env.child() of f.
IsChild(f, c, kind, tail) ==
  /\ c \in Frames /\ c.kind = kind /\ c.tail = tail /\ c.strict = f.strict /\ c.held = f.held
  /\ c.st = f.st /\ c.marked = f.st /\ c.own = {} /\ c.returns = FALSE /\ c.done = <<>>
  /\ c.entry = f.entry /\ c.runs = Going(f)

LEMMA ChildFrame ==
  ASSUME NEW f \in Frames, NEW kind \in Kinds, NEW tail \in {"no", "value", "mark"}
  PROVE  IsChild(f, Child(f, kind, tail), kind, tail)
<1>1. None \in Names \cup {None} /\ Going(f) \subseteq Paths /\ <<>> \in Seq(Blocks)
  BY Z3T(30), FrameType
<1> QED BY ZenonT(30), <1>1 DEF Child, Frames, IsChild

\* A block that goes on where f is.
LEMMA ChildOK ==
  ASSUME NEW f \in Frames, FrameInv(f), NEW c \in Frames,
         c.st = f.st, c.marked = f.st, c.own = {}, c.returns = FALSE, c.runs = Going(f)
  PROVE  /\ Sound(c, f.entry) /\ Within(f, c) /\ Starts(f, c) /\ c.own \subseteq DOMAIN c.st
         /\ \A p \in c.runs : p.end # "tail"
<1>1. ASSUME NEW p \in c.runs
      PROVE  p \in Going(f) /\ p.end = "on" /\ PathOK(p, f.entry, f.st, f.st) /\ DOMAIN p.st = DOMAIN f.st
  <2>1. p \in Going(f) /\ p.end = "on" /\ PathOK(p, f.entry, f.st, f.marked)
    BY Z3T(30) DEF Going, FrameInv, Sound
  <2> QED BY Z3T(30), <2>1, OnOK DEF PathOK
<1>2. Sound(c, f.entry)
  BY Z3T(30), <1>1 DEF Sound, FrameInv
<1>3. Within(f, c)
  BY Z3T(30), <1>1, GrowsRefl DEF Within
<1>4. Starts(f, c)
  BY Z3T(30), <1>1 DEF Starts
<1> QED BY Z3T(30), <1>1, <1>2, <1>3, <1>4

LEMMA IfStep ==
  ASSUME OwnershipInv, NEW last \in BOOLEAN, If(last)
  PROVE  OwnershipInv'
<1> DEFINE f == Top
           tail == IF last THEN f.tail ELSE "no"
           c == Child(f, "then", tail)
<1>1. Enter(c) /\ MayFollow(f)
  BY DEF If, Enter
<1>2. f \in Frames /\ FrameInv(f)
  BY StackType
<1> HIDE DEF f
<1>3. tail \in {"no", "value", "mark"} /\ (tail = "mark" => f.tail = "mark" /\ f.strict) /\ "then" \in Kinds
  BY <1>2 DEF Frames, FrameInv, Kinds
<1> HIDE DEF tail
<1>4. IsChild(f, c, "then", tail)
  BY Z3T(30), <1>2, <1>3, ChildFrame
<1> HIDE DEF c
<1>5. /\ Sound(c, f.entry) /\ Within(f, c) /\ Starts(f, c) /\ c.own \subseteq DOMAIN c.st
      /\ \A p \in c.runs : p.end # "tail"
  BY ZenonT(30), <1>2, <1>4, ChildOK DEF IsChild
<1>6. FrameInv(c)
  BY Z3T(30), <1>3, <1>4, <1>5 DEF FrameInv, IsChild
<1>7. NestInv(f, c)
  BY Z3T(30), <1>1, <1>3, <1>4, <1>5 DEF NestInv, IsChild
<1> QED BY Z3T(30), <1>1, <1>4, <1>6, <1>7, EnterStep DEF f, IsChild

LEMMA BorrowStep ==
  ASSUME OwnershipInv, NEW r, Borrow(r)
  PROVE  OwnershipInv'
<1> DEFINE f == Top
           b == Child(f, "borrow", "no")
           c == [b EXCEPT !.root = r, !.held = @ \cup {r}]
<1>1. Enter(c) /\ MayFollow(f) /\ r \in DOMAIN f.st
  BY DEF Borrow, Enter
<1>2. f \in Frames /\ FrameInv(f)
  BY StackType
<1> HIDE DEF f
<1>3. r \in Names /\ f.held \subseteq Names /\ "borrow" \in Kinds
  BY Z3T(30), <1>1, <1>2, FrameType, MapsElim DEF Frames, Kinds
<1>4. IsChild(f, b, "borrow", "no")
  BY <1>2, <1>3, ChildFrame
<1> HIDE DEF b
<1>5. /\ c \in Frames /\ c.kind = "borrow" /\ c.tail = "no" /\ c.strict = f.strict
      /\ c.held = f.held \cup {r} /\ c.root = r
      /\ c.st = f.st /\ c.marked = f.st /\ c.own = {} /\ c.returns = FALSE /\ c.done = <<>>
      /\ c.entry = f.entry /\ c.runs = Going(f)
  BY ZenonT(30), <1>3, <1>4 DEF Frames, IsChild
<1> HIDE DEF c
<1>6. /\ Sound(c, f.entry) /\ Within(f, c) /\ Starts(f, c) /\ c.own \subseteq DOMAIN c.st
      /\ \A p \in c.runs : p.end # "tail"
  BY ZenonT(30), <1>2, <1>5, ChildOK
<1>7. FrameInv(c)
  BY Z3T(30), <1>5, <1>6 DEF FrameInv
<1>8. NestInv(f, c)
  BY Z3T(30), <1>1, <1>5, <1>6 DEF NestInv
<1> QED BY Z3T(30), <1>1, <1>5, <1>7, <1>8, EnterStep DEF f

LEMMA BlockStep ==
  ASSUME OwnershipInv, Block
  PROVE  OwnershipInv'
<1> DEFINE f == Top
           c == Child(f, "block", "value")
<1>1. Enter(c) /\ MayFollow(f)
  BY DEF Block, Enter
<1>2. f \in Frames /\ FrameInv(f) /\ "block" \in Kinds
  BY StackType DEF Kinds
<1> HIDE DEF f
<1>4. IsChild(f, c, "block", "value")
  BY Z3T(30), <1>2, ChildFrame
<1> HIDE DEF c
<1>5. /\ Sound(c, f.entry) /\ Within(f, c) /\ Starts(f, c) /\ c.own \subseteq DOMAIN c.st
      /\ \A p \in c.runs : p.end # "tail"
  BY ZenonT(30), <1>2, <1>4, ChildOK DEF IsChild
<1>6. FrameInv(c)
  BY Z3T(30), <1>4, <1>5 DEF FrameInv, IsChild
<1>7. NestInv(f, c)
  BY Z3T(30), <1>1, <1>4, <1>5 DEF NestInv, IsChild
<1> QED BY Z3T(30), <1>1, <1>4, <1>6, <1>7, EnterStep DEF f, IsChild

LEMMA MatchStep ==
  ASSUME OwnershipInv, Match
  PROVE  OwnershipInv'
<1> DEFINE f == Top
           b == Child(f, "arm", "value")
           c == [b EXCEPT !.strict = FALSE]
<1>1. Enter(c) /\ MayFollow(f)
  BY DEF Match, Enter
<1>2. f \in Frames /\ FrameInv(f) /\ "arm" \in Kinds
  BY StackType DEF Kinds
<1> HIDE DEF f
<1>3. IsChild(f, b, "arm", "value")
  BY <1>2, ChildFrame
<1> HIDE DEF b
<1>4. /\ c \in Frames /\ c.kind = "arm" /\ c.tail = "value" /\ c.held = f.held
      /\ c.st = f.st /\ c.marked = f.st /\ c.own = {} /\ c.returns = FALSE /\ c.done = <<>>
      /\ c.entry = f.entry /\ c.runs = Going(f)
  BY ZenonT(30), <1>3 DEF Frames, IsChild
<1> HIDE DEF c
<1>5. /\ Sound(c, f.entry) /\ Within(f, c) /\ Starts(f, c) /\ c.own \subseteq DOMAIN c.st
      /\ \A p \in c.runs : p.end # "tail"
  BY ZenonT(30), <1>2, <1>4, ChildOK
<1>6. FrameInv(c)
  BY Z3T(30), <1>4, <1>5 DEF FrameInv
<1>7. NestInv(f, c)
  BY Z3T(30), <1>1, <1>4, <1>5 DEF NestInv
<1> QED BY Z3T(30), <1>1, <1>4, <1>6, <1>7, EnterStep DEF f

LEMMA WhileStep ==
  ASSUME OwnershipInv, While
  PROVE  OwnershipInv'
<1> DEFINE f == Top
           R == {Begin(s) : s \in [DOMAIN f.st -> States]}
           b == Child(f, "while", "no")
           c == [b EXCEPT !.inLoop = TRUE, !.entry = f.st, !.runs = R]
<1>1. Enter(c) /\ MayFollow(f)
  BY DEF While, Enter
<1>2. f \in Frames /\ FrameInv(f) /\ "while" \in Kinds
  BY StackType DEF Kinds
<1> HIDE DEF f
<1>3. f.st \in Maps /\ DOMAIN f.st \subseteq Names
  BY Z3T(30), <1>2, FrameType, MapsElim
<1>4. ASSUME NEW q \in R
      PROVE  q \in Paths /\ PathOK(q, f.st, f.st, f.st) /\ DOMAIN q.st = DOMAIN f.st /\ q.end = "on"
  <2>1. PICK s \in [DOMAIN f.st -> States] : q = Begin(s)
    OBVIOUS
  <2>2. s \in Maps
    BY Z3T(30), <1>3, MapsIntro
  <2>3. /\ q \in Paths /\ q.from = s /\ q.st = s /\ q.end = "on" /\ q.bad = FALSE /\ q.lost = {}
    BY <2>1, <2>2 DEF Begin, Paths, Ends
  <2> QED BY <2>3 DEF PathOK, Jumps
<1> HIDE DEF R
<1>5. IsChild(f, b, "while", "no")
  BY <1>2, ChildFrame
<1> HIDE DEF b
<1>6. /\ c \in Frames /\ c.kind = "while" /\ c.tail = "no" /\ c.held = f.held
      /\ c.st = f.st /\ c.marked = f.st /\ c.own = {} /\ c.returns = FALSE /\ c.done = <<>>
      /\ c.entry = f.st /\ c.runs = R
  <2>1. R \subseteq Paths
    BY Z3T(30), <1>4
  <2> QED BY ZenonT(30), <2>1, <1>3, <1>5 DEF Frames, IsChild
<1> HIDE DEF c
<1>7. Sound(c, f.st) /\ Within(f, c)
  BY Z3T(30), <1>4, <1>6, GrowsRefl DEF Sound, Within
<1>8. FrameInv(c)
  BY Z3T(30), <1>4, <1>6, <1>7 DEF FrameInv
<1>9. NestInv(f, c)
  BY Z3T(30), <1>1, <1>4, <1>6, <1>7 DEF NestInv
<1> QED BY Z3T(30), <1>1, <1>6, <1>8, <1>9, EnterStep DEF f

-----------------------------------------------------------------------------
(* The next block of a statement *)

LEMMA FinishedBlock ==
  ASSUME NEW c \in Frames
  PROVE  LET b == Finished(c)
         IN  /\ b \in Blocks /\ b.kind = c.kind /\ b.st = c.st /\ b.own = c.own
             /\ b.marked = c.marked /\ b.returns = c.returns /\ b.runs = c.runs
BY Z3T(30) DEF Finished, Frames, Blocks

LEMMA FinishedDone ==
  ASSUME NEW f, NEW c, NEW t \in Frames, FrameInv(t), NestInv(f, t), t.kind # "while",
         c.kind \in {"else", "arm"}, t.kind = "then" \/ LinearComplete(t.own, t.st),
         t.tail = "mark" => c.tail = "mark"
  PROVE  Finished(t) \in Blocks /\ DoneInv(f, c, Finished(t))
<1> DEFINE b == Finished(t)
<1>1. /\ b \in Blocks /\ b.kind = t.kind /\ b.st = t.st /\ b.own = t.own
      /\ b.marked = t.marked /\ b.returns = t.returns /\ b.runs = t.runs
  BY Z3T(30), FinishedBlock
<1> HIDE DEF b
<1>2. Sound(t, f.entry) /\ Within(f, t) /\ Starts(f, t)
  BY Z3T(30) DEF FrameInv, NestInv
<1>3. Sound(b, f.entry) /\ Within(f, b) /\ Starts(f, b)
  BY Z3T(30), <1>1, <1>2 DEF Sound, Within, Starts, Going
<1>4. DoneInv(f, c, b)
  BY Z3T(30), <1>1, <1>3 DEF DoneInv, NestInv
<1> QED BY Z3T(30), <1>1, <1>4 DEF b

LEMMA SiblingStep ==
  ASSUME OwnershipInv, Len(stack) > 1, NEW c \in Frames, Sibling(c), size' \in Nat,
         FrameInv(c), NestInv(Below, c), c.held = Below.held, c.kind # "borrow"
  PROVE  OwnershipInv'
<1>1. ~accepted /\ Len(stack) - 1 \in DOMAIN stack
  BY Z3T(30), BelowType
<1>2. ASSUME NEW j \in DOMAIN stack, j < Len(stack), stack[j].kind = "borrow"
      PROVE  stack[j].root \in c.held
  <2>1. j <= Len(stack) - 1
    BY Z3T(30), <1>2, StackType
  <2> QED BY Z3T(30), <2>1, <1>1, <1>2 DEF OwnershipInv, HeldInv, Below
<1>3. Len(stack) # 1
  BY Z3T(30), StackType
<1> QED BY ZenonT(30), <1>1, <1>2, <1>3, ReplaceTop DEF Sibling

LEMMA ElseStep ==
  ASSUME OwnershipInv, Else
  PROVE  OwnershipInv'
<1> DEFINE f == Below
           t == Top
           d == Finished(t)
           b == Child(f, "else", t.tail)
           c == [b EXCEPT !.done = <<d>>]
<1>1. Len(stack) > 1 /\ t.kind = "then" /\ Sibling(c) /\ size' = size
  BY DEF Else, In
<1>2. f \in Frames /\ FrameInv(f) /\ t \in Frames /\ FrameInv(t) /\ NestInv(f, t) /\ "else" \in Kinds
  BY Z3T(30), <1>1, StackType, BelowType DEF Kinds
<1> HIDE DEF f, t
<1>3. t.tail \in {"no", "value", "mark"}
  BY Z3T(30), <1>2 DEF Frames
<1>4. IsChild(f, b, "else", t.tail)
  BY Z3T(30), <1>2, <1>3, ChildFrame
<1> HIDE DEF b
<1>5. d \in Blocks
  BY <1>2, FinishedBlock
<1>6. /\ c \in Frames /\ c.kind = "else" /\ c.tail = t.tail /\ c.strict = f.strict /\ c.held = f.held
      /\ c.st = f.st /\ c.marked = f.st /\ c.own = {} /\ c.returns = FALSE /\ c.done = <<d>>
      /\ c.entry = f.entry /\ c.runs = Going(f)
  <2>1. <<d>> \in Seq(Blocks)
    BY Z3T(30), <1>5
  <2> HIDE DEF d
  <2> QED BY ZenonT(30), <2>1, <1>4 DEF IsChild, Frames
<1> HIDE DEF c
<1>7. DoneInv(f, c, d)
  BY Z3T(30), <1>1, <1>2, <1>6, FinishedDone
<1> HIDE DEF d
<1>8. /\ Sound(c, f.entry) /\ Within(f, c) /\ Starts(f, c) /\ c.own \subseteq DOMAIN c.st
      /\ \A p \in c.runs : p.end # "tail"
  BY ZenonT(30), <1>2, <1>6, ChildOK
<1>9. c.tail = "mark" => f.tail = "mark" /\ c.strict
  BY Z3T(30), <1>2, <1>6 DEF NestInv, FrameInv
<1>10. FrameInv(c)
  BY Z3T(30), <1>6, <1>8, <1>9 DEF FrameInv
<1>11. \A i \in DOMAIN c.done : DoneInv(f, c, c.done[i])
  BY Z3T(30), <1>6, <1>7
<1>12. NestInv(f, c)
  BY Z3T(30), <1>2, <1>6, <1>8, <1>9, <1>11 DEF NestInv
<1>13. size' \in Nat
  BY Z3T(30), <1>1 DEF OwnershipInv, TypeOK
<1> QED BY Z3T(30), <1>1, <1>6, <1>10, <1>12, <1>13, SiblingStep DEF f

LEMMA NextArmStep ==
  ASSUME OwnershipInv, NextArm
  PROVE  OwnershipInv'
<1> DEFINE f == Below
           t == Top
           d == Finished(t)
           b == Child(f, "arm", "value")
           c == [b EXCEPT !.strict = FALSE, !.done = Append(t.done, d)]
<1>1. Len(stack) > 1 /\ t.kind = "arm" /\ LinearComplete(t.own, t.st) /\ Sibling(c) /\ size' = size + 1
  BY DEF NextArm, In
<1>2. f \in Frames /\ FrameInv(f) /\ t \in Frames /\ FrameInv(t) /\ NestInv(f, t) /\ "arm" \in Kinds
  BY Z3T(30), <1>1, StackType, BelowType DEF Kinds
<1> HIDE DEF f, t
<1>3. t.done \in Seq(Blocks)
  BY <1>2 DEF Frames
<1>4. IsChild(f, b, "arm", "value")
  BY Z3T(30), <1>2, ChildFrame
<1> HIDE DEF b
<1>5. d \in Blocks
  BY <1>2, FinishedBlock
<1>6. /\ c \in Frames /\ c.kind = "arm" /\ c.tail = "value" /\ c.held = f.held
      /\ c.st = f.st /\ c.marked = f.st /\ c.own = {} /\ c.returns = FALSE /\ c.done = Append(t.done, d)
      /\ c.entry = f.entry /\ c.runs = Going(f)
  <2>1. Append(t.done, d) \in Seq(Blocks)
    BY Z3T(30), <1>3, <1>5
  <2> HIDE DEF d
  <2> QED BY ZenonT(30), <2>1, <1>4 DEF IsChild, Frames
<1> HIDE DEF c
<1>a. t.tail # "mark"
  BY Z3T(30), <1>1, <1>2 DEF NestInv
<1>7. DoneInv(f, c, d)
  BY Z3T(30), <1>1, <1>2, <1>6, <1>a, FinishedDone
<1> HIDE DEF d
<1>8. /\ Sound(c, f.entry) /\ Within(f, c) /\ Starts(f, c) /\ c.own \subseteq DOMAIN c.st
      /\ \A p \in c.runs : p.end # "tail"
  BY ZenonT(30), <1>2, <1>6, ChildOK
<1>9. FrameInv(c)
  BY Z3T(30), <1>6, <1>8 DEF FrameInv
<1>10. ASSUME NEW i \in DOMAIN c.done PROVE DoneInv(f, c, c.done[i])
  <2>1. i \in DOMAIN t.done \/ i = Len(t.done) + 1
    BY Z3T(30), <1>3, <1>5, <1>6
  <2>2. CASE i \in DOMAIN t.done
    <3>1. c.done[i] = t.done[i]
      BY Z3T(30), <2>2, <1>3, <1>5, <1>6
    <3>2. DoneInv(f, t, t.done[i])
      BY Z3T(30), <2>2, <1>2 DEF NestInv
    <3> QED BY Z3T(30), <3>1, <3>2, <1>6, <1>a DEF DoneInv
  <2>3. CASE i = Len(t.done) + 1
    <3>1. c.done[i] = d
      BY Z3T(30), <2>3, <1>3, <1>5, <1>6
    <3> QED BY Z3T(30), <3>1, <1>7
  <2> QED BY Z3T(30), <2>1, <2>2, <2>3
<1>11. NestInv(f, c)
  BY Z3T(30), <1>2, <1>6, <1>8, <1>10 DEF NestInv
<1>12. size' \in Nat
  BY Z3T(30), <1>1 DEF OwnershipInv, TypeOK
<1> QED BY Z3T(30), <1>1, <1>6, <1>9, <1>11, <1>12, SiblingStep DEF f

-----------------------------------------------------------------------------
(* Statements with blocks end *)

\* The path q came into f out of its block b.
Arrives(f, b, S, M, q) ==
  /\ q \in Paths /\ PathOK(q, f.entry, S, M)
  /\ \E p \in Going(f) : q.from = p.from /\ DOMAIN p.st \subseteq DOMAIN q.st
  /\ \E p \in b.runs : q.end = p.end

LEMMA LeftPaths ==
  ASSUME NEW f, FrameInv(f), NEW b, NEW S, NEW M, NEW aside,
         Merges(f, b, f.entry, S, M, aside), Starts(f, b)
  PROVE  \A q \in Stray(Left(f, b), aside) : Arrives(f, b, S, M, q)
<1> SUFFICES ASSUME NEW q \in Stray(Left(f, b), aside) PROVE Arrives(f, b, S, M, q)
  BY Z3T(30)
<1>1. /\ q \in Paths /\ PathOK(q, f.entry, S, M) /\ DOMAIN q.st = DOMAIN f.st
      /\ \E p \in b.runs : q.from = p.from /\ q.end = p.end
  <2>1. Leaves(f, b, f.entry, S, M, q)
    BY LeaveOK, ZenonT(30)
  <2> QED BY <2>1 DEF Leaves
<1>2. PICK p \in b.runs : q.from = p.from /\ q.end = p.end
  BY Z3T(30), <1>1
<1>3. PICK o \in Going(f) : p.from = o.from
  BY Z3T(30) DEF Starts
<1>4. DOMAIN o.st = DOMAIN f.st
  BY ZenonT(30) DEF Going, FrameInv, Sound, PathOK
<1> QED BY Z3T(30), <1>1, <1>2, <1>3, <1>4 DEF Arrives

LEMMA NotAside == \A runs : Stray(runs, FALSE) = runs
BY Z3T(30) DEF Stray

LEMMA EndIfStep ==
  ASSUME OwnershipInv, EndIf
  PROVE  OwnershipInv'
<1> DEFINE t == Top
           f == Below
           S == MergeBranches(f, t, t.returns, FALSE, f, FALSE)
           aside == t.returns
           L == Stray(Left(f, t), aside)
           g == Checked(f, S, f.runs \cup L)
<1>1. Len(stack) > 1 /\ t.kind = "then" /\ t.tail = "no" /\ Agreed(S) /\ Exit(g)
  BY ZenonT(30) DEF EndIf, In
<1>2. f \in Frames /\ FrameInv(f) /\ t \in Frames /\ FrameInv(t) /\ NestInv(f, t)
  BY Z3T(30), <1>1, StackType, BelowType
<1> HIDE DEF f, t
<1>3. /\ f.st \in Maps /\ f.runs \subseteq Paths
      /\ t.st \in Maps /\ t.marked \in Maps /\ t.returns \in BOOLEAN /\ t.runs \subseteq Paths
  BY Z3T(30), <1>2, FrameType
<1>4. /\ MayFollow(f) /\ Sound(t, f.entry) /\ Within(f, t) /\ Starts(f, t)
      /\ \A p \in t.runs : p.end # "tail"
  BY ZenonT(30), <1>1, <1>2 DEF NestInv, FrameInv
<1>5. ASSUME NEW n \in DOMAIN f.st PROVE S[n] = f.st[n] /\ (~t.returns => t.st[n] = f.st[n])
  <2>1. /\ S[n] = MergedState(n, f.st[n], t.st[n], t.returns, FALSE, f.st[n], FALSE)
        /\ S[n] # None
    BY ZenonT(30), <1>1 DEF MergeBranches, Agreed
  <2> HIDE DEF S
  <2>2. CASE t.returns
    BY <2>1, <2>2 DEF MergedState
  <2>3. CASE ~t.returns
    BY Z3T(30), <2>1, <2>3 DEF MergedState
  <2> QED BY Z3T(30), <2>2, <2>3
<1>6. S = f.st
  <2>1. DOMAIN S = DOMAIN f.st /\ S = [n \in DOMAIN f.st |-> S[n]]
    BY ZenonT(30) DEF MergeBranches
  <2>2. f.st = [n \in DOMAIN f.st |-> f.st[n]]
    BY <1>3, MapsElim
  <2> HIDE DEF S
  <2> QED BY Z3T(30), <2>1, <2>2, <1>5
<1> HIDE DEF S
<1>7. Merges(f, t, f.entry, f.st, f.st, aside)
  <2>1. DOMAIN f.entry \subseteq DOMAIN f.st
    BY Z3T(30), <1>2 DEF FrameInv, Sound, Grows
  <2>2. t.returns => Going(t) = {}
    BY Z3T(30), <1>4 DEF Sound
  <2> QED BY ZenonT(30), <2>1, <2>2, <1>1, <1>3, <1>4, <1>5 DEF Merges
<1> HIDE DEF aside
<1>8. ASSUME NEW q \in L
      PROVE  /\ q \in Paths /\ PathOK(q, f.entry, f.st, f.st) /\ q.end # "tail"
             /\ \E p \in Going(f) : q.from = p.from /\ DOMAIN p.st \subseteq DOMAIN q.st
  <2>1. Arrives(f, t, f.st, f.st, q)
    BY <1>2, <1>4, <1>7, LeftPaths, ZenonT(30)
  <2> QED BY Z3T(30), <2>1, <1>4 DEF Arrives
<1> HIDE DEF L
<1>9. ASSUME NEW q \in Going(f) PROVE PathOK(q, f.entry, f.st, f.st) /\ q.end = "on"
  <2>1. PathOK(q, f.entry, f.st, f.marked) /\ q.end = "on"
    BY Z3T(30), <1>2 DEF Going, FrameInv, Sound
  <2> QED BY Z3T(30), <2>1, OnOK
<1>10. /\ g \in Frames /\ Same(f, g) /\ g.st = f.st /\ g.marked = f.st /\ g.runs = f.runs \cup L
       /\ g.own = f.own /\ g.returns = f.returns
  <2>1. f.runs \cup L \subseteq Paths
    BY Z3T(30), <1>2, <1>3, <1>6, <1>8
  <2>2. IsChecked(f, g, f.st, f.runs \cup L)
    BY <2>1, <1>2, <1>3, <1>6, <1>8, CheckedFrame, ZenonT(30)
  <2> QED BY Z3T(30), <2>2 DEF IsChecked
<1> HIDE DEF g
<1>11. g.runs = Ended(f) \cup (Going(f) \cup L)
  BY <1>10 DEF Ended, Going
<1>12. Statement(f, g, Going(f) \cup L)
  BY ZenonT(30), <1>8, <1>9, <1>10, <1>11, GrowsRefl DEF Statement
<1> QED BY Z3T(30), <1>1, <1>2, <1>4, <1>12, StatementOK, ExitStep DEF f

LEMMA EndIfElseStep ==
  ASSUME OwnershipInv, EndIfElse
  PROVE  OwnershipInv'
<1> DEFINE e == Top
           t == e.done[1]
           f == Below
           fall == e.tail = "value"
           thenReturns == ~fall /\ t.returns
           elseReturns == ~fall /\ e.returns
           S == MergeBranches(f, t, thenReturns, TRUE, e, elseReturns)
           M == IF e.tail = "mark" THEN Restrict(t.marked, DOMAIN f.st) ELSE S
           thenAside == thenReturns /\ ~elseReturns
           elseAside == elseReturns /\ ~thenReturns
           A == Stray(Left(f, t), thenAside)
           B == Stray(Left(f, e), elseAside)
           R == A \cup B
           c == Checked(f, S, Ended(f) \cup R)
           returns == c.returns \/ (t.returns /\ e.returns)
           stops == c.stops \/ (t.stops /\ e.stops)
           value == (thenReturns \/ t.value) /\ (elseReturns \/ e.value)
           after == IF e.tail # "no" THEN "nothing" ELSE IF f.tail # "no" THEN "something" ELSE "any"
           g == [c EXCEPT !.marked = M, !.returns = returns, !.stops = stops, !.value = value, !.after = after]
<1>1. /\ Len(stack) > 1 /\ e.kind = "else" /\ Agreed(S) /\ Exit(g)
      /\ e.tail = "mark" => MarkedAlike(f, t, e)
  BY ZenonT(30) DEF EndIfElse, In
<1>2. f \in Frames /\ FrameInv(f) /\ e \in Frames /\ FrameInv(e) /\ NestInv(f, e)
  BY Z3T(30), <1>1, StackType, BelowType
<1> HIDE DEF f, e
<1>3. e.done \in Seq(Blocks) /\ 1 \in DOMAIN e.done
  BY Z3T(30), <1>1, <1>2 DEF Frames, FrameInv
<1>4. t \in Blocks /\ DoneInv(f, e, t)
  BY Z3T(30), <1>2, <1>3 DEF NestInv
<1> HIDE DEF t
<1>5. /\ t.st \in Maps /\ t.marked \in Maps /\ t.returns \in BOOLEAN /\ t.runs \subseteq Paths
      /\ t.stops \in BOOLEAN /\ t.value \in BOOLEAN
  BY Z3T(30), <1>4 DEF Blocks
<1>6. /\ e.st \in Maps /\ e.marked \in Maps /\ e.returns \in BOOLEAN /\ e.runs \subseteq Paths
      /\ e.stops \in BOOLEAN /\ e.value \in BOOLEAN /\ f.st \in Maps /\ Ended(f) \subseteq Paths
      /\ f.returns \in BOOLEAN
  BY Z3T(30), <1>2, FrameType DEF Frames
<1>7. /\ MayFollow(f) /\ Sound(e, f.entry) /\ Within(f, e) /\ Starts(f, e)
      /\ Sound(t, f.entry) /\ Within(f, t) /\ Starts(f, t)
      /\ \A p \in t.runs \cup e.runs : p.end = "tail" => e.tail = "mark" /\ f.tail = "mark"
  BY Z3T(30), <1>1, <1>2, <1>4 DEF NestInv, FrameInv, DoneInv
<1>8. thenReturns \in BOOLEAN /\ elseReturns \in BOOLEAN /\ DOMAIN S = DOMAIN f.st
  BY DEF MergeBranches
<1>9. (thenReturns => t.returns) /\ (elseReturns => e.returns)
  BY Z3T(30)
<1> HIDE DEF thenReturns, elseReturns, fall
<1>10. ASSUME NEW n \in DOMAIN f.st
       PROVE  /\ S[n] \in {t.st[n], e.st[n]}
              /\ ~thenAside => S[n] = t.st[n]
              /\ ~elseAside => S[n] = e.st[n]
  <2>1. /\ S[n] = MergedState(n, f.st[n], t.st[n], thenReturns, TRUE, e.st[n], elseReturns)
        /\ S[n] # None
    BY ZenonT(30), <1>1 DEF MergeBranches, Agreed
  <2> HIDE DEF S
  <2>2. CASE thenReturns /\ elseReturns
    BY <2>1, <2>2 DEF MergedState
  <2>3. CASE thenReturns /\ ~elseReturns
    BY <2>1, <2>3 DEF MergedState
  <2>4. CASE ~thenReturns /\ elseReturns
    BY Z3T(30), <2>1, <2>4 DEF MergedState
  <2>5. CASE ~thenReturns /\ ~elseReturns
    BY Z3T(30), <2>1, <2>5 DEF MergedState
  <2> QED BY Z3T(30), <2>2, <2>3, <2>4, <2>5
<1>11. DOMAIN f.st \subseteq DOMAIN t.st /\ DOMAIN f.st \subseteq DOMAIN e.st
  BY Z3T(30), <1>7 DEF Within
<1>12. S \in Maps
  <2>1. S = [n \in DOMAIN f.st |-> S[n]]
    BY ZenonT(30) DEF MergeBranches
  <2> HIDE DEF S
  <2>2. \A n \in DOMAIN f.st : t.st[n] \in States /\ e.st[n] \in States
    BY Z3T(30), <1>5, <1>6, <1>11, MapsElim
  <2>3. S \in [DOMAIN f.st -> States]
    BY Z3T(30), <2>1, <2>2, <1>10
  <2> QED BY Z3T(30), <2>3, <1>6, MapsElim, MapsIntro
<1> HIDE DEF S
<1>13. Grows(f.st, S)
  BY Z3T(30), <1>7, <1>8, <1>10 DEF Within, Grows
<1>14. M \in Maps /\ DOMAIN M = DOMAIN f.st /\ (e.tail # "mark" => M = S)
  <2>1. DOMAIN t.marked = DOMAIN t.st
    BY Z3T(30), <1>7 DEF Sound
  <2> QED BY Z3T(30), <2>1, <1>5, <1>8, <1>11, <1>12, RestrictMap
<1>15. e.tail = "mark" => \A n \in DOMAIN f.st : M[n] = t.marked[n] /\ M[n] = e.marked[n]
  <2>1. DOMAIN t.marked = DOMAIN t.st
    BY ZenonT(30), <1>7 DEF Sound
  <2> QED BY Z3T(30), <2>1, <1>1, <1>5, <1>11, RestrictMap DEF MarkedAlike
<1> HIDE DEF M
<1>16. DOMAIN f.entry \subseteq DOMAIN f.st
  BY <1>2 DEF FrameInv, Sound, Grows
<1>17. Merges(f, t, f.entry, S, M, thenAside)
  <2>1. thenReturns => Going(t) = {}
    BY Z3T(30), <1>7, <1>9 DEF Sound
  <2>2. t.kind \in {"then", "else"} \/ LinearComplete(t.own, t.st)
    BY Z3T(30), <1>4 DEF DoneInv
  <2> QED BY ZenonT(30), <2>1, <2>2, <1>5, <1>6, <1>7, <1>8, <1>10, <1>12, <1>14, <1>15, <1>16 DEF Merges
<1>18. Merges(f, e, f.entry, S, M, elseAside)
  <2>1. elseReturns => Going(e) = {}
    BY Z3T(30), <1>7, <1>9 DEF Sound
  <2> QED BY Z3T(30), <2>1, <1>1, <1>5, <1>6, <1>7, <1>8, <1>10, <1>12, <1>14, <1>15, <1>16 DEF Merges
<1> HIDE DEF thenAside, elseAside
<1>19. ASSUME NEW q \in R
       PROVE  /\ q \in Paths /\ PathOK(q, f.entry, S, M)
              /\ \E p \in Going(f) : q.from = p.from /\ DOMAIN p.st \subseteq DOMAIN q.st
              /\ \E p \in t.runs \cup e.runs : q.end = p.end
              /\ t.returns /\ e.returns => q.end # "on"
  <2>1. CASE q \in A
    <3>1. Arrives(f, t, S, M, q)
      BY <2>1, <1>2, <1>7, <1>17, LeftPaths, ZenonT(30)
    <3> QED BY ZenonT(30), <3>1, <1>7 DEF Arrives, Sound, Going
  <2>2. CASE q \in B
    <3>1. Arrives(f, e, S, M, q)
      BY <2>2, <1>2, <1>7, <1>18, LeftPaths, ZenonT(30)
    <3> QED BY ZenonT(30), <3>1, <1>7 DEF Arrives, Sound, Going
  <2> QED BY ZenonT(30), <2>1, <2>2
<1> HIDE DEF R, A, B
<1>20. /\ c \in Frames /\ Same(f, c) /\ c.st = S /\ c.runs = Ended(f) \cup R
       /\ c.own = f.own /\ c.returns = f.returns /\ c.stops \in BOOLEAN
  <2>1. /\ c \in Frames /\ Same(f, c) /\ c.st = S /\ c.runs = Ended(f) \cup R
        /\ c.own = f.own /\ c.returns = f.returns
    <3>1. Ended(f) \cup R \subseteq Paths
      BY ZenonT(30), <1>2, <1>6, <1>12, <1>19
    <3>2. IsChecked(f, c, S, Ended(f) \cup R)
      BY <3>1, <1>2, <1>6, <1>12, <1>19, CheckedFrame, ZenonT(30)
    <3> QED BY Z3T(30), <3>2 DEF IsChecked
  <2> HIDE DEF c
  <2> QED BY ZenonT(30), <2>1 DEF Frames
<1> HIDE DEF c
<1>21. /\ g \in Frames /\ Same(f, g) /\ g.st = S /\ g.marked = M /\ g.runs = Ended(f) \cup R
       /\ g.own = f.own /\ g.returns = (f.returns \/ (t.returns /\ e.returns))
       /\ e.tail # "no" => g.after = "nothing"
  <2>1. /\ returns \in BOOLEAN /\ stops \in BOOLEAN /\ value \in BOOLEAN
        /\ after \in {"any", "nothing", "something"}
        /\ returns = (f.returns \/ (t.returns /\ e.returns))
        /\ e.tail # "no" => after = "nothing"
    BY <1>20
  <2> HIDE DEF returns, stops, value, after
  <2>2. g \in Frames
    <3> DEFINE h == [c EXCEPT !.marked = M, !.after = after]
               k == [h EXCEPT !.returns = returns]
               l == [k EXCEPT !.stops = stops]
               m == [l EXCEPT !.value = value]
    <3>1. h \in Frames
      BY ZenonT(30), <2>1, <1>14, <1>20 DEF Frames
    <3>2. g = m
      BY ZenonT(30), <1>20 DEF Frames
    <3> HIDE DEF h
    <3>3. k \in Frames
      BY ZenonT(30), <2>1, <3>1 DEF Frames
    <3> HIDE DEF k
    <3>4. l \in Frames
      BY <2>1, <3>3 DEF Frames
    <3> HIDE DEF l
    <3>5. m \in Frames
      BY Z3T(30), <2>1, <3>4 DEF Frames
    <3> QED BY <3>2, <3>5
  <2>3. /\ Same(f, g) /\ g.st = S /\ g.marked = M /\ g.runs = Ended(f) \cup R
        /\ g.own = f.own /\ g.returns = returns /\ g.after = after
    BY Z3T(30), <1>20 DEF Frames, Same
  <2> HIDE DEF g
  <2> QED BY <2>1, <2>2, <2>3, ZenonT(30)
<1> HIDE DEF g
<1>22. ASSUME NEW q \in R, q.end = "tail" PROVE ~MayFollow(g) /\ g.tail = "mark"
  <2>1. e.tail = "mark" /\ f.tail = "mark"
    BY Z3T(30), <1>7, <1>19, <1>22
  <2> QED BY Z3T(30), <2>1, <1>21 DEF MayFollow, Same
<1>23. Statement(f, g, R)
  BY ZenonT(30), <1>8, <1>13, <1>14, <1>19, <1>21, <1>22 DEF Statement
<1> QED BY ZenonT(30), <1>1, <1>2, <1>7, <1>23, StatementOK, ExitStep DEF f

LEMMA EndWhileStep ==
  ASSUME OwnershipInv, EndWhile
  PROVE  OwnershipInv'
<1> DEFINE c == Top
           f == Below
           body == Left(f, c)
           X == Looped(f, body)
           R == X \ Ended(f)
           g == Checked(f, f.st, X)
<1>1. /\ Len(stack) > 1 /\ c.kind = "while" /\ LinearComplete(c.own, c.st) /\ SameAfterLoop(f, c)
      /\ Exit(g)
  BY Z3T(30) DEF EndWhile, In
<1>2. f \in Frames /\ FrameInv(f) /\ c \in Frames /\ FrameInv(c) /\ NestInv(f, c)
  BY Z3T(30), <1>1, StackType, BelowType
<1> HIDE DEF f, c
<1>3. /\ f.st \in Maps /\ f.runs \subseteq Paths
      /\ c.st \in Maps /\ c.marked \in Maps /\ c.runs \subseteq Paths
  BY Z3T(30), <1>2, FrameType
<1>4. /\ MayFollow(f) /\ Sound(c, f.st) /\ Within(f, c)
      /\ \A p \in c.runs : p.end # "tail"
  BY ZenonT(30), <1>1, <1>2 DEF NestInv, FrameInv
<1>5. Merges(f, c, f.st, f.st, f.st, FALSE)
  BY ZenonT(30), <1>1, <1>3, <1>4 DEF Merges, SameAfterLoop
<1>6. ASSUME NEW r \in body PROVE r \in Paths /\ PassOK(r, f.st, f.st)
  <2>1. r \in Stray(Left(f, c), FALSE)
    BY ZenonT(30), NotAside
  <2>2. Leaves(f, c, f.st, f.st, f.st, r)
    BY <2>1, <1>5, LeaveOK, ZenonT(30)
  <2> QED BY ZenonT(30), <2>2, <1>3, <1>4, BodyPass DEF Leaves
<1> HIDE DEF body
<1>7. \A p \in f.runs : PathOK(p, f.entry, f.st, f.marked)
  BY Z3T(30), <1>2 DEF FrameInv, Sound
<1>8. ASSUME NEW q \in X
      PROVE  /\ q \in Paths
             /\ \/ q \in f.runs
                \/ /\ PathOK(q, f.entry, f.st, f.st) /\ DOMAIN q.st = DOMAIN f.st /\ q.end # "tail"
                   /\ \E p \in Going(f) : q.from = p.from
  BY Z3T(30), <1>3, <1>6, <1>7, LoopedOK
<1>9. f.runs \subseteq X
  BY Z3T(30) DEF Looped
<1> HIDE DEF X
<1>10. ASSUME NEW q \in R
       PROVE  /\ PathOK(q, f.entry, f.st, f.st) /\ q.end # "tail"
              /\ \E p \in Going(f) : q.from = p.from /\ DOMAIN p.st \subseteq DOMAIN q.st
  <2>1. CASE q \in f.runs
    <3>1. q \in Going(f) /\ q.end = "on" /\ PathOK(q, f.entry, f.st, f.marked)
      BY Z3T(30), <2>1, <1>7 DEF Ended, Going
    <3> QED BY Z3T(30), <3>1, OnOK
  <2>2. CASE q \notin f.runs
    <3>1. \A p \in Going(f) : DOMAIN p.st = DOMAIN f.st
      BY Z3T(30), <1>7 DEF Going, PathOK
    <3> QED BY Z3T(30), <2>2, <3>1, <1>8
  <2> QED BY Z3T(30), <2>1, <2>2
<1>11. /\ g \in Frames /\ Same(f, g) /\ g.st = f.st /\ g.marked = f.st /\ g.runs = X
       /\ g.own = f.own /\ g.returns = f.returns
  <2>1. X \subseteq Paths
    BY Z3T(30), <1>2, <1>3, <1>8
  <2>2. IsChecked(f, g, f.st, X)
    BY <2>1, <1>2, <1>3, <1>8, CheckedFrame, ZenonT(30)
  <2> QED BY Z3T(30), <2>2 DEF IsChecked
<1> HIDE DEF g
<1>12. X = Ended(f) \cup R
  BY <1>9 DEF Ended
<1>13. Statement(f, g, R)
  BY ZenonT(30), <1>10, <1>11, <1>12, GrowsRefl DEF Statement
<1> QED BY Z3T(30), <1>1, <1>2, <1>4, <1>13, StatementOK, ExitStep DEF f

LEMMA CloseStep ==
  ASSUME OwnershipInv, Len(stack) > 1, Close(Below, Top), Top.kind \in {"borrow", "block"}
  PROVE  OwnershipInv'
<1> DEFINE c == Top
           f == Below
           S == Restrict(c.st, DOMAIN f.st)
           L == Left(f, c)
           d == Checked(f, S, Ended(f) \cup L)
           returns == d.returns \/ c.returns
           stops == d.stops \/ c.stops
           value == c.kind = "block" /\ c.value
           g == [d EXCEPT !.returns = returns, !.stops = stops, !.value = value]
<1>1. LinearComplete(c.own, c.st) /\ Exit(g) /\ c.kind \in {"borrow", "block"}
  BY Z3T(30) DEF Close
<1>2. f \in Frames /\ FrameInv(f) /\ c \in Frames /\ FrameInv(c) /\ NestInv(f, c)
  BY Z3T(30), StackType, BelowType
<1> HIDE DEF f, c
<1>3. /\ f.st \in Maps /\ Ended(f) \subseteq Paths /\ f.returns \in BOOLEAN /\ c.returns \in BOOLEAN
      /\ c.st \in Maps /\ c.marked \in Maps /\ c.runs \subseteq Paths
  BY <1>2, FrameType
<1>4. /\ MayFollow(f) /\ Sound(c, f.entry) /\ Within(f, c) /\ Starts(f, c)
      /\ \A p \in c.runs : p.end # "tail"
  BY Z3T(30), <1>1, <1>2 DEF NestInv, FrameInv
<1>5. DOMAIN f.st \subseteq DOMAIN c.st /\ Grows(f.st, c.st)
  BY Z3T(30), <1>4 DEF Within
<1>6. S \in Maps /\ DOMAIN S = DOMAIN f.st /\ (\A n \in DOMAIN f.st : S[n] = c.st[n]) /\ Grows(f.st, S)
  BY Z3T(30), <1>3, <1>5, RestrictMap, RestrictAbove
<1> HIDE DEF S
<1>7. Merges(f, c, f.entry, S, S, FALSE)
  <2>1. DOMAIN f.entry \subseteq DOMAIN f.st
    BY Z3T(30), <1>2 DEF FrameInv, Sound, Grows
  <2> QED BY Z3T(30), <2>1, <1>1, <1>3, <1>4, <1>6 DEF Merges
<1>8. ASSUME NEW q \in L
      PROVE  /\ q \in Paths /\ PathOK(q, f.entry, S, S) /\ q.end # "tail" /\ (c.returns => q.end # "on")
             /\ \E p \in Going(f) : q.from = p.from /\ DOMAIN p.st \subseteq DOMAIN q.st
  <2>1. Arrives(f, c, S, S, q)
    BY <1>2, <1>4, <1>7, NotAside, LeftPaths, ZenonT(30)
  <2> QED BY <2>1, <1>4 DEF Arrives, Sound, Going
<1> HIDE DEF L
<1>9. /\ d \in Frames /\ Same(f, d) /\ d.st = S /\ d.marked = S /\ d.runs = Ended(f) \cup L
      /\ d.own = f.own /\ d.returns = f.returns
  <2>1. Ended(f) \cup L \subseteq Paths
    BY <1>2, <1>3, <1>6, <1>8
  <2>2. IsChecked(f, d, S, Ended(f) \cup L)
    BY <2>1, <1>2, <1>3, <1>6, <1>8, CheckedFrame, ZenonT(30)
  <2> QED BY ZenonT(30), <2>2 DEF IsChecked
<1> HIDE DEF d
<1>10. /\ returns \in BOOLEAN /\ stops \in BOOLEAN /\ value \in BOOLEAN
       /\ returns => f.returns \/ c.returns
  BY ZenonT(30), <1>3, <1>9
<1> HIDE DEF returns, stops, value
<1>11. /\ g \in Frames /\ Same(f, g) /\ g.st = S /\ g.marked = S /\ g.runs = Ended(f) \cup L
       /\ g.own = f.own /\ g.returns = returns
  BY ZenonT(30), <1>9, <1>10 DEF Frames, Same
<1> HIDE DEF g
<1>12. Statement(f, g, L)
  BY ZenonT(30), <1>6, <1>8, <1>10, <1>11 DEF Statement
<1> QED BY ZenonT(30), <1>1, <1>2, <1>4, <1>12, StatementOK, ExitStep DEF f

LEMMA EndMatchStep ==
  ASSUME OwnershipInv, EndMatch
  PROVE  OwnershipInv'
<1> DEFINE c == Top
           f == Below
           S == Restrict(c.st, DOMAIN f.st)
           arms == {Finished(c)} \cup Range(c.done)
           R == UNION {Left(f, a) : a \in arms}
           d == Checked(f, S, Ended(f) \cup R)
           value == \A a \in arms : a.value
           g == [d EXCEPT !.value = value]
<1>1. /\ Len(stack) > 1 /\ c.kind = "arm" /\ LinearComplete(c.own, c.st)
      /\ \A a \in arms : \A n \in DOMAIN f.st : a.st[n] = c.st[n]
      /\ Exit(g)
  <2>1. /\ Len(stack) > 1 /\ c.kind = "arm" /\ LinearComplete(c.own, c.st)
    BY DEF EndMatch, In
  <2>2. \A a \in arms : \A n \in DOMAIN f.st : a.st[n] = c.st[n]
    BY ZenonT(30) DEF EndMatch
  <2>3. Exit(g)
    BY ZenonT(30) DEF EndMatch
  <2> QED BY ZenonT(30), <2>1, <2>2, <2>3
<1>2. f \in Frames /\ FrameInv(f) /\ c \in Frames /\ FrameInv(c) /\ NestInv(f, c)
  BY Z3T(30), <1>1, StackType, BelowType
<1> HIDE DEF f, c
<1>3. /\ f.st \in Maps /\ Ended(f) \subseteq Paths /\ c.st \in Maps /\ c.done \in Seq(Blocks)
  BY Z3T(30), <1>2, FrameType DEF Frames
<1>4. MayFollow(f) /\ Within(f, c) /\ c.tail # "mark" /\ DOMAIN f.entry \subseteq DOMAIN f.st
  BY ZenonT(30), <1>1, <1>2 DEF NestInv, FrameInv, Sound, Grows
<1>5. DOMAIN f.st \subseteq DOMAIN c.st /\ Grows(f.st, c.st)
  BY Z3T(30), <1>4 DEF Within
<1>6. S \in Maps /\ DOMAIN S = DOMAIN f.st /\ (\A n \in DOMAIN f.st : S[n] = c.st[n]) /\ Grows(f.st, S)
  BY ZenonT(30), <1>3, <1>5, RestrictMap, RestrictAbove
<1> HIDE DEF S
<1>7. ASSUME NEW a \in arms PROVE a \in Blocks /\ DoneInv(f, c, a)
  <2>1. CASE a = Finished(c)
    BY ZenonT(30), <2>1, <1>1, <1>2, FinishedDone
  <2>2. CASE a \in Range(c.done)
    <3>1. PICK i \in DOMAIN c.done : a = c.done[i]
      BY Z3T(30), <2>2 DEF Range
    <3> QED BY Z3T(30), <3>1, <1>2, <1>3 DEF NestInv
  <2> QED BY Z3T(30), <2>1, <2>2
<1> HIDE DEF arms
<1>8. ASSUME NEW a \in arms PROVE Merges(f, a, f.entry, S, S, FALSE) /\ Starts(f, a) /\ \A p \in a.runs : p.end # "tail"
  <2>1. /\ a.st \in Maps /\ a.marked \in Maps /\ a.runs \subseteq Paths
    BY Z3T(30), <1>7 DEF Blocks
  <2>2. /\ Sound(a, f.entry) /\ Within(f, a) /\ Starts(f, a)
        /\ a.kind = "then" \/ LinearComplete(a.own, a.st)
        /\ \A p \in a.runs : p.end # "tail"
    BY ZenonT(30), <1>4, <1>7 DEF DoneInv
  <2>3. \A n \in DOMAIN f.st : S[n] = a.st[n]
    BY ZenonT(30), <1>1, <1>6
  <2> QED BY ZenonT(30), <2>1, <2>2, <2>3, <1>3, <1>4, <1>6 DEF Merges
<1>9. ASSUME NEW q \in R
      PROVE  /\ q \in Paths /\ PathOK(q, f.entry, S, S) /\ q.end # "tail"
             /\ \E p \in Going(f) : q.from = p.from /\ DOMAIN p.st \subseteq DOMAIN q.st
  <2>1. PICK a \in arms : q \in Left(f, a)
    BY Z3T(30)
  <2>2. Merges(f, a, f.entry, S, S, FALSE) /\ Starts(f, a) /\ \A p \in a.runs : p.end # "tail"
    BY ZenonT(30), <1>8
  <2>3. Arrives(f, a, S, S, q)
    BY <2>1, <2>2, <1>2, NotAside, LeftPaths, ZenonT(30)
  <2> QED BY <2>2, <2>3 DEF Arrives
<1> HIDE DEF R
<1>10. /\ d \in Frames /\ Same(f, d) /\ d.st = S /\ d.marked = S /\ d.runs = Ended(f) \cup R
       /\ d.own = f.own /\ d.returns = f.returns
  <2>1. Ended(f) \cup R \subseteq Paths
    BY Z3T(30), <1>2, <1>3, <1>6, <1>9
  <2>2. IsChecked(f, d, S, Ended(f) \cup R)
    BY <2>1, <1>2, <1>3, <1>6, <1>9, CheckedFrame, ZenonT(30)
  <2> QED BY Z3T(30), <2>2 DEF IsChecked
<1> HIDE DEF d
<1>11. value \in BOOLEAN
  BY ZenonT(30)
<1> HIDE DEF value
<1>12. /\ g \in Frames /\ Same(f, g) /\ g.st = S /\ g.marked = S /\ g.runs = Ended(f) \cup R
       /\ g.own = f.own /\ g.returns = f.returns
  BY ZenonT(30), <1>10, <1>11 DEF Frames, Same
<1> HIDE DEF g
<1>13. Statement(f, g, R)
  BY ZenonT(30), <1>6, <1>9, <1>12 DEF Statement
<1> QED BY ZenonT(30), <1>1, <1>2, <1>4, <1>13, StatementOK, ExitStep DEF f

-----------------------------------------------------------------------------
(* The theorems *)

LEMMA InitOK == Init => OwnershipInv
<1> SUFFICES ASSUME Init PROVE OwnershipInv
  BY Z3T(30)
<1> DEFINE s == [n \in callable.params |-> "Available"]
           R == {Begin(s)}
           tail == IF callable.rt = "none" THEN "no" ELSE "mark"
           f == [kind |-> "body", root |-> None, st |-> s, own |-> callable.params, marked |-> s,
                 returns |-> FALSE, stops |-> FALSE, value |-> FALSE, after |-> "any", tail |-> tail,
                 strict |-> TRUE, inLoop |-> FALSE, held |-> {}, done |-> <<>>,
                 entry |-> s, runs |-> R]
<1>1. callable \in Callables /\ stack = <<f>> /\ size = 0 /\ accepted = FALSE
  BY ZenonT(30) DEF Init
<1>2. callable.params \subseteq Names
  BY ZenonT(30), <1>1, LinearAssumption
<1>3. s \in Maps /\ DOMAIN s = callable.params
  <2>1. s \in [callable.params -> States]
    BY DEF States
  <2> QED BY Z3T(30), <2>1, <1>2, MapsIntro
<1>4. tail \in {"no", "value", "mark"} /\ "body" \in Kinds /\ <<>> \in Seq(Blocks)
  BY Z3T(30) DEF Kinds
<1> HIDE DEF s, tail
<1>5. /\ Begin(s) \in Paths /\ Begin(s).from = s /\ Begin(s).st = s /\ Begin(s).end = "on"
      /\ Begin(s).bad = FALSE /\ Begin(s).lost = {}
  BY Z3T(30), <1>3 DEF Begin, Paths, Ends
<1>6. PathOK(Begin(s), s, s, s)
  BY Z3T(30), <1>5 DEF PathOK, Jumps
<1>7. \A p \in R : p \in Paths /\ p.from = s /\ p.end = "on" /\ PathOK(p, s, s, s)
  BY Z3T(30), <1>5, <1>6
<1> HIDE DEF R
<1>8. /\ f \in Frames /\ f.kind = "body" /\ f.st = s /\ f.own = callable.params /\ f.marked = s
      /\ f.returns = FALSE /\ f.strict = TRUE /\ f.entry = s /\ f.runs = R
  <2>1. R \subseteq Paths /\ None \in Names \cup {None}
    BY Z3T(30), <1>7
  <2> QED BY ZenonT(30), <2>1, <1>2, <1>3, <1>4 DEF Frames
<1> HIDE DEF f
<1>9. Sound(f, s)
  BY Z3T(30), <1>7, <1>8, GrowsRefl DEF Sound
<1>10. FrameInv(f)
  BY Z3T(30), <1>3, <1>7, <1>8, <1>9 DEF FrameInv
<1>11. BodyInv(f)
  BY Z3T(30), <1>3, <1>7, <1>8 DEF BodyInv
<1>12. /\ stack \in Seq(Frames) /\ stack # <<>> /\ DOMAIN stack = {1} /\ stack[1] = f
  BY Z3T(30), <1>1, <1>8
<1>13. TypeOK
  BY ZenonT(30), <1>1, <1>12 DEF TypeOK
<1>14. HeldInv
  BY Z3T(30), <1>8, <1>12 DEF HeldInv
<1> QED BY Z3T(30), <1>1, <1>10, <1>11, <1>12, <1>13, <1>14 DEF OwnershipInv

LEMMA AcceptStep ==
  ASSUME OwnershipInv, Accept
  PROVE  OwnershipInv'
<1>1. /\ UNCHANGED <<callable, stack, size>> /\ accepted' = TRUE /\ Len(stack) = 1
      /\ LinearComplete(Top.own, Top.marked)
  BY Z3T(30) DEF Accept
<1>2. TypeOK'
  BY Z3T(30), <1>1 DEF OwnershipInv, TypeOK
<1>3. HeldInv' /\ Len(stack') = 1 /\ LinearComplete(Top.own, Top.marked)'
  BY Z3T(30), <1>1 DEF OwnershipInv, HeldInv, Top
<1> QED BY Z3T(30), <1>1, <1>2, <1>3 DEF OwnershipInv

LEMMA StutterStep ==
  ASSUME OwnershipInv, UNCHANGED vars
  PROVE  OwnershipInv'
<1>1. UNCHANGED <<callable, stack, size, accepted>>
  BY Z3T(30) DEF vars
<1>2. TypeOK' /\ HeldInv'
  BY <1>1 DEF OwnershipInv, TypeOK, HeldInv
<1> QED BY <1>1, <1>2 DEF OwnershipInv, Top

(* Every statement and every end of a block, of an if, a loop, a borrow, a   *)
(* match or the body keeps the invariant.                                    *)
LEMMA NextStep ==
  ASSUME OwnershipInv, [Next]_vars
  PROVE  OwnershipInv'
<1>1. callable.names \subseteq Names
  BY Z3T(30), LinearAssumption DEF OwnershipInv, TypeOK
<1>2. ASSUME NEW n \in callable.names, Create(n) PROVE OwnershipInv'
  BY Z3T(30), <1>1, <1>2, CreateStep
<1>3. ASSUME NEW n \in callable.names, NEW r \in callable.names, Move(r, n) PROVE OwnershipInv'
  BY Z3T(30), <1>1, <1>3, MoveStep
<1>4. ASSUME NEW r \in callable.names, Borrow(r) PROVE OwnershipInv'
  BY <1>4, BorrowStep
<1>5. ASSUME NEW r \in callable.names, NEW as \in {"Consumed", "Destroyed"}, Op(r, as) PROVE OwnershipInv'
  BY ZenonT(30), <1>5, OpStep
<1>6. ASSUME NEW r \in callable.names \cup {None}, Return(r) PROVE OwnershipInv'
  BY <1>6, ReturnStep
<1>7. ASSUME NEW kind \in Jumps, Jump(kind) PROVE OwnershipInv'
  BY <1>7, JumpStep
<1>8. ASSUME NEW last \in BOOLEAN, If(last) PROVE OwnershipInv'
  BY <1>8, IfStep
<1>9. ASSUME Else \/ EndIf \/ EndIfElse PROVE OwnershipInv'
  BY Z3T(30), <1>9, ElseStep, EndIfStep, EndIfElseStep
<1>10. ASSUME While \/ EndWhile PROVE OwnershipInv'
  BY Z3T(30), <1>10, WhileStep, EndWhileStep
<1>11. ASSUME EndBorrow \/ EndBlock PROVE OwnershipInv'
  <2>1. Len(stack) > 1 /\ Close(Below, Top) /\ Top.kind \in {"borrow", "block"}
    BY <1>11 DEF EndBorrow, EndBlock, In
  <2> QED BY Z3T(30), <2>1, CloseStep
<1>12. ASSUME Block \/ Match \/ NextArm \/ EndMatch PROVE OwnershipInv'
  BY Z3T(30), <1>12, BlockStep, MatchStep, NextArmStep, EndMatchStep
<1>13. ASSUME Accept PROVE OwnershipInv'
  BY <1>13, AcceptStep
<1>14. ASSUME UNCHANGED vars PROVE OwnershipInv'
  BY <1>14, StutterStep
<1> QED BY <1>2, <1>3, <1>4, <1>5, <1>6, <1>7, <1>8, <1>9, <1>10, <1>11, <1>12, <1>13, <1>14, ZenonT(30) DEF Next

(* The invariant holds while a body of any length and depth is checked.      *)
THEOREM OwnershipInvAlways == Spec => []OwnershipInv
<1>1. OwnershipInv /\ [Next]_vars => OwnershipInv'
  BY NextStep
<1> QED BY InitOK, <1>1, PTL DEF Spec

(* The checker's frames and the paths through them are well formed: every    *)
(* name in scope is in one of the states of LinearState.                     *)
THEOREM OwnershipTypes == Spec => []TypeOK
<1>1. OwnershipInv => TypeOK
  BY Z3T(30) DEF OwnershipInv
<1> QED BY OwnershipInvAlways, <1>1, PTL

(* No path through a body the checker follows uses what is gone or moves     *)
(* what is borrowed, unless it jumped out of a branch that also returns      *)
(* (set_linear_state, merge_branch_linear_states,                            *)
(* reject_loop_linear_state_changes, reject_active_borrow_root_lifecycle).   *)
THEOREM NoUseAfterMoveAlways == Spec => []NoUseAfterMove
<1>1. OwnershipInv => NoUseAfterMove
  <2> SUFFICES ASSUME OwnershipInv, NEW p \in stack[1].runs, p.bad PROVE p.strayed
    BY Z3T(30) DEF NoUseAfterMove
  <2>1. FrameInv(stack[1]) /\ BodyInv(stack[1])
    BY Z3T(30), StackType DEF OwnershipInv
  <2> QED BY ZenonT(30), <2>1 DEF FrameInv, BodyInv, Sound, PathOK
<1> QED BY OwnershipInvAlways, <1>1, PTL

(* Every other path that runs on is in the one state the checker has for     *)
(* that point, whatever branches, arms and rounds it took                    *)
(* (merge_branch_linear_states, merge_match_linear_states,                   *)
(* reject_loop_linear_state_changes).                                        *)
THEOREM StateIsPathIndependentAlways == Spec => []StateIsPathIndependent
<1>1. OwnershipInv => StateIsPathIndependent
  <2> SUFFICES ASSUME OwnershipInv, NEW p \in Going(stack[1]), ~p.strayed PROVE p.st = stack[1].st
    BY Z3T(30) DEF StateIsPathIndependent
  <2>1. FrameInv(stack[1]) /\ BodyInv(stack[1])
    BY ZenonT(30), StackType DEF OwnershipInv
  <2> QED BY ZenonT(30), <2>1 DEF FrameInv, BodyInv, Sound, PathOK, Going
<1> QED BY OwnershipInvAlways, <1>1, PTL

(* Of an accepted body no path loses a value at the end of a scope or at a   *)
(* return that ends the body (check_linear_complete, mark_stmt_as_returned). *)
THEOREM ScopesAreCompleteAlways == Spec => []ScopesAreComplete
<1>1. OwnershipInv => ScopesAreComplete
  <2> SUFFICES ASSUME OwnershipInv, accepted, NEW p \in stack[1].runs
               PROVE  "end" \notin p.lost /\ (p.end \in {"on", "tail"} => Live(p.st) = {})
    BY Z3T(30) DEF ScopesAreComplete
  <2> DEFINE f == stack[1]
  <2>1. FrameInv(f) /\ BodyInv(f) /\ LinearComplete(f.own, f.marked)
    BY StackType DEF OwnershipInv, Top
  <2> HIDE DEF f
  <2>2. p \in f.runs
    BY Z3T(30) DEF f
  <2>3. PathOK(p, f.entry, f.st, f.marked) /\ p.from = f.entry /\ DOMAIN f.st = f.own
    BY Z3T(30), <2>1, <2>2 DEF FrameInv, BodyInv, Sound
  <2>4. /\ "end" \notin p.lost
        /\ p.end \in {"on", "tail"} => DOMAIN p.st = f.own /\ Covers(f.marked, p.st)
    BY Z3T(30), <2>3, GrowsRefl DEF PathOK
  <2>5. DOMAIN f.marked = f.own
    BY Z3T(30), <2>1, <2>3 DEF FrameInv, Sound
  <2>6. p.end \in {"on", "tail"} => Live(p.st) = {}
    BY <2>1, <2>4, <2>5 DEF LinearComplete, Covers, Live
  <2> QED BY Z3T(30), <2>4, <2>6
<1> QED BY OwnershipInvAlways, <1>1, PTL

=============================================================================
