---------------------------- MODULE AlphaProofs -----------------------------
(***************************************************************************)
(* Theorems about AlphaEngine and SellTracker, for any wallets, tokens,    *)
(* thresholds, windows and bounds on failures.                             *)
(*                                                                         *)
(* AlphaEngine: the trees of the union-find are shown to partition the     *)
(* wallets as the pairs treated so far do; from there the ids are followed *)
(* through what a run still has to name, to write and to save.             *)
(*                                                                         *)
(* SellTracker: its invariants speak of rows and blocks; what makes them   *)
(* inductive is what the running scan carries in memory from one statement *)
(* to the next.                                                            *)
(***************************************************************************)
EXTENDS AlphaEngine, SellTracker, FiniteSetTheorems, WellFoundedInduction, NaturalsInduction, TLAPS

-----------------------------------------------------------------------------
(* Types: what each step of the evaluation has left to do. *)

Things == Wallets \cup (SUBSET Wallets) \cup (Ids \X Entity)

Run == [step : {"idle", "evaluate", "unite", "name", "aggregate"}, left : SUBSET Things,
        edges : SUBSET Pairs, parent : [Wallets -> Wallets], members : SUBSET Wallets,
        named : 0 .. Cardinality(Wallets), id : Ids \cup {None}, ok : BOOLEAN]

RunType ==
    /\ run \in Run
    /\ run.step = "unite" => run.left \subseteq run.edges
    /\ run.step = "name" =>
         /\ run.left \subseteq SUBSET Wallets
         /\ run.named + Cardinality(run.left) <= Cardinality(Wallets)
         /\ run.members # {} => run.id \in Ids
    /\ run.step = "aggregate" => run.left \subseteq Ids \X Entity

TypeInv ==
    /\ TypeOK /\ RunType
    /\ IsFiniteSet(trades) /\ Cardinality(trades) <= MaxTrades

-----------------------------------------------------------------------------
(* What is true of the evaluation between its statements. *)

\* Connected, for any set of pairs.
Linked(pairs, a, b) ==
    \A s \in SUBSET Wallets :
        (a \in s /\ \A e \in pairs : e \cap s # {} => e \subseteq s) => b \in s

\* Every walk of find ends.
Rooted(parent) == \A w \in Wallets : \E r \in Path(parent, w) : parent[r] = r

\* The trees partition the wallets as the pairs do.
TreesOf(parent, pairs) ==
    /\ Rooted(parent)
    /\ \A a, b \in Wallets : Root(parent, a) = Root(parent, b) <=> Linked(pairs, a, b)

\* The trees have joined what the pairs treated so far join.
UniteInv ==
    /\ run.step = "evaluate" => run.parent = [w \in Wallets |-> w]
    /\ run.step = "unite" => TreesOf(run.parent, run.edges \ run.left)

IdOf(w) == wallets[w].cluster
HasId(w) == IdOf(w) # None
Joined(w) == \E v \in Wallets \ {w} : Connected(w, v)

\* A cluster that is still to be named is a whole component, and nobody in it is alone.
IsComponent(c) ==
    /\ c \subseteq Wallets
    /\ \A w \in c : Joined(w) /\ \A v \in Wallets : v \in c <=> Connected(w, v)

\* Ids mean components, unless the statement that clears them failed.
IdsAreComponents ==
    ~mixed =>
      /\ \A a, b \in Wallets :
           HasId(a) /\ HasId(b) => (IdOf(a) = IdOf(b) <=> Connected(a, b))
      /\ \A a \in Wallets : HasId(a) => Joined(a)

\* What is still to be named, and to be written, of the components.
NameInv ==
    run.step = "name" =>
      /\ \A c \in run.left : IsComponent(c) /\ run.members \cap c = {}
      /\ \A m \in run.members : Joined(m) /\ \A n \in run.members : Connected(m, n)
      /\ run.members # {} => run.id[2] = run.named

\* The numbers given so far are the only ones, and who waits for its id has none.
FreshInv ==
    run.step = "name" /\ ~mixed =>
      /\ \A w \in Wallets : HasId(w) => IdOf(w)[2] <= run.named
      /\ \A m \in run.members :
           /\ ~HasId(m)
           /\ \A w \in Wallets : HasId(w) => (IdOf(w) = run.id <=> Connected(w, m))
      /\ \A c \in run.left : \A w \in c : ~HasId(w)

\* As long as no statement failed, whoever is joined to another has its id or waits for it.
Waits(w) == run.step = "name" /\ (w \in run.members \/ \E c \in run.left : w \in c)
JoinedAreNamed ==
    run.step \in {"name", "aggregate"} /\ run.ok =>
      ~mixed /\ \A w \in Wallets : Joined(w) => HasId(w) \/ Waits(w)

Saved(id) == id \in DOMAIN entities /\ entities[id] = Aggregated(id)

AggregateInv ==
    run.step = "aggregate" =>
      /\ \A r \in run.left : r[2] = Aggregated(r[1])
      /\ run.ok => \A id \in Ids : Members(id) # {} => <<id, Aggregated(id)>> \in run.left \/ Saved(id)

FinishInv ==
    finished =>
      /\ run.step = "idle" /\ ~mixed
      /\ \A w \in Wallets : Joined(w) => HasId(w)
      /\ \A id \in Ids : Members(id) # {} => Saved(id)

IdsInv ==
    /\ IdsAreComponents /\ NameInv /\ FreshInv /\ JoinedAreNamed
    /\ AggregateInv /\ FinishInv

AlphaInv == TypeInv /\ UniteInv /\ IdsInv

-----------------------------------------------------------------------------
(* The trees of the union-find. *)

\* The walk from w stays in every set that holds w and the parents of its members.
LEMMA PathWithin ==
    ASSUME NEW parent, NEW w, NEW s \in SUBSET Wallets,
           w \in s, \A u \in s : parent[u] \in s
    PROVE  Path(parent, w) \subseteq s
  BY DEF Path

LEMMA PathStarts ==
    ASSUME NEW parent \in [Wallets -> Wallets], NEW w \in Wallets
    PROVE  /\ w \in Path(parent, w)
           /\ Path(parent, w) \subseteq Wallets
           /\ \A v \in Path(parent, w) : parent[v] \in Path(parent, w)
  BY DEF Path

\* The walk is w, and then the walk from its parent.
LEMMA PathSteps ==
    ASSUME NEW parent \in [Wallets -> Wallets], NEW w \in Wallets
    PROVE  /\ Path(parent, parent[w]) \subseteq Path(parent, w)
           /\ Path(parent, w) \subseteq {w} \cup Path(parent, parent[w])
<1>1. parent[w] \in Wallets
  OBVIOUS
<1>2. Path(parent, parent[w]) \subseteq Path(parent, w)
  BY <1>1, PathStarts, PathWithin
<1>3. Path(parent, w) \subseteq {w} \cup Path(parent, parent[w])
  <2> DEFINE s == {w} \cup Path(parent, parent[w])
  <2>1. s \in SUBSET Wallets /\ w \in s /\ \A u \in s : parent[u] \in s
    BY <1>1, PathStarts
  <2> HIDE DEF s
  <2>2. Path(parent, w) \subseteq s
    BY <2>1, PathWithin
  <2> QED
    BY <2>2 DEF s
<1> QED
  BY <1>2, <1>3

LEMMA PathOfRoot ==
    ASSUME NEW parent \in [Wallets -> Wallets], NEW r \in Wallets, parent[r] = r
    PROVE  Path(parent, r) = {r}
<1> DEFINE s == {r}
<1>1. s \in SUBSET Wallets /\ r \in s /\ \A u \in s : parent[u] \in s
  OBVIOUS
<1> HIDE DEF s
<1>2. Path(parent, r) \subseteq s
  BY <1>1, PathWithin
<1> QED
  BY <1>2, PathStarts DEF s

\* A walk meets at most one root, and everything it meets leads there.
LEMMA OneRoot ==
    ASSUME NEW parent \in [Wallets -> Wallets], NEW w \in Wallets,
           NEW r \in Path(parent, w), parent[r] = r
    PROVE  /\ \A v \in Path(parent, w) : r \in Path(parent, v)
           /\ \A q \in Path(parent, w) : parent[q] = q => q = r
<1> DEFINE s == {v \in Wallets : r \in Path(parent, v)}
<1>1. \A v \in s : parent[v] \in s
  <2>1. ASSUME NEW v \in s PROVE parent[v] \in s
    <3>1. r = v \/ r \in Path(parent, parent[v])
      BY PathSteps
    <3>2. r \in Wallets /\ parent[v] \in Wallets
      BY PathStarts
    <3> QED
      BY <3>1, <3>2
  <2> QED
    BY <2>1
<1>2. Path(parent, w) \subseteq s
  BY <1>1, PathWithin
<1>3. ASSUME NEW q \in Path(parent, w), parent[q] = q PROVE q = r
  <2>1. q \in Wallets /\ r \in Path(parent, q)
    BY <1>2
  <2> QED
    BY <1>3, <2>1, PathOfRoot
<1> QED
  BY <1>2, <1>3

\* What find returns, when its walk ends.
LEMMA RootIs ==
    ASSUME NEW parent \in [Wallets -> Wallets], Rooted(parent), NEW w \in Wallets
    PROVE  /\ Root(parent, w) \in Path(parent, w)
           /\ Root(parent, w) \in Wallets
           /\ parent[Root(parent, w)] = Root(parent, w)
<1>1. \E r \in Path(parent, w) : parent[r] = r
  BY DEF Rooted
<1> QED
  BY <1>1, PathStarts DEF Root

LEMMA RootUnique ==
    ASSUME NEW parent \in [Wallets -> Wallets], NEW w \in Wallets,
           NEW r \in Path(parent, w), parent[r] = r
    PROVE  Root(parent, w) = r
<1>1. Root(parent, w) \in Path(parent, w) /\ parent[Root(parent, w)] = Root(parent, w)
  BY DEF Root
<1> QED
  BY <1>1, OneRoot

LEMMA RootOfParent ==
    ASSUME NEW parent \in [Wallets -> Wallets], Rooted(parent), NEW w \in Wallets
    PROVE  Root(parent, parent[w]) = Root(parent, w)
<1>1. Root(parent, parent[w]) \in Path(parent, w)
  BY RootIs, PathSteps
<1> QED
  BY <1>1, RootIs, RootUnique

LEMMA RootOfRoot ==
    ASSUME NEW parent \in [Wallets -> Wallets], NEW r \in Wallets, parent[r] = r
    PROVE  Root(parent, r) = r
  BY PathStarts, RootUnique

\* Induction from the roots outwards: what holds of the roots, and of whoever has a
\* parent of which it holds, holds of all.
LEMMA FromRoots ==
    ASSUME NEW parent \in [Wallets -> Wallets], Rooted(parent), NEW t \in SUBSET Wallets,
           \A r \in Wallets : parent[r] = r => r \in t,
           \A w \in Wallets : parent[w] \in t => w \in t
    PROVE  t = Wallets
<1>1. ASSUME NEW w \in Wallets, w \notin t PROVE FALSE
  <2> DEFINE s == Wallets \ t
  <2>1. w \in s /\ \A u \in s : parent[u] \in s
    BY <1>1
  <2>2. Path(parent, w) \subseteq s
    BY <2>1, PathWithin
  <2> QED
    BY <2>2, RootIs
<1> QED
  BY <1>1

\* Hanging wallets below their root, as path compression does, changes no root.
LEMMA Compressed ==
    ASSUME NEW parent \in [Wallets -> Wallets], Rooted(parent),
           NEW q \in [Wallets -> Wallets],
           \A v \in Wallets : q[v] \in {parent[v], Root(parent, v)}
    PROVE  Rooted(q) /\ \A v \in Wallets : Root(q, v) = Root(parent, v)
<1> DEFINE t == {v \in Wallets : Root(parent, v) \in Path(q, v)}
<1>1. ASSUME NEW r \in Wallets, parent[r] = r PROVE q[r] = r /\ r \in t
  BY <1>1, RootOfRoot, PathStarts
<1>2. \A v \in Wallets : q[Root(parent, v)] = Root(parent, v)
  BY <1>1, RootIs
<1>3. ASSUME NEW v \in Wallets, parent[v] \in t PROVE v \in t
  <2>1. CASE q[v] = parent[v]
    <3>1. Root(parent, parent[v]) \in Path(q, q[v])
      BY <1>3, <2>1
    <3> QED
      BY <3>1, RootOfParent, PathSteps
  <2>2. CASE q[v] = Root(parent, v)
    BY <2>2, PathStarts
  <2> QED
    BY <2>1, <2>2
<1>4. t = Wallets
  <2>1. t \in SUBSET Wallets
    OBVIOUS
  <2> HIDE DEF t
  <2>2. \A r \in Wallets : parent[r] = r => r \in t
    BY <1>1
  <2>3. \A w \in Wallets : parent[w] \in t => w \in t
    BY <1>3
  <2> QED
    BY ONLY <2>1, <2>2, <2>3, FromRoots, parent \in [Wallets -> Wallets], Rooted(parent)
<1>5. \A v \in Wallets : Root(parent, v) \in Path(q, v)
  BY <1>4
<1> QED
  BY <1>2, <1>5, RootUnique DEF Rooted

LEMMA FoundKeepsRoots ==
    ASSUME NEW parent \in [Wallets -> Wallets], Rooted(parent), NEW w \in Wallets
    PROVE  /\ Found(parent, w) \in [Wallets -> Wallets]
           /\ Rooted(Found(parent, w))
           /\ \A v \in Wallets : Root(Found(parent, w), v) = Root(parent, v)
<1> DEFINE q == Found(parent, w)
<1>1. q = [v \in Wallets |-> IF v \in Path(parent, w) THEN Root(parent, w) ELSE parent[v]]
  BY DEF Found
<1>2. q \in [Wallets -> Wallets]
  BY <1>1, RootIs
<1>3. ASSUME NEW v \in Path(parent, w) PROVE Root(parent, v) = Root(parent, w)
  BY PathStarts, RootIs, OneRoot, RootUnique
<1>4. \A v \in Wallets : q[v] \in {parent[v], Root(parent, v)}
  BY <1>1, <1>3
<1> HIDE DEF q
<1> QED
  BY <1>2, <1>4, Compressed DEF q

\* Linking one root to another moves the wallets below it there.
LEMMA Linking ==
    ASSUME NEW parent \in [Wallets -> Wallets], Rooted(parent),
           NEW a \in Wallets, NEW b \in Wallets, parent[a] = a, parent[b] = b,
           NEW q \in [Wallets -> Wallets], q[a] = b, \A v \in Wallets \ {a} : q[v] = parent[v]
    PROVE  /\ Rooted(q)
           /\ \A v \in Wallets :
                Root(q, v) = IF Root(parent, v) = a THEN b ELSE Root(parent, v)
<1> DEFINE to(v) == IF Root(parent, v) = a THEN b ELSE Root(parent, v)
           t == {v \in Wallets : to(v) \in Path(q, v)}
<1>1. q[b] = b
  OBVIOUS
<1>2. ASSUME NEW v \in Wallets PROVE to(v) \in Wallets /\ q[to(v)] = to(v)
  BY <1>1, RootIs
<1>3. ASSUME NEW r \in Wallets, parent[r] = r PROVE r \in t
  <2>1. Root(parent, r) = r
    BY <1>3, RootOfRoot
  <2>2. CASE r = a
    <3>1. b \in Path(q, a)
      BY PathStarts
    <3> QED
      BY <2>1, <2>2, <3>1
  <2>3. CASE r # a
    <3>1. to(r) = r /\ r \in Path(q, r)
      BY <2>1, <2>3, PathStarts
    <3> QED
      BY <3>1
  <2> QED
    BY <2>2, <2>3
<1>4. ASSUME NEW v \in Wallets, parent[v] \in t PROVE v \in t
  <2>1. CASE v = a
    BY <1>3, <2>1
  <2>2. CASE v # a
    <3>1. q[v] = parent[v] /\ to(parent[v]) = to(v)
      BY <2>2, RootOfParent
    <3>2. to(v) \in Path(q, q[v])
      BY <1>4, <3>1
    <3> QED
      BY <3>2, PathSteps
  <2> QED
    BY <2>1, <2>2
<1>5. t = Wallets
  <2>1. t \in SUBSET Wallets
    OBVIOUS
  <2> HIDE DEF t
  <2>2. \A r \in Wallets : parent[r] = r => r \in t
    BY <1>3
  <2>3. \A v \in Wallets : parent[v] \in t => v \in t
    BY <1>4
  <2> QED
    BY ONLY <2>1, <2>2, <2>3, FromRoots, parent \in [Wallets -> Wallets], Rooted(parent)
<1>6. \A v \in Wallets : to(v) \in Path(q, v)
  BY <1>5
<1> HIDE DEF to
<1>7. \A v \in Wallets : Root(q, v) = to(v)
  BY <1>2, <1>6, RootUnique
<1>8. Rooted(q)
  BY <1>2, <1>6 DEF Rooted
<1> QED
  BY <1>7, <1>8 DEF to

\* union: what had the root of i has the root of j.
LEMMA UnionRoots ==
    ASSUME NEW parent \in [Wallets -> Wallets], Rooted(parent),
           NEW i \in Wallets, NEW j \in Wallets
    PROVE  LET q == Union(parent, i, j)
               a == Root(parent, i)
               b == Root(parent, j)
           IN  /\ q \in [Wallets -> Wallets] /\ Rooted(q)
               /\ \A v \in Wallets :
                    Root(q, v) = IF Root(parent, v) = a THEN b ELSE Root(parent, v)
<1> DEFINE p == Found(Found(parent, i), j)
<1>1. /\ p \in [Wallets -> Wallets] /\ Rooted(p)
      /\ \A v \in Wallets : Root(p, v) = Root(parent, v)
  <2>1. /\ Found(parent, i) \in [Wallets -> Wallets] /\ Rooted(Found(parent, i))
        /\ \A v \in Wallets : Root(Found(parent, i), v) = Root(parent, v)
    BY FoundKeepsRoots
  <2> QED
    BY <2>1, FoundKeepsRoots
<1> HIDE DEF p
<1>2. /\ Root(p, i) \in Wallets /\ p[Root(p, i)] = Root(p, i)
      /\ Root(p, j) \in Wallets /\ p[Root(p, j)] = Root(p, j)
  BY <1>1, RootIs
<1>3. Union(parent, i, j) = [p EXCEPT ![Root(p, i)] = Root(p, j)]
  BY DEF Union, p
<1>4. PICK q : q = Union(parent, i, j)
  OBVIOUS
<1>5. /\ q \in [Wallets -> Wallets] /\ Rooted(q)
      /\ \A v \in Wallets :
           Root(q, v) = IF Root(p, v) = Root(p, i) THEN Root(p, j) ELSE Root(p, v)
  <2> DEFINE a == Root(p, i)
             b == Root(p, j)
  <2>1. /\ a \in Wallets /\ b \in Wallets /\ p[a] = a /\ p[b] = b
        /\ q \in [Wallets -> Wallets] /\ q[a] = b /\ \A v \in Wallets \ {a} : q[v] = p[v]
    BY <1>1, <1>2, <1>3, <1>4
  <2> HIDE DEF a, b
  <2>2. /\ q \in [Wallets -> Wallets] /\ Rooted(q)
        /\ \A v \in Wallets : Root(q, v) = IF Root(p, v) = a THEN b ELSE Root(p, v)
    BY ONLY <1>1, <2>1, Linking
  <2> QED
    BY <2>2 DEF a, b
<1> QED
  BY <1>1, <1>4, <1>5

-----------------------------------------------------------------------------
(* What the pairs link. *)

LEMMA TwoElements == ASSUME NEW a, NEW b, a # b PROVE Cardinality({a, b}) = 2
<1>1. {a, b} = {a} \cup {b} /\ b \notin {a}
  OBVIOUS
<1>2. IsFiniteSet({a}) /\ Cardinality({a}) = 1
  BY FS_Singleton
<1> QED
  BY <1>1, <1>2, FS_AddElement

LEMMA PairElements ==
    ASSUME NEW e \in Pairs, NEW i \in e, NEW j \in e, i # j
    PROVE  e = {i, j} /\ i \in Wallets /\ j \in Wallets
<1>1. e \subseteq Wallets /\ Cardinality(e) = 2
  BY DEF Pairs
<1>2. IsFiniteSet(e)
  BY <1>1, TablesAssumption, FS_Subset
<1>3. Cardinality({i, j}) = 2
  BY TwoElements
<1> QED
  BY <1>1, <1>2, <1>3, FS_Subset

LEMMA LinkedSame == ASSUME NEW pairs, NEW a PROVE Linked(pairs, a, a)
  BY DEF Linked

LEMMA LinkedBack ==
    ASSUME NEW pairs \in SUBSET Pairs, NEW a \in Wallets, NEW b \in Wallets, Linked(pairs, a, b)
    PROVE  Linked(pairs, b, a)
<1> SUFFICES ASSUME NEW s \in SUBSET Wallets, b \in s,
                    \A e \in pairs : e \cap s # {} => e \subseteq s,
                    a \notin s
             PROVE  FALSE
  BY DEF Linked
<1> DEFINE rest == Wallets \ s
<1>1. a \in rest /\ rest \in SUBSET Wallets
  OBVIOUS
<1>2. \A e \in pairs : e \cap rest # {} => e \subseteq rest
  BY DEF Pairs
<1>3. b \in rest
  <2> HIDE DEF rest
  <2> QED
    BY <1>1, <1>2 DEF Linked
<1> QED
  BY <1>3

LEMMA LinkedOn ==
    ASSUME NEW pairs, NEW a, NEW b, NEW c, Linked(pairs, a, b), Linked(pairs, b, c)
    PROVE  Linked(pairs, a, c)
  BY DEF Linked

LEMMA LinkedMore ==
    ASSUME NEW pairs, NEW more, pairs \subseteq more, NEW a, NEW b, Linked(pairs, a, b)
    PROVE  Linked(more, a, b)
<1> SUFFICES ASSUME NEW s \in SUBSET Wallets, a \in s,
                    \A e \in more : e \cap s # {} => e \subseteq s
             PROVE  b \in s
  BY DEF Linked
<1> QED
  BY DEF Linked

LEMMA LinkedByPair ==
    ASSUME NEW pairs, NEW e \in pairs, NEW i \in e, NEW j \in e
    PROVE  Linked(pairs, i, j)
  BY DEF Linked

LEMMA LinkedByNone ==
    ASSUME NEW a \in Wallets, NEW b \in Wallets
    PROVE  Linked({}, a, b) <=> a = b
<1>1. ASSUME Linked({}, a, b) PROVE a = b
  <2>1. {a} \in SUBSET Wallets /\ a \in {a} /\ \A e \in {} : e \cap {a} # {} => e \subseteq {a}
    OBVIOUS
  <2>2. b \in {a}
    BY <1>1, <2>1 DEF Linked
  <2> QED
    BY <2>2
<1> QED
  BY <1>1, LinkedSame

\* No pair is treated: everybody is a root.
LEMMA NoTrees ==
    TreesOf([w \in Wallets |-> w], {})
<1> DEFINE parent == [w \in Wallets |-> w]
<1>1. parent \in [Wallets -> Wallets] /\ \A w \in Wallets : parent[w] = w
  OBVIOUS
<1> HIDE DEF parent
<1>2. Rooted(parent)
  BY <1>1, PathStarts DEF Rooted
<1>3. \A w \in Wallets : Root(parent, w) = w
  BY <1>1, RootOfRoot
<1>4. TreesOf(parent, {})
  BY <1>2, <1>3, LinkedByNone DEF TreesOf
<1> QED
  BY <1>4 DEF parent

\* One more pair is united.
LEMMA UnionTrees ==
    ASSUME NEW parent \in [Wallets -> Wallets], NEW pairs \in SUBSET Pairs, TreesOf(parent, pairs),
           NEW e \in Pairs, NEW i \in e, NEW j \in e, i # j
    PROVE  /\ Union(parent, i, j) \in [Wallets -> Wallets]
           /\ TreesOf(Union(parent, i, j), pairs \cup {e})
<1> DEFINE q == Union(parent, i, j)
           ri == Root(parent, i)
           rj == Root(parent, j)
           more == pairs \cup {e}
<1>1. e = {i, j} /\ i \in Wallets /\ j \in Wallets
  BY PairElements
<1>2. Rooted(parent) /\ \A a, b \in Wallets : Root(parent, a) = Root(parent, b) <=> Linked(pairs, a, b)
  BY DEF TreesOf
<1>3. /\ q \in [Wallets -> Wallets] /\ Rooted(q)
      /\ \A v \in Wallets : Root(q, v) = IF Root(parent, v) = ri THEN rj ELSE Root(parent, v)
  BY <1>1, <1>2, UnionRoots
<1>4. \A v \in Wallets : Root(parent, v) \in Wallets /\ Root(parent, Root(parent, v)) = Root(parent, v)
  BY <1>2, RootIs, RootOfRoot
<1>5. pairs \subseteq more /\ e \in more /\ more \in SUBSET Pairs
  OBVIOUS
<1> HIDE DEF q, ri, rj, more
<1>6. ri \in Wallets /\ rj \in Wallets /\ ri = Root(parent, i) /\ rj = Root(parent, j)
  BY <1>1, <1>4 DEF ri, rj
<1>7. ASSUME NEW a \in Wallets, NEW b \in Wallets, Root(parent, a) = Root(parent, b)
      PROVE  Linked(more, a, b)
  <2>1. Linked(pairs, a, b)
    BY <1>2, <1>7
  <2> QED
    BY <1>5, <2>1, LinkedMore
<1>8. Linked(more, i, j)
  BY <1>5, LinkedByPair
<1>9. ASSUME NEW v \in Wallets PROVE Root(q, v) \in Wallets /\ Linked(more, v, Root(q, v))
  <2>1. CASE Root(parent, v) = ri
    <3>1. Linked(more, v, i)
      BY <1>1, <1>6, <1>7, <2>1
    <3>2. Linked(more, j, rj)
      BY <1>1, <1>4, <1>6, <1>7
    <3>3. Linked(more, v, rj)
      BY <1>8, <3>1, <3>2, LinkedOn
    <3> QED
      BY <1>3, <1>6, <2>1, <3>3
  <2>2. CASE Root(parent, v) # ri
    <3>1. Root(q, v) = Root(parent, v)
      BY <1>3, <2>2
    <3> QED
      BY <1>4, <1>7, <3>1
  <2> QED
    BY <2>1, <2>2
<1>10. ASSUME NEW a \in Wallets, NEW b \in Wallets, Root(q, a) = Root(q, b)
       PROVE  Linked(more, a, b)
  <2>1. Linked(more, b, Root(q, b)) /\ Root(q, b) \in Wallets
    BY <1>9
  <2>2. Linked(more, Root(q, b), b)
    BY <1>5, <2>1, LinkedBack
  <2>3. Linked(more, a, Root(q, b))
    BY <1>9, <1>10
  <2> QED
    BY <2>2, <2>3, LinkedOn
<1>11. ASSUME NEW a \in Wallets, NEW b \in Wallets, Linked(more, a, b)
       PROVE  Root(q, a) = Root(q, b)
  <2> DEFINE s == {v \in Wallets : Root(q, v) = Root(q, a)}
  <2>1. s \in SUBSET Wallets /\ a \in s
    OBVIOUS
  <2>2. ASSUME NEW d \in more, NEW u \in d, NEW v \in d PROVE Root(q, u) = Root(q, v)
    <3>1. u \in Wallets /\ v \in Wallets
      BY <1>5 DEF Pairs
    <3>2. CASE d \in pairs
      <4>1. Linked(pairs, u, v)
        BY <3>2, LinkedByPair
      <4>2. Root(parent, u) = Root(parent, v)
        BY <1>2, <3>1, <4>1
      <4> QED
        BY <1>3, <3>1, <4>2
    <3>3. CASE d = e
      <4>1. Root(q, i) = rj /\ Root(q, j) = rj
        BY <1>1, <1>3, <1>6
      <4> QED
        BY <1>1, <3>3, <4>1
    <3> QED
      BY <3>2, <3>3 DEF more
  <2>3. \A d \in more : d \subseteq Wallets
    BY <1>5 DEF Pairs
  <2>4. \A d \in more : d \cap s # {} => d \subseteq s
    BY <2>2, <2>3
  <2> HIDE DEF s
  <2>5. b \in s
    BY <1>11, <2>1, <2>4 DEF Linked
  <2> QED
    BY <2>5 DEF s
<1>12. TreesOf(q, more)
  BY <1>3, <1>10, <1>11 DEF TreesOf
<1> QED
  BY <1>3, <1>12 DEF q, more

-----------------------------------------------------------------------------
(* The types. *)

LEMMA AlphaBounds ==
    /\ Cardinality(Wallets) \in Nat /\ MaxClock \in Nat /\ MaxFailures \in Nat /\ MaxTrades \in Nat
    /\ \A c \in SUBSET Wallets : IsFiniteSet(c) /\ Cardinality(c) \in Nat
    /\ None \notin Ids
    /\ \A n \in 0 .. MaxClock : n \div Day \in 0 .. MaxClock
<1>1. /\ Cardinality(Wallets) \in Nat /\ MaxClock \in Nat /\ MaxFailures \in Nat /\ MaxTrades \in Nat
      /\ Day \in Nat \ {0}
  BY TablesAssumption, AlphaAssumption, FS_CardinalityType
<1>2. \A c \in SUBSET Wallets : IsFiniteSet(c) /\ Cardinality(c) \in Nat
  BY TablesAssumption, FS_Subset, FS_CardinalityType
<1>3. None \notin Ids
  BY AlphaAssumption
<1>4. \A n \in 0 .. MaxClock : n \div Day \in 0 .. MaxClock
  BY <1>1
<1> QED
  BY <1>1, <1>2, <1>3, <1>4

LEMMA ClustersAreFew ==
    ASSUME NEW parent
    PROVE  /\ Clusters(parent) \subseteq SUBSET Wallets
           /\ IsFiniteSet(Clusters(parent))
           /\ Cardinality(Clusters(parent)) <= Cardinality(Wallets)
<1> DEFINE of == [r \in Wallets |-> {w \in Wallets : Root(parent, w) = r}]
           all == {of[r] : r \in Wallets}
<1>1. of \in Surjection(Wallets, all)
  BY DEF Surjection
<1> HIDE DEF of, all
<1>2. IsFiniteSet(all) /\ Cardinality(all) <= Cardinality(Wallets)
  BY <1>1, FS_Surjection, TablesAssumption
<1>3. Clusters(parent) \in SUBSET all /\ Clusters(parent) \subseteq SUBSET Wallets
  BY DEF Clusters, all, of
<1> QED
  BY <1>2, <1>3, FS_Subset, FS_CardinalityType, TablesAssumption

LEMMA AggregatedType ==
    ASSUME TypeOK, NEW id PROVE Aggregated(id) \in Entity
<1>1. Members(id) \subseteq Wallets
  BY DEF Members
<1>2. IsFiniteSet(Members(id)) /\ Cardinality(Members(id)) \in Nat
  BY <1>1, AlphaBounds
<1>3. TradesOfAll(Members(id)) \subseteq Wallets \X (1 .. MaxTrades)
  <2>1. \A w \in Wallets : wallets[w].trades \in 0 .. MaxTrades
    BY DEF TypeOK, Wallet
  <2>2. \A w \in Wallets : 1 .. wallets[w].trades \subseteq 1 .. MaxTrades
    BY <2>1, AlphaBounds
  <2> QED
    BY <1>1, <2>2 DEF TradesOfAll
<1>4. IsFiniteSet(Wallets \X (1 .. MaxTrades))
  <2>1. IsFiniteSet(1 .. MaxTrades)
    BY AlphaBounds, FS_Interval
  <2> QED
    BY <2>1, FS_Product, TablesAssumption
<1>5. Cardinality(TradesOfAll(Members(id))) \in Nat
  BY <1>3, <1>4, FS_Subset, FS_CardinalityType
<1> QED
  BY <1>2, <1>5 DEF Aggregated, Entity

LEMMA IdleRunType ==
    /\ IdleRun \in Run
    /\ IdleRun.step = "idle" /\ IdleRun.left = {} /\ IdleRun.members = {} /\ IdleRun.named = 0
  BY AlphaBounds DEF IdleRun, Run

LEMMA InitTypes == Init => TypeInv
<1> SUFFICES ASSUME Init PROVE TypeInv
  OBVIOUS
<1>1. run \in Run /\ run.step = "idle"
  BY IdleRunType DEF Init
<1>2. RunType
  BY <1>1 DEF RunType
<1>3. IsFiniteSet(trades) /\ Cardinality(trades) <= MaxTrades
  BY AlphaBounds, FS_EmptySet DEF Init
<1>4. wallets \in [Wallets -> Wallet]
  BY AlphaBounds DEF Init, Wallet
<1>5. DOMAIN entities \subseteq Ids /\ \A id \in DOMAIN entities : entities[id] \in Entity
  BY DEF Init
<1>6. TypeOK
  <2>1. /\ run.step \in {"idle", "evaluate", "unite", "name", "aggregate"}
        /\ run.edges \subseteq Pairs /\ run.parent \in [Wallets -> Wallets]
        /\ run.members \subseteq Wallets /\ run.named \in 0 .. Cardinality(Wallets)
        /\ run.id \in Ids \cup {None} /\ run.ok \in BOOLEAN
    BY <1>1 DEF Run
  <2>2. clock \in 0 .. MaxClock /\ failures \in 0 .. MaxFailures
    BY AlphaBounds DEF Init
  <2>3. trades \subseteq Trade /\ graph \subseteq Pairs /\ {mixed, finished} \subseteq BOOLEAN
    BY DEF Init
  <2> QED
    BY <1>4, <1>5, <2>1, <2>2, <2>3 DEF TypeOK
<1> QED
  BY <1>2, <1>3, <1>6 DEF TypeInv

\* A step of the evaluation that changes only its run.
LEMMA RunStepTypes ==
    ASSUME TypeInv, RunType', UNCHANGED <<clock, tables, failures, graph, mixed>>,
           finished' \in BOOLEAN
    PROVE  TypeInv'
  BY DEF TypeInv, TypeOK, RunType, Run, tables

LEMMA StatementTypes ==
    ASSUME TypeInv, NEW ok \in BOOLEAN, Statement(ok)
    PROVE  failures' \in 0 .. MaxFailures
  BY AlphaBounds DEF TypeInv, TypeOK, Statement

LEMMA BeginTypes == TypeInv /\ Begin => TypeInv'
<1> SUFFICES ASSUME TypeInv, Begin PROVE TypeInv'
  OBVIOUS
<1>1. run' \in Run /\ run'.step = "evaluate"
  BY IdleRunType DEF Begin, Run, Things
<1>2. RunType'
  BY <1>1 DEF RunType
<1> QED
  BY <1>2, RunStepTypes DEF Begin

LEMMA EvaluateTypes == ASSUME NEW w \in Wallets PROVE TypeInv /\ Evaluate(w) => TypeInv'
<1> SUFFICES ASSUME TypeInv, NEW ok \in BOOLEAN, Statement(ok), run.step = "evaluate",
                    run' = [run EXCEPT !.left = @ \ {w}, !.ok = @ /\ ok],
                    wallets' = IF ~ok THEN wallets ELSE
                      [wallets EXCEPT ![w].trades = Cardinality(TradesOf(w)),
                         ![w].mev = @ \/ (Busy(TradesOf(w)) /\ Busy(Since(TradesOf(w), Day)))],
                    UNCHANGED <<clock, trades, entities, history>>
             PROVE  TypeInv'
  BY DEF Evaluate
<1>1. run' \in Run /\ run'.step = "evaluate"
  BY DEF TypeInv, RunType, Run
<1>2. Cardinality(TradesOf(w)) \in 0 .. MaxTrades
  BY AlphaBounds, FS_Subset, FS_CardinalityType DEF TypeInv, TradesOf
<1>3. wallets' \in [Wallets -> Wallet]
  BY <1>2, ZenonT(20) DEF TypeInv, TypeOK, Wallet
<1>4. TypeOK'
  BY <1>1, <1>3, StatementTypes DEF TypeInv, TypeOK, Run, history
<1> QED
  BY <1>1, <1>4 DEF TypeInv, RunType

LEMMA WeighTypes == TypeInv /\ Weigh => TypeInv'
<1> SUFFICES ASSUME TypeInv, Weigh PROVE TypeInv'
  OBVIOUS
<1>1. PICK edges \in SUBSET Pairs :
        run' = [run EXCEPT !.step = "unite", !.left = edges, !.edges = edges]
  BY DEF Weigh
<1>2. run' \in Run /\ run'.step = "unite" /\ run'.left = run'.edges
  <2>1. edges \subseteq Things
    BY DEF Pairs, Things
  <2> QED
    BY <1>1, <2>1 DEF TypeInv, RunType, Run
<1>3. RunType'
  BY <1>2 DEF RunType
<1> QED
  BY <1>3, RunStepTypes DEF Weigh, history, TypeInv, TypeOK

LEMMA UniteTypes == ASSUME NEW e \in Pairs PROVE TypeInv /\ UniteInv /\ Unite(e) => TypeInv'
<1> SUFFICES ASSUME TypeInv, UniteInv, Unite(e) PROVE TypeInv'
  OBVIOUS
<1>1. PICK i \in e, j \in e :
        i # j /\ run' = [run EXCEPT !.left = @ \ {e}, !.parent = Union(@, i, j)]
  BY DEF Unite
<1>2. run \in Run /\ run.step = "unite" /\ run.left \subseteq run.edges
  BY DEF TypeInv, RunType, Unite
<1>3. Union(run.parent, i, j) \in [Wallets -> Wallets]
  <2>1. run.parent \in [Wallets -> Wallets] /\ run.edges \ run.left \in SUBSET Pairs
    BY <1>2 DEF Run
  <2>2. TreesOf(run.parent, run.edges \ run.left)
    BY <1>2 DEF UniteInv
  <2> QED
    BY <1>1, <2>1, <2>2, UnionTrees
<1>4. run' \in Run /\ run'.step = "unite" /\ run'.left \subseteq run'.edges
  BY <1>1, <1>2, <1>3 DEF Run
<1>5. RunType'
  BY <1>4 DEF RunType
<1> QED
  BY <1>5, RunStepTypes DEF Unite, history, TypeInv, TypeOK

LEMMA ClearTypes == TypeInv /\ Clear => TypeInv'
<1> SUFFICES ASSUME TypeInv, NEW ok \in BOOLEAN, Statement(ok), run.step = "unite",
                    run' = [IdleRun EXCEPT !.step = "name", !.left = Clusters(run.parent),
                                           !.ok = run.ok /\ ok],
                    wallets' = IF ok THEN [w \in Wallets |-> [wallets[w] EXCEPT !.cluster = None]]
                                     ELSE wallets,
                    mixed' = ~ok, graph' = run.edges,
                    UNCHANGED <<clock, trades, entities, finished>>
             PROVE  TypeInv'
  BY DEF Clear
<1>1. /\ run' \in Run /\ run'.step = "name" /\ run'.left = Clusters(run.parent)
      /\ run'.named = 0 /\ run'.members = {}
  <2>1. Clusters(run.parent) \subseteq Things
    BY ClustersAreFew DEF Things
  <2> QED
    BY <2>1, IdleRunType DEF Run
<1>2. RunType'
  <2>1. 0 + Cardinality(Clusters(run.parent)) <= Cardinality(Wallets)
    BY ClustersAreFew, FS_CardinalityType, AlphaBounds
  <2> QED
    BY <1>1, <2>1, ClustersAreFew DEF RunType
<1>3. wallets' \in [Wallets -> Wallet]
  BY DEF TypeInv, TypeOK, Wallet
<1>4. graph' \subseteq Pairs /\ mixed' \in BOOLEAN
  BY DEF TypeInv, TypeOK
<1>5. TypeOK'
  BY <1>1, <1>3, <1>4, StatementTypes DEF TypeInv, TypeOK, Run
<1> QED
  BY <1>2, <1>5 DEF TypeInv

LEMMA NameTypes == ASSUME NEW c PROVE TypeInv /\ Name(c) => TypeInv'
<1> SUFFICES ASSUME TypeInv, Name(c) PROVE TypeInv'
  OBVIOUS
<1>1. /\ run \in Run /\ run.step = "name" /\ c \in run.left /\ run.left \subseteq SUBSET Wallets
      /\ run.named + Cardinality(run.left) <= Cardinality(Wallets)
  BY DEF TypeInv, RunType, Name
<1>2. Cardinality(run.left \ {c}) = Cardinality(run.left) - 1 /\ Cardinality(run.left) \in Nat
      /\ Cardinality(run.left \ {c}) \in Nat
  <2>1. IsFiniteSet(run.left)
    <3>1. IsFiniteSet(SUBSET Wallets)
      BY FS_SUBSET, TablesAssumption
    <3> QED
      BY <1>1, <3>1, FS_Subset
  <2> QED
    BY <1>1, <2>1, FS_RemoveElement, FS_CardinalityType
<1>3. /\ run.named + 1 \in 0 .. Cardinality(Wallets) /\ run.named + 1 \in 1 .. Cardinality(Wallets)
      /\ (run.named + 1) + Cardinality(run.left \ {c}) <= Cardinality(Wallets)
  BY <1>1, <1>2, AlphaBounds DEF Run
<1>4. <<clock \div Day, run.named + 1>> \in Ids
  BY <1>3, AlphaBounds DEF TypeInv, TypeOK, Ids
<1>5. /\ run' \in Run /\ run'.step = "name" /\ run'.left = run.left \ {c}
      /\ run'.named = run.named + 1 /\ run'.id \in Ids
  BY <1>1, <1>3, <1>4 DEF Run, Name
<1>6. RunType'
  BY <1>1, <1>3, <1>5 DEF RunType
<1> QED
  BY <1>6, RunStepTypes DEF Name, history, TypeInv, TypeOK

LEMMA WriteMemberTypes == ASSUME NEW w \in Wallets PROVE TypeInv /\ WriteMember(w) => TypeInv'
<1> SUFFICES ASSUME TypeInv, NEW ok \in BOOLEAN, Statement(ok),
                    run.step = "name", w \in run.members,
                    run' = [run EXCEPT !.members = @ \ {w}, !.ok = @ /\ ok],
                    wallets' = IF ok THEN [wallets EXCEPT ![w].cluster = run.id] ELSE wallets,
                    UNCHANGED <<clock, trades, entities, history>>
             PROVE  TypeInv'
  BY DEF WriteMember
<1>1. run.id \in Ids /\ run \in Run
  BY DEF TypeInv, RunType
<1>2. /\ run' \in Run /\ run'.step = "name" /\ run'.left = run.left
      /\ run'.named = run.named /\ run'.id = run.id
  BY <1>1 DEF Run
<1>3. RunType'
  BY <1>1, <1>2 DEF TypeInv, RunType
<1>4. wallets' \in [Wallets -> Wallet]
  BY <1>1 DEF TypeInv, TypeOK, Wallet
<1>5. TypeOK'
  BY <1>2, <1>4, StatementTypes DEF TypeInv, TypeOK, Run, history
<1> QED
  BY <1>3, <1>5 DEF TypeInv

LEMMA AggregateTypes == TypeInv /\ Aggregate => TypeInv'
<1> SUFFICES ASSUME TypeInv, Aggregate PROVE TypeInv'
  OBVIOUS
<1> DEFINE rows == {<<id, Aggregated(id)>> : id \in {i \in Ids : Members(i) # {}}}
<1>1. rows \subseteq Ids \X Entity
  BY AggregatedType DEF TypeInv
<1>2. run' = [IdleRun EXCEPT !.step = "aggregate", !.ok = run.ok, !.left = rows]
  BY DEF Aggregate
<1> HIDE DEF rows
<1>3. rows \subseteq Things
  BY <1>1 DEF Things
<1>4. run.ok \in BOOLEAN
  BY DEF TypeInv, RunType, Run
<1>5. run' \in Run /\ run'.step = "aggregate" /\ run'.left = rows
  BY <1>2, <1>3, <1>4, IdleRunType DEF Run
<1>6. RunType'
  BY <1>1, <1>5 DEF RunType
<1> QED
  BY <1>6, RunStepTypes DEF Aggregate, history, TypeInv, TypeOK

LEMMA SaveEntityTypes == ASSUME NEW r PROVE TypeInv /\ SaveEntity(r) => TypeInv'
<1> SUFFICES ASSUME TypeInv, NEW ok \in BOOLEAN, Statement(ok),
                    run.step = "aggregate", r \in run.left,
                    run' = [run EXCEPT !.left = @ \ {r}, !.ok = @ /\ ok],
                    entities' = IF ~ok THEN entities ELSE
                      [id \in DOMAIN entities \cup {r[1]} |->
                         IF id = r[1] THEN r[2] ELSE entities[id]],
                    UNCHANGED <<clock, trades, wallets, history>>
             PROVE  TypeInv'
  BY DEF SaveEntity
<1>1. run \in Run /\ r[1] \in Ids /\ r[2] \in Entity
  BY DEF TypeInv, RunType
<1>2. run' \in Run /\ run'.step = "aggregate" /\ run'.left \subseteq run.left
  BY <1>1 DEF Run
<1>3. RunType'
  BY <1>2 DEF TypeInv, RunType
<1>4. DOMAIN entities' \subseteq Ids /\ \A id \in DOMAIN entities' : entities'[id] \in Entity
  BY <1>1 DEF TypeInv, TypeOK
<1>5. TypeOK'
  BY <1>2, <1>4, StatementTypes DEF TypeInv, TypeOK, Run, history
<1> QED
  BY <1>3, <1>5 DEF TypeInv

LEMMA FinishTypes == TypeInv /\ Finish => TypeInv'
<1> SUFFICES ASSUME TypeInv, Finish PROVE TypeInv'
  OBVIOUS
<1>1. RunType'
  BY IdleRunType DEF Finish, RunType
<1> QED
  BY <1>1, RunStepTypes DEF Finish, TypeInv, TypeOK

LEMMA CrashTypes == TypeInv /\ Crash => TypeInv'
<1> SUFFICES ASSUME TypeInv, Crash PROVE TypeInv'
  OBVIOUS
<1>1. RunType'
  BY IdleRunType DEF Crash, RunType
<1> QED
  BY <1>1, RunStepTypes DEF Crash, history, TypeInv, TypeOK

LEMMA TickTypes == TypeInv /\ Tick => TypeInv'
<1> SUFFICES ASSUME TypeInv, Tick PROVE TypeInv'
  OBVIOUS
<1>1. clock' \in 0 .. MaxClock
  BY AlphaBounds DEF TypeInv, TypeOK, Tick
<1> QED
  BY <1>1 DEF TypeInv, TypeOK, RunType, Tick, tables, history

LEMMA RecordTradeTypes ==
    ASSUME NEW w \in Wallets, NEW t \in Tokens, NEW a \in Amounts \cup {0}
    PROVE  TypeInv /\ RecordTrade(w, t, a) => TypeInv'
<1> SUFFICES ASSUME TypeInv, RecordTrade(w, t, a) PROVE TypeInv'
  OBVIOUS
<1> DEFINE r == [wallet |-> w, token |-> t, amount |-> a, time |-> clock]
<1>1. r \in Trade
  BY DEF Trade, TypeInv, TypeOK
<1>2. trades' = trades \cup {r} /\ Cardinality(trades) < MaxTrades /\ IsFiniteSet(trades)
  BY DEF RecordTrade, TypeInv
<1> HIDE DEF r
<1>3. trades' \subseteq Trade
  BY <1>1, <1>2 DEF TypeInv, TypeOK
<1>4. IsFiniteSet(trades') /\ Cardinality(trades') <= MaxTrades
  <2>1. /\ IsFiniteSet(trades \cup {r}) /\ Cardinality(trades) \in Nat
        /\ Cardinality(trades \cup {r}) \in {Cardinality(trades), Cardinality(trades) + 1}
    BY <1>2, FS_AddElement, FS_CardinalityType
  <2> QED
    BY <1>2, <2>1, AlphaBounds
<1> QED
  BY <1>3, <1>4 DEF TypeInv, TypeOK, RunType, RecordTrade, history

LEMMA NextTypes == TypeInv /\ UniteInv /\ [Next]_vars => TypeInv'
<1> SUFFICES ASSUME TypeInv, UniteInv, [Next]_vars PROVE TypeInv'
  OBVIOUS
<1>1. CASE UNCHANGED vars
  BY <1>1 DEF TypeInv, TypeOK, RunType, vars, tables, history
<1>2. CASE Crash \/ Tick
  BY <1>2, CrashTypes, TickTypes
<1>3. CASE \E w \in Wallets, t \in Tokens, a \in Amounts \cup {0} : RecordTrade(w, t, a)
  BY <1>3, RecordTradeTypes
<1>4. CASE Begin \/ Weigh \/ Clear \/ Aggregate \/ Finish
  BY <1>4, BeginTypes, WeighTypes, ClearTypes, AggregateTypes, FinishTypes
<1>5. CASE \E w \in Wallets : Evaluate(w) \/ WriteMember(w)
  BY <1>5, EvaluateTypes, WriteMemberTypes
<1>6. CASE \E e \in Pairs : Unite(e)
  BY <1>6, UniteTypes
<1>7. CASE \E c \in run.left : Name(c) \/ SaveEntity(c)
  BY <1>7, NameTypes, SaveEntityTypes
<1> QED
  BY <1>1, <1>2, <1>3, <1>4, <1>5, <1>6, <1>7 DEF Next, Evaluation

-----------------------------------------------------------------------------
(* The trees, while the pairs are united. *)

LEMMA NextTrees == TypeInv /\ UniteInv /\ [Next]_vars => UniteInv'
<1> SUFFICES ASSUME TypeInv, UniteInv, [Next]_vars PROVE UniteInv'
  OBVIOUS
<1>1. CASE UNCHANGED run
  BY <1>1 DEF UniteInv
<1>2. CASE Begin
  BY <1>2, IdleRunType DEF Begin, IdleRun, UniteInv
<1>3. CASE \E w \in Wallets : Evaluate(w)
  BY <1>3 DEF Evaluate, UniteInv, TypeInv, RunType, Run
<1>4. CASE Weigh
  <2>1. /\ run'.step = "unite" /\ run'.edges \ run'.left = {}
        /\ run'.parent = [w \in Wallets |-> w]
    BY <1>4 DEF Weigh, UniteInv, TypeInv, RunType, Run
  <2>2. TreesOf(run'.parent, run'.edges \ run'.left)
    BY <2>1, NoTrees
  <2> QED
    BY <2>1, <2>2 DEF UniteInv
<1>5. ASSUME NEW e \in Pairs, Unite(e) PROVE UniteInv'
  <2>1. PICK i \in e, j \in e :
          i # j /\ run' = [run EXCEPT !.left = @ \ {e}, !.parent = Union(@, i, j)]
    BY <1>5 DEF Unite
  <2>2. run \in Run /\ run.step = "unite" /\ run.left \subseteq run.edges /\ e \in run.left
    BY <1>5 DEF TypeInv, RunType, Unite
  <2>3. /\ run'.step = "unite" /\ run'.parent = Union(run.parent, i, j)
        /\ run'.edges \ run'.left = (run.edges \ run.left) \cup {e}
    BY <2>1, <2>2 DEF Run
  <2>4. run.parent \in [Wallets -> Wallets] /\ run.edges \ run.left \in SUBSET Pairs
    BY <2>2 DEF Run
  <2>5. TreesOf(run.parent, run.edges \ run.left)
    BY <2>2 DEF UniteInv
  <2>6. TreesOf(Union(run.parent, i, j), (run.edges \ run.left) \cup {e})
    BY <2>1, <2>4, <2>5, UnionTrees
  <2>7. TreesOf(run'.parent, run'.edges \ run'.left)
    BY <2>3, <2>6
  <2> QED
    BY <2>3, <2>7 DEF UniteInv
<1>6. CASE run'.step \notin {"evaluate", "unite"}
  BY <1>6 DEF UniteInv
<1>7. CASE Clear \/ Aggregate \/ Finish \/ Crash
  <2>1. CASE Clear
    BY <1>6, <2>1 DEF Clear, IdleRun
  <2>2. CASE Aggregate
    BY <1>6, <2>2 DEF Aggregate, IdleRun
  <2>3. CASE Finish \/ Crash
    BY <1>6, <2>3 DEF Finish, Crash, IdleRun
  <2> QED
    BY <1>7, <2>1, <2>2, <2>3
<1>8. CASE \E w \in Wallets : WriteMember(w)
  BY <1>6, <1>8 DEF WriteMember, TypeInv, RunType, Run
<1>9. CASE \E c \in run.left : Name(c) \/ SaveEntity(c)
  BY <1>6, <1>9 DEF Name, SaveEntity, TypeInv, RunType, Run
<1> QED
  BY <1>1, <1>2, <1>3, <1>4, <1>5, <1>7, <1>8, <1>9
  DEF Next, Evaluation, vars, Tick, RecordTrade

-----------------------------------------------------------------------------
(* Connected wallets, and steps that leave the graph, the ids or both alone. *)

LEMMA Connections ==
    ASSUME TypeInv
    PROVE  /\ \A a \in Wallets : Connected(a, a)
           /\ \A a, b \in Wallets : Connected(a, b) => Connected(b, a)
           /\ \A a, b, c \in Wallets : Connected(a, b) /\ Connected(b, c) => Connected(a, c)
           /\ \A a, b \in Wallets : a # b /\ Connected(a, b) => Joined(a) /\ Joined(b)
<1>1. graph \in SUBSET Pairs
  BY DEF TypeInv, TypeOK
<1>2. \A a, b : Connected(a, b) <=> Linked(graph, a, b)
  BY DEF Connected, Linked
<1>3. \A a, b \in Wallets : Connected(a, b) => Connected(b, a)
  BY <1>1, <1>2, LinkedBack
<1>4. \A a \in Wallets : Connected(a, a)
  BY <1>2, LinkedSame
<1>5. \A a, b, c \in Wallets : Connected(a, b) /\ Connected(b, c) => Connected(a, c)
  BY <1>2, LinkedOn
<1>6. \A a, b \in Wallets : a # b /\ Connected(a, b) => Joined(a) /\ Joined(b)
  BY <1>3 DEF Joined
<1> QED
  BY <1>3, <1>4, <1>5, <1>6

LEMMA SameGraph ==
    ASSUME graph' = graph
    PROVE  /\ \A a, b : Connected(a, b)' <=> Connected(a, b)
           /\ \A w : Joined(w)' <=> Joined(w)
           /\ \A c : IsComponent(c)' <=> IsComponent(c)
<1>1. \A a, b : Connected(a, b)' <=> Connected(a, b)
  BY DEF Connected
<1>2. \A w : Joined(w)' <=> Joined(w)
  BY <1>1 DEF Joined
<1> QED
  BY <1>1, <1>2 DEF IsComponent

LEMMA SameIds ==
    ASSUME IdsAreComponents, graph' = graph, mixed' = mixed,
           \A w \in Wallets : IdOf(w)' = IdOf(w)
    PROVE  IdsAreComponents'
  BY SameGraph DEF IdsAreComponents, HasId

LEMMA SameMembers ==
    ASSUME wallets' = wallets
    PROVE  /\ \A w : IdOf(w)' = IdOf(w) /\ (HasId(w)' <=> HasId(w))
           /\ \A id : Members(id)' = Members(id) /\ Aggregated(id)' = Aggregated(id)
<1>1. \A w : IdOf(w)' = IdOf(w) /\ (HasId(w)' <=> HasId(w))
  BY DEF IdOf, HasId
<1>2. \A id : Members(id)' = Members(id)
  BY DEF Members
<1>3. \A ws : TradesOfAll(ws)' = TradesOfAll(ws)
  BY DEF TradesOfAll
<1>4. \A id : Aggregated(id)' = Aggregated(id)
  BY <1>2, <1>3 DEF Aggregated
<1> QED
  BY <1>1, <1>2, <1>4


-----------------------------------------------------------------------------
(* The invariant, step by step. *)

\* Time, trades and a crash disturb none of it.
LEMMA SameIdsInv ==
    ASSUME IdsInv, UNCHANGED <<wallets, entities, run, history>>
    PROVE  IdsInv'
<1>1. graph' = graph /\ mixed' = mixed /\ finished' = finished /\ wallets' = wallets /\ run' = run
      /\ entities' = entities
  BY DEF history
<1>2. IdsAreComponents'
  BY <1>1, SameIds, SameMembers DEF IdsInv
<1>3. NameInv'
  BY <1>1, SameGraph DEF IdsInv, NameInv
<1>4. FreshInv'
  BY <1>1, SameGraph, SameMembers DEF IdsInv, FreshInv
<1>5. JoinedAreNamed'
  BY <1>1, SameGraph, SameMembers DEF IdsInv, JoinedAreNamed, Waits
<1>6. AggregateInv'
  BY <1>1, SameMembers DEF IdsInv, AggregateInv, Saved
<1>7. FinishInv'
  BY <1>1, SameGraph, SameMembers DEF IdsInv, FinishInv, Saved
<1> QED
  BY <1>2, <1>3, <1>4, <1>5, <1>6, <1>7 DEF IdsInv

\* Outside "name" and "aggregate" only what the ids and the last run mean is at stake.
LEMMA OtherSteps ==
    ASSUME run'.step \notin {"name", "aggregate"}, IdsAreComponents', FinishInv'
    PROVE  IdsInv'
  BY DEF IdsInv, NameInv, FreshInv, JoinedAreNamed, AggregateInv

LEMMA FinishedIsIdle == ASSUME IdsInv, run.step # "idle", finished' = finished PROVE FinishInv'
  BY DEF IdsInv, FinishInv

LEMMA CrashIds == TypeInv /\ IdsInv /\ Crash => IdsInv'
<1> SUFFICES ASSUME TypeInv, IdsInv, Crash PROVE IdsInv'
  OBVIOUS
<1>1. run'.step = "idle" /\ UNCHANGED <<wallets, entities, graph, mixed, finished>>
  BY IdleRunType DEF Crash, tables, history
<1>2. IdsAreComponents'
  BY <1>1, SameIds, SameMembers DEF IdsInv
<1>3. FinishInv'
  BY <1>1, SameGraph, SameMembers DEF IdsInv, FinishInv, Saved
<1> QED
  BY <1>1, <1>2, <1>3, OtherSteps

LEMMA BeginIds == TypeInv /\ IdsInv /\ Begin => IdsInv'
<1> SUFFICES ASSUME TypeInv, IdsInv, Begin PROVE IdsInv'
  OBVIOUS
<1>1. run'.step = "evaluate" /\ UNCHANGED <<wallets, graph, mixed>> /\ finished' = FALSE
  BY DEF Begin, IdleRun, tables
<1>2. IdsAreComponents'
  BY <1>1, SameIds, SameMembers DEF IdsInv
<1>3. FinishInv'
  BY <1>1 DEF FinishInv
<1> QED
  BY <1>1, <1>2, <1>3, OtherSteps

LEMMA EvaluateIds ==
    ASSUME NEW w \in Wallets
    PROVE  TypeInv /\ IdsInv /\ Evaluate(w) => IdsInv'
<1> SUFFICES ASSUME TypeInv, IdsInv, Evaluate(w) PROVE IdsInv'
  OBVIOUS
<1>1. run'.step = "evaluate" /\ run.step = "evaluate" /\ UNCHANGED <<graph, mixed, finished>>
  BY DEF Evaluate, history, TypeInv, RunType, Run
<1>2. \A v \in Wallets : IdOf(v)' = IdOf(v)
  BY DEF Evaluate, IdOf, TypeInv, TypeOK, Wallet
<1>3. IdsAreComponents'
  BY <1>1, <1>2, SameIds DEF IdsInv
<1> QED
  BY <1>1, <1>3, OtherSteps, FinishedIsIdle

LEMMA WeighIds == TypeInv /\ IdsInv /\ Weigh => IdsInv'
<1> SUFFICES ASSUME TypeInv, IdsInv, Weigh PROVE IdsInv'
  OBVIOUS
<1>1. run'.step = "unite" /\ run.step = "evaluate" /\ UNCHANGED <<wallets, graph, mixed, finished>>
  BY DEF Weigh, tables, history, TypeInv, RunType, Run
<1>2. IdsAreComponents'
  BY <1>1, SameIds, SameMembers DEF IdsInv
<1> QED
  BY <1>1, <1>2, OtherSteps, FinishedIsIdle

LEMMA UniteIds ==
    ASSUME NEW e \in Pairs
    PROVE  TypeInv /\ IdsInv /\ Unite(e) => IdsInv'
<1> SUFFICES ASSUME TypeInv, IdsInv, Unite(e) PROVE IdsInv'
  OBVIOUS
<1>1. run'.step = "unite" /\ run.step = "unite" /\ UNCHANGED <<wallets, graph, mixed, finished>>
  BY DEF Unite, tables, history, TypeInv, RunType, Run
<1>2. IdsAreComponents'
  BY <1>1, SameIds, SameMembers DEF IdsInv
<1> QED
  BY <1>1, <1>2, OtherSteps, FinishedIsIdle

\* The clusters are the components of more than one wallet.
LEMMA ClustersAre ==
    ASSUME NEW parent \in [Wallets -> Wallets], NEW pairs, TreesOf(parent, pairs)
    PROVE  /\ \A c \in Clusters(parent) : \A w \in c :
                /\ w \in Wallets
                /\ \A v \in Wallets : v \in c <=> Linked(pairs, w, v)
                /\ \E v \in Wallets \ {w} : Linked(pairs, w, v)
           /\ \A a, b \in Wallets : a # b /\ Linked(pairs, a, b) => \E c \in Clusters(parent) : a \in c
<1> DEFINE of(r) == {w \in Wallets : Root(parent, w) = r}
<1>1. Clusters(parent) = {c \in {of(r) : r \in Wallets} : Cardinality(c) > 1}
  BY DEF Clusters
<1>2. /\ \A w \in Wallets : Root(parent, w) \in Wallets
      /\ \A a, b \in Wallets : Root(parent, a) = Root(parent, b) <=> Linked(pairs, a, b)
  BY RootIs DEF TreesOf
<1>3. \A r : \A w \in Wallets : w \in of(r) <=> Root(parent, w) = r
  OBVIOUS
<1>4. \A r : of(r) \subseteq Wallets
  OBVIOUS
<1> HIDE DEF of
<1>5. ASSUME NEW c \in Clusters(parent), NEW w \in c
      PROVE  /\ w \in Wallets
             /\ \A v \in Wallets : v \in c <=> Linked(pairs, w, v)
             /\ \E v \in Wallets \ {w} : Linked(pairs, w, v)
  <2>1. PICK r \in Wallets : c = of(r) /\ Cardinality(c) > 1
    BY <1>1
  <2>2. c \subseteq Wallets /\ w \in Wallets /\ Root(parent, w) = r
    BY <1>3, <1>4, <2>1
  <2>3. \A v \in Wallets : v \in c <=> Linked(pairs, w, v)
    BY <1>2, <1>3, <2>1, <2>2
  <2>4. c # {w}
    <3>1. Cardinality({w}) = 1
      BY FS_Singleton
    <3> QED
      BY <2>1, <3>1
  <2> QED
    BY <2>2, <2>3, <2>4
<1>6. ASSUME NEW a \in Wallets, NEW b \in Wallets, a # b, Linked(pairs, a, b)
      PROVE  \E c \in Clusters(parent) : a \in c
  <2> DEFINE c == of(Root(parent, a))
  <2>1. a \in c /\ b \in c /\ c \in SUBSET Wallets
    BY <1>2, <1>3, <1>4, <1>6
  <2>2. c \in {of(r) : r \in Wallets}
    BY <1>2
  <2> HIDE DEF c
  <2>3. IsFiniteSet(c) /\ Cardinality(c) \in Nat
    BY <2>1, AlphaBounds
  <2>4. Cardinality({a, b}) = 2
    BY <1>6, TwoElements
  <2>5. Cardinality(c) > 1
    BY <2>1, <2>3, <2>4, FS_Subset, {a, b} \in SUBSET c
  <2> QED
    BY <1>1, <2>1, <2>2, <2>5
<1> QED
  BY <1>5, <1>6

LEMMA ClearIds == AlphaInv /\ Clear => IdsInv'
<1> SUFFICES ASSUME AlphaInv, NEW ok \in BOOLEAN, run.step = "unite", run.left = {},
                    run' = [IdleRun EXCEPT !.step = "name", !.left = Clusters(run.parent),
                                           !.ok = run.ok /\ ok],
                    wallets' = IF ok THEN [w \in Wallets |-> [wallets[w] EXCEPT !.cluster = None]]
                                     ELSE wallets,
                    mixed' = ~ok, graph' = run.edges,
                    UNCHANGED <<clock, trades, entities, finished>>
             PROVE  IdsInv'
  BY DEF Clear
<1>1. TypeInv /\ UniteInv /\ IdsInv
  BY DEF AlphaInv
<1>2. /\ run'.step = "name" /\ run'.left = Clusters(run.parent) /\ run'.members = {}
      /\ run'.ok = (run.ok /\ ok)
  BY DEF IdleRun
<1>3. run.parent \in [Wallets -> Wallets] /\ TreesOf(run.parent, graph')
  <2>1. run.edges \ run.left = graph'
    OBVIOUS
  <2> QED
    BY <1>1, <2>1 DEF TypeInv, RunType, Run, UniteInv
<1>4. \A a, b : Connected(a, b)' <=> Linked(graph', a, b)
  BY DEF Connected, Linked
<1>5. ASSUME ok, NEW w \in Wallets PROVE ~HasId(w)'
  BY <1>1, <1>5 DEF HasId, IdOf, TypeInv, TypeOK, Wallet
<1>6. IdsAreComponents'
  BY <1>5 DEF IdsAreComponents
<1>7. ASSUME NEW c \in Clusters(run.parent) PROVE IsComponent(c)'
  <2>1. c \subseteq Wallets
    BY ClustersAreFew
  <2>2. \A w \in c : Joined(w)' /\ \A v \in Wallets : v \in c <=> Connected(w, v)'
    BY <1>3, <1>4, ClustersAre DEF Joined
  <2> QED
    BY <2>1, <2>2 DEF IsComponent
<1>8. NameInv'
  BY <1>2, <1>7 DEF NameInv
<1>9. FreshInv'
  <2> SUFFICES ASSUME ok PROVE FreshInv'
    BY DEF FreshInv
  <2>1. \A c \in Clusters(run.parent) : c \subseteq Wallets
    BY ClustersAreFew
  <2> QED
    BY <1>2, <1>5, <2>1 DEF FreshInv
<1>10. JoinedAreNamed'
  <2>1. ASSUME run'.ok PROVE ~mixed'
    BY <1>2, <2>1
  <2>2. ASSUME NEW w \in Wallets, Joined(w)' PROVE Waits(w)'
    <3>1. PICK v \in Wallets \ {w} : Linked(graph', w, v)
      BY <1>4, <2>2 DEF Joined
    <3>2. \E c \in Clusters(run.parent) : w \in c
      BY <1>3, <3>1, ClustersAre
    <3> QED
      BY <1>2, <3>2 DEF Waits
  <2> QED
    BY <2>1, <2>2 DEF JoinedAreNamed
<1>11. AggregateInv'
  BY <1>2 DEF AggregateInv
<1>12. FinishInv'
  BY <1>1, FinishedIsIdle
<1> QED
  BY <1>6, <1>8, <1>9, <1>10, <1>11, <1>12 DEF IdsInv

\* Two components that share a wallet are one.
LEMMA ComponentsApart ==
    ASSUME NEW c, NEW d, IsComponent(c), IsComponent(d), NEW w \in c, w \in d
    PROVE  c = d
  BY DEF IsComponent

LEMMA NameIds == ASSUME NEW c PROVE AlphaInv /\ Name(c) => IdsInv'
<1> SUFFICES ASSUME AlphaInv, Name(c) PROVE IdsInv'
  OBVIOUS
<1>1. TypeInv /\ IdsInv /\ run \in Run
  BY DEF AlphaInv, TypeInv, RunType
<1>2. /\ run.step = "name" /\ run.members = {} /\ c \in run.left
      /\ UNCHANGED <<wallets, graph, mixed, finished>>
  BY DEF Name, tables, history
<1>3. /\ run'.step = "name" /\ run'.left = run.left \ {c} /\ run'.members = c
      /\ run'.named = run.named + 1 /\ run'.id = <<clock \div Day, run.named + 1>>
      /\ run'.ok = run.ok
  BY <1>1 DEF Name, Run
<1>4. run.named \in Nat
  BY <1>1, AlphaBounds DEF Run
<1>5. /\ IsComponent(c) /\ c \subseteq Wallets
      /\ \A d \in run.left : IsComponent(d)
  BY <1>1, <1>2 DEF IdsInv, NameInv, IsComponent
<1>6. IdsAreComponents'
  BY <1>1, <1>2, SameIds, SameMembers DEF IdsInv
<1>7. NameInv'
  <2>1. ASSUME NEW d \in run'.left PROVE IsComponent(d)' /\ run'.members \cap d = {}
    BY <1>2, <1>3, <1>5, SameGraph, ComponentsApart
  <2>2. ASSUME NEW m \in c PROVE Joined(m)' /\ \A n \in c : Connected(m, n)'
    BY <1>2, <1>5, SameGraph DEF IsComponent
  <2> QED
    BY <1>3, <2>1, <2>2 DEF NameInv
<1>8. FreshInv'
  <2> SUFFICES ASSUME ~mixed PROVE FreshInv'
    BY <1>2 DEF FreshInv
  <2>1. /\ \A w \in Wallets : HasId(w) => IdOf(w) \in Ids /\ IdOf(w)[2] <= run.named
        /\ \A d \in run.left : \A w \in d : ~HasId(w)
    BY <1>1, <1>2 DEF IdsInv, FreshInv, HasId, IdOf, TypeInv, TypeOK, Wallet
  <2>2. \A w \in Wallets : HasId(w) => IdOf(w)[2] <= run.named + 1 /\ IdOf(w) # run'.id
    BY <1>3, <1>4, <2>1 DEF Ids
  <2>3. ASSUME NEW m \in c, NEW w \in Wallets, HasId(w) PROVE ~Connected(w, m)
    <3>1. w \notin c
      BY <1>2, <2>1, <2>3
    <3>2. ~Connected(m, w)
      BY <1>5, <3>1 DEF IsComponent
    <3> QED
      BY <1>1, <1>5, <3>2, Connections
  <2>4. \A m \in c : ~HasId(m)
    BY <1>2, <2>1
  <2> QED
    BY <1>2, <1>3, <2>1, <2>2, <2>3, <2>4, SameGraph, SameMembers DEF FreshInv
<1>9. JoinedAreNamed'
  <2>1. \A w : Waits(w)' <=> Waits(w)
    BY <1>2, <1>3 DEF Waits
  <2> QED
    BY <1>1, <1>2, <1>3, <2>1, SameGraph, SameMembers DEF IdsInv, JoinedAreNamed
<1>10. AggregateInv'
  BY <1>3 DEF AggregateInv
<1>11. FinishInv'
  BY <1>1, <1>2, FinishedIsIdle
<1> QED
  BY <1>6, <1>7, <1>8, <1>9, <1>10, <1>11 DEF IdsInv


LEMMA WriteMemberIds ==
    ASSUME NEW u \in Wallets
    PROVE  AlphaInv /\ WriteMember(u) => IdsInv'
<1> SUFFICES ASSUME AlphaInv, NEW ok \in BOOLEAN, run.step = "name", u \in run.members,
                    run' = [run EXCEPT !.members = @ \ {u}, !.ok = @ /\ ok],
                    wallets' = IF ok THEN [wallets EXCEPT ![u].cluster = run.id] ELSE wallets,
                    UNCHANGED <<clock, trades, entities, history>>
             PROVE  IdsInv'
  BY DEF WriteMember
<1>1. TypeInv /\ IdsInv /\ run \in Run /\ run.id \in Ids
  BY DEF AlphaInv, TypeInv, RunType
<1>2. UNCHANGED <<graph, mixed, finished>>
  BY DEF history
<1>3. /\ run'.step = "name" /\ run'.left = run.left /\ run'.members = run.members \ {u}
      /\ run'.named = run.named /\ run'.id = run.id /\ run'.ok = (run.ok /\ ok)
  BY <1>1 DEF Run
<1>4. run.members \subseteq Wallets /\ \A c \in run.left : IsComponent(c) /\ u \notin c
  BY <1>1 DEF IdsInv, NameInv, Run
<1>5. Joined(u) /\ \A n \in run.members : Connected(u, n)
  BY <1>1 DEF IdsInv, NameInv
<1>6. /\ \A v \in Wallets \ {u} : IdOf(v)' = IdOf(v) /\ (HasId(v)' <=> HasId(v))
      /\ ok => IdOf(u)' = run.id /\ HasId(u)'
  <2>1. \A v \in Wallets \ {u} : IdOf(v)' = IdOf(v)
    BY <1>1 DEF IdOf, TypeInv, TypeOK
  <2>2. ok => IdOf(u)' = run.id
    BY <1>1 DEF IdOf, TypeInv, TypeOK, Wallet
  <2>3. run.id # None
    BY <1>1, AlphaBounds
  <2> QED
    BY <2>1, <2>2, <2>3 DEF HasId
<1>7. CASE ~ok
  <2>1. wallets' = wallets
    BY <1>7
  <2>2. IdsAreComponents'
    BY <1>1, <1>2, <2>1, SameIds, SameMembers DEF IdsInv
  <2>3. NameInv'
    BY <1>1, <1>2, <1>3, SameGraph DEF IdsInv, NameInv
  <2>4. FreshInv'
    BY <1>1, <1>2, <1>3, <2>1, SameGraph, SameMembers DEF IdsInv, FreshInv
  <2>5. JoinedAreNamed'
    BY <1>3, <1>7 DEF JoinedAreNamed
  <2>6. AggregateInv'
    BY <1>3 DEF AggregateInv
  <2>7. FinishInv'
    BY <1>1, <1>2, FinishedIsIdle
  <2> QED
    BY <2>2, <2>3, <2>4, <2>5, <2>6, <2>7 DEF IdsInv
<1>8. CASE ok
  <2>1. ASSUME ~mixed
        PROVE  /\ ~HasId(u)
               /\ \A m \in run.members : ~HasId(m)
               /\ \A v \in Wallets : HasId(v) =>
                    /\ IdOf(v)[2] <= run.named
                    /\ \A m \in run.members : IdOf(v) = run.id <=> Connected(v, m)
               /\ \A c \in run.left : \A v \in c : ~HasId(v)
    BY <1>1, <2>1 DEF IdsInv, FreshInv
  <2>2. IdsAreComponents'
    <3> SUFFICES ASSUME ~mixed PROVE IdsAreComponents'
      BY <1>2 DEF IdsAreComponents
    <3>1. ASSUME NEW v \in Wallets, HasId(v)' PROVE Joined(v)'
      BY <1>1, <1>2, <1>5, <1>6, <3>1, SameGraph DEF IdsInv, IdsAreComponents
    <3>2. ASSUME NEW v \in Wallets, HasId(v)' PROVE IdOf(v)' = run.id <=> Connected(v, u)
      BY <1>1, <1>6, <1>8, <2>1, <3>2, Connections
    <3>3. ASSUME NEW a \in Wallets, NEW b \in Wallets, HasId(a)', HasId(b)'
          PROVE  IdOf(a)' = IdOf(b)' <=> Connected(a, b)
      <4>1. CASE a = u
        BY <1>1, <1>6, <1>8, <3>2, <3>3, <4>1, Connections
      <4>2. CASE b = u
        BY <1>6, <1>8, <3>2, <3>3, <4>2
      <4>3. CASE a # u /\ b # u
        BY <1>1, <1>6, <3>3, <4>3 DEF IdsInv, IdsAreComponents
      <4> QED
        BY <4>1, <4>2, <4>3
    <3> QED
      BY <1>2, <3>1, <3>3, SameGraph DEF IdsAreComponents
  <2>3. NameInv'
    BY <1>1, <1>2, <1>3, SameGraph DEF IdsInv, NameInv
  <2>4. FreshInv'
    <3> SUFFICES ASSUME ~mixed PROVE FreshInv'
      BY <1>2 DEF FreshInv
    <3>1. ASSUME NEW v \in Wallets, HasId(v)'
          PROVE  /\ IdOf(v)'[2] <= run.named
                 /\ \A m \in run.members \ {u} : IdOf(v)' = run.id <=> Connected(v, m)'
      <4>1. CASE v = u
        <5>1. IdOf(v)' = run.id /\ run.id[2] = run.named /\ run.named \in Nat
          BY <1>1, <1>6, <1>8, <4>1, AlphaBounds DEF IdsInv, NameInv, Run
        <5> QED
          BY <1>2, <1>5, <4>1, <5>1, SameGraph
      <4>2. CASE v # u
        BY <1>2, <1>6, <2>1, <3>1, <4>2, SameGraph
      <4> QED
        BY <4>1, <4>2
    <3>2. \A m \in run.members \ {u} : ~HasId(m)'
      BY <1>4, <1>6, <2>1
    <3>3. \A c \in run.left : \A v \in c : ~HasId(v)'
      BY <1>4, <1>6, <2>1 DEF IsComponent
    <3> QED
      BY <1>3, <3>1, <3>2, <3>3 DEF FreshInv
  <2>5. JoinedAreNamed'
    <3> SUFFICES ASSUME run'.ok PROVE JoinedAreNamed'
      BY DEF JoinedAreNamed
    <3>1. ~mixed /\ \A w \in Wallets : Joined(w) => HasId(w) \/ Waits(w)
      BY <1>1, <1>3 DEF IdsInv, JoinedAreNamed
    <3>2. ASSUME NEW w \in Wallets, HasId(w) \/ Waits(w) PROVE HasId(w)' \/ Waits(w)'
      BY <1>3, <1>6, <1>8, <3>2 DEF Waits
    <3> QED
      BY <1>2, <3>1, <3>2, SameGraph DEF JoinedAreNamed
  <2>6. AggregateInv'
    BY <1>3 DEF AggregateInv
  <2>7. FinishInv'
    BY <1>1, <1>2, FinishedIsIdle
  <2> QED
    BY <2>2, <2>3, <2>4, <2>5, <2>6, <2>7 DEF IdsInv
<1> QED
  BY <1>7, <1>8


LEMMA AggregateIds == AlphaInv /\ Aggregate => IdsInv'
<1> SUFFICES ASSUME AlphaInv, Aggregate PROVE IdsInv'
  OBVIOUS
<1>1. TypeInv /\ IdsInv
  BY DEF AlphaInv
<1>2. /\ run.step = "name" /\ run.left = {} /\ run.members = {}
      /\ UNCHANGED <<wallets, graph, mixed, finished>>
  BY DEF Aggregate, tables, history
<1>3. /\ run'.step = "aggregate" /\ run'.ok = run.ok
      /\ run'.left = {<<id, Aggregated(id)>> : id \in {i \in Ids : Members(i) # {}}}
  BY DEF Aggregate, IdleRun
<1>4. IdsAreComponents'
  BY <1>1, <1>2, SameIds, SameMembers DEF IdsInv
<1>5. NameInv' /\ FreshInv'
  BY <1>3 DEF NameInv, FreshInv
<1>6. JoinedAreNamed'
  BY <1>1, <1>2, <1>3, SameGraph, SameMembers DEF IdsInv, JoinedAreNamed, Waits
<1>7. AggregateInv'
  <2>1. \A r \in run'.left : r[2] = Aggregated(r[1])
    BY <1>3
  <2>2. \A id \in Ids : Members(id) # {} => <<id, Aggregated(id)>> \in run'.left
    BY <1>3
  <2> QED
    BY <1>2, <2>1, <2>2, SameMembers DEF AggregateInv
<1>8. FinishInv'
  BY <1>1, <1>2, FinishedIsIdle
<1> QED
  BY <1>4, <1>5, <1>6, <1>7, <1>8 DEF IdsInv

LEMMA SaveEntityIds == ASSUME NEW r PROVE AlphaInv /\ SaveEntity(r) => IdsInv'
<1> SUFFICES ASSUME AlphaInv, NEW ok \in BOOLEAN, run.step = "aggregate", r \in run.left,
                    run' = [run EXCEPT !.left = @ \ {r}, !.ok = @ /\ ok],
                    entities' = IF ~ok THEN entities ELSE
                      [id \in DOMAIN entities \cup {r[1]} |->
                         IF id = r[1] THEN r[2] ELSE entities[id]],
                    UNCHANGED <<clock, trades, wallets, history>>
             PROVE  IdsInv'
  BY DEF SaveEntity
<1>1. TypeInv /\ IdsInv /\ run \in Run /\ r \in Ids \X Entity
  BY DEF AlphaInv, TypeInv, RunType
<1>2. UNCHANGED <<wallets, graph, mixed, finished>>
  BY DEF history
<1>3. /\ run'.step = "aggregate" /\ run'.left = run.left \ {r} /\ run'.ok = (run.ok /\ ok)
  BY <1>1 DEF Run
<1>4. IdsAreComponents'
  BY <1>1, <1>2, SameIds, SameMembers DEF IdsInv
<1>5. NameInv' /\ FreshInv'
  BY <1>3 DEF NameInv, FreshInv
<1>6. JoinedAreNamed'
  BY <1>1, <1>2, <1>3, SameGraph, SameMembers DEF IdsInv, JoinedAreNamed, Waits
<1>7. AggregateInv'
  <2>1. /\ \A q \in run.left : q[2] = Aggregated(q[1])
        /\ run.ok => \A id \in Ids : Members(id) # {} =>
                       <<id, Aggregated(id)>> \in run.left \/ Saved(id)
    BY <1>1 DEF IdsInv, AggregateInv
  <2>2. ASSUME run'.ok, NEW id \in Ids, Members(id) # {}
        PROVE  <<id, Aggregated(id)>> \in run'.left \/ Saved(id)'
    <3>1. /\ DOMAIN entities' = DOMAIN entities \cup {r[1]}
          /\ \A i \in DOMAIN entities' : entities'[i] = IF i = r[1] THEN r[2] ELSE entities[i]
      BY <1>3, <2>2
    <3>2. CASE id = r[1]
      BY <1>2, <2>1, <3>1, <3>2, SameMembers DEF Saved
    <3>3. CASE id # r[1]
      <4>1. <<id, Aggregated(id)>> \in run.left \/ Saved(id)
        BY <1>3, <2>1, <2>2
      <4>2. <<id, Aggregated(id)>> # r
        BY <3>3
      <4> QED
        BY <1>2, <1>3, <3>1, <3>3, <4>1, <4>2, SameMembers DEF Saved
    <3> QED
      BY <3>2, <3>3
  <2> QED
    BY <1>2, <1>3, <2>1, <2>2, SameMembers DEF AggregateInv
<1>8. FinishInv'
  BY <1>1, <1>2, FinishedIsIdle
<1> QED
  BY <1>4, <1>5, <1>6, <1>7, <1>8 DEF IdsInv

LEMMA FinishIds == AlphaInv /\ Finish => IdsInv'
<1> SUFFICES ASSUME AlphaInv, Finish PROVE IdsInv'
  OBVIOUS
<1>1. TypeInv /\ IdsInv
  BY DEF AlphaInv
<1>2. /\ run.step = "aggregate" /\ run.left = {} /\ finished' = run.ok /\ run'.step = "idle"
      /\ UNCHANGED <<wallets, entities, graph, mixed>>
  BY IdleRunType DEF Finish, tables
<1>3. IdsAreComponents'
  BY <1>1, <1>2, SameIds, SameMembers DEF IdsInv
<1>4. FinishInv'
  <2> SUFFICES ASSUME run.ok PROVE FinishInv'
    BY <1>2 DEF FinishInv
  <2>1. ~mixed /\ \A w \in Wallets : Joined(w) => HasId(w)
    BY <1>1, <1>2 DEF IdsInv, JoinedAreNamed, Waits
  <2>2. \A id \in Ids : Members(id) # {} => Saved(id)
    BY <1>1, <1>2 DEF IdsInv, AggregateInv
  <2> QED
    BY <1>2, <2>1, <2>2, SameGraph, SameMembers DEF FinishInv, Saved
<1> QED
  BY <1>2, <1>3, <1>4, OtherSteps

-----------------------------------------------------------------------------
(* Theorems. *)

LEMMA InitInv == Init => AlphaInv
<1> SUFFICES ASSUME Init PROVE AlphaInv
  OBVIOUS
<1>1. run.step = "idle" /\ ~finished /\ \A w \in Wallets : ~HasId(w)
  BY IdleRunType DEF Init, HasId, IdOf
<1>2. UniteInv /\ IdsInv
  BY <1>1 DEF UniteInv, IdsInv, IdsAreComponents, NameInv, FreshInv, JoinedAreNamed,
              AggregateInv, FinishInv
<1> QED
  BY <1>2, InitTypes DEF AlphaInv

LEMMA NextInv == AlphaInv /\ [Next]_vars => AlphaInv'
<1> SUFFICES ASSUME AlphaInv, [Next]_vars PROVE AlphaInv'
  OBVIOUS
<1>1. TypeInv /\ UniteInv /\ IdsInv
  BY DEF AlphaInv
<1>2. TypeInv' /\ UniteInv'
  BY <1>1, NextTypes, NextTrees
<1>3. IdsInv'
  <2>1. CASE UNCHANGED vars \/ Tick
    BY <1>1, <2>1, SameIdsInv DEF vars, tables, Tick
  <2>2. CASE \E w \in Wallets, t \in Tokens, a \in Amounts \cup {0} : RecordTrade(w, t, a)
    BY <1>1, <2>2, SameIdsInv DEF RecordTrade
  <2>3. CASE Crash \/ Begin \/ Weigh
    BY <1>1, <2>3, CrashIds, BeginIds, WeighIds
  <2>4. CASE Clear \/ Aggregate \/ Finish
    BY <2>4, ClearIds, AggregateIds, FinishIds
  <2>5. CASE \E w \in Wallets : Evaluate(w) \/ WriteMember(w)
    BY <1>1, <2>5, EvaluateIds, WriteMemberIds
  <2>6. CASE \E e \in Pairs : Unite(e)
    BY <1>1, <2>6, UniteIds
  <2>7. CASE \E c \in run.left : Name(c) \/ SaveEntity(c)
    BY <2>7, NameIds, SaveEntityIds
  <2> QED
    BY <2>1, <2>2, <2>3, <2>4, <2>5, <2>6, <2>7 DEF Next, Evaluation
<1> QED
  BY <1>2, <1>3 DEF AlphaInv

THEOREM AlphaInvariant == Spec => []AlphaInv
  BY InitInv, NextInv, PTL DEF Spec

\* The tables and the run of evaluateSmartWallets keep their types; the numbers that
\* detectClusters counts from 1 in every run never pass the number of wallets.
THEOREM TypeCorrect == Spec => []TypeOK
<1>1. AlphaInv => TypeOK
  BY DEF AlphaInv, TypeInv
<1> QED
  BY <1>1, AlphaInvariant, PTL

\* The forest of unionFind and the reassignment of ids agree with the graph of pairs,
\* whatever the order of the pairs: after a run without a failed statement the wallets
\* of one id are the components of the graph.
THEOREM ClustersAreComponentsHolds == Spec => []ClustersAreComponents
<1>1. AlphaInv => ClustersAreComponents
  <2> SUFFICES ASSUME AlphaInv, finished PROVE ClustersAreComponents
    BY DEF ClustersAreComponents
  <2>1. TypeInv /\ IdsAreComponents /\ ~mixed /\ \A w \in Wallets : Joined(w) => HasId(w)
    BY DEF AlphaInv, IdsInv, FinishInv
  <2>2. ASSUME NEW a \in Wallets, NEW b \in Wallets, a # b
        PROVE  Connected(a, b) <=> HasId(a) /\ IdOf(a) = IdOf(b)
    <3>1. ASSUME Connected(a, b) PROVE HasId(a) /\ IdOf(a) = IdOf(b)
      <4>1. HasId(a) /\ HasId(b)
        BY <2>1, <2>2, <3>1, Connections
      <4> QED
        BY <2>1, <3>1, <4>1 DEF IdsAreComponents
    <3>2. ASSUME HasId(a), IdOf(a) = IdOf(b) PROVE Connected(a, b)
      BY <2>1, <3>2 DEF IdsAreComponents, HasId
    <3> QED
      BY <3>1, <3>2
  <2>3. \A a \in Wallets : HasId(a) => \E b \in Wallets \ {a} : Connected(a, b)
    BY <2>1 DEF IdsAreComponents, Joined
  <2> QED
    BY <2>2, <2>3 DEF ClustersAreComponents, HasId, IdOf
<1> QED
  BY <1>1, AlphaInvariant, PTL

\* detectClusters numbers the clusters of every run from 1 and writes them wallet by
\* wallet: still no id is ever shared by wallets that the run did not join.
THEOREM OneIdOneComponentHolds == Spec => []OneIdOneComponent
<1>1. AlphaInv => OneIdOneComponent
  <2> SUFFICES ASSUME AlphaInv, ~mixed, NEW a \in Wallets, NEW b \in Wallets,
                      HasId(a), IdOf(a) = IdOf(b)
               PROVE  Connected(a, b)
    BY DEF OneIdOneComponent, HasId, IdOf
  <2> QED
    BY DEF AlphaInv, IdsInv, IdsAreComponents, HasId
<1> QED
  BY <1>1, AlphaInvariant, PTL

\* aggregateEntities saves, for every id in use, what it counted over the wallets that
\* have it: no run ends well with an entity of an earlier run left in place.
THEOREM EntitiesMatchClustersHolds == Spec => []EntitiesMatchClusters
<1>1. AlphaInv => EntitiesMatchClusters
  <2> SUFFICES ASSUME AlphaInv, finished, NEW w \in Wallets, HasId(w), ~wallets[w].mev
               PROVE  /\ IdOf(w) \in DOMAIN entities
                      /\ entities[IdOf(w)] =
                           [count |-> Cardinality(Members(IdOf(w))),
                            trades |-> Cardinality(TradesOfAll(Members(IdOf(w))))]
    BY DEF EntitiesMatchClusters, HasId, IdOf, Members
  <2>1. IdOf(w) \in Ids
    BY DEF AlphaInv, TypeInv, TypeOK, Wallet, HasId, IdOf
  <2>2. w \in Members(IdOf(w))
    BY DEF Members, IdOf
  <2>3. Saved(IdOf(w))
    BY <2>1, <2>2 DEF AlphaInv, IdsInv, FinishInv
  <2> QED
    BY <2>3 DEF Saved, Aggregated
<1> QED
  BY <1>1, AlphaInvariant, PTL

-----------------------------------------------------------------------------
(* SellTracker: what a scan reads and finds. *)

\* Induction: a set of natural numbers that is not empty has a least element.
LEMMA LeastElement ==
    ASSUME NEW T \in SUBSET Nat, T # {}
    PROVE  \E x \in T : \A y \in T : x <= y
<1> DEFINE R == {ss \in Nat \X Nat : ss[1] < ss[2]}
<1>1. IsWellFoundedOn(R, Nat)
  BY NatLessThanWellFounded DEF OpToRel
<1> HIDE DEF R
<1>2. PICK x \in T : \A y \in T : ~(<<y, x>> \in R)
  BY <1>1, WFMin
<1>3. ASSUME NEW y \in T PROVE x <= y
  <2>1. y \in Nat /\ x \in Nat /\ <<y, x>> \notin R
    BY <1>2
  <2> QED
    BY <2>1 DEF R
<1> QED
  BY <1>3

LEMMA MinOf ==
    ASSUME NEW T \in SUBSET Nat, T # {}
    PROVE  Min(T) \in T /\ \A y \in T : Min(T) <= y
  BY LeastElement DEF Min

LEMMA TrackerBounds ==
    Week \in Nat /\ SellWindow \in Nat /\ MaxClock \in Nat /\ MaxBuys \in Nat /\ MaxFailures \in Nat
  BY TablesAssumption, TrackerAssumption

LEMMA TrackerInitType == TrackerInit => TrackerTypeOK
<1> SUFFICES ASSUME TrackerInit PROVE TrackerTypeOK
  OBVIOUS
<1>1. clock = 0 /\ 0 \in 0 .. MaxClock /\ 0 \in 0 .. MaxFailures /\ 0 \in 0 .. 0
  BY TrackerBounds DEF TrackerInit
<1>2. scan \in [step : {"idle", "look", "record"}, left : SUBSET [of : Bags, block : 0 .. MaxClock],
                latest : 0 .. clock, found : TradeRow \cup {None}]
  BY <1>1 DEF TrackerInit, IdleScan
<1>3. scan.step = "idle" /\ scan.found = None
  BY DEF TrackerInit, IdleScan
<1> QED
  BY <1>1, <1>2, <1>3 DEF TrackerInit, TrackerTypeOK

LEMMA StatementType ==
    ASSUME TrackerTypeOK, NEW ok \in BOOLEAN, Statement(ok)
    PROVE  /\ failures' \in 0 .. MaxFailures /\ failures' \in Nat /\ failures \in Nat
           /\ failures <= failures' /\ (~ok => failures' = failures + 1)
  BY TrackerBounds DEF TrackerTypeOK, Statement

LEMMA RowsAreTrades ==
    ASSUME TrackerTypeOK, NEW of, NEW action, NEW r \in Rows(of, action)
    PROVE  r \in trades /\ r \in TradeRow /\ r.of = of /\ r.action = action /\ r.block \in Nat
  BY TrackerBounds DEF TrackerTypeOK, Rows, TradeRow

\* A record is the first purchase of a wallet, of those that count.
LEMMA RecordsAreBought ==
    ASSUME TrackerTypeOK, NEW q \in Records
    PROVE  /\ q \in [of : Bags, block : 0 .. MaxClock]
           /\ \E b \in Rows(q.of, "BUY") : b.block = q.block
<1> DEFINE bought == {r \in trades : r.action = "BUY" /\ r.time + Week > clock}
           blocks(s) == {r.block : r \in {b \in bought : b.of = s}}
<1>1. \A r \in bought : r \in TradeRow /\ r \in Rows(r.of, "BUY") /\ r.of \in Bags /\ r.block \in 0 .. MaxClock
  BY DEF TrackerTypeOK, TradeRow, Rows
<1>2. PICK s \in {r.of : r \in bought} : q = [of |-> s, block |-> Min(blocks(s))]
  BY DEF Records
<1>3. \A x \in blocks(s) : x \in 0 .. MaxClock
  BY <1>1
<1>4. blocks(s) \in SUBSET Nat /\ blocks(s) # {}
  BY <1>2, <1>3, TrackerBounds
<1>5. Min(blocks(s)) \in blocks(s)
  <2> HIDE DEF blocks
  <2> QED
    BY <1>4, MinOf
<1>6. PICK b \in bought : b.of = s /\ b.block = Min(blocks(s))
  BY <1>5
<1> HIDE DEF blocks, bought
<1>7. q.of = s /\ q.block = Min(blocks(s))
  BY <1>2
<1>8. b \in Rows(s, "BUY") /\ s \in Bags /\ b.block \in 0 .. MaxClock
  BY <1>1, <1>6
<1> QED
  BY <1>2, <1>6, <1>7, <1>8

\* The one query of a record sees its window up to the latest block.
LEMMA LogsAreInWindow ==
    ASSUME TrackerTypeOK, NEW q \in scan.left
    PROVE  Logs(q) = InWindow(q, scan.latest)
<1>1. q.of \in Bags /\ q.block \in Nat /\ scan.latest \in Nat /\ clock \in Nat
  BY TrackerBounds DEF TrackerTypeOK
<1>2. sales[q.of] \subseteq Nat
  BY <1>1 DEF TrackerTypeOK
<1>3. q.block + SellWindow \in Nat
  BY <1>1, TrackerBounds
<1> DEFINE ends == {q.block + SellWindow, scan.latest}
<1>4. Min(ends) \in ends /\ \A y \in ends : Min(ends) <= y
  <2>1. ends \in SUBSET Nat /\ ends # {}
    BY <1>1, <1>3
  <2> HIDE DEF ends
  <2> QED
    BY <2>1, MinOf
<1>5. Min(ends) \in Nat /\ Min(ends) <= q.block + SellWindow /\ Min(ends) <= scan.latest
  BY <1>1, <1>3, <1>4
<1>6. Min(ends) = q.block + SellWindow \/ Min(ends) = scan.latest
  BY <1>4
<1> DEFINE to == Min(ends)
<1>7. to \in Nat /\ to <= q.block + SellWindow /\ to <= scan.latest
        /\ (to = q.block + SellWindow \/ to = scan.latest)
  BY <1>5, <1>6
<1>8. Logs(q) = sales[q.of] \cap ((q.block + 1) .. to)
  BY DEF Logs
<1> HIDE DEF to, ends
<1>9. ASSUME NEW b \in Nat
      PROVE  b \in (q.block + 1) .. to <=> q.block < b /\ b <= q.block + SellWindow /\ b <= scan.latest
  BY <1>1, <1>3, <1>7
<1> QED
  BY <1>2, <1>8, <1>9 DEF InWindow

LEMMA FoundType ==
    ASSUME TrackerTypeOK, NEW q \in scan.left, Logs(q) # {}
    PROVE  /\ Min(Logs(q)) \in Logs(q)
           /\ Min(Logs(q)) \in sales[q.of] /\ Min(Logs(q)) \in 0 .. MaxClock
           /\ Min(Logs(q)) <= scan.latest /\ q.block < Min(Logs(q))
           /\ Min(Logs(q)) <= q.block + SellWindow
<1>1. q.of \in Bags /\ clock \in 0 .. MaxClock /\ sales[q.of] \subseteq 0 .. clock
  BY DEF TrackerTypeOK
<1>2. Logs(q) \subseteq sales[q.of]
  BY DEF Logs
<1>3. Logs(q) \in SUBSET Nat
  BY <1>1, <1>2, TrackerBounds
<1>4. Min(Logs(q)) \in Logs(q)
  BY <1>3, MinOf
<1>5. Min(Logs(q)) \in InWindow(q, scan.latest)
  BY <1>4, LogsAreInWindow
<1>6. Min(Logs(q)) \in 0 .. clock
  BY <1>1, <1>2, <1>4
<1>7. Min(Logs(q)) \in 0 .. MaxClock
  BY <1>1, <1>6, TrackerBounds
<1> QED
  BY <1>2, <1>4, <1>5, <1>7 DEF InWindow

-----------------------------------------------------------------------------
(* SellTracker: its types. *)

ScanType == [step : {"idle", "look", "record"}, left : SUBSET [of : Bags, block : 0 .. MaxClock],
             latest : 0 .. clock, found : TradeRow \cup {None}]

LEMMA MineType ==
    ASSUME TrackerTypeOK, NEW sold \in SUBSET Bags, Mine(sold)
    PROVE  TrackerTypeOK'
<1>1. clock \in Nat /\ clock + 1 \in 0 .. MaxClock /\ clock' = clock + 1
  BY TrackerBounds DEF TrackerTypeOK, Mine
<1>2. 0 .. clock \subseteq 0 .. clock' /\ clock' \in 0 .. clock'
  BY <1>1
<1>3. \A s \in Bags : sales[s] \cup (IF s \in sold THEN {clock'} ELSE {}) \in SUBSET (0 .. clock')
  BY <1>2 DEF TrackerTypeOK
<1>4. sales' \in [Bags -> SUBSET (0 .. clock')]
  BY <1>3 DEF Mine
<1>5. scan' \in ScanType'
  BY <1>2 DEF TrackerTypeOK, Mine, ScanType
<1>6. IF scan'.step = "record" THEN scan'.found \in TradeRow /\ scan'.found.block <= scan'.latest
                               ELSE scan'.found = None
  BY DEF TrackerTypeOK, Mine
<1>7. failures' \in 0 .. MaxFailures /\ trades' \subseteq TradeRow /\ due' \subseteq Bags /\ whole' \in BOOLEAN
  BY DEF TrackerTypeOK, Mine, trackerHistory
<1> QED
  BY <1>1, <1>4, <1>5, <1>6, <1>7 DEF TrackerTypeOK, ScanType

LEMMA BuyType ==
    ASSUME TrackerTypeOK, NEW of \in Bags, Buy(of)
    PROVE  TrackerTypeOK'
<1>1. [of |-> of, action |-> "BUY", block |-> clock, time |-> clock] \in TradeRow
  BY DEF TrackerTypeOK, TradeRow
<1>2. trades' \subseteq TradeRow
  BY <1>1 DEF TrackerTypeOK, Buy
<1>3. TradeRow' = TradeRow
  BY DEF TradeRow
<1> QED
  BY <1>2 DEF TrackerTypeOK, Buy, trackerHistory

LEMMA StartType ==
    ASSUME TrackerTypeOK, StartScan
    PROVE  TrackerTypeOK'
<1>1. Records \subseteq [of : Bags, block : 0 .. MaxClock]
  BY RecordsAreBought
<1>2. clock \in 0 .. clock
  BY TrackerBounds DEF TrackerTypeOK
<1>3. scan' = [step |-> "look", left |-> Records, latest |-> clock, found |-> None]
  BY DEF StartScan, IdleScan
<1>4. scan' \in ScanType'
  BY <1>1, <1>2, <1>3 DEF ScanType, StartScan
<1>5. due' \subseteq Bags
  BY <1>1 DEF StartScan
<1>6. scan'.step = "look" /\ scan'.found = None
  BY <1>3
<1> QED
  BY <1>4, <1>5, <1>6 DEF TrackerTypeOK, StartScan, ScanType

LEMMA KnownType ==
    ASSUME TrackerTypeOK, NEW record \in scan.left, Known(record)
    PROVE  TrackerTypeOK'
<1>1. scan' = [scan EXCEPT !.left = scan.left \ {record}] /\ scan.step = "look"
  BY DEF Known
<1>2. scan' \in ScanType /\ scan'.step = "look" /\ scan'.found = None
  BY <1>1 DEF TrackerTypeOK, ScanType
<1> QED
  BY <1>2 DEF TrackerTypeOK, Known, ScanType, trackerHistory

\* The row that a record yields.
Sale(q) == [of |-> q.of, action |-> "SELL", block |-> Min(Logs(q)), time |-> clock]

LEMMA SaleType ==
    ASSUME TrackerTypeOK, NEW q \in scan.left, Logs(q) # {}
    PROVE  Sale(q) \in TradeRow /\ Sale(q).block <= scan.latest
  BY FoundType DEF TrackerTypeOK, TradeRow, Sale

LEMMA LookType ==
    ASSUME TrackerTypeOK, NEW record \in scan.left, Look(record)
    PROVE  TrackerTypeOK'
<1>1. scan.step = "look" /\ scan.found = None
  BY DEF Look, TrackerTypeOK
<1>2. Statement(Rows(record.of, "SELL") = {}) /\ UNCHANGED <<clock, sales, trades, due>>
  BY DEF Look
<1>3. failures' \in 0 .. MaxFailures
  BY <1>2, StatementType
<1>4. PICK answer \in BOOLEAN :
        /\ scan' = IF answer /\ Logs(record) # {}
                     THEN [scan EXCEPT !.left = scan.left \ {record}, !.step = "record", !.found = Sale(record)]
                     ELSE [scan EXCEPT !.left = scan.left \ {record}]
        /\ whole' = (whole /\ answer)
  BY DEF Look, Sale
<1>5. scan' \in ScanType /\ (IF scan'.step = "record" THEN scan'.found \in TradeRow /\ scan'.found.block <= scan'.latest
                                                      ELSE scan'.found = None)
  <2>1. CASE answer /\ Logs(record) # {}
    <3>1. Sale(record) \in TradeRow /\ Sale(record).block <= scan.latest
      BY <2>1, SaleType
    <3>2. scan' = [scan EXCEPT !.left = scan.left \ {record}, !.step = "record", !.found = Sale(record)]
      BY <1>4, <2>1
    <3> QED
      BY <3>1, <3>2 DEF TrackerTypeOK, ScanType
  <2>2. CASE ~(answer /\ Logs(record) # {})
    <3>1. scan' = [scan EXCEPT !.left = scan.left \ {record}]
      BY <1>4, <2>2
    <3> QED
      BY <1>1, <3>1 DEF TrackerTypeOK, ScanType
  <2> QED
    BY <2>1, <2>2
<1>6. whole' \in BOOLEAN
  BY <1>4 DEF TrackerTypeOK
<1> QED
  BY <1>2, <1>3, <1>5, <1>6 DEF TrackerTypeOK, ScanType

\* The row that is written.
Written == [scan.found EXCEPT !.time = clock]

LEMMA WrittenType ==
    ASSUME TrackerTypeOK, scan.step = "record"
    PROVE  /\ Written \in TradeRow /\ Written.of = scan.found.of /\ Written.action = scan.found.action
           /\ Written.block = scan.found.block /\ scan.found \in TradeRow
  BY DEF TrackerTypeOK, TradeRow, Written

\* A record is booked, was booked already, or its insertion failed.
LEMMA RecordCases ==
    ASSUME Record
    PROVE  /\ scan.step = "record"
           /\ scan' = [scan EXCEPT !.step = "look", !.found = None]
           /\ UNCHANGED <<clock, sales, due>>
           /\ \/ /\ trades' = trades \cup {Written} /\ whole' = whole
                 /\ ((Booked(scan.found) = {} /\ Statement(TRUE)) \/ Statement(FALSE))
              \/ trades' = trades /\ whole' = whole /\ Booked(scan.found) # {} /\ Statement(TRUE)
              \/ trades' = trades /\ whole' = FALSE /\ Statement(FALSE)
  BY DEF Record, Written

LEMMA RecordType ==
    ASSUME TrackerTypeOK, Record
    PROVE  TrackerTypeOK'
<1>1. /\ scan.step = "record" /\ scan' = [scan EXCEPT !.step = "look", !.found = None]
      /\ UNCHANGED <<clock, sales, due>>
  BY RecordCases
<1>2. trades' \subseteq trades \cup {Written} /\ (Statement(TRUE) \/ Statement(FALSE))
        /\ (whole' = whole \/ whole' = FALSE)
  BY RecordCases
<1>3. trades' \subseteq TradeRow
  BY <1>1, <1>2, WrittenType DEF TrackerTypeOK
<1>4. failures' \in 0 .. MaxFailures
  BY <1>2, StatementType
<1>5. scan' \in ScanType /\ scan'.step = "look" /\ scan'.found = None
  BY <1>1 DEF TrackerTypeOK, ScanType
<1>6. whole' \in BOOLEAN
  BY <1>2 DEF TrackerTypeOK
<1> QED
  BY <1>1, <1>3, <1>4, <1>5, <1>6 DEF TrackerTypeOK, ScanType

LEMMA IdleType ==
    ASSUME TrackerTypeOK, scan' = IdleScan, whole' \in BOOLEAN, UNCHANGED <<clock, sales, trades, failures, due>>
    PROVE  TrackerTypeOK'
<1>1. 0 \in 0 .. clock
  BY TrackerBounds DEF TrackerTypeOK
<1>2. scan' \in ScanType /\ scan'.step = "idle" /\ scan'.found = None
  BY <1>1 DEF IdleScan, ScanType
<1> QED
  BY <1>2 DEF TrackerTypeOK, ScanType

LEMMA TrackerNextType == TrackerTypeOK /\ [TrackerNext]_trackerVars => TrackerTypeOK'
<1> SUFFICES ASSUME TrackerTypeOK, [TrackerNext]_trackerVars PROVE TrackerTypeOK'
  OBVIOUS
<1>1. ASSUME NEW sold \in SUBSET Bags, Mine(sold) PROVE TrackerTypeOK'
  BY <1>1, MineType
<1>2. ASSUME NEW of \in Bags, Buy(of) PROVE TrackerTypeOK'
  BY <1>2, BuyType
<1>3. CASE StartScan
  BY <1>3, StartType
<1>4. CASE Record
  BY <1>4, RecordType
<1>5. CASE EndScan
  BY <1>5, IdleType DEF EndScan, trackerHistory, TrackerTypeOK
<1>6. CASE TrackerCrash
  BY <1>6, IdleType DEF TrackerCrash
<1>7. ASSUME NEW record \in scan.left, Known(record) PROVE TrackerTypeOK'
  BY <1>7, KnownType
<1>8. ASSUME NEW record \in scan.left, Look(record) PROVE TrackerTypeOK'
  BY <1>8, LookType
<1>9. CASE UNCHANGED trackerVars
  BY <1>9 DEF trackerVars, trackerHistory, TrackerTypeOK
<1> QED
  BY <1>1, <1>2, <1>3, <1>4, <1>5, <1>6, <1>7, <1>8, <1>9 DEF TrackerNext

\* Whatever the process reads, loses or writes twice, the records of a scan have wallets,
\* tokens and blocks, and what it found is a row that may be written.
THEOREM TrackerTypeCorrect == TrackerSpec => []TrackerTypeOK
  BY TrackerInitType, TrackerNextType, PTL DEF TrackerSpec

-----------------------------------------------------------------------------
(* Sales are real.  Not inductive: a row is written from what the scan     *)
(* carries, so the scan's records and what it found have to be real too,   *)
(* and it has to be known that the first of the two counts has been done.  *)

\* A sale of what was bought, in the window of the purchase.
IsReal(s) ==
    /\ s.block \in sales[s.of]
    /\ \E b \in Rows(s.of, "BUY") : b.block < s.block /\ s.block <= b.block + SellWindow

LeftIsBought == \A q \in scan.left : \E b \in Rows(q.of, "BUY") : b.block = q.block

FoundIsReal ==
    scan.step = "record" =>
      /\ scan.found.action = "SELL" /\ IsReal(scan.found)
      /\ Rows(scan.found.of, "SELL") = {} \/ failures >= 1

RealInv == LeftIsBought /\ FoundIsReal /\ SalesAreReal

LEMMA InitReal == TrackerInit => RealInv
  BY DEF TrackerInit, IdleScan, RealInv, LeftIsBought, FoundIsReal, SalesAreReal

\* What is real stays real while the tables and the chain only grow.
LEMMA RealStays ==
    ASSUME trades \subseteq trades', NEW s, s.of \in Bags, IsReal(s),
           sales[s.of] \subseteq sales'[s.of]
    PROVE  IsReal(s)'
  BY DEF IsReal, Rows

\* Steps that book nothing and leave the scan's records alone, or end it.
LEMMA QuietReal ==
    ASSUME TrackerTypeOK, RealInv, failures' = failures, trades \subseteq trades',
           \A r \in trades' \ trades : r.action = "BUY",
           \A s \in Bags : sales[s] \subseteq sales'[s],
           scan'.left \subseteq scan.left, scan'.step = "record" => scan' = scan
    PROVE  RealInv'
<1>1. \A of : Rows(of, "SELL")' = Rows(of, "SELL") /\ Rows(of, "BUY") \subseteq Rows(of, "BUY")'
  BY DEF Rows
<1>2. LeftIsBought'
  BY <1>1 DEF RealInv, LeftIsBought
<1>3. FoundIsReal'
  <2> SUFFICES ASSUME scan'.step = "record"
               PROVE  /\ scan.found.action = "SELL" /\ IsReal(scan.found)'
                      /\ Rows(scan.found.of, "SELL") = {} \/ failures >= 1
    BY <1>1 DEF FoundIsReal, IsReal
  <2>1. scan' = scan /\ scan.step = "record" /\ scan.found.of \in Bags
    BY DEF TrackerTypeOK, TradeRow
  <2> QED
    BY <2>1, RealStays DEF RealInv, FoundIsReal
<1>4. SalesAreReal'
  <2> SUFFICES ASSUME NEW s \in trades', s.action = "SELL"
               PROVE  IsReal(s)' /\ (failures < 2 => Booked(s)' = {s})
    BY DEF SalesAreReal, IsReal
  <2>1. s \in trades /\ s.of \in Bags
    BY DEF TrackerTypeOK, TradeRow
  <2>2. Booked(s)' = Booked(s)
    BY <1>1 DEF Booked
  <2>3. IsReal(s) /\ (failures < 2 => Booked(s) = {s})
    BY <2>1 DEF RealInv, SalesAreReal, IsReal
  <2> QED
    BY <2>1, <2>2, <2>3, RealStays
<1> QED
  BY <1>2, <1>3, <1>4 DEF RealInv

LEMMA StartReal ==
    ASSUME TrackerTypeOK, RealInv, StartScan
    PROVE  RealInv'
<1>1. scan'.left = Records /\ scan'.step = "look"
        /\ UNCHANGED <<clock, sales, trades, failures>>
  BY DEF StartScan, IdleScan
<1>2. \A of, action : Rows(of, action)' = Rows(of, action)
  BY <1>1 DEF Rows
<1>3. LeftIsBought'
  BY <1>1, <1>2, RecordsAreBought DEF LeftIsBought
<1>4. FoundIsReal'
  BY <1>1 DEF FoundIsReal
<1>5. SalesAreReal'
  BY <1>1, <1>2 DEF RealInv, SalesAreReal, Booked
<1> QED
  BY <1>3, <1>4, <1>5 DEF RealInv

LEMMA LookReal ==
    ASSUME TrackerTypeOK, RealInv, NEW record \in scan.left, Look(record)
    PROVE  RealInv'
<1>1. Statement(Rows(record.of, "SELL") = {}) /\ UNCHANGED <<clock, sales, trades, due>>
  BY DEF Look
<1>2. failures' \in Nat /\ failures \in Nat /\ failures <= failures'
        /\ (Rows(record.of, "SELL") # {} => failures' >= 1)
  <2>1. CASE Rows(record.of, "SELL") = {}
    <3>1. Statement(TRUE)
      BY <1>1, <2>1
    <3> QED
      BY <2>1, <3>1, StatementType
  <2>2. CASE Rows(record.of, "SELL") # {}
    <3>1. Statement(FALSE)
      BY <1>1, <2>2
    <3>2. failures' \in Nat /\ failures \in Nat /\ failures' = failures + 1
      BY <3>1, StatementType
    <3> QED
      BY <3>2
  <2> QED
    BY <2>1, <2>2
<1>3. \A of, action : Rows(of, action)' = Rows(of, action)
  BY <1>1 DEF Rows
<1>4. scan'.left \subseteq scan.left
        /\ (scan'.step = "record" => Logs(record) # {} /\ scan'.found = Sale(record))
  <2>1. scan.step = "look" /\ scan \in ScanType
    BY DEF Look, TrackerTypeOK, ScanType
  <2>2. \/ scan' = [scan EXCEPT !.left = scan.left \ {record}]
        \/ scan' = [scan EXCEPT !.left = scan.left \ {record}, !.step = "record", !.found = Sale(record)]
             /\ Logs(record) # {}
    BY DEF Look, Sale
  <2> QED
    BY <2>1, <2>2 DEF ScanType
<1>5. LeftIsBought'
  BY <1>3, <1>4 DEF RealInv, LeftIsBought
<1>6. FoundIsReal'
  <2> SUFFICES ASSUME scan'.step = "record"
               PROVE  /\ scan'.found.action = "SELL" /\ IsReal(scan'.found)
                      /\ Rows(scan'.found.of, "SELL") = {} \/ failures' >= 1
    BY <1>1, <1>3 DEF FoundIsReal, IsReal
  <2>1. PICK b \in Rows(record.of, "BUY") : b.block = record.block
    BY DEF RealInv, LeftIsBought
  <2>2. /\ Min(Logs(record)) \in sales[record.of] /\ record.block < Min(Logs(record))
        /\ Min(Logs(record)) <= record.block + SellWindow
    BY <1>4, FoundType
  <2>3. scan'.found = Sale(record) /\ scan'.found.of = record.of /\ scan'.found.action = "SELL"
          /\ scan'.found.block = Min(Logs(record))
    BY <1>4 DEF Sale
  <2> QED
    BY <1>2, <2>1, <2>2, <2>3 DEF IsReal
<1>7. SalesAreReal'
  <2> SUFFICES ASSUME NEW s \in trades, s.action = "SELL"
               PROVE  IsReal(s) /\ (failures' < 2 => Booked(s) = {s})
    BY <1>1, <1>3 DEF SalesAreReal, IsReal, Booked
  <2> QED
    BY <1>2 DEF RealInv, SalesAreReal, IsReal
<1> QED
  BY <1>5, <1>6, <1>7 DEF RealInv

\* A row of a sale that is written twice was not counted twice: two statements failed.
LEMMA RecordReal ==
    ASSUME TrackerTypeOK, RealInv, Record
    PROVE  RealInv'
<1>1. /\ scan.step = "record" /\ scan' = [scan EXCEPT !.step = "look", !.found = None]
      /\ UNCHANGED <<clock, sales, due>>
  BY RecordCases
<1>2. Written \in TradeRow /\ Written.of = scan.found.of /\ Written.action = "SELL"
        /\ Written.block = scan.found.block /\ scan.found \in TradeRow
  BY <1>1, WrittenType DEF RealInv, FoundIsReal
<1>3. trades \subseteq trades' /\ trades' \subseteq trades \cup {Written}
  BY RecordCases
<1>4. scan'.left = scan.left /\ scan'.step = "look"
  BY <1>1 DEF TrackerTypeOK, ScanType
<1>5. \A of : Rows(of, "BUY")' = Rows(of, "BUY")
  BY <1>2, <1>3 DEF Rows
<1>6. LeftIsBought'
  BY <1>4, <1>5 DEF RealInv, LeftIsBought
<1>7. FoundIsReal'
  BY <1>4 DEF FoundIsReal
<1>8. failures' \in Nat /\ failures \in Nat /\ failures <= failures'
  <2>1. Statement(TRUE) \/ Statement(FALSE)
    BY RecordCases
  <2> QED
    BY <2>1, StatementType
<1>9. IsReal(Written)
  BY <1>1, <1>2 DEF RealInv, FoundIsReal, IsReal
<1>10. trades' # trades => (failures' < 2 => Booked(Written) = {})
  <2> SUFFICES ASSUME trades' # trades, failures' < 2
               PROVE  Booked(Written) = {}
    OBVIOUS
  <2>1. Booked(scan.found) = {} \/ Statement(FALSE)
    BY RecordCases
  <2>2. CASE Booked(scan.found) = {}
    BY <1>2, <2>2 DEF Booked, Rows
  <2>3. CASE Statement(FALSE)
    <3>1. failures' = failures + 1
      BY <2>3, StatementType
    <3>3. failures = 0
      BY <1>8, <3>1
    <3>2. Rows(scan.found.of, "SELL") = {}
      BY <1>1, <3>3 DEF RealInv, FoundIsReal
    <3> QED
      BY <1>2, <3>2 DEF Booked, Rows
  <2> QED
    BY <2>1, <2>2, <2>3
<1>11. SalesAreReal'
  <2> SUFFICES ASSUME NEW s \in trades', s.action = "SELL"
               PROVE  IsReal(s) /\ (failures' < 2 => Booked(s)' = {s})
    BY <1>1, <1>5 DEF SalesAreReal, IsReal
  <2>1. s \in trades \/ s = Written
    BY <1>3
  <2>2. IsReal(s)
    BY <1>9, <2>1 DEF RealInv, SalesAreReal, IsReal
  <2>3. s \in trades => (failures' < 2 => Booked(s) = {s})
    BY <1>8 DEF RealInv, SalesAreReal
  <2>4. Booked(s)' \subseteq Booked(s) \cup {Written} /\ s \in Booked(s)'
    BY <1>3 DEF Booked, Rows
  <2>5. CASE trades' = trades
    <3>1. Booked(s)' = Booked(s) /\ s \in trades
      BY <2>5 DEF Booked, Rows
    <3> QED
      BY <2>2, <2>3, <3>1
  <2>6. CASE trades' # trades
    <3> SUFFICES ASSUME failures' < 2 PROVE Booked(s)' = {s}
      BY <2>2
    <3>1. Booked(Written) = {}
      BY <1>10, <2>6
    <3>2. CASE s = Written
      BY <2>4, <3>1, <3>2
    <3>3. CASE s \in trades
      <4>1. Booked(s) = {s}
        BY <2>3, <3>3
      <4>2. Written \notin Booked(s)'
        BY <1>3, <3>1, <3>3 DEF Booked, Rows
      <4> QED
        BY <2>4, <4>1, <4>2
    <3> QED
      BY <2>1, <3>2, <3>3
  <2> QED
    BY <2>5, <2>6
<1> QED
  BY <1>6, <1>7, <1>11 DEF RealInv

LEMMA NextReal == TrackerTypeOK /\ RealInv /\ [TrackerNext]_trackerVars => RealInv'
<1> SUFFICES ASSUME TrackerTypeOK, RealInv, [TrackerNext]_trackerVars PROVE RealInv'
  OBVIOUS
<1>1. ASSUME NEW sold \in SUBSET Bags, Mine(sold) PROVE RealInv'
  BY <1>1, QuietReal DEF Mine, TrackerTypeOK
<1>2. ASSUME NEW of \in Bags, Buy(of) PROVE RealInv'
  BY <1>2, QuietReal DEF Buy, TrackerTypeOK
<1>3. CASE StartScan
  BY <1>3, StartReal
<1>4. CASE Record
  BY <1>4, RecordReal
<1>5. CASE EndScan
  BY <1>5, QuietReal DEF EndScan, IdleScan
<1>6. CASE TrackerCrash
  BY <1>6, QuietReal DEF TrackerCrash, IdleScan
<1>7. ASSUME NEW record \in scan.left, Known(record) PROVE RealInv'
  BY <1>7, QuietReal DEF Known, TrackerTypeOK
<1>8. ASSUME NEW record \in scan.left, Look(record) PROVE RealInv'
  BY <1>8, LookReal
<1>9. CASE UNCHANGED trackerVars
  BY <1>9, QuietReal DEF trackerVars
<1> QED
  BY <1>1, <1>2, <1>3, <1>4, <1>5, <1>6, <1>7, <1>8, <1>9 DEF TrackerNext

\* Every sale that RecordSmartWalletTradeWithPrice writes happened on the chain, in the
\* window of a recorded purchase, and is there once unless two statements failed:
\* whatever crashes, however blocks and purchases arrive during a scan.
THEOREM SalesAreRealHolds == TrackerSpec => []SalesAreReal
<1>1. TrackerTypeOK /\ RealInv /\ [TrackerNext]_trackerVars => TrackerTypeOK' /\ RealInv'
  BY TrackerNextType, NextReal
<1>2. RealInv => SalesAreReal
  BY DEF RealInv
<1> QED
  BY <1>1, <1>2, TrackerInitType, InitReal, PTL DEF TrackerSpec

-----------------------------------------------------------------------------
(* A scan misses nothing.                                                  *)

\* While nothing of a scan has failed, a pair that is due is booked, is still to be
\* looked at with its sale in sight, or is about to be booked.
DueIsPending ==
    whole => \A s \in due :
      \/ Rows(s, "SELL") # {}
      \/ \E q \in scan.left : q.of = s /\ InWindow(q, scan.latest) # {}
      \/ scan.step = "record" /\ scan.found.of = s

\* Only an ongoing scan has records left.
IdleHasNoneLeft == scan.step = "idle" => scan.left = {}

DueInv == DueIsPending /\ IdleHasNoneLeft

LEMMA InitDue == TrackerInit => DueInv
  BY DEF TrackerInit, IdleScan, DueInv, DueIsPending, IdleHasNoneLeft

\* Steps that change neither the scan nor what it is to find.
LEMMA QuietDue ==
    ASSUME TrackerTypeOK, DueInv, UNCHANGED <<scan, trackerHistory>>, trades \subseteq trades',
           \A s \in Bags : sales[s] \subseteq sales'[s]
    PROVE  DueInv'
<1>1. \A s : Rows(s, "SELL") \subseteq Rows(s, "SELL")'
  BY DEF Rows
<1>2. \A q \in scan.left : InWindow(q, scan.latest) \subseteq InWindow(q, scan.latest)'
  BY DEF InWindow, TrackerTypeOK
<1> QED
  BY <1>1, <1>2 DEF DueInv, DueIsPending, IdleHasNoneLeft, trackerHistory

LEMMA StartDue ==
    ASSUME TrackerTypeOK, DueInv, StartScan
    PROVE  DueInv'
<1>1. scan'.left = Records /\ scan'.step = "look" /\ scan'.latest = clock
        /\ UNCHANGED <<clock, sales, trades, failures>>
        /\ due' = {r.of : r \in {q \in Records : InWindow(q, clock) # {}}}
  BY DEF StartScan, IdleScan
<1>2. \A s \in due' : \E q \in Records : q.of = s /\ InWindow(q, clock) # {}
  BY <1>1
<1>3. \A q : InWindow(q, clock)' = InWindow(q, clock)
  BY <1>1 DEF InWindow
<1> QED
  BY <1>1, <1>2, <1>3 DEF DueInv, DueIsPending, IdleHasNoneLeft, InWindow

LEMMA KnownDue ==
    ASSUME TrackerTypeOK, DueInv, NEW record \in scan.left, Known(record)
    PROVE  DueInv'
<1>1. scan' = [scan EXCEPT !.left = scan.left \ {record}] /\ scan.step = "look"
        /\ Rows(record.of, "SELL") # {}
        /\ UNCHANGED <<clock, sales, trades, failures, trackerHistory>>
  BY DEF Known
<1>2. scan'.left = scan.left \ {record} /\ scan'.step = "look" /\ scan'.latest = scan.latest
  BY <1>1 DEF TrackerTypeOK, ScanType
<1>3. \A s : Rows(s, "SELL")' = Rows(s, "SELL")
  BY <1>1 DEF Rows
<1>4. \A q : InWindow(q, scan.latest)' = InWindow(q, scan.latest)
  BY <1>1, <1>2 DEF InWindow
<1> QED
  BY <1>1, <1>2, <1>3, <1>4 DEF DueInv, DueIsPending, IdleHasNoneLeft, trackerHistory

LEMMA LookDue ==
    ASSUME TrackerTypeOK, DueInv, NEW record \in scan.left, Look(record)
    PROVE  DueInv'
<1>1. scan.step = "look" /\ UNCHANGED <<clock, sales, trades, due>> /\ scan \in ScanType
  BY DEF Look, TrackerTypeOK, ScanType
<1>2. PICK answer \in BOOLEAN :
        /\ scan' = IF answer /\ Logs(record) # {}
                     THEN [scan EXCEPT !.left = scan.left \ {record}, !.step = "record", !.found = Sale(record)]
                     ELSE [scan EXCEPT !.left = scan.left \ {record}]
        /\ whole' = (whole /\ answer)
  BY DEF Look, Sale
<1>3. /\ scan'.left = scan.left \ {record} /\ scan'.latest = scan.latest /\ scan'.step # "idle"
      /\ (answer /\ Logs(record) # {} => scan'.step = "record" /\ scan'.found.of = record.of)
  BY <1>1, <1>2 DEF ScanType, Sale
<1>4. \A s : Rows(s, "SELL")' = Rows(s, "SELL")
  BY <1>1 DEF Rows
<1>5. \A q : InWindow(q, scan.latest)' = InWindow(q, scan.latest)
  BY <1>1, <1>3 DEF InWindow
<1>6. Logs(record) = InWindow(record, scan.latest)
  BY LogsAreInWindow
<1>7. DueIsPending'
  <2> SUFFICES ASSUME whole', NEW s \in due
               PROVE  \/ Rows(s, "SELL") # {}
                      \/ \E q \in scan'.left : q.of = s /\ InWindow(q, scan.latest) # {}
                      \/ scan'.step = "record" /\ scan'.found.of = s
    BY <1>1, <1>4, <1>5 DEF DueIsPending
  <2>1. whole /\ answer
    BY <1>2
  <2>2. \/ Rows(s, "SELL") # {}
        \/ \E q \in scan.left : q.of = s /\ InWindow(q, scan.latest) # {}
    BY <1>1, <2>1 DEF DueInv, DueIsPending
  <2> QED
    BY <1>3, <1>6, <2>1, <2>2
<1> QED
  BY <1>3, <1>7 DEF DueInv, IdleHasNoneLeft

LEMMA RecordDue ==
    ASSUME TrackerTypeOK, RealInv, DueInv, Record
    PROVE  DueInv'
<1>1. /\ scan.step = "record" /\ scan' = [scan EXCEPT !.step = "look", !.found = None]
      /\ UNCHANGED <<clock, sales, due>>
  BY RecordCases
<1>2. Written.of = scan.found.of /\ Written.action = "SELL"
  BY <1>1, WrittenType DEF RealInv, FoundIsReal
<1>3. trades \subseteq trades' /\ (whole' => whole)
        /\ (whole' => Written \in trades' \/ Booked(scan.found) # {})
  <2>1. CASE trades' = trades \cup {Written} /\ whole' = whole
    BY <2>1
  <2>2. CASE trades' = trades /\ whole' = whole /\ Booked(scan.found) # {}
    BY <2>2
  <2>3. CASE trades' = trades /\ whole' = FALSE
    BY <2>3
  <2> QED
    BY <2>1, <2>2, <2>3, RecordCases
<1>4. scan'.left = scan.left /\ scan'.step = "look" /\ scan'.latest = scan.latest
  BY <1>1 DEF TrackerTypeOK, ScanType
<1>5. \A s : Rows(s, "SELL") \subseteq Rows(s, "SELL")'
  BY <1>3 DEF Rows
<1>6. ASSUME whole', NEW s, s = scan.found.of PROVE Rows(s, "SELL")' # {}
  <2>1. CASE Written \in trades'
    <3>1. Written \in {r \in trades' : r.of = s /\ r.action = "SELL"}
      BY <1>2, <1>6, <2>1
    <3> QED
      BY <3>1 DEF Rows
  <2>2. CASE Booked(scan.found) # {}
    BY <1>5, <1>6, <2>2 DEF Booked
  <2> QED
    BY <1>3, <1>6, <2>1, <2>2
<1>7. \A q : InWindow(q, scan.latest)' = InWindow(q, scan.latest)
  BY <1>1, <1>4 DEF InWindow
<1> QED
  BY <1>1, <1>3, <1>4, <1>5, <1>6, <1>7 DEF DueInv, DueIsPending, IdleHasNoneLeft

LEMMA NextDue == TrackerTypeOK /\ RealInv /\ DueInv /\ [TrackerNext]_trackerVars => DueInv'
<1> SUFFICES ASSUME TrackerTypeOK, RealInv, DueInv, [TrackerNext]_trackerVars PROVE DueInv'
  OBVIOUS
<1>1. ASSUME NEW sold \in SUBSET Bags, Mine(sold) PROVE DueInv'
  BY <1>1, QuietDue DEF Mine, TrackerTypeOK
<1>2. ASSUME NEW of \in Bags, Buy(of) PROVE DueInv'
  BY <1>2, QuietDue DEF Buy
<1>3. CASE StartScan
  BY <1>3, StartDue
<1>4. CASE Record
  BY <1>4, RecordDue
<1>5. CASE EndScan
  <2>1. scan'.step = "idle" /\ scan'.left = {} /\ scan.left = {} /\ scan.step = "look"
          /\ UNCHANGED <<trades, due, whole>>
    BY <1>5 DEF EndScan, IdleScan, trackerHistory
  <2> QED
    BY <2>1 DEF DueInv, DueIsPending, IdleHasNoneLeft, Rows
<1>6. CASE TrackerCrash
  BY <1>6 DEF TrackerCrash, IdleScan, DueInv, DueIsPending, IdleHasNoneLeft
<1>7. ASSUME NEW record \in scan.left, Known(record) PROVE DueInv'
  BY <1>7, KnownDue
<1>8. ASSUME NEW record \in scan.left, Look(record) PROVE DueInv'
  BY <1>8, LookDue
<1>9. CASE UNCHANGED trackerVars
  BY <1>9, QuietDue DEF trackerVars
<1> QED
  BY <1>1, <1>2, <1>3, <1>4, <1>5, <1>6, <1>7, <1>8, <1>9 DEF TrackerNext

\* When trackSmartWalletSells has gone through its records and nothing failed, every pair
\* that had a sale in its window when the scan began has a booked sale.
THEOREM ScanBooksEverySaleHolds == TrackerSpec => []ScanBooksEverySale
<1>1. TrackerTypeOK /\ RealInv /\ DueInv /\ [TrackerNext]_trackerVars => TrackerTypeOK' /\ RealInv' /\ DueInv'
  BY TrackerNextType, NextReal, NextDue
<1>2. DueInv => ScanBooksEverySale
  BY DEF DueInv, DueIsPending, IdleHasNoneLeft, ScanBooksEverySale
<1> QED
  BY <1>1, <1>2, TrackerInitType, InitReal, InitDue, PTL DEF TrackerSpec
=============================================================================
