----------------------- MODULE IncrementalRoute_proof -----------------------
(***************************************************************************)
(* Proofs about IncrementalRoute, for any netlist, any grid and any number *)
(* of netlist calls.                                                       *)
(***************************************************************************)
EXTENDS IncrementalRoute, FiniteSetTheorems, TLAPS

USE NetlistAssumption

-----------------------------------------------------------------------------
(***************************************************************************)
(* The router's tables, and what the callbacks do to them.                 *)
(***************************************************************************)

\* The fields of the router, and of an entry of db_net_map_.
Fields(q) == DOMAIN q = {"map", "dirty", "routes", "tree", "usage", "alive"}
Entries(q) == \A n \in DOMAIN q.map : DOMAIN q.map[n] = {"pins", "last", "dirty", "merged"}

Router(q) == Fields(q) /\ Entries(q)

LEMMA DirtiedEntry ==
  ASSUME NEW e, DOMAIN e = {"pins", "last", "dirty", "merged"}
  PROVE  /\ DOMAIN Dirtied(e) = {"pins", "last", "dirty", "merged"}
         /\ Dirtied(e).pins = e.pins /\ Dirtied(e).merged = e.merged
PROOF
  BY DEF Dirtied

LEMMA AddDirtyProperties ==
  ASSUME NEW q, Router(q), NEW N,
         NEW d, d = AddDirty(q, N)
  PROVE  /\ Router(d)
         /\ DOMAIN d.map = DOMAIN q.map
         /\ \A n \in DOMAIN q.map : d.map[n].pins = q.map[n].pins
                                    /\ d.map[n].merged = q.map[n].merged
         /\ d.dirty = q.dirty \cup N
         /\ d.routes = q.routes /\ d.tree = q.tree /\ d.usage = q.usage
         /\ d.alive = (q.alive /\ N \subseteq DOMAIN q.map)
PROOF
  <1> DEFINE map == [n \in DOMAIN q.map |-> IF n \in N THEN Dirtied(q.map[n]) ELSE q.map[n]]
  <1>1. /\ Fields(d)
        /\ d.map = map /\ d.dirty = q.dirty \cup N
        /\ d.routes = q.routes /\ d.tree = q.tree /\ d.usage = q.usage
        /\ d.alive = (q.alive /\ N \subseteq DOMAIN q.map)
    BY DEF AddDirty, Router, Fields
  <1>2. \A n \in DOMAIN q.map : /\ DOMAIN map[n] = {"pins", "last", "dirty", "merged"}
                                /\ map[n].pins = q.map[n].pins
                                /\ map[n].merged = q.map[n].merged
    BY DirtiedEntry DEF Router, Entries
  <1>3. DOMAIN map = DOMAIN q.map
    OBVIOUS
  <1> HIDE DEF map
  <1>4. Router(d)
    BY <1>1, <1>2, <1>3 DEF Router, Entries
  <1> QED BY <1>1, <1>2, <1>3, <1>4

LEMMA PreDisconnectProperties ==
  ASSUME NEW q, Router(q), NEW n, NEW P,
         NEW d, d = PreDisconnect(q, n, P)
  PROVE  /\ Router(d)
         /\ DOMAIN d.map = DOMAIN q.map
         /\ \A m \in DOMAIN q.map : DOMAIN d.map[m].pins \subseteq DOMAIN q.map[m].pins
         /\ n \in DOMAIN q.map => DOMAIN d.map[n].pins \cap P = {}
         /\ \A m \in DOMAIN q.map : d.map[m].merged = q.map[m].merged
         /\ d.dirty = q.dirty \cup {n}
         /\ d.routes = q.routes /\ d.tree = q.tree /\ d.usage = q.usage
         /\ d.alive = (q.alive /\ n \in DOMAIN q.map)
PROOF
  <1> DEFINE a == AddDirty(q, {n})
  <1>1. /\ Router(a)
        /\ DOMAIN a.map = DOMAIN q.map
        /\ \A m \in DOMAIN q.map : a.map[m].pins = q.map[m].pins
                                   /\ a.map[m].merged = q.map[m].merged
        /\ a.dirty = q.dirty \cup {n}
        /\ a.routes = q.routes /\ a.tree = q.tree /\ a.usage = q.usage
        /\ a.alive = (q.alive /\ n \in DOMAIN q.map)
    BY AddDirtyProperties
  <1>2. d = IF P = {} \/ n \notin DOMAIN q.map THEN a
            ELSE [a EXCEPT !.map[n].pins = Restrict(@, DOMAIN @ \ P)]
    BY DEF PreDisconnect
  <1> HIDE DEF a
  <1>3. CASE P = {} \/ n \notin DOMAIN q.map
    BY <1>1, <1>2, <1>3
  <1>4. CASE P # {} /\ n \in DOMAIN q.map
    <2> DEFINE map == [a.map EXCEPT ![n].pins = Restrict(@, DOMAIN @ \ P)]
    <2>1. d = [a EXCEPT !.map = map]
      BY <1>1, <1>2, <1>4 DEF Router, Fields
    <2>2. /\ DOMAIN map = DOMAIN q.map
          /\ \A m \in DOMAIN q.map : m # n => map[m] = a.map[m]
          /\ map[n] = [a.map[n] EXCEPT !.pins = Restrict(@, DOMAIN @ \ P)]
      BY <1>1, <1>4
    <2>3. /\ DOMAIN map[n] = {"pins", "last", "dirty", "merged"}
          /\ map[n].merged = q.map[n].merged
          /\ map[n].pins = Restrict(q.map[n].pins, DOMAIN q.map[n].pins \ P)
      BY <1>1, <1>4, <2>2 DEF Router, Entries
    <2>4. DOMAIN map[n].pins = DOMAIN q.map[n].pins \ P
      BY <2>3 DEF Restrict
    <2> HIDE DEF map
    <2>5. /\ Fields(d) /\ d.map = map /\ d.dirty = a.dirty /\ d.routes = a.routes
          /\ d.tree = a.tree /\ d.usage = a.usage /\ d.alive = a.alive
      BY <1>1, <2>1 DEF Router, Fields
    <2>6. Entries(d)
      BY <1>1, <2>2, <2>3, <2>5 DEF Router, Entries
    <2>7. \A m \in DOMAIN q.map : /\ DOMAIN d.map[m].pins \subseteq DOMAIN q.map[m].pins
                                  /\ d.map[m].merged = q.map[m].merged
      <3> SUFFICES ASSUME NEW m \in DOMAIN q.map
                   PROVE  /\ DOMAIN map[m].pins \subseteq DOMAIN q.map[m].pins
                          /\ map[m].merged = q.map[m].merged
        BY <2>5
      <3>1. CASE m = n
        BY <2>3, <2>4, <3>1
      <3>2. CASE m # n
        BY <1>1, <2>2, <3>2
      <3> QED BY <3>1, <3>2
    <2>11. DOMAIN d.map[n].pins \cap P = {}
      BY <2>4, <2>5
    <2>8. d.alive = (q.alive /\ n \in DOMAIN q.map)
      BY <1>1, <2>5
    <2>9. Router(d) /\ DOMAIN d.map = DOMAIN q.map
      BY <2>2, <2>5, <2>6 DEF Router
    <2>10. /\ d.dirty = q.dirty \cup {n} /\ d.routes = q.routes /\ d.tree = q.tree
           /\ d.usage = q.usage
      BY <1>1, <2>5
    <2> QED BY <2>7, <2>8, <2>9, <2>10, <2>11
  <1> QED BY <1>3, <1>4

LEMMA NetCreatedProperties ==
  ASSUME NEW q, Router(q), NEW n,
         NEW d, d = NetCreated(q, n)
  PROVE  /\ Router(d)
         /\ DOMAIN d.map = DOMAIN q.map \cup {n}
         /\ \A m \in DOMAIN q.map : m # n => d.map[m] = q.map[m]
         /\ DOMAIN d.map[n].pins = {}
         /\ d.dirty = q.dirty /\ d.routes = q.routes /\ d.tree = q.tree
         /\ d.usage = q.usage /\ d.alive = q.alive
PROOF
  <1> DEFINE new == [m \in {n} |-> NewEntry(<<>>)]
             map == With(q.map, new)
  <1>1. /\ Fields(d) /\ d.map = map /\ d.dirty = q.dirty /\ d.routes = q.routes
        /\ d.tree = q.tree /\ d.usage = q.usage /\ d.alive = q.alive
    BY DEF NetCreated, Router, Fields
  <1>2. /\ DOMAIN map = DOMAIN q.map \cup {n}
        /\ \A m \in DOMAIN q.map : m # n => map[m] = q.map[m]
        /\ map[n] = NewEntry(<<>>)
    BY DEF With
  <1>3. /\ DOMAIN NewEntry(<<>>) = {"pins", "last", "dirty", "merged"}
        /\ DOMAIN NewEntry(<<>>).pins = {}
    BY DEF NewEntry
  <1> HIDE DEF map
  <1>4. Entries(d)
    BY <1>1, <1>2, <1>3 DEF Router, Entries
  <1> QED BY <1>1, <1>2, <1>3, <1>4 DEF Router

\* The trees of some nets left out, a net alone, and a net whose routes were
\* joined.
Without(tree, N) == Restrict(tree, DOMAIN tree \ N)
Alone(N, n) == N = {n}
IsMerged(q, n) == n \in DOMAIN q.map /\ q.map[n].merged

LEMMA NetDestroyedProperties ==
  ASSUME NEW q, Router(q), NEW n, NEW N, Alone(N, n),
         NEW d, d = NetDestroyed(q, n)
  PROVE  /\ Router(d)
         /\ DOMAIN d.map = DOMAIN q.map \ N
         /\ \A m \in DOMAIN q.map \ N : d.map[m] = q.map[m]
         /\ d.dirty = q.dirty \ N
         /\ DOMAIN d.routes = DOMAIN q.routes \ N
         /\ d.tree = Without(q.tree, N)
         /\ IsMerged(q, n) => d.usage = q.usage
         /\ ~IsMerged(q, n) => d.usage = Released(q, N)
         /\ d.alive = q.alive
PROOF
  <1>1. /\ Fields(d) /\ d.map = Restrict(q.map, DOMAIN q.map \ N)
        /\ d.dirty = q.dirty \ N
        /\ d.routes = Restrict(q.routes, DOMAIN q.routes \ N)
        /\ d.tree = Without(q.tree, N)
        /\ IsMerged(q, n) => d.usage = q.usage
        /\ ~IsMerged(q, n) => d.usage = Released(q, N)
        /\ d.alive = q.alive
    BY DEF NetDestroyed, Router, Fields, IsMerged, Without, Alone
  <1>2. /\ DOMAIN d.map = DOMAIN q.map \ N
        /\ \A m \in DOMAIN q.map \ N : d.map[m] = q.map[m]
        /\ DOMAIN d.routes = DOMAIN q.routes \ N
    BY <1>1 DEF Restrict
  <1>3. Entries(d)
    BY <1>2 DEF Router, Entries
  <1> QED BY <1>1, <1>2, <1>3 DEF Router

LEMMA MergedProperties ==
  ASSUME NEW q, Router(q), NEW n1 \in DOMAIN q.map, NEW n2 \in DOMAIN q.map, NEW c,
         NEW d, d = Merged(q, n1, n2, c)
  PROVE  /\ Router(d)
         /\ DOMAIN d.map = DOMAIN q.map
         /\ \A m \in DOMAIN q.map : d.map[m].pins = q.map[m].pins
         /\ d.map[n2].merged
         /\ DOMAIN d.routes = DOMAIN q.routes \cup {n1}
         /\ d.dirty = q.dirty /\ d.tree = q.tree /\ d.usage = q.usage
         /\ d.alive = q.alive
PROOF
  <1> DEFINE routes == With(q.routes, [m \in {n1} |-> JoinedRoute(q, n1, n2, c)])
             map == [[q.map EXCEPT ![n1].merged = TRUE] EXCEPT ![n2].merged = TRUE]
  <1>1. /\ Fields(d) /\ d.map = map /\ d.routes = routes
        /\ d.dirty = q.dirty /\ d.tree = q.tree /\ d.usage = q.usage
        /\ d.alive = q.alive
    BY DEF Merged, Router, Fields
  <1>2. DOMAIN routes = DOMAIN q.routes \cup {n1}
    BY DEF With
  <1>3. /\ DOMAIN map = DOMAIN q.map
        /\ \A m \in DOMAIN q.map : /\ DOMAIN map[m] = {"pins", "last", "dirty", "merged"}
                                   /\ map[m].pins = q.map[m].pins
        /\ map[n2].merged
    BY DEF Router, Entries
  <1> HIDE DEF map, routes
  <1>4. Entries(d)
    BY <1>1, <1>3 DEF Entries
  <1> QED BY <1>1, <1>2, <1>3, <1>4 DEF Router

\* What a merge comes to: nothing, or a survivor whose routes were joined.
LEMMA MergesProperties ==
  ASSUME NEW q, Router(q), NEW n1 \in DOMAIN q.map, NEW n2 \in DOMAIN q.map,
         NEW d \in Merges(q, n1, n2)
  PROVE  /\ Router(d)
         /\ DOMAIN d.map = DOMAIN q.map
         /\ \A m \in DOMAIN q.map : d.map[m].pins = q.map[m].pins
         /\ IF q.map[n1].dirty THEN d = q ELSE d.map[n2].merged
         /\ DOMAIN d.routes \subseteq DOMAIN q.routes \cup {n1}
         /\ d.dirty = q.dirty /\ d.tree = q.tree /\ d.usage = q.usage
         /\ d.alive = q.alive
PROOF
  <1>1. CASE q.map[n1].dirty
    BY <1>1 DEF Merges
  <1>2. CASE ~q.map[n1].dirty
    <2>1. PICK c : d = Merged(Merged(q, n1, n2, c), n1, n2, c) \/ d = Merged(q, n1, n2, c)
      BY <1>2 DEF Merges, MergedBy
    <2> DEFINE e == Merged(q, n1, n2, c)
    <2>2. /\ Router(e)
          /\ DOMAIN e.map = DOMAIN q.map
          /\ \A m \in DOMAIN q.map : e.map[m].pins = q.map[m].pins
          /\ e.map[n2].merged
          /\ DOMAIN e.routes = DOMAIN q.routes \cup {n1}
          /\ e.dirty = q.dirty /\ e.tree = q.tree /\ e.usage = q.usage
          /\ e.alive = q.alive
      BY MergedProperties
    <2> HIDE DEF e
    <2>3. CASE d = e
      BY <1>2, <2>2, <2>3
    <2>4. CASE d = Merged(e, n1, n2, c)
      BY <1>2, <2>2, <2>4, MergedProperties
    <2> QED BY <2>1, <2>3, <2>4 DEF e
  <1> QED BY <1>1, <1>2

LEMMA ClearedProperties ==
  ASSUME NEW q, Router(q), NEW S, NEW N, NEW d, d = Cleared(q, S, N)
  PROVE  /\ Router(d)
         /\ DOMAIN d.map = DOMAIN q.map \cup S
         /\ \A n \in DOMAIN d.map :
              d.map[n] = IF n \in S THEN NewEntry(PinsNow(n)) ELSE q.map[n]
         /\ DOMAIN d.routes = DOMAIN q.routes \cup N
         /\ d.tree = Without(q.tree, N)
         /\ d.usage = Released(q, N)
         /\ d.dirty = q.dirty /\ d.alive = q.alive
PROOF
  <1> DEFINE map == With(q.map, [n \in S |-> NewEntry(PinsNow(n))])
             routes == With(q.routes, [n \in N |-> <<>>])
  <1>1. /\ Fields(d) /\ d.map = map /\ d.routes = routes
        /\ d.tree = Without(q.tree, N) /\ d.usage = Released(q, N)
        /\ d.dirty = q.dirty /\ d.alive = q.alive
    BY DEF Cleared, Router, Fields, Without
  <1>2. /\ DOMAIN map = DOMAIN q.map \cup S
        /\ \A n \in DOMAIN map :
             map[n] = IF n \in S THEN NewEntry(PinsNow(n)) ELSE q.map[n]
        /\ DOMAIN routes = DOMAIN q.routes \cup N
    BY DEF With
  <1>3. \A n \in S : DOMAIN NewEntry(PinsNow(n)) = {"pins", "last", "dirty", "merged"}
    BY DEF NewEntry
  <1> HIDE DEF map, routes
  <1>4. Entries(d)
    BY <1>1, <1>2, <1>3 DEF Router, Entries
  <1> QED BY <1>1, <1>2, <1>4 DEF Router

\* The trees of the nets that are routed.
NewTrees(q, N) ==
  [n \in {m \in N : Cardinality(Cells(q.map[m].pins)) > 1} |-> Cells(q.map[n].pins)]

\* Their usage replaces that of the trees they had.
Recharged(q, N, d) ==
  \A S \in Shape : d.usage[S] = Released(q, N)[S] + UsageOf(NewTrees(q, N), N)[S]

LEMMA RoutedProperties ==
  ASSUME NEW q, Router(q), NEW N, NEW d, d = Routed(q, N)
  PROVE  /\ Router(d) /\ d.map = q.map
         /\ DOMAIN d.routes = DOMAIN q.routes \cup N
         /\ d.tree = With(Without(q.tree, N), NewTrees(q, N))
         /\ Recharged(q, N, d)
         /\ d.dirty = q.dirty /\ d.alive = q.alive
PROOF
  <1> DEFINE routes == With(q.routes, [n \in N |-> RouteFor(q.map[n].pins)])
  <1>1. /\ Fields(d) /\ d.map = q.map /\ d.routes = routes
        /\ d.tree = With(Without(q.tree, N), NewTrees(q, N))
        /\ Recharged(q, N, d)
        /\ d.dirty = q.dirty /\ d.alive = q.alive
    BY DEF Routed, NewTrees, Router, Fields, Recharged, Without
  <1>2. DOMAIN routes = DOMAIN q.routes \cup N
    BY DEF With
  <1> HIDE DEF routes
  <1>3. Entries(d)
    BY <1>1 DEF Router, Entries
  <1> QED BY <1>1, <1>2, <1>3 DEF Router

-----------------------------------------------------------------------------
(***************************************************************************)
(* Usage.                                                                  *)
(***************************************************************************)

\* The nets of N that have a tree of the shape S.
Of(tree, N, S) == {n \in N \cap DOMAIN tree : tree[n] = S}

\* The usage of edges is that of the trees, and x.
Accounted(q, x) ==
  \A S \in Shape :
    q.usage[S] \in Int /\ q.usage[S] = UsageOf(q.tree, DOMAIN q.tree)[S] + x[S]

Ints(x) == \A S \in Shape : x[S] \in Int
Added(y, x, tree, N) == \A S \in Shape : y[S] = x[S] + UsageOf(tree, N)[S]

LEMMA OfFinite ==
  ASSUME NEW t, IsFiniteSet(DOMAIN t), NEW N, NEW S
  PROVE  IsFiniteSet(Of(t, N, S)) /\ Cardinality(Of(t, N, S)) \in Nat
PROOF
  <1>1. Of(t, N, S) \subseteq DOMAIN t
    BY DEF Of
  <1> QED BY <1>1, FS_Subset, FS_CardinalityType

LEMMA DisjointUnion ==
  ASSUME NEW A, IsFiniteSet(A), NEW B, IsFiniteSet(B), A \cap B = {}
  PROVE  Cardinality(A \cup B) = Cardinality(A) + Cardinality(B)
PROOF
  <1>1. Cardinality(A) \in Nat /\ Cardinality(B) \in Nat
    BY FS_CardinalityType
  <1>2. Cardinality(A \cup B) = Cardinality(A) + Cardinality(B) - Cardinality(A \cap B)
    BY FS_Union
  <1>3. Cardinality(A \cap B) = 0
    BY FS_EmptySet
  <1> QED BY <1>1, <1>2, <1>3

LEMMA UsageIs ==
  ASSUME NEW t, NEW N, NEW S \in Shape
  PROVE  UsageOf(t, N)[S] = Cardinality(Of(t, N, S))
PROOF
  BY DEF UsageOf, Of

LEMMA UsageOfNat ==
  ASSUME NEW t, IsFiniteSet(DOMAIN t), NEW N, NEW S \in Shape
  PROVE  UsageOf(t, N)[S] \in Nat
PROOF
  BY OfFinite, UsageIs

\* The usage of all trees is that of those of N and that of the others.
LEMMA UsageSplits ==
  ASSUME NEW t, IsFiniteSet(DOMAIN t), NEW N, NEW S \in Shape
  PROVE  UsageOf(t, DOMAIN t)[S]
           = UsageOf(t, N)[S] + UsageOf(Without(t, N), DOMAIN t \ N)[S]
PROOF
  <1> DEFINE rest == Without(t, N)
  <1>1. DOMAIN rest = DOMAIN t \ N /\ \A n \in DOMAIN t \ N : rest[n] = t[n]
    BY DEF Without, Restrict
  <1> HIDE DEF rest
  <1>2. IsFiniteSet(DOMAIN rest)
    BY <1>1, FS_Subset
  <1>3. /\ Of(t, DOMAIN t, S) = Of(t, N, S) \cup Of(rest, DOMAIN t \ N, S)
        /\ Of(t, N, S) \cap Of(rest, DOMAIN t \ N, S) = {}
    BY <1>1 DEF Of
  <1>4. /\ IsFiniteSet(Of(t, N, S)) /\ IsFiniteSet(Of(rest, DOMAIN t \ N, S))
        /\ Cardinality(Of(t, N, S)) \in Nat
        /\ Cardinality(Of(rest, DOMAIN t \ N, S)) \in Nat
    BY <1>2, OfFinite
  <1>5. Cardinality(Of(t, DOMAIN t, S))
          = Cardinality(Of(t, N, S)) + Cardinality(Of(rest, DOMAIN t \ N, S))
    BY <1>3, <1>4, DisjointUnion
  <1> QED BY <1>5, UsageIs DEF rest

\* Giving up the trees of N.
LEMMA ReleasedAccounted ==
  ASSUME NEW q, IsFiniteSet(DOMAIN q.tree), NEW x, Accounted(q, x),
         Ints(x), NEW N,
         NEW d, d.tree = Without(q.tree, N),
         NEW y, Added(y, x, q.tree, N)
  PROVE  /\ IsFiniteSet(DOMAIN d.tree) /\ DOMAIN d.tree = DOMAIN q.tree \ N
         /\ d.usage = Released(q, N) => Accounted(d, x)
         /\ d.usage = q.usage => Accounted(d, y)
PROOF
  <1>1. DOMAIN d.tree = DOMAIN q.tree \ N
    BY DEF Without, Restrict
  <1>2. IsFiniteSet(DOMAIN d.tree)
    BY <1>1, FS_Subset
  <1>3. ASSUME NEW S \in Shape
        PROVE  /\ q.usage[S] \in Int /\ x[S] \in Int
               /\ UsageOf(q.tree, N)[S] \in Nat
               /\ UsageOf(d.tree, DOMAIN d.tree)[S] \in Nat
               /\ q.usage[S] = UsageOf(q.tree, N)[S]
                                 + UsageOf(d.tree, DOMAIN d.tree)[S] + x[S]
    BY <1>1, <1>2, UsageSplits, UsageOfNat DEF Accounted, Ints
  <1>4. ASSUME d.usage = Released(q, N), NEW S \in Shape
        PROVE  d.usage[S] \in Int /\ d.usage[S] = UsageOf(d.tree, DOMAIN d.tree)[S] + x[S]
    <2>1. d.usage[S] = q.usage[S] - UsageOf(q.tree, N)[S]
      BY <1>4 DEF Released
    <2>2. /\ q.usage[S] \in Int /\ x[S] \in Int
          /\ UsageOf(q.tree, N)[S] \in Nat /\ UsageOf(d.tree, DOMAIN d.tree)[S] \in Nat
          /\ q.usage[S] = UsageOf(q.tree, N)[S] + UsageOf(d.tree, DOMAIN d.tree)[S] + x[S]
      BY <1>3
    <2> QED BY <2>1, <2>2
  <1>5. ASSUME d.usage = q.usage, NEW S \in Shape
        PROVE  d.usage[S] \in Int /\ d.usage[S] = UsageOf(d.tree, DOMAIN d.tree)[S] + y[S]
    <2>1. y[S] = x[S] + UsageOf(q.tree, N)[S]
      BY DEF Added
    <2>2. /\ q.usage[S] \in Int /\ x[S] \in Int
          /\ UsageOf(q.tree, N)[S] \in Nat /\ UsageOf(d.tree, DOMAIN d.tree)[S] \in Nat
          /\ q.usage[S] = UsageOf(q.tree, N)[S] + UsageOf(d.tree, DOMAIN d.tree)[S] + x[S]
      BY <1>3
    <2> QED BY <1>5, <2>1, <2>2
  <1> QED BY <1>1, <1>2, <1>4, <1>5 DEF Accounted

\* Routing N anew, trees or none.
LEMMA RoutedAccounted ==
  ASSUME NEW q, Router(q), IsFiniteSet(DOMAIN q.tree), NEW x, Accounted(q, x),
         Ints(x), NEW N, IsFiniteSet(N),
         NEW d, d = Routed(q, N)
  PROVE  Accounted(d, x) /\ DOMAIN d.tree \subseteq DOMAIN q.tree \cup N
         /\ IsFiniteSet(DOMAIN d.tree)
PROOF
  <1> DEFINE new == NewTrees(q, N)
             old == Without(q.tree, N)
  <1>1. /\ d.tree = With(old, new)
        /\ \A S \in Shape : d.usage[S] = Released(q, N)[S] + UsageOf(new, N)[S]
    <2> HIDE DEF old, new
    <2>1. d.tree = With(Without(q.tree, N), NewTrees(q, N))
      BY RoutedProperties
    <2>2. Recharged(q, N, d)
      BY RoutedProperties
    <2> QED BY <2>1, <2>2, Zenon DEF old, new, Recharged
  <1>2. /\ DOMAIN old = DOMAIN q.tree \ N /\ DOMAIN new \subseteq N
    BY DEF Without, Restrict, NewTrees
  <1> HIDE DEF new
  <1>3. /\ DOMAIN d.tree = DOMAIN old \cup DOMAIN new
        /\ \A n \in DOMAIN new : d.tree[n] = new[n]
        /\ \A n \in DOMAIN old : d.tree[n] = old[n]
    BY <1>1, <1>2 DEF With
  <1>4. IsFiniteSet(DOMAIN old) /\ IsFiniteSet(DOMAIN new) /\ IsFiniteSet(DOMAIN d.tree)
    BY <1>2, <1>3, FS_Subset, FS_Union
  <1>5. ASSUME NEW S \in Shape
        PROVE  d.usage[S] \in Int /\ d.usage[S] = UsageOf(d.tree, DOMAIN d.tree)[S] + x[S]
    <2>1. /\ UsageOf(q.tree, DOMAIN q.tree)[S]
               = UsageOf(q.tree, N)[S] + UsageOf(old, DOMAIN q.tree \ N)[S]
          /\ UsageOf(q.tree, N)[S] \in Nat /\ UsageOf(old, DOMAIN q.tree \ N)[S] \in Nat
          /\ UsageOf(new, N)[S] \in Nat
      BY <1>4, UsageSplits, UsageOfNat
    <2>2. Released(q, N)[S] = q.usage[S] - UsageOf(q.tree, N)[S]
      BY DEF Released
    <2>3. d.usage[S] = Released(q, N)[S] + UsageOf(new, N)[S]
      BY <1>1
    <2> HIDE DEF old
    <2>4. UsageOf(d.tree, DOMAIN d.tree)[S] = UsageOf(old, DOMAIN old)[S] + UsageOf(new, N)[S]
      <3>1. /\ Of(d.tree, DOMAIN d.tree, S) = Of(old, DOMAIN old, S) \cup Of(new, N, S)
            /\ Of(old, DOMAIN old, S) \cap Of(new, N, S) = {}
        BY <1>2, <1>3 DEF Of
      <3>2. /\ IsFiniteSet(Of(old, DOMAIN old, S)) /\ IsFiniteSet(Of(new, N, S))
            /\ Cardinality(Of(old, DOMAIN old, S)) \in Nat /\ Cardinality(Of(new, N, S)) \in Nat
        BY <1>4, OfFinite
      <3>3. Cardinality(Of(d.tree, DOMAIN d.tree, S))
              = Cardinality(Of(old, DOMAIN old, S)) + Cardinality(Of(new, N, S))
        BY <3>1, <3>2, DisjointUnion
      <3> QED BY <3>3, UsageIs
    <2>5. q.usage[S] \in Int /\ x[S] \in Int
          /\ q.usage[S] = UsageOf(q.tree, DOMAIN q.tree)[S] + x[S]
      BY DEF Accounted, Ints
    <2> QED BY <1>2, <2>1, <2>2, <2>3, <2>4, <2>5
  <1> QED BY <1>2, <1>3, <1>4, <1>5 DEF Accounted

-----------------------------------------------------------------------------
(***************************************************************************)
(* The invariant.                                                          *)
(***************************************************************************)

Block ==
  /\ nets \subseteq Net /\ netOf \in [Pin -> nets \cup {NoNet}]
  /\ undo # NoUndo =>
       /\ undo.survivor \in nets /\ undo.removed \in Net
       /\ DOMAIN undo.net \subseteq Pin
       /\ \A p \in DOMAIN undo.net : /\ undo.net[p] \in {undo.survivor, undo.removed}
                                    /\ netOf[p] \in {undo.survivor, NoNet}

Books ==
  /\ Router(r)
  /\ r.dirty \subseteq Net /\ DOMAIN r.tree \subseteq Net
  /\ Ints(dropped)
  /\ Accounted(r, dropped)

\* Nothing is marked when nobody listens.
Marks ==
  /\ owners = {} => r.dirty = {}
  /\ r.alive => r.dirty \subseteq nets \cap DOMAIN r.map

\* The picture of the netlist.
Picture ==
  /\ DOMAIN r.map = nets
  /\ DOMAIN r.routes \subseteq nets /\ DOMAIN r.tree \subseteq nets
  /\ \A n \in nets : DOMAIN r.map[n].pins \subseteq PinsOf(n)

Sees == lapses \cap {"unheard", "undefined"} = {} => r.alive /\ Picture

RInv == Block /\ Books /\ Marks /\ Sees

LEMMA TreesFinite ==
  ASSUME Books
  PROVE  IsFiniteSet(DOMAIN r.tree) /\ IsFiniteSet(r.dirty)
PROOF
  BY FS_Subset DEF Books

\* A call that nobody hears.
LEMMA UnheardKeepsRInv ==
  ASSUME RInv, Block', owners = {}, "unheard" \in lapses', r' = r, dropped' = dropped
  PROVE  RInv'
PROOF
  <1>1. r.dirty = {}
    BY DEF RInv, Marks
  <1>2. Books' /\ Marks' /\ Sees'
    BY <1>1 DEF RInv, Books, Marks, Sees
  <1> QED BY <1>2 DEF RInv

\* Callbacks that mark nets and touch neither trees nor routes.
LEMMA HeardKeepsRInv ==
  ASSUME RInv, Block', owners' # {}, lapses' = lapses, r.alive,
         Router(r'), r'.tree = r.tree, r'.usage = r.usage, dropped' = dropped,
         DOMAIN r'.routes = DOMAIN r.routes,
         r'.dirty \subseteq nets', nets \subseteq nets',
         r'.alive => r'.dirty \subseteq DOMAIN r'.map,
         Picture => r'.alive /\ DOMAIN r'.map = nets'
                    /\ \A n \in nets' : DOMAIN r'.map[n].pins \subseteq PinsOf(n)'
  PROVE  RInv'
PROOF
  <1>1. Books'
    BY DEF RInv, Books, Ints, Accounted, Block
  <1>2. Marks'
    BY DEF Marks
  <1>3. Sees'
    BY DEF RInv, Sees, Picture
  <1> QED BY <1>1, <1>2, <1>3 DEF RInv

LEMMA MoveKeepsRInv ==
  ASSUME RInv, NEW i \in Inst, MoveInst(i)
  PROVE  RInv'
PROOF
  <1> DEFINE N == {netOf[p] : p \in {p \in Pin : InstOf[p] = i}} \ {NoNet}
  <1>1. /\ r' = IF owners = {} THEN r ELSE AddDirty(r, N)
        /\ UNCHANGED <<nets, netOf, dropped, owners>> /\ undo' = NoUndo
        /\ lapses' = lapses \cup (IF owners = {} THEN {"unheard"} ELSE {})
        /\ r.alive
    BY DEF MoveInst, Edits, Idle, Plain, Heard
  <1>2. Block' /\ N \subseteq nets
    BY <1>1 DEF RInv, Block
  <1> HIDE DEF N
  <1>3. CASE owners = {}
    BY <1>1, <1>2, <1>3, UnheardKeepsRInv
  <1>4. CASE owners # {}
    <2>1. r' = AddDirty(r, N) /\ lapses' = lapses /\ Router(r)
      BY <1>1, <1>4 DEF RInv, Books
    <2>2. /\ Router(r') /\ DOMAIN r'.map = DOMAIN r.map
          /\ \A n \in DOMAIN r.map : r'.map[n].pins = r.map[n].pins
          /\ r'.dirty = r.dirty \cup N
          /\ r'.routes = r.routes /\ r'.tree = r.tree /\ r'.usage = r.usage
          /\ r'.alive = (r.alive /\ N \subseteq DOMAIN r.map)
      BY <2>1, AddDirtyProperties
    <2>3. Picture => r'.alive /\ DOMAIN r'.map = nets'
                     /\ \A n \in nets' : DOMAIN r'.map[n].pins \subseteq PinsOf(n)'
      <3>1. \A n \in nets : PinsOf(n)' = PinsOf(n)
        BY <1>1 DEF PinsOf
      <3>2. Picture => r'.alive /\ DOMAIN r'.map = nets'
        BY <1>1, <1>2, <2>2 DEF Picture
      <3>3. Picture => \A n \in nets : DOMAIN r'.map[n].pins \subseteq PinsOf(n)
        BY <2>2 DEF Picture
      <3> QED BY <1>1, <3>1, <3>2, <3>3
    <2>4. r'.dirty \subseteq nets' /\ (r'.alive => r'.dirty \subseteq DOMAIN r'.map)
      BY <1>1, <1>2, <2>2 DEF RInv, Marks
    <2> QED BY <1>1, <1>2, <1>4, <2>1, <2>2, <2>3, <2>4, HeardKeepsRInv
  <1> QED BY <1>3, <1>4

LEMMA DisconnectKeepsRInv ==
  ASSUME RInv, NEW p \in Pin, Disconnect(p)
  PROVE  RInv'
PROOF
  <1> DEFINE n == netOf[p]
             P == {p}
  <1>1. /\ r' = IF owners = {} THEN r ELSE PreDisconnect(r, n, P)
        /\ UNCHANGED <<nets, dropped, owners>> /\ undo' = NoUndo
        /\ lapses' = lapses \cup (IF owners = {} THEN {"unheard"} ELSE {})
        /\ r.alive /\ n # NoNet /\ netOf' = [netOf EXCEPT ![p] = NoNet]
    BY DEF Disconnect, Edits, Idle, Plain, Heard
  <1>2. Block' /\ n \in nets
    BY <1>1 DEF RInv, Block
  <1>3. \A m \in nets : PinsOf(m)' = IF m = n THEN PinsOf(m) \ P ELSE PinsOf(m)
    BY <1>1, <1>2 DEF RInv, Block, PinsOf
  <1> HIDE DEF n, P
  <1>4. CASE owners = {}
    BY <1>1, <1>2, <1>4, UnheardKeepsRInv
  <1>5. CASE owners # {}
    <2>1. r' = PreDisconnect(r, n, P) /\ lapses' = lapses /\ Router(r)
      BY <1>1, <1>5 DEF RInv, Books
    <2>2. /\ Router(r') /\ DOMAIN r'.map = DOMAIN r.map
          /\ \A m \in DOMAIN r.map : DOMAIN r'.map[m].pins \subseteq DOMAIN r.map[m].pins
          /\ n \in DOMAIN r.map => DOMAIN r'.map[n].pins \cap P = {}
          /\ r'.dirty = r.dirty \cup {n}
          /\ r'.routes = r.routes /\ r'.tree = r.tree /\ r'.usage = r.usage
          /\ r'.alive = (r.alive /\ n \in DOMAIN r.map)
      BY <2>1, PreDisconnectProperties
    <2>3. Picture => r'.alive /\ DOMAIN r'.map = nets'
                     /\ \A m \in nets' : DOMAIN r'.map[m].pins \subseteq PinsOf(m)'
      <3>1. Picture => r'.alive /\ DOMAIN r'.map = nets'
        BY <1>1, <1>2, <2>2 DEF Picture
      <3>2. ASSUME Picture, NEW m \in nets
            PROVE  DOMAIN r'.map[m].pins \subseteq PinsOf(m)'
        <4>1. DOMAIN r'.map[m].pins \subseteq PinsOf(m)
          BY <2>2, <3>2 DEF Picture
        <4>2. CASE m = n
          <5>1. DOMAIN r'.map[n].pins \cap P = {}
            BY <1>2, <2>2, <3>2 DEF Picture
          <5> QED BY <1>3, <4>1, <4>2, <5>1
        <4>3. CASE m # n
          BY <1>3, <4>1, <4>3
        <4> QED BY <4>2, <4>3
      <3> QED BY <1>1, <3>1, <3>2
    <2>4. r'.dirty \subseteq nets' /\ (r'.alive => r'.dirty \subseteq DOMAIN r'.map)
      BY <1>1, <1>2, <2>2 DEF RInv, Marks
    <2> QED BY <1>1, <1>2, <1>5, <2>1, <2>2, <2>3, <2>4, HeardKeepsRInv
  <1> QED BY <1>4, <1>5

LEMMA ConnectKeepsRInv ==
  ASSUME RInv, NEW p \in Pin, NEW n \in Net, Connect(p, n)
  PROVE  RInv'
PROOF
  <1> DEFINE old == netOf[p]
             P == {p}
             N == {n}
             free == IF old = NoNet THEN r ELSE PreDisconnect(r, old, P)
  <1>1. /\ r' = IF owners = {} THEN r ELSE AddDirty(free, N)
        /\ UNCHANGED <<nets, dropped, owners>> /\ undo' = NoUndo
        /\ lapses' = lapses \cup (IF owners = {} THEN {"unheard"} ELSE {})
        /\ r.alive /\ n \in nets /\ old # n /\ netOf' = [netOf EXCEPT ![p] = n]
    BY DEF Connect, Edits, Idle, Plain, Heard
  <1>2. Block' /\ (old = NoNet \/ old \in nets)
    BY <1>1 DEF RInv, Block
  <1>3. \A m \in nets : PinsOf(m) \ (IF m = old THEN P ELSE {}) \subseteq PinsOf(m)'
    BY <1>1, <1>2 DEF RInv, Block, PinsOf
  <1>4. N \subseteq nets
    BY <1>1
  <1>5. NoNet \notin nets
    BY DEF RInv, Block
  <1> HIDE DEF old, P, N, free
  <1>6. CASE owners = {}
    BY <1>1, <1>2, <1>6, UnheardKeepsRInv
  <1>7. CASE owners # {}
    <2>1. r' = AddDirty(free, N) /\ lapses' = lapses /\ Router(r)
      BY <1>1, <1>7 DEF RInv, Books
    <2>2. /\ Router(free) /\ DOMAIN free.map = DOMAIN r.map
          /\ \A m \in DOMAIN r.map : DOMAIN free.map[m].pins \subseteq DOMAIN r.map[m].pins
          /\ old \in DOMAIN r.map /\ old # NoNet => DOMAIN free.map[old].pins \cap P = {}
          /\ free.dirty \subseteq r.dirty \cup (IF old = NoNet THEN {} ELSE {old})
          /\ free.routes = r.routes /\ free.tree = r.tree /\ free.usage = r.usage
          /\ (old = NoNet \/ old \in DOMAIN r.map) => (r.alive => free.alive)
          /\ free.alive => (old = NoNet \/ old \in DOMAIN r.map)
      <3>1. CASE old = NoNet
        <4>1. free = r
          BY <3>1 DEF free
        <4> QED BY <2>1, <3>1, <4>1
      <3>2. CASE old # NoNet
        <4>1. free = PreDisconnect(r, old, P)
          BY <3>2 DEF free
        <4>2. /\ Router(free) /\ DOMAIN free.map = DOMAIN r.map
              /\ \A m \in DOMAIN r.map : DOMAIN free.map[m].pins \subseteq DOMAIN r.map[m].pins
              /\ old \in DOMAIN r.map => DOMAIN free.map[old].pins \cap P = {}
              /\ free.dirty = r.dirty \cup {old}
              /\ free.routes = r.routes /\ free.tree = r.tree /\ free.usage = r.usage
              /\ free.alive = (r.alive /\ old \in DOMAIN r.map)
          BY <2>1, <4>1, PreDisconnectProperties
        <4>3. free.dirty \subseteq r.dirty \cup (IF old = NoNet THEN {} ELSE {old})
          BY <3>2, <4>2
        <4>4. /\ (old = NoNet \/ old \in DOMAIN r.map) => (r.alive => free.alive)
              /\ free.alive => (old = NoNet \/ old \in DOMAIN r.map)
          BY <3>2, <4>2
        <4> QED BY <4>2, <4>3, <4>4
      <3> QED BY <3>1, <3>2
    <2>3. /\ Router(r') /\ DOMAIN r'.map = DOMAIN free.map
          /\ \A m \in DOMAIN free.map : r'.map[m].pins = free.map[m].pins
          /\ r'.dirty = free.dirty \cup N
          /\ r'.routes = free.routes /\ r'.tree = free.tree /\ r'.usage = free.usage
          /\ r'.alive = (free.alive /\ N \subseteq DOMAIN free.map)
      BY <2>1, <2>2, AddDirtyProperties
    <2>4. Picture => r'.alive /\ DOMAIN r'.map = nets'
                     /\ \A m \in nets' : DOMAIN r'.map[m].pins \subseteq PinsOf(m)'
      <3>1. Picture => DOMAIN r'.map = nets'
        BY <1>1, <2>2, <2>3 DEF Picture
      <3>2. Picture => r'.alive
        BY <1>1, <1>2, <1>4, <2>2, <2>3 DEF Picture
      <3>3. ASSUME Picture, NEW m \in nets
            PROVE  DOMAIN r'.map[m].pins \subseteq PinsOf(m)'
        <4>1. /\ DOMAIN r'.map[m].pins = DOMAIN free.map[m].pins
              /\ DOMAIN free.map[m].pins \subseteq PinsOf(m)
          BY <2>2, <2>3, <3>3 DEF Picture
        <4>2. CASE m = old
          <5>1. DOMAIN free.map[old].pins \cap P = {}
            BY <1>5, <2>2, <3>3, <4>2 DEF Picture
          <5> QED BY <1>3, <4>1, <4>2, <5>1
        <4>3. CASE m # old
          BY <1>3, <4>1, <4>3
        <4> QED BY <4>2, <4>3
      <3> QED BY <1>1, <3>1, <3>2, <3>3
    <2>5. r'.dirty \subseteq nets'
      BY <1>1, <1>2, <1>4, <2>2, <2>3 DEF RInv, Marks
    <2>6. r'.alive => r'.dirty \subseteq DOMAIN r'.map
      <3>1. r.dirty \subseteq DOMAIN r.map
        BY <1>1 DEF RInv, Marks
      <3> QED BY <2>2, <2>3, <3>1
    <2> QED BY <1>1, <1>2, <1>7, <2>1, <2>2, <2>3, <2>4, <2>5, <2>6, HeardKeepsRInv
  <1> QED BY <1>6, <1>7

LEMMA CreateKeepsRInv ==
  ASSUME RInv, NEW n \in Net, CreateNet(n)
  PROVE  RInv'
PROOF
  <1>1. /\ r' = IF owners = {} THEN r ELSE NetCreated(r, n)
        /\ nets' = nets \cup {n} /\ n \notin nets
        /\ UNCHANGED <<netOf, dropped, owners>> /\ undo' = NoUndo
        /\ lapses' = lapses \cup (IF owners = {} THEN {"unheard"} ELSE {})
        /\ r.alive
    BY DEF CreateNet, Edits, Idle, Plain, Heard
  <1>2. Block'
    BY <1>1 DEF RInv, Block
  <1>3. \A m \in Net : PinsOf(m)' = PinsOf(m)
    BY <1>1 DEF PinsOf
  <1>4. CASE owners = {}
    BY <1>1, <1>2, <1>4, UnheardKeepsRInv
  <1>5. CASE owners # {}
    <2>1. r' = NetCreated(r, n) /\ lapses' = lapses /\ Router(r)
      BY <1>1, <1>5 DEF RInv, Books
    <2>2. /\ Router(r') /\ DOMAIN r'.map = DOMAIN r.map \cup {n}
          /\ \A m \in DOMAIN r.map : m # n => r'.map[m] = r.map[m]
          /\ DOMAIN r'.map[n].pins = {}
          /\ r'.dirty = r.dirty
          /\ r'.routes = r.routes /\ r'.tree = r.tree /\ r'.usage = r.usage
          /\ r'.alive = r.alive
      BY <2>1, NetCreatedProperties
    <2>3. Picture => r'.alive /\ DOMAIN r'.map = nets'
                     /\ \A m \in nets' : DOMAIN r'.map[m].pins \subseteq PinsOf(m)'
      <3>1. Picture => r'.alive /\ DOMAIN r'.map = nets'
        BY <1>1, <2>2 DEF Picture
      <3>2. ASSUME Picture, NEW m \in nets'
            PROVE  DOMAIN r'.map[m].pins \subseteq PinsOf(m)'
        <4>1. CASE m = n
          BY <2>2, <4>1
        <4>2. CASE m # n
          <5>1. m \in nets /\ m \in Net
            BY <1>1, <3>2, <4>2 DEF RInv, Block
          <5> QED BY <1>3, <2>2, <3>2, <4>2, <5>1 DEF Picture
        <4> QED BY <4>1, <4>2
      <3> QED BY <3>1, <3>2
    <2>4. r'.dirty \subseteq nets' /\ (r'.alive => r'.dirty \subseteq DOMAIN r'.map)
      BY <1>1, <2>2 DEF RInv, Marks
    <2> QED BY <1>1, <1>2, <1>5, <2>1, <2>2, <2>3, <2>4, HeardKeepsRInv
  <1> QED BY <1>4, <1>5

\* The trees of merged nets are not given back.
Leaves(merged, n) ==
  IF merged THEN Added(dropped', dropped, r.tree, {n})
  ELSE dropped' = dropped

\* A net goes, after calls that mark nets, q.
LEMMA DestroyedKeepsRInv ==
  ASSUME RInv, Block', owners # {}, owners' = owners, lapses' = lapses,
         NEW n \in nets, nets' = nets \ {n},
         NEW q, Router(q), q.tree = r.tree, q.usage = r.usage,
         DOMAIN q.map = DOMAIN r.map, q.dirty \subseteq nets,
         q.alive => q.dirty \subseteq DOMAIN q.map,
         Picture => DOMAIN q.routes \subseteq nets,
         Picture /\ r.alive => q.alive,
         Picture => \A m \in nets' : DOMAIN q.map[m].pins \subseteq PinsOf(m)',
         Leaves(IsMerged(q, n), n),
         r' = NetDestroyed(q, n)
  PROVE  RInv'
PROOF
  <1> DEFINE N == {n}
             merged == IsMerged(q, n)
  <1>0. N = {n} /\ Alone(N, n)
    BY DEF Alone
  <1> HIDE DEF N, merged
  <1>1. /\ Router(r') /\ DOMAIN r'.map = DOMAIN q.map \ N
        /\ \A m \in DOMAIN q.map \ N : r'.map[m] = q.map[m]
        /\ r'.dirty = q.dirty \ N
        /\ DOMAIN r'.routes = DOMAIN q.routes \ N
        /\ r'.tree = Without(r.tree, N)
        /\ merged => r'.usage = r.usage
        /\ ~merged => r'.usage = Released(q, N)
        /\ r'.alive = q.alive
    <2>1. Router(q) /\ r' = NetDestroyed(q, n) /\ q.tree = r.tree /\ q.usage = r.usage
      OBVIOUS
    <2>2. /\ Router(r') /\ DOMAIN r'.map = DOMAIN q.map \ N
          /\ \A m \in DOMAIN q.map \ N : r'.map[m] = q.map[m]
          /\ r'.dirty = q.dirty \ N
          /\ DOMAIN r'.routes = DOMAIN q.routes \ N
          /\ r'.tree = Without(q.tree, N)
          /\ merged => r'.usage = q.usage
          /\ ~merged => r'.usage = Released(q, N)
          /\ r'.alive = q.alive
      BY ONLY <1>0, <2>1, NetDestroyedProperties DEF merged
    <2> QED BY <2>1, <2>2
  <1>2. Released(q, N) = Released(r, N)
    BY DEF Released
  <1>3. Leaves(merged, n)
    BY DEF merged
  <1>4. /\ IsFiniteSet(DOMAIN r.tree) /\ Accounted(r, dropped)
        /\ Ints(dropped) /\ DOMAIN r.tree \subseteq Net
    BY TreesFinite DEF RInv, Books
  <1> DEFINE y == [S \in Shape |-> dropped[S] + UsageOf(r.tree, N)[S]]
  <1>5. Added(y, dropped, r.tree, N)
    BY DEF Added
  <1> HIDE DEF y
  <1>6. Ints(y)
    <2> SUFFICES ASSUME NEW S \in Shape PROVE y[S] \in Int
      BY DEF Ints
    <2>1. UsageOf(r.tree, N)[S] \in Nat /\ dropped[S] \in Int
      BY <1>4, UsageOfNat DEF Ints
    <2> QED BY <1>5, <2>1 DEF Added
  <1>7. /\ DOMAIN r'.tree = DOMAIN r.tree \ N
        /\ r'.usage = Released(r, N) => Accounted(r', dropped)
        /\ r'.usage = r.usage => Accounted(r', y)
    <2>1. r'.tree = Without(r.tree, N)
      BY <1>1
    <2>2. IsFiniteSet(DOMAIN r.tree) /\ Accounted(r, dropped) /\ Ints(dropped)
      BY <1>4
    <2> QED BY ONLY <2>1, <2>2, <1>5, ReleasedAccounted
  <1>8. Ints(dropped') /\ Accounted(r', dropped')
    <2>1. CASE merged
      <3>1. \A S \in Shape : dropped'[S] = y[S]
        BY <1>0, <1>3, <1>5, <2>1 DEF Leaves, Added
      <3>2. Accounted(r', y)
        BY <1>1, <1>7, <2>1
      <3> QED BY <1>6, <3>1, <3>2 DEF Accounted, Ints
    <2>2. CASE ~merged
      <3>1. dropped' = dropped
        BY <1>3, <2>2 DEF Leaves
      <3>2. Accounted(r', dropped)
        BY <1>1, <1>2, <1>7, <2>2
      <3> QED BY <1>4, <3>1, <3>2
    <2> QED BY <2>1, <2>2
  <1>9. Books'
    <2>1. r'.dirty \subseteq Net /\ DOMAIN r'.tree \subseteq Net
      BY <1>0, <1>1, <1>4, <1>7 DEF RInv, Block
    <2> QED BY <1>1, <1>8, <2>1 DEF Books
  <1>10. Marks'
    <2>1. r'.alive => r'.dirty \subseteq nets' \cap DOMAIN r'.map
      BY <1>0, <1>1
    <2> QED BY <2>1 DEF Marks
  <1>11. Sees'
    <2> SUFFICES ASSUME lapses \cap {"unheard", "undefined"} = {}
                 PROVE  r'.alive /\ Picture'
      BY DEF Sees
    <2>1. r.alive /\ Picture
      BY DEF RInv, Sees
    <2>2. r'.alive
      BY <1>1, <2>1
    <2>3. DOMAIN r'.map = nets' /\ DOMAIN r'.routes \subseteq nets' /\ DOMAIN r'.tree \subseteq nets'
      BY <1>0, <1>1, <1>7, <2>1 DEF Picture
    <2>4. \A m \in nets' : DOMAIN r'.map[m].pins \subseteq PinsOf(m)'
      BY <1>0, <1>1, <2>1 DEF Picture
    <2> QED BY <2>2, <2>3, <2>4 DEF Picture
  <1> QED BY <1>9, <1>10, <1>11 DEF RInv

LEMMA DestroyKeepsRInv ==
  ASSUME RInv, NEW n \in Net, DestroyNet(n)
  PROVE  RInv'
PROOF
  <1> DEFINE P == PinsOf(n)
             q == IF P = {} THEN r ELSE PreDisconnect(r, n, P)
  <1>1. /\ r' = IF owners = {} THEN r ELSE NetDestroyed(q, n)
        /\ n \in nets /\ nets' = nets \ {n}
        /\ netOf' = [p \in Pin |-> IF netOf[p] = n THEN NoNet ELSE netOf[p]]
        /\ owners' = owners /\ undo' = NoUndo
        /\ lapses' = lapses \cup (IF owners = {} THEN {"unheard"} ELSE {})
        /\ r.alive
    BY DEF DestroyNet, Edits, Idle, Heard
  <1>2. Drops(n, FALSE)
    BY DEF DestroyNet
  <1>3. Block'
    BY <1>1 DEF RInv, Block
  <1>4. \A m \in nets' : PinsOf(m)' = PinsOf(m)
    BY <1>1 DEF RInv, Block, PinsOf
  <1> HIDE DEF P, q
  <1>5. CASE owners = {}
    <2>1. dropped' = dropped
      BY <1>2, <1>5 DEF Drops
    <2> QED BY <1>1, <1>3, <1>5, <2>1, UnheardKeepsRInv
  <1>6. CASE owners # {}
    <2>1. r' = NetDestroyed(q, n) /\ lapses' = lapses /\ Router(r)
      BY <1>1, <1>6 DEF RInv, Books
    <2>2. /\ Router(q) /\ DOMAIN q.map = DOMAIN r.map
          /\ \A m \in DOMAIN r.map : DOMAIN q.map[m].pins \subseteq DOMAIN r.map[m].pins
          /\ \A m \in DOMAIN r.map : q.map[m].merged = r.map[m].merged
          /\ q.routes = r.routes /\ q.tree = r.tree /\ q.usage = r.usage
          /\ q.dirty \subseteq r.dirty \cup {n}
          /\ n \in DOMAIN r.map => (r.alive => q.alive)
          /\ q.alive /\ n \notin DOMAIN r.map => q.dirty = r.dirty
      <3>1. CASE P = {}
        <4>1. q = r
          BY <3>1 DEF q
        <4> QED BY <2>1, <4>1
      <3>2. CASE P # {}
        <4>1. q = PreDisconnect(r, n, P)
          BY <3>2 DEF q
        <4>2. /\ Router(q) /\ DOMAIN q.map = DOMAIN r.map
              /\ \A m \in DOMAIN r.map : DOMAIN q.map[m].pins \subseteq DOMAIN r.map[m].pins
              /\ \A m \in DOMAIN r.map : q.map[m].merged = r.map[m].merged
              /\ q.routes = r.routes /\ q.tree = r.tree /\ q.usage = r.usage
              /\ q.dirty = r.dirty \cup {n}
              /\ q.alive = (r.alive /\ n \in DOMAIN r.map)
          BY <2>1, <4>1, PreDisconnectProperties
        <4>3. /\ q.dirty \subseteq r.dirty \cup {n}
              /\ n \in DOMAIN r.map => (r.alive => q.alive)
              /\ q.alive => n \in DOMAIN r.map
          BY <4>2
        <4> QED BY <4>2, <4>3
      <3> QED BY <3>1, <3>2
    <2>3. r.dirty \subseteq nets /\ r.dirty \subseteq DOMAIN r.map
      BY <1>1 DEF RInv, Marks
    <2>4. /\ q.dirty \subseteq nets
          /\ q.alive => q.dirty \subseteq DOMAIN q.map
      BY <1>1, <2>2, <2>3
    <2>5. /\ Picture => DOMAIN q.routes \subseteq nets
          /\ Picture /\ r.alive => q.alive
      BY <1>1, <2>2 DEF Picture
    <2>6. Picture => \A m \in nets' : DOMAIN q.map[m].pins \subseteq PinsOf(m)'
      BY <1>1, <1>4, <2>2 DEF Picture
    <2>7. Leaves(IsMerged(q, n), n)
      <3>1. dropped' = IF IsMerged(q, n)
                       THEN [S \in Shape |-> dropped[S] + UsageOf(r.tree, {n})[S]]
                       ELSE dropped
        BY <1>2, <1>6, <2>2 DEF Drops, IsMerged
      <3> QED BY <3>1 DEF Leaves, Added
    <2> QED BY <1>1, <1>3, <1>6, <2>1, <2>2, <2>4, <2>5, <2>6, <2>7, DestroyedKeepsRInv
  <1> QED BY <1>5, <1>6

\* What the callbacks of a buffer's removal make of a merge q, before the net
\* is destroyed.
LEMMA MovedProperties ==
  ASSUME NEW q, Router(q), NEW n1 \in DOMAIN q.map, NEW n2 \in DOMAIN q.map,
         NEW P, NEW B, NEW N,
         NEW a, a = PreDisconnect(q, n2, P),
         NEW m, m = AddDirty(a, N), N \subseteq {n1}, 
         NEW c, c = PreDisconnect(m, n1, B)
  PROVE  /\ Router(c) /\ DOMAIN c.map = DOMAIN q.map
         /\ \A n \in DOMAIN q.map : DOMAIN c.map[n].pins \subseteq DOMAIN q.map[n].pins
         /\ DOMAIN c.map[n1].pins \cap B = {}
         /\ IsMerged(c, n2) = IsMerged(q, n2)
         /\ c.dirty = q.dirty \cup {n1, n2}
         /\ c.routes = q.routes /\ c.tree = q.tree /\ c.usage = q.usage
         /\ q.alive => c.alive
PROOF
  <1>1. /\ Router(a) /\ DOMAIN a.map = DOMAIN q.map
        /\ \A n \in DOMAIN q.map : DOMAIN a.map[n].pins \subseteq DOMAIN q.map[n].pins
        /\ \A n \in DOMAIN q.map : a.map[n].merged = q.map[n].merged
        /\ a.dirty = q.dirty \cup {n2}
        /\ a.routes = q.routes /\ a.tree = q.tree /\ a.usage = q.usage
        /\ a.alive = (q.alive /\ n2 \in DOMAIN q.map)
    BY PreDisconnectProperties
  <1>2. /\ Router(m) /\ DOMAIN m.map = DOMAIN a.map
        /\ \A n \in DOMAIN a.map : m.map[n].pins = a.map[n].pins
                                   /\ m.map[n].merged = a.map[n].merged
        /\ m.dirty = a.dirty \cup N
        /\ m.routes = a.routes /\ m.tree = a.tree /\ m.usage = a.usage
        /\ m.alive = (a.alive /\ N \subseteq DOMAIN a.map)
    BY <1>1, AddDirtyProperties
  <1>3. /\ Router(c) /\ DOMAIN c.map = DOMAIN m.map
        /\ \A n \in DOMAIN m.map : DOMAIN c.map[n].pins \subseteq DOMAIN m.map[n].pins
        /\ n1 \in DOMAIN m.map => DOMAIN c.map[n1].pins \cap B = {}
        /\ \A n \in DOMAIN m.map : c.map[n].merged = m.map[n].merged
        /\ c.dirty = m.dirty \cup {n1}
        /\ c.routes = m.routes /\ c.tree = m.tree /\ c.usage = m.usage
        /\ c.alive = (m.alive /\ n1 \in DOMAIN m.map)
    BY <1>2, PreDisconnectProperties
  <1>4. /\ DOMAIN a.map = DOMAIN q.map /\ DOMAIN m.map = DOMAIN q.map
        /\ DOMAIN c.map = DOMAIN q.map
    BY <1>1, <1>2, <1>3
  <1>5. ASSUME NEW n \in DOMAIN q.map
        PROVE  /\ DOMAIN c.map[n].pins \subseteq DOMAIN q.map[n].pins
               /\ c.map[n].merged = q.map[n].merged
    <2>1. DOMAIN a.map[n].pins \subseteq DOMAIN q.map[n].pins
          /\ a.map[n].merged = q.map[n].merged
      BY <1>1
    <2>2. m.map[n].pins = a.map[n].pins /\ m.map[n].merged = a.map[n].merged
      BY <1>2, <1>4
    <2>3. DOMAIN c.map[n].pins \subseteq DOMAIN m.map[n].pins
          /\ c.map[n].merged = m.map[n].merged
      BY <1>3, <1>4
    <2> QED BY <2>1, <2>2, <2>3
  <1>6. IsMerged(c, n2) = IsMerged(q, n2)
    BY <1>4, <1>5 DEF IsMerged
  <1>7. c.dirty = q.dirty \cup {n1, n2}
    BY <1>1, <1>2, <1>3
  <1>8. DOMAIN c.map[n1].pins \cap B = {}
    BY <1>3, <1>4
  <1>9. q.alive => c.alive
    BY <1>1, <1>2, <1>3, <1>4
  <1> QED BY <1>1, <1>2, <1>3, <1>4, <1>5, <1>6, <1>7, <1>8, <1>9
LEMMA RemoveKeepsRInv ==
  ASSUME RInv, NEW b \in Buffer, NEW n1 \in Net, NEW n2 \in Net, RemoveBuffer(b, n1, n2)
  PROVE  RInv'
PROOF
  <1> DEFINE B == {b.in, b.out}
             P == PinsOf(n2)
             N == {n1}
             known == {n1, n2} \subseteq DOMAIN r.map
             joins == owners # {} /\ n1 \in DOMAIN r.map /\ ~r.map[n1].dirty
             back == [p \in PinsOf(n1) \cup PinsOf(n2) |-> netOf[p]]
  <1>1. /\ B \subseteq Pin /\ n1 # n2 /\ n1 \in nets /\ n2 \in nets
        /\ \A p \in B : netOf[p] \in {n1, n2}
    <2>1. b.in \in Pin /\ b.out \in Pin
      OBVIOUS
    <2>2. {netOf[b.in], netOf[b.out]} = {n1, n2} /\ n1 # n2 /\ NoNet \notin {n1, n2}
      BY DEF RemoveBuffer, Removable
    <2>3. netOf[b.in] \in nets \cup {NoNet} /\ netOf[b.out] \in nets \cup {NoNet}
      BY <2>1 DEF RInv, Block
    <2> QED BY <2>1, <2>2, <2>3
  <1>2. /\ nets' = nets \ {n2}
        /\ netOf' = [p \in Pin |-> IF p \in B THEN NoNet
                                   ELSE IF netOf[p] = n2 THEN n1 ELSE netOf[p]]
        /\ owners' = owners
        /\ lapses' = lapses \cup (IF owners = {} THEN {"unheard"} ELSE {})
        /\ r.alive
        /\ undo' = [buffer |-> b, net |-> back, survivor |-> n1, removed |-> n2]
    BY DEF RemoveBuffer, Edits, Idle
  <1>3. owners = {} => r' = r
    BY DEF RemoveBuffer
  <1>4. owners # {} /\ known =>
          \E q \in Merges(r, n1, n2) :
            r' = NetDestroyed(PreDisconnect(AddDirty(PreDisconnect(q, n2, P), N), n1, B), n2)
    BY DEF RemoveBuffer
  <1>5. owners # {} /\ ~known => r' = [r EXCEPT !.alive = FALSE]
    BY DEF RemoveBuffer
  <1>6. IF known THEN Drops(n2, joins) ELSE dropped' = dropped
    BY DEF RemoveBuffer
  <1>7. Block'
    <2>1. nets' \subseteq Net /\ netOf' \in [Pin -> nets' \cup {NoNet}]
      BY <1>1, <1>2 DEF RInv, Block
    <2>2. undo'.survivor = n1 /\ undo'.removed = n2 /\ undo'.net = back
      BY <1>2
    <2>3. DOMAIN back \subseteq Pin /\ \A p \in DOMAIN back : back[p] \in {n1, n2}
      BY DEF PinsOf
    <2>4. \A p \in DOMAIN back : netOf'[p] \in {n1, NoNet}
      BY <1>2, <2>3
    <2> HIDE DEF back
    <2> QED BY <1>1, <1>2, <2>1, <2>2, <2>3, <2>4 DEF Block
  <1>8. \A m \in nets' : PinsOf(m) \ (IF m = n1 THEN B ELSE {}) \subseteq PinsOf(m)'
    <2> SUFFICES ASSUME NEW m \in nets', NEW p \in PinsOf(m),
                        p \notin (IF m = n1 THEN B ELSE {})
                 PROVE  p \in PinsOf(m)'
      OBVIOUS
    <2>1. p \in Pin /\ netOf[p] = m /\ m # n2
      BY <1>2 DEF PinsOf
    <2>2. p \notin B
      BY <1>1, <2>1
    <2> QED BY <1>2, <2>1, <2>2 DEF PinsOf
  <1> HIDE DEF B, P, N, back
  <1>9. CASE owners = {}
    <2>1. dropped' = dropped
      BY <1>6, <1>9 DEF Drops
    <2> QED BY <1>2, <1>3, <1>7, <1>9, <2>1, UnheardKeepsRInv
  <1>10. CASE owners # {} /\ ~known
    <2> HIDE DEF joins
    <2>1. Router(r) /\ r' = [r EXCEPT !.alive = FALSE] /\ dropped' = dropped
      BY <1>5, <1>6, <1>10 DEF RInv, Books
    <2>2. /\ Router(r') /\ r'.dirty = r.dirty /\ r'.tree = r.tree /\ r'.usage = r.usage
          /\ ~r'.alive
      BY <2>1 DEF Router, Fields, Entries
    <2>3. ~Picture
      BY <1>1, <1>10 DEF Picture
    <2>4. Books'
      BY <2>1, <2>2 DEF RInv, Books, Ints, Accounted
    <2>5. Marks'
      BY <1>2, <1>10, <2>2 DEF Marks
    <2>6. Sees'
      BY <1>2, <2>3 DEF RInv, Sees
    <2> QED BY <1>7, <2>4, <2>5, <2>6 DEF RInv
  <1>11. CASE owners # {} /\ known
    <2>1. PICK q \in Merges(r, n1, n2) :
            r' = NetDestroyed(PreDisconnect(AddDirty(PreDisconnect(q, n2, P), N), n1, B), n2)
      BY <1>4, <1>11
    <2>2. Router(r) /\ n1 \in DOMAIN r.map /\ n2 \in DOMAIN r.map /\ lapses' = lapses
      BY <1>2, <1>11 DEF RInv, Books
    <2>3. /\ Router(q) /\ DOMAIN q.map = DOMAIN r.map
          /\ \A m \in DOMAIN r.map : q.map[m].pins = r.map[m].pins
          /\ IF r.map[n1].dirty THEN q = r ELSE q.map[n2].merged
          /\ DOMAIN q.routes \subseteq DOMAIN r.routes \cup {n1}
          /\ q.dirty = r.dirty /\ q.tree = r.tree /\ q.usage = r.usage
          /\ q.alive = r.alive
      BY <2>1, <2>2, MergesProperties
    <2> DEFINE a == PreDisconnect(q, n2, P)
               m == AddDirty(a, N)
               c == PreDisconnect(m, n1, B)
    <2>4. r' = NetDestroyed(c, n2)
      BY <2>1
    <2>5. N \subseteq {n1}
      BY DEF N
    <2>6. /\ Router(c) /\ DOMAIN c.map = DOMAIN q.map
          /\ \A n \in DOMAIN q.map : DOMAIN c.map[n].pins \subseteq DOMAIN q.map[n].pins
          /\ DOMAIN c.map[n1].pins \cap B = {}
          /\ IsMerged(c, n2) = IsMerged(q, n2)
          /\ c.dirty = q.dirty \cup {n1, n2}
          /\ c.routes = q.routes /\ c.tree = q.tree /\ c.usage = q.usage
          /\ q.alive => c.alive
      BY <2>2, <2>3, <2>5, MovedProperties
    <2> HIDE DEF a, m, c
    <2>7. r.dirty \subseteq nets /\ r.dirty \subseteq DOMAIN r.map
      BY <1>2 DEF RInv, Marks
    <2>8. c.dirty \subseteq nets /\ c.dirty \subseteq DOMAIN c.map
      BY <1>1, <2>2, <2>3, <2>6, <2>7
    <2>9. /\ Picture => DOMAIN c.routes \subseteq nets
          /\ Picture /\ r.alive => c.alive
      BY <1>1, <2>3, <2>6 DEF Picture
    <2>10. Picture => \A n \in nets' : DOMAIN c.map[n].pins \subseteq PinsOf(n)'
      <3> SUFFICES ASSUME Picture, NEW n \in nets'
                   PROVE  DOMAIN c.map[n].pins \subseteq PinsOf(n)'
        OBVIOUS
      <3>1. n \in nets /\ n \in DOMAIN r.map /\ DOMAIN r.map[n].pins \subseteq PinsOf(n)
        BY <1>2 DEF Picture
      <3>2. DOMAIN c.map[n].pins \subseteq PinsOf(n)
        BY <2>3, <2>6, <3>1
      <3>3. CASE n = n1
        BY <1>8, <2>6, <3>2, <3>3
      <3>4. CASE n # n1
        BY <1>8, <3>2, <3>4
      <3> QED BY <3>3, <3>4
    <2>11. Leaves(IsMerged(c, n2), n2)
      <3>1. IsMerged(c, n2) = (joins \/ r.map[n2].merged)
        <4>1. CASE r.map[n1].dirty
          BY <2>2, <2>3, <2>6, <4>1 DEF IsMerged
        <4>2. CASE ~r.map[n1].dirty
          BY <1>11, <2>2, <2>3, <2>6, <4>2 DEF IsMerged
        <4> QED BY <4>1, <4>2
      <3>2. dropped' = IF IsMerged(c, n2)
                       THEN [S \in Shape |-> dropped[S] + UsageOf(r.tree, {n2})[S]]
                       ELSE dropped
        BY <1>6, <1>11, <2>2, <3>1 DEF Drops
      <3> QED BY <3>2 DEF Leaves, Added
    <2>12. c.tree = r.tree /\ c.usage = r.usage /\ DOMAIN c.map = DOMAIN r.map
      BY <2>3, <2>6
    <2> QED BY <1>1, <1>2, <1>7, <1>11, <2>2, <2>4, <2>6, <2>8, <2>9, <2>10, <2>11, <2>12,
               DestroyedKeepsRInv
  <1> QED BY <1>9, <1>10, <1>11
LEMMA UndoKeepsRInv ==
  ASSUME RInv, UndoRemoveBuffer
  PROVE  RInv'
PROOF
  <1> DEFINE n1 == undo.survivor
             n2 == undo.removed
             net == undo.net
             back == {p \in DOMAIN net : net[p] = n2}
             N1 == {n1}
             N2 == {n2}
             created == NetCreated(r, n2)
             survives == AddDirty(created, N1)
             moved == PreDisconnect(survives, n1, back)
  <1>1. /\ r' = IF owners = {} THEN r ELSE AddDirty(moved, N2)
        /\ nets' = nets \cup {n2} /\ netOf' = With(netOf, net)
        /\ UNCHANGED <<dropped, owners>> /\ undo' = NoUndo
        /\ lapses' = lapses \cup (IF owners = {} THEN {"unheard"} ELSE {})
        /\ r.alive
    BY DEF UndoRemoveBuffer, Edits, Idle, Heard
  <1>2. /\ n1 \in nets /\ n2 \in Net /\ DOMAIN net \subseteq Pin
        /\ \A p \in DOMAIN net : net[p] \in {n1, n2} /\ netOf[p] \in {n1, NoNet}
        /\ nets \subseteq Net /\ NoNet \notin nets
        /\ netOf \in [Pin -> nets \cup {NoNet}]
    BY DEF UndoRemoveBuffer, RInv, Block
  <1>3. /\ back \subseteq DOMAIN net
        /\ \A p \in DOMAIN net \ back : net[p] = n1
        /\ N1 \subseteq {n1} /\ N1 \subseteq nets /\ n2 \in nets' /\ N2 = {n2}
    BY <1>1, <1>2
  <1> HIDE DEF n1, n2, net, back, N1, N2
  <1>4. /\ DOMAIN netOf' = Pin
        /\ \A p \in Pin : netOf'[p] = IF p \in DOMAIN net THEN net[p] ELSE netOf[p]
    BY <1>1, <1>2 DEF With
  <1>5. Block'
    <2>1. netOf' = [p \in Pin |-> IF p \in DOMAIN net THEN net[p] ELSE netOf[p]]
      BY <1>1, <1>2 DEF With
    <2>2. netOf' \in [Pin -> nets' \cup {NoNet}]
      BY <1>1, <1>2, <2>1
    <2> QED BY <1>1, <1>2, <2>2 DEF Block
  <1>6. \A m \in nets : m # n2 => PinsOf(m) \ (IF m = n1 THEN back ELSE {}) \subseteq PinsOf(m)'
    <2> SUFFICES ASSUME NEW m \in nets, m # n2, NEW p \in PinsOf(m),
                        p \notin (IF m = n1 THEN back ELSE {})
                 PROVE  p \in PinsOf(m)'
      OBVIOUS
    <2>1. p \in Pin /\ netOf[p] = m
      BY DEF PinsOf
    <2>2. p \in DOMAIN net => net[p] = m
      BY <1>2, <1>3, <2>1
    <2> QED BY <1>4, <2>1, <2>2 DEF PinsOf
  <1> HIDE DEF created, survives, moved
  <1>7. CASE owners = {}
    BY <1>1, <1>5, <1>7, UnheardKeepsRInv
  <1>8. CASE owners # {}
    <2>1. r' = AddDirty(moved, N2) /\ lapses' = lapses /\ Router(r)
      BY <1>1, <1>8 DEF RInv, Books
    <2>2. /\ Router(created)
          /\ DOMAIN created.map = DOMAIN r.map \cup {n2}
          /\ \A m \in DOMAIN r.map : m # n2 => created.map[m] = r.map[m]
          /\ DOMAIN created.map[n2].pins = {}
          /\ created.dirty = r.dirty /\ created.routes = r.routes /\ created.tree = r.tree
          /\ created.usage = r.usage /\ created.alive = r.alive
      BY <2>1, NetCreatedProperties DEF created
    <2>3. /\ Router(survives)
          /\ DOMAIN survives.map = DOMAIN created.map
          /\ \A n \in DOMAIN created.map : survives.map[n].pins = created.map[n].pins
          /\ survives.dirty = created.dirty \cup N1
          /\ survives.routes = created.routes /\ survives.tree = created.tree
          /\ survives.usage = created.usage
          /\ survives.alive = (created.alive /\ N1 \subseteq DOMAIN created.map)
      BY <2>2, AddDirtyProperties DEF survives
    <2>4. /\ Router(moved)
          /\ DOMAIN moved.map = DOMAIN survives.map
          /\ \A m \in DOMAIN survives.map :
               DOMAIN moved.map[m].pins \subseteq DOMAIN survives.map[m].pins
          /\ n1 \in DOMAIN survives.map => DOMAIN moved.map[n1].pins \cap back = {}
          /\ moved.dirty = survives.dirty \cup {n1}
          /\ moved.routes = survives.routes /\ moved.tree = survives.tree
          /\ moved.usage = survives.usage
          /\ moved.alive = (survives.alive /\ n1 \in DOMAIN survives.map)
      BY <2>3, PreDisconnectProperties DEF moved
    <2>5. /\ Router(r')
          /\ DOMAIN r'.map = DOMAIN moved.map
          /\ \A n \in DOMAIN moved.map : r'.map[n].pins = moved.map[n].pins
          /\ r'.dirty = moved.dirty \cup N2
          /\ r'.routes = moved.routes /\ r'.tree = moved.tree /\ r'.usage = moved.usage
          /\ r'.alive = (moved.alive /\ N2 \subseteq DOMAIN moved.map)
      BY <2>1, <2>4, AddDirtyProperties
    <2>6. r'.tree = r.tree /\ r'.usage = r.usage /\ r'.routes = r.routes
      BY <2>2, <2>3, <2>4, <2>5
    <2>7. DOMAIN r'.map = DOMAIN r.map \cup {n2}
      BY <2>2, <2>3, <2>4, <2>5
    <2>8. r'.dirty = r.dirty \cup N1 \cup {n1} \cup N2
      BY <2>2, <2>3, <2>4, <2>5
    <2>9. r'.alive => n1 \in DOMAIN r.map \cup {n2}
      BY <2>2, <2>3, <2>4, <2>5
    <2>10. n1 \in DOMAIN r.map => r'.alive
      BY <1>1, <1>3, <2>2, <2>3, <2>4, <2>5
    <2>11. r.dirty \subseteq nets /\ r.dirty \subseteq DOMAIN r.map
      BY <1>1 DEF RInv, Marks
    <2>12. /\ r'.dirty \subseteq nets' /\ nets \subseteq nets'
           /\ r'.alive => r'.dirty \subseteq DOMAIN r'.map
      BY <1>1, <1>2, <1>3, <2>7, <2>8, <2>9, <2>11
    <2>13. ASSUME NEW m \in DOMAIN r'.map
           PROVE  DOMAIN r'.map[m].pins \subseteq DOMAIN created.map[m].pins
      <3>1. m \in DOMAIN created.map /\ m \in DOMAIN survives.map /\ m \in DOMAIN moved.map
        BY <2>3, <2>4, <2>5
      <3> QED BY <2>3, <2>4, <2>5, <3>1
    <2>14. Picture => r'.alive /\ DOMAIN r'.map = nets'
                      /\ \A m \in nets' : DOMAIN r'.map[m].pins \subseteq PinsOf(m)'
      <3>1. Picture => r'.alive /\ DOMAIN r'.map = nets'
        BY <1>1, <1>2, <2>7, <2>10 DEF Picture
      <3>2. ASSUME Picture, NEW m \in nets'
            PROVE  DOMAIN r'.map[m].pins \subseteq PinsOf(m)'
        <4>1. DOMAIN r'.map[m].pins \subseteq DOMAIN created.map[m].pins
          BY <2>13, <3>1, <3>2
        <4>2. CASE m = n2
          BY <2>2, <4>1, <4>2
        <4>3. CASE m # n2
          <5>1. m \in nets /\ created.map[m] = r.map[m] /\ DOMAIN r.map[m].pins \subseteq PinsOf(m)
            BY <1>1, <2>2, <3>2, <4>3 DEF Picture
          <5>2. DOMAIN r'.map[m].pins \subseteq PinsOf(m)
            BY <4>1, <5>1
          <5>3. CASE m = n1
            <6>1. n1 \in DOMAIN moved.map /\ n1 \in DOMAIN survives.map
              BY <2>2, <2>3, <2>4, <3>2, <5>1, <5>3 DEF Picture
            <6>2. DOMAIN r'.map[n1].pins \cap back = {}
              BY <2>4, <2>5, <6>1
            <6> QED BY <1>6, <4>3, <5>1, <5>2, <5>3, <6>2
          <5>4. CASE m # n1
            BY <1>6, <4>3, <5>1, <5>2, <5>4
          <5> QED BY <5>3, <5>4
        <4> QED BY <4>2, <4>3
      <3> QED BY <3>1, <3>2
    <2> QED BY <1>1, <1>5, <1>8, <2>1, <2>5, <2>6, <2>12, <2>14, HeardKeepsRInv
  <1> QED BY <1>7, <1>8

\* The netlist and the router are left as they are.
LEMMA QuietKeepsRInv ==
  ASSUME RInv, UNCHANGED <<block, r, undo, dropped>>, lapses \subseteq lapses',
         owners' = {} => r.dirty = {}
  PROVE  RInv'
PROOF
  <1>1. Block' /\ Books'
    BY DEF RInv, Block, Books, Ints, Accounted, block
  <1>2. Marks'
    BY DEF RInv, Marks, block
  <1>3. \A m \in nets : PinsOf(m)' = PinsOf(m)
    BY DEF PinsOf, block
  <1>4. Sees'
    BY <1>3 DEF RInv, Sees, Picture, block
  <1> QED BY <1>1, <1>2, <1>4 DEF RInv
\* Nets of which some have been looked at and their trees given up.
LEMMA ClearedKeeps ==
  ASSUME RInv, r.alive, NEW S, S \subseteq r.dirty, NEW N, N \subseteq S,
         NEW c, c = Cleared(r, S, N)
  PROVE  /\ Router(c) /\ c.dirty = r.dirty /\ c.alive
         /\ IsFiniteSet(DOMAIN c.tree) /\ DOMAIN c.tree \subseteq DOMAIN r.tree
         /\ Ints(dropped) /\ Accounted(c, dropped)
         /\ DOMAIN c.map = DOMAIN r.map /\ DOMAIN c.routes = DOMAIN r.routes \cup N
         /\ Picture => \A n \in nets : DOMAIN c.map[n].pins \subseteq PinsOf(n)
PROOF
  <1>1. /\ Router(r) /\ IsFiniteSet(DOMAIN r.tree) /\ Ints(dropped) /\ Accounted(r, dropped)
        /\ S \subseteq nets /\ S \subseteq DOMAIN r.map
    BY TreesFinite DEF RInv, Books, Marks
  <1>2. /\ Router(c)
        /\ DOMAIN c.map = DOMAIN r.map \cup S
        /\ \A n \in DOMAIN c.map :
             c.map[n] = IF n \in S THEN NewEntry(PinsNow(n)) ELSE r.map[n]
        /\ DOMAIN c.routes = DOMAIN r.routes \cup N
        /\ c.tree = Without(r.tree, N)
        /\ c.usage = Released(r, N)
        /\ c.dirty = r.dirty /\ c.alive = r.alive
    <2>1. Router(r) /\ c = Cleared(r, S, N)
      BY <1>1
    <2> QED BY ONLY <2>1, ClearedProperties
  <1> DEFINE y == [T \in Shape |-> dropped[T] + UsageOf(r.tree, N)[T]]
  <1>3. Added(y, dropped, r.tree, N)
    BY DEF Added
  <1> HIDE DEF y
  <1>4. /\ IsFiniteSet(DOMAIN c.tree) /\ DOMAIN c.tree = DOMAIN r.tree \ N
        /\ c.usage = Released(r, N) => Accounted(c, dropped)
    <2>1. c.tree = Without(r.tree, N)
      BY <1>2
    <2>2. IsFiniteSet(DOMAIN r.tree) /\ Accounted(r, dropped) /\ Ints(dropped)
      BY <1>1
    <2> QED BY ONLY <2>1, <2>2, <1>3, ReleasedAccounted
  <1>5. \A n \in nets : DOMAIN NewEntry(PinsNow(n)).pins = PinsOf(n)
    BY DEF NewEntry, PinsNow
  <1>6. Picture => \A n \in nets : DOMAIN c.map[n].pins \subseteq PinsOf(n)
    <2> SUFFICES ASSUME Picture, NEW n \in nets
                 PROVE  DOMAIN c.map[n].pins \subseteq PinsOf(n)
      OBVIOUS
    <2>1. n \in DOMAIN r.map /\ n \in DOMAIN c.map /\ DOMAIN r.map[n].pins \subseteq PinsOf(n)
      BY <1>2 DEF Picture
    <2>2. CASE n \in S
      <3>1. c.map[n] = NewEntry(PinsNow(n))
        BY <1>2, <2>1, <2>2
      <3> QED BY <1>5, <3>1
    <2>3. CASE n \notin S
      <3>1. c.map[n] = r.map[n]
        BY <1>2, <2>1, <2>3
      <3> QED BY <2>1, <3>1
    <2> QED BY <2>2, <2>3
  <1>7. DOMAIN c.map = DOMAIN r.map
    BY <1>1, <1>2
  <1> QED BY <1>1, <1>2, <1>4, <1>6, <1>7

LEMMA UpdatedKeepsRInv ==
  ASSUME RInv, UNCHANGED <<block, undo, dropped, lapses>>, r.alive,
         NEW E \in RoutedAlong, NEW save, Updated(E, save)
  PROVE  RInv'
PROOF
  <1> DEFINE D == r.dirty
             N == Reroute(r)
             M == N \cup E
             c == Cleared(r, D, N)
             d == Routed(c, M)
  <1>1. r' = [d EXCEPT !.dirty = {}]
    BY DEF Updated
  <1>2. N \subseteq D /\ E \subseteq DOMAIN r.tree
    BY DEF Reroute, RoutedAlong
  <1> HIDE DEF N, c, d
  <1>3. /\ Router(c) /\ c.dirty = r.dirty /\ c.alive
        /\ IsFiniteSet(DOMAIN c.tree) /\ DOMAIN c.tree \subseteq DOMAIN r.tree
        /\ Ints(dropped) /\ Accounted(c, dropped)
        /\ DOMAIN c.map = DOMAIN r.map /\ DOMAIN c.routes = DOMAIN r.routes \cup N
        /\ Picture => \A n \in nets : DOMAIN c.map[n].pins \subseteq PinsOf(n)
    BY <1>2, ClearedKeeps DEF c
  <1>4. IsFiniteSet(M) /\ M \subseteq D \cup DOMAIN r.tree
    <2>1. IsFiniteSet(N) /\ IsFiniteSet(E)
      BY <1>2, TreesFinite, FS_Subset DEF RInv
    <2> QED BY <1>2, <2>1, FS_Union
  <1> HIDE DEF D, M
  <1>5. /\ Router(d) /\ d.map = c.map
        /\ DOMAIN d.routes = DOMAIN c.routes \cup M
        /\ d.dirty = c.dirty /\ d.alive = c.alive
    <2>1. Router(c) /\ d = Routed(c, M)
      BY <1>3 DEF d
    <2> QED BY ONLY <2>1, RoutedProperties
  <1>6. Accounted(d, dropped) /\ DOMAIN d.tree \subseteq DOMAIN c.tree \cup M
    BY <1>3, <1>4, RoutedAccounted DEF d
  <1>7. /\ Router(r') /\ r'.map = d.map /\ r'.routes = d.routes /\ r'.tree = d.tree
        /\ r'.usage = d.usage /\ r'.dirty = {} /\ r'.alive = d.alive
    BY <1>1, <1>5 DEF Router, Fields, Entries
  <1>8. Block'
    BY DEF RInv, Block, block
  <1>9. DOMAIN r'.tree \subseteq r.dirty \cup DOMAIN r.tree
    BY <1>3, <1>4, <1>6, <1>7 DEF D
  <1>10. Books'
    <2>1. r'.dirty \subseteq Net /\ DOMAIN r'.tree \subseteq Net
      BY <1>7, <1>9 DEF RInv, Books
    <2>2. Ints(dropped') /\ Accounted(r', dropped')
      BY <1>3, <1>6, <1>7 DEF Ints, Accounted
    <2> QED BY <1>7, <2>1, <2>2 DEF Books
  <1>11. Marks'
    BY <1>7 DEF Marks
  <1>12. Sees'
    <2> SUFFICES ASSUME lapses \cap {"unheard", "undefined"} = {}
                 PROVE  r'.alive /\ Picture'
      BY DEF Sees
    <2>1. Picture /\ r.dirty \subseteq nets /\ nets' = nets /\ netOf' = netOf
      BY DEF RInv, Sees, Marks, block
    <2>2. r'.alive /\ DOMAIN r'.map = nets' /\ DOMAIN r'.tree \subseteq nets'
      BY <1>3, <1>5, <1>7, <1>9, <2>1 DEF Picture
    <2>3. DOMAIN r'.routes \subseteq nets'
      BY <1>2, <1>3, <1>4, <1>5, <1>7, <2>1 DEF Picture, D
    <2>4. \A n \in nets' : PinsOf(n)' = PinsOf(n)
      BY <2>1 DEF PinsOf
    <2>5. \A n \in nets' : DOMAIN r'.map[n].pins \subseteq PinsOf(n)'
      BY <1>3, <1>5, <1>7, <2>1, <2>4
    <2> QED BY <2>2, <2>3, <2>5 DEF Picture
  <1> QED BY <1>8, <1>10, <1>11, <1>12 DEF RInv

LEMMA FailsKeepsRInv ==
  ASSUME RInv, UpdateFails
  PROVE  RInv'
PROOF
  <1>1. PICK n \in Apart(r) \cup NoWire(r), S \in SUBSET r.dirty :
          r' = [Cleared(r, S, S \cap Reroute(r)) EXCEPT !.map[n].pins = PinsNow(n)]
    BY DEF UpdateFails
  <1>2. /\ r.alive /\ UNCHANGED <<nets, netOf, undo, dropped>> /\ lapses \subseteq lapses'
        /\ owners' # {} /\ n \in r.dirty
    BY <1>1 DEF UpdateFails, Updates, Thrown, block, Apart, NoWire
  <1> DEFINE N == S \cap Reroute(r)
             c == Cleared(r, S, N)
             e == [c.map[n] EXCEPT !.pins = PinsNow(n)]
             map == [c.map EXCEPT ![n] = e]
  <1>3. r' = [c EXCEPT !.map[n].pins = PinsNow(n)] /\ N \subseteq S /\ S \subseteq r.dirty
    BY <1>1
  <1> HIDE DEF N, c
  <1>4. /\ Router(c) /\ c.dirty = r.dirty /\ c.alive
        /\ IsFiniteSet(DOMAIN c.tree) /\ DOMAIN c.tree \subseteq DOMAIN r.tree
        /\ Ints(dropped) /\ Accounted(c, dropped)
        /\ DOMAIN c.map = DOMAIN r.map /\ DOMAIN c.routes = DOMAIN r.routes \cup N
        /\ Picture => \A m \in nets : DOMAIN c.map[m].pins \subseteq PinsOf(m)
    BY <1>2, <1>3, ClearedKeeps DEF c
  <1>5. n \in nets /\ n \in DOMAIN c.map
    BY <1>2, <1>4 DEF RInv, Marks
  <1>6. r' = [c EXCEPT !.map = map]
    BY <1>3, <1>4, <1>5 DEF Router, Fields
  <1>7. /\ DOMAIN map = DOMAIN c.map
        /\ \A m \in DOMAIN c.map : m # n => map[m] = c.map[m]
        /\ map[n] = e
    BY <1>5
  <1>8. DOMAIN e = {"pins", "last", "dirty", "merged"} /\ DOMAIN e.pins = PinsOf(n)
    BY <1>4, <1>5 DEF Router, Entries, PinsNow
  <1> HIDE DEF map, e
  <1>9. /\ Fields(r') /\ r'.map = map /\ r'.dirty = c.dirty /\ r'.routes = c.routes
        /\ r'.tree = c.tree /\ r'.usage = c.usage /\ r'.alive = c.alive
    BY <1>4, <1>6 DEF Router, Fields
  <1>10. Router(r')
    BY <1>4, <1>7, <1>8, <1>9 DEF Router, Entries
  <1>11. Block'
    BY <1>2 DEF RInv, Block
  <1>12. Books'
    <2>1. r'.dirty \subseteq Net /\ DOMAIN r'.tree \subseteq Net
      BY <1>4, <1>9 DEF RInv, Books
    <2>2. Ints(dropped') /\ Accounted(r', dropped')
      BY <1>2, <1>4, <1>9 DEF Ints, Accounted
    <2> QED BY <1>10, <2>1, <2>2 DEF Books
  <1>13. Marks'
    BY <1>2, <1>4, <1>7, <1>9 DEF RInv, Marks
  <1>14. Sees'
    <2> SUFFICES ASSUME lapses \cap {"unheard", "undefined"} = {}
                 PROVE  r'.alive /\ Picture'
      BY <1>2 DEF Sees
    <2>1. Picture /\ r.dirty \subseteq nets /\ nets' = nets /\ netOf' = netOf
      BY <1>2 DEF RInv, Sees, Marks
    <2>2. /\ r'.alive /\ DOMAIN r'.map = nets' /\ DOMAIN r'.tree \subseteq nets'
          /\ DOMAIN r'.routes \subseteq nets'
      BY <1>3, <1>4, <1>7, <1>9, <2>1 DEF Picture
    <2>3. \A m \in nets' : PinsOf(m)' = PinsOf(m)
      BY <2>1 DEF PinsOf
    <2>4. ASSUME NEW m \in nets'
          PROVE  DOMAIN r'.map[m].pins \subseteq PinsOf(m)'
      <3>1. CASE m = n
        BY <1>7, <1>8, <1>9, <2>3, <3>1
      <3>2. CASE m # n
        <4>1. m \in nets /\ m \in DOMAIN c.map
          BY <1>4, <2>1 DEF Picture
        <4> QED BY <1>4, <1>7, <1>9, <2>1, <2>3, <3>2, <4>1
      <3> QED BY <3>1, <3>2
    <2> QED BY <2>2, <2>4 DEF Picture
  <1> QED BY <1>11, <1>12, <1>13, <1>14 DEF RInv

LEMMA UndefinedKeepsRInv ==
  ASSUME RInv, UpdateUndefined
  PROVE  RInv'
PROOF
  <1>1. /\ r' = [r EXCEPT !.alive = FALSE] /\ UNCHANGED <<nets, netOf, undo, dropped, owners>>
        /\ "undefined" \in lapses' /\ owners # {} /\ Router(r)
    BY DEF UpdateUndefined, Updates, block, RInv, Books
  <1>2. /\ Router(r') /\ r'.dirty = r.dirty /\ r'.tree = r.tree /\ r'.usage = r.usage
        /\ ~r'.alive
    BY <1>1 DEF Router, Fields, Entries
  <1>3. Block'
    BY <1>1 DEF RInv, Block
  <1>4. Books'
    BY <1>1, <1>2 DEF RInv, Books, Ints, Accounted
  <1>5. Marks'
    BY <1>1, <1>2 DEF Marks
  <1>6. Sees'
    BY <1>1 DEF Sees
  <1> QED BY <1>3, <1>4, <1>5, <1>6 DEF RInv
NoUsage == UsageOf(<<>>, {})

LEMMA NothingAccounted ==
  ASSUME NEW q, q.tree = <<>>, q.usage = NoUsage
  PROVE  IsFiniteSet(DOMAIN q.tree) /\ DOMAIN q.tree = {} /\ Ints(NoUsage) /\ Accounted(q, NoUsage)
PROOF
  <1>1. DOMAIN q.tree = {}
    OBVIOUS
  <1>2. \A S \in Shape : UsageOf(q.tree, {})[S] = 0 /\ NoUsage[S] = 0
    <2> SUFFICES ASSUME NEW S \in Shape PROVE UsageOf(q.tree, {})[S] = 0
      BY DEF NoUsage
    <2> DEFINE t == q.tree
               none == {}
    <2>1. Of(t, none, S) = {}
      BY DEF Of
    <2>2. Cardinality({}) = 0
      BY FS_EmptySet
    <2> HIDE DEF t, none
    <2>3. UsageOf(t, none)[S] = 0
      BY <2>1, <2>2, UsageIs
    <2> QED BY <2>3 DEF t, none
  <1>3. IsFiniteSet(DOMAIN q.tree)
    BY <1>1, FS_EmptySet
  <1>4. Accounted(q, NoUsage)
    BY <1>1, <1>2 DEF Accounted
  <1>5. Ints(NoUsage)
    BY <1>2 DEF Ints
  <1> QED BY <1>1, <1>3, <1>4, <1>5

\* All nets routed from nothing.
Nothing(q) == DOMAIN q.routes = {} /\ q.tree = <<>> /\ q.usage = NoUsage

LEMMA RoutedFromNothing ==
  ASSUME NEW q, Router(q), Nothing(q), NEW N, N \subseteq Net, DOMAIN q.map = N,
         NEW d, d = Routed(q, N)
  PROVE  /\ Router(d) /\ d.map = q.map /\ d.dirty = q.dirty /\ d.alive = q.alive
         /\ DOMAIN d.routes \subseteq N /\ DOMAIN d.tree \subseteq N
         /\ Ints(NoUsage) /\ Accounted(d, NoUsage)
PROOF
  <1>1. IsFiniteSet(DOMAIN q.tree) /\ DOMAIN q.tree = {} /\ Ints(NoUsage) /\ Accounted(q, NoUsage)
    BY NothingAccounted DEF Nothing
  <1>2. IsFiniteSet(N)
    BY FS_Subset
  <1>3. Accounted(d, NoUsage) /\ DOMAIN d.tree \subseteq DOMAIN q.tree \cup N
    <2>1. Router(q) /\ d = Routed(q, N)
      OBVIOUS
    <2> QED BY ONLY <1>1, <1>2, <2>1, RoutedAccounted
  <1>4. /\ Router(d) /\ d.map = q.map /\ DOMAIN d.routes = DOMAIN q.routes \cup N
        /\ d.dirty = q.dirty /\ d.alive = q.alive
    <2>1. Router(q) /\ d = Routed(q, N)
      OBVIOUS
    <2> QED BY ONLY <2>1, RoutedProperties
  <1> QED BY <1>1, <1>3, <1>4 DEF Nothing

LEMMA GlobalKeepsRInv ==
  ASSUME RInv, GlobalRoute
  PROVE  RInv'
PROOF
  <1> DEFINE map == [n \in nets |-> NewEntry(PinsNow(n))]
             q == [map |-> map, dirty |-> r.dirty, routes |-> <<>>, tree |-> <<>>,
                   usage |-> NoUsage, alive |-> TRUE]
  <1>1. /\ r' = Routed(q, nets) /\ dropped' = NoUsage /\ undo' = NoUndo
        /\ UNCHANGED <<nets, netOf, owners>> /\ r.alive
    BY DEF GlobalRoute, Rebuilt, Idle, block, NoUsage
  <1>2. /\ DOMAIN map = nets
        /\ \A n \in nets : /\ DOMAIN map[n] = {"pins", "last", "dirty", "merged"}
                           /\ DOMAIN map[n].pins = PinsOf(n)
    BY DEF NewEntry, PinsNow
  <1> HIDE DEF map
  <1>3. /\ Router(q) /\ q.map = map /\ Nothing(q)
        /\ q.dirty = r.dirty /\ q.alive
    <2>1. /\ q.map = map /\ q.routes = <<>> /\ q.tree = <<>> /\ q.usage = NoUsage
          /\ q.dirty = r.dirty /\ q.alive = TRUE
      OBVIOUS
    <2>2. Fields(q)
      BY DEF Fields
    <2> HIDE DEF q
    <2>3. Entries(q)
      BY <1>2, <2>1 DEF Entries
    <2>4. DOMAIN q.routes = {}
      BY <2>1
    <2> QED BY <2>1, <2>2, <2>3, <2>4 DEF Router, Nothing
  <1> HIDE DEF q
  <1>4. nets \subseteq Net /\ r.dirty \subseteq nets
    BY <1>1 DEF RInv, Block, Marks
  <1>5. /\ Router(r') /\ r'.map = q.map /\ r'.dirty = q.dirty /\ r'.alive = q.alive
        /\ DOMAIN r'.routes \subseteq nets /\ DOMAIN r'.tree \subseteq nets
        /\ Ints(NoUsage) /\ Accounted(r', NoUsage)
    <2>1. /\ Router(q) /\ DOMAIN q.map = nets /\ nets \subseteq Net
          /\ Nothing(q) /\ r' = Routed(q, nets)
      BY <1>1, <1>2, <1>3, <1>4
    <2> QED BY ONLY <2>1, RoutedFromNothing
  <1>6. Block'
    BY <1>1 DEF RInv, Block
  <1>7. Books'
    BY <1>1, <1>3, <1>4, <1>5 DEF Books
  <1>8. Marks'
    BY <1>1, <1>2, <1>3, <1>4, <1>5 DEF RInv, Marks
  <1>9. Sees'
    <2>1. \A n \in nets : PinsOf(n)' = PinsOf(n)
      BY <1>1 DEF PinsOf
    <2> QED BY <1>1, <1>2, <1>3, <1>5, <2>1 DEF Sees, Picture
  <1> QED BY <1>6, <1>7, <1>8, <1>9 DEF RInv

LEMMA InitEstablishesRInv ==
  ASSUME Init
  PROVE  RInv
PROOF
  <1> DEFINE pins(n) == [p \in {q \in Pin : InitNetOf[q] = n} |-> InitPlace[p]]
             map == [n \in InitNets |-> NewEntry(pins(n))]
             q == [map |-> map, dirty |-> {}, routes |-> <<>>, tree |-> <<>>,
                   usage |-> NoUsage, alive |-> TRUE]
  <1>1. /\ r = Routed(q, InitNets) /\ dropped = NoUsage /\ undo = NoUndo
        /\ nets = InitNets /\ netOf = InitNetOf
    BY DEF Init, NoUsage
  <1>2. /\ DOMAIN map = InitNets
        /\ \A n \in InitNets : /\ DOMAIN map[n] = {"pins", "last", "dirty", "merged"}
                               /\ DOMAIN map[n].pins = PinsOf(n)
    BY <1>1 DEF NewEntry, PinsOf
  <1> HIDE DEF map
  <1>3. /\ Router(q) /\ q.map = map /\ Nothing(q)
        /\ q.dirty = {} /\ q.alive
    <2>1. /\ q.map = map /\ q.routes = <<>> /\ q.tree = <<>> /\ q.usage = NoUsage
          /\ q.dirty = {} /\ q.alive = TRUE
      OBVIOUS
    <2>2. Fields(q)
      BY DEF Fields
    <2> HIDE DEF q
    <2>3. Entries(q)
      BY <1>2, <2>1 DEF Entries
    <2>4. DOMAIN q.routes = {}
      BY <2>1
    <2> QED BY <2>1, <2>2, <2>3, <2>4 DEF Router, Nothing
  <1> HIDE DEF q
  <1>4. /\ Router(r) /\ r.map = q.map /\ r.dirty = q.dirty /\ r.alive = q.alive
        /\ DOMAIN r.routes \subseteq InitNets /\ DOMAIN r.tree \subseteq InitNets
        /\ Ints(NoUsage) /\ Accounted(r, NoUsage)
    <2>1. /\ Router(q) /\ DOMAIN q.map = InitNets /\ InitNets \subseteq Net
          /\ Nothing(q) /\ r = Routed(q, InitNets)
      BY <1>1, <1>2, <1>3
    <2> QED BY ONLY <2>1, RoutedFromNothing
  <1>5. Block
    BY <1>1 DEF Block
  <1>6. Books
    BY <1>1, <1>3, <1>4 DEF Books
  <1>7. Marks
    BY <1>3, <1>4 DEF Marks
  <1>8. Sees
    BY <1>1, <1>2, <1>3, <1>4 DEF Sees, Picture
  <1> QED BY <1>5, <1>6, <1>7, <1>8 DEF RInv

LEMMA NextKeepsRInv ==
  ASSUME RInv, [Next]_vars
  PROVE  RInv'
PROOF
  <1>1. ASSUME NEW i \in Inst, MoveInst(i) PROVE RInv'
    BY <1>1, MoveKeepsRInv
  <1>2. ASSUME NEW p \in Pin, Disconnect(p) PROVE RInv'
    BY <1>2, DisconnectKeepsRInv
  <1>3. ASSUME NEW p \in Pin, NEW n \in Net, Connect(p, n) PROVE RInv'
    BY <1>3, ConnectKeepsRInv
  <1>4. ASSUME NEW n \in Net, CreateNet(n) \/ DestroyNet(n) PROVE RInv'
    BY <1>4, CreateKeepsRInv, DestroyKeepsRInv
  <1>5. ASSUME NEW b \in Buffer, NEW n1 \in Net, NEW n2 \in Net, RemoveBuffer(b, n1, n2)
        PROVE  RInv'
    BY <1>5, RemoveKeepsRInv
  <1>6. ASSUME NEW b \in Buffer, NEW n1 \in Net, NEW n2 \in Net, RemoveBufferThrows(b, n1, n2)
        PROVE  RInv'
    <2>1. /\ UNCHANGED <<block, r, undo, dropped>> /\ lapses \subseteq lapses'
          /\ owners' # {}
      BY <1>6 DEF RemoveBufferThrows, Edits, Thrown
    <2> QED BY <2>1, QuietKeepsRInv
  <1>7. CASE UndoRemoveBuffer
    BY <1>7, UndoKeepsRInv
  <1>8. CASE UpdateRoutes \/ UpdateCongested
    <2>1. /\ UNCHANGED <<block, undo, dropped, lapses>> /\ r.alive
          /\ \E E \in RoutedAlong, save \in {FALSE, Reroute(r) # {}} : Updated(E, save)
      BY <1>8 DEF UpdateRoutes, UpdateCongested, Updates
    <2> QED BY <2>1, UpdatedKeepsRInv
  <1>9. CASE UpdateFails
    BY <1>9, FailsKeepsRInv
  <1>10. CASE UpdateUndefined
    BY <1>10, UndefinedKeepsRInv
  <1>11. CASE StartIncremental \/ BeginResizer
    <2>1. UNCHANGED <<block, r, undo, dropped>> /\ lapses \subseteq lapses' /\ owners' # {}
      BY <1>11 DEF StartIncremental, BeginResizer, Register
    <2> QED BY <2>1, QuietKeepsRInv
  <1>12. CASE EndIncremental
    <2>1. /\ UNCHANGED <<block, undo, dropped, lapses>> /\ r.alive
          /\ \E E \in RoutedAlong : Updated(E, TRUE)
      BY <1>12 DEF EndIncremental, Idle
    <2> QED BY <2>1, UpdatedKeepsRInv
  <1>13. CASE EndResizer
    <2>1. /\ UNCHANGED <<block, r, undo, dropped>> /\ lapses \subseteq lapses'
          /\ owners' = {} => r.dirty = {}
      BY <1>13 DEF EndResizer
    <2> QED BY <2>1, QuietKeepsRInv
  <1>14. CASE GlobalRoute
    BY <1>14, GlobalKeepsRInv
  <1>15. CASE UNCHANGED vars
    <2>1. UNCHANGED <<block, r, undo, dropped>> /\ lapses \subseteq lapses' /\ owners' = owners
      BY <1>15 DEF vars, block
    <2>2. owners' = {} => r.dirty = {}
      BY <2>1 DEF RInv, Marks
    <2> QED BY <2>1, <2>2, QuietKeepsRInv
  <1>16. Next => RInv'
    BY <1>1, <1>2, <1>3, <1>4, <1>5, <1>6, <1>7, <1>8, <1>9, <1>10, <1>11, <1>12, <1>13, <1>14
       DEF Next
  <1> QED BY <1>15, <1>16

LEMMA RInvHolds == Spec => []RInv
PROOF
  <1>1. Init => RInv
    BY InitEstablishesRInv
  <1>2. RInv /\ [Next]_vars => RInv'
    BY NextKeepsRInv
  <1> QED BY <1>1, <1>2, PTL DEF Spec

-----------------------------------------------------------------------------
(***************************************************************************)
(* Routes that fit.                                                        *)
(***************************************************************************)

\* Some pins and where they are; two of them or more; and a route of wires.
Pinned == UNION {[P -> Place] : P \in SUBSET Pin}
Two(pins) == Cardinality(DOMAIN pins) > 1
Wires(route) == route \in Seq(SUBSET Place)

\* A route and guides that were right when the pins were there: J are the nets
\* whose routes were joined, and U those whose guides were not saved since.
Covers(n, route, J, pins) ==
  IF n \in J THEN Two(pins) => Cells(pins) \subseteq Cover(route)
  ELSE route = RouteFor(pins)

Guided(n, U, G, pins) ==
  n \notin U /\ Two(pins) /\ G[n] # {} => Cells(pins) \subseteq G[n]

Suits(n, route, J, U, G, pins) == Covers(n, route, J, pins) /\ Guided(n, U, G, pins)

\* Only joined routes are marked as merged; those that are not were looked at.
Sound(e, n, route, J, U) ==
  /\ Wires(route)
  /\ e.merged => n \in J /\ n \in U
  /\ n \in J /\ ~e.merged => Connected(route)

\* The entry of a net that was not touched since it was routed or looked at; it
\* may just have been merged.
Unmarked(e, n, route, J, U, G, pins) ==
  /\ Sound(e, n, route, J, U)
  /\ ~e.dirty /\ e.last = Positions(<<>>) /\ e.pins = pins
  /\ Suits(n, route, J, U, G, pins)

\* The entry of a net that was: it knows where pins were that the route suits.
Stale(e, n, route, J, U, G) ==
  /\ Sound(e, n, route, J, U)
  /\ e.dirty
  /\ \E was \in Pinned : /\ DOMAIN e.pins \subseteq DOMAIN was
                         /\ Positions(was) = e.last
                         /\ Suits(n, route, J, U, G, was)

Kept(q, n, J, U, G, pins) ==
  \/ Unmarked(q.map[n], n, RouteOf(q, n), J, U, G, pins)
  \/ Stale(q.map[n], n, RouteOf(q, n), J, U, G)

Fits(q, n, J, U, G, pins) ==
  \/ Unmarked(q.map[n], n, RouteOf(q, n), J, U, G, pins) /\ ~q.map[n].merged
  \/ n \in q.dirty /\ Stale(q.map[n], n, RouteOf(q, n), J, U, G)

Layout ==
  /\ place \in [Pin -> Place] /\ DOMAIN guides = Net
  /\ undo # NoUndo => undo.removed \notin nets

AllFit ==
  /\ joined \subseteq nets
  /\ \A n \in nets : Fits(r, n, joined, unsaved, guides, PinsNow(n))

FInv == Layout /\ (lapses = {} => AllFit)

-----------------------------------------------------------------------------
(***************************************************************************)
(* Where pins are, and what covers them.                                   *)
(***************************************************************************)

At(pins, g) == {p \in DOMAIN pins : pins[p] = g}

LEMMA MoreThanOne ==
  ASSUME NEW S, IsFiniteSet(S)
  PROVE  Cardinality(S) > 1 <=> \E a, b \in S : a # b
PROOF
  <1>1. Cardinality(S) \in Nat
    BY FS_CardinalityType
  <1>2. ASSUME NEW a \in S, NEW b \in S, a # b
        PROVE  Cardinality(S) > 1
    <2> DEFINE T == S \ {a}
    <2>1. IsFiniteSet(T) /\ Cardinality(T) \in Nat /\ Cardinality(T) = Cardinality(S) - 1
      BY <1>2, FS_RemoveElement, FS_CardinalityType
    <2>2. Cardinality(T) # 0
      BY <1>2, <2>1, FS_EmptySet
    <2> QED BY <1>1, <2>1, <2>2
  <1>3. ASSUME \A a, b \in S : a = b
        PROVE  ~(Cardinality(S) > 1)
    <2>1. CASE S = {}
      BY <2>1, FS_EmptySet
    <2>2. CASE S # {}
      <3>1. PICK a \in S : TRUE
        BY <2>2
      <3>2. S = {a}
        BY <1>3, <3>1
      <3>3. Cardinality({a}) = 1
        BY FS_Singleton
      <3> QED BY <3>2, <3>3
    <2> QED BY <2>1, <2>2
  <1> QED BY <1>2, <1>3

LEMMA PinnedType ==
  ASSUME NEW pins \in Pinned
  PROVE  /\ DOMAIN pins \subseteq Pin /\ IsFiniteSet(DOMAIN pins)
         /\ \A p \in DOMAIN pins : pins[p] \in Place
         /\ Cells(pins) \subseteq Place
         /\ Two(pins) <=> \E a, b \in DOMAIN pins : a # b
PROOF
  <1>1. PICK P \in SUBSET Pin : pins \in [P -> Place]
    BY DEF Pinned
  <1>2. DOMAIN pins \subseteq Pin /\ \A p \in DOMAIN pins : pins[p] \in Place
    BY <1>1
  <1>3. IsFiniteSet(DOMAIN pins)
    BY <1>2, FS_Subset
  <1>4. Cells(pins) \subseteq Place
    BY <1>2 DEF Cells, Range
  <1>5. Two(pins) <=> \E a, b \in DOMAIN pins : a # b
    BY <1>3, MoreThanOne DEF Two
  <1> QED BY <1>2, <1>3, <1>4, <1>5

\* How many pins are where tells which cells they are in, and whether there are
\* two of them.
LEMMA SamePositions ==
  ASSUME NEW was \in Pinned, NEW now \in Pinned, Positions(was) = Positions(now)
  PROVE  /\ Cells(was) = Cells(now)
         /\ Two(was) = Two(now)
         /\ RouteFor(was) = RouteFor(now)
         /\ DOMAIN was = {} <=> DOMAIN now = {}
PROOF
  <1>1. ASSUME NEW a \in Pinned, NEW b \in Pinned, Positions(a) = Positions(b)
        PROVE  Cells(a) \subseteq Cells(b) /\ (Two(a) => Two(b))
    <2>1. /\ DOMAIN a \subseteq Pin /\ IsFiniteSet(DOMAIN a)
          /\ \A p \in DOMAIN a : a[p] \in Place
          /\ Two(a) <=> \E p, q \in DOMAIN a : p # q
      BY <1>1, PinnedType
    <2>2. /\ IsFiniteSet(DOMAIN b)
          /\ Two(b) <=> \E p, q \in DOMAIN b : p # q
      BY <1>1, PinnedType
    <2>3. \A g \in Place : Cardinality(At(a, g)) = Cardinality(At(b, g))
      <3> SUFFICES ASSUME NEW g \in Place
                   PROVE  Cardinality(At(a, g)) = Cardinality(At(b, g))
        OBVIOUS
      <3>1. Positions(a)[g] = Positions(b)[g]
        BY <1>1
      <3> QED BY <3>1 DEF Positions, At
    <2>4. \A g : /\ IsFiniteSet(At(a, g)) /\ IsFiniteSet(At(b, g))
                 /\ At(a, g) \subseteq DOMAIN a /\ At(b, g) \subseteq DOMAIN b
      BY <2>1, <2>2, FS_Subset DEF At
    <2>5. \A g \in Place : At(a, g) # {} => At(b, g) # {}
      BY <2>3, <2>4, FS_EmptySet
    <2>6. \A g \in Place : (\E p, q \in At(a, g) : p # q) => \E p, q \in At(b, g) : p # q
      BY <2>3, <2>4, MoreThanOne
    <2>7. Cells(a) \subseteq Cells(b)
      BY <2>1, <2>5 DEF Cells, Range, At
    <2>8. ASSUME NEW p \in DOMAIN a, NEW q \in DOMAIN a, p # q
          PROVE  \E s, t \in DOMAIN b : s # t
      <3>1. CASE a[p] = a[q]
        <4>1. p \in At(a, a[p]) /\ q \in At(a, a[p]) /\ a[p] \in Place
          BY <2>1, <3>1 DEF At
        <4>2. \E s, t \in At(b, a[p]) : s # t
          BY <2>6, <2>8, <4>1
        <4> QED BY <2>4, <4>2
      <3>2. CASE a[p] # a[q]
        <4>1. p \in At(a, a[p]) /\ q \in At(a, a[q]) /\ a[p] \in Place /\ a[q] \in Place
          BY <2>1 DEF At
        <4>2. At(b, a[p]) # {} /\ At(b, a[q]) # {}
          BY <2>5, <4>1
        <4>3. PICK s \in At(b, a[p]), t \in At(b, a[q]) : TRUE
          BY <4>2
        <4> QED BY <3>2, <4>3 DEF At
      <3> QED BY <3>1, <3>2
    <2> QED BY <2>1, <2>2, <2>7, <2>8
  <1>2. Cells(was) = Cells(now) /\ (Two(was) <=> Two(now))
    <2>1. Cells(was) \subseteq Cells(now) /\ (Two(was) => Two(now))
      BY <1>1
    <2>2. Cells(now) \subseteq Cells(was) /\ (Two(now) => Two(was))
      BY <1>1
    <2> QED BY <2>1, <2>2
  <1>3. RouteFor(was) = RouteFor(now)
    BY <1>2 DEF RouteFor, Two
  <1>4. DOMAIN was = {} <=> DOMAIN now = {}
    <2>1. \A pins : DOMAIN pins = {} <=> Cells(pins) = {}
      <3> SUFFICES ASSUME NEW pins PROVE DOMAIN pins = {} <=> Cells(pins) = {}
        OBVIOUS
      <3>1. Cells(pins) = {pins[p] : p \in DOMAIN pins}
        BY DEF Cells, Range
      <3>2. \A p \in DOMAIN pins : pins[p] \in Cells(pins)
        BY <3>1
      <3>3. DOMAIN pins = {} => Cells(pins) = {}
        BY <3>1
      <3> QED BY <3>2, <3>3
    <2> QED BY <1>2, <2>1
  <1> QED BY <1>2, <1>3, <1>4 DEF Two

LEMMA NoPins ==
  /\ <<>> \in Pinned
  /\ \A pins \in Pinned : DOMAIN pins = {} => /\ pins = <<>>
                                              /\ Positions(pins) = Positions(<<>>)
PROOF
  <1>1. <<>> = [p \in {} |-> p]
    OBVIOUS
  <1>2. [p \in {} |-> p] \in [{} -> Place]
    OBVIOUS
  <1>3. <<>> \in Pinned
    BY <1>1, <1>2 DEF Pinned
  <1>4. ASSUME NEW pins \in Pinned, DOMAIN pins = {}
        PROVE  pins = <<>>
    <2>1. PICK P \in SUBSET Pin : pins \in [P -> Place]
      BY DEF Pinned
    <2>2. pins \in [{} -> Place]
      BY <1>4, <2>1
    <2> QED BY <1>1, <2>2
  <1> QED BY <1>3, <1>4

LEMMA PinsNowPinned ==
  ASSUME place \in [Pin -> Place], NEW n
  PROVE  PinsNow(n) \in Pinned /\ DOMAIN PinsNow(n) = PinsOf(n)
PROOF
  <1>1. PinsOf(n) \in SUBSET Pin
    BY DEF PinsOf
  <1>2. PinsNow(n) \in [PinsOf(n) -> Place]
    BY <1>1 DEF PinsNow
  <1> QED BY <1>1, <1>2 DEF Pinned

\* A new route covers its pins; joining routes covers what they did.
LEMMA NewRoute ==
  ASSUME NEW pins \in Pinned
  PROVE  /\ Wires(RouteFor(pins))
         /\ RouteFor(pins) # <<>> <=> Two(pins)
         /\ Two(pins) => Cover(RouteFor(pins)) = Cells(pins)
PROOF
  <1>1. Cells(pins) \subseteq Place
    BY PinnedType
  <1>2. CASE Two(pins)
    <2> DEFINE C == Cells(pins)
    <2>1. RouteFor(pins) = <<C>>
      BY <1>2 DEF RouteFor, Two
    <2> HIDE DEF C
    <2>2. <<C>> \in Seq(SUBSET Place)
      BY <1>1 DEF C
    <2>3. <<C>> # <<>>
      OBVIOUS
    <2>4. Range(<<C>>) = {C}
      BY DEF Range
    <2>5. UNION {C} = C
      OBVIOUS
    <2> QED BY <1>2, <2>1, <2>2, <2>3, <2>4, <2>5 DEF Wires, Cover, C
  <1>3. CASE ~Two(pins)
    <2>1. RouteFor(pins) = <<>>
      BY <1>3 DEF RouteFor, Two
    <2> QED BY <1>3, <2>1 DEF Wires
  <1> QED BY <1>2, <1>3

LEMMA CoverGrows ==
  ASSUME NEW a, Wires(a), NEW b, Wires(b)
  PROVE  Wires(a \o b) /\ Cover(a) \subseteq Cover(a \o b)
PROOF
  <1>1. a \o b \in Seq(SUBSET Place)
    BY DEF Wires
  <1>2. ASSUME NEW i \in DOMAIN a
        PROVE  i \in DOMAIN (a \o b) /\ (a \o b)[i] = a[i]
    BY DEF Wires
  <1>3. Range(a) \subseteq Range(a \o b)
    BY <1>2 DEF Range
  <1> QED BY <1>1, <1>3 DEF Wires, Cover

-----------------------------------------------------------------------------
(***************************************************************************)
(* What calls make of a net's fit.                                         *)
(***************************************************************************)

\* An entry that was marked, and lost some pins perhaps.
Marked(e, f) ==
  /\ f.dirty /\ f.merged = e.merged
  /\ f.last = IF e.last = Positions(<<>>) THEN Positions(e.pins) ELSE e.last
  /\ DOMAIN f.pins \subseteq DOMAIN e.pins

LEMMA MarkedIsStale ==
  ASSUME NEW e, NEW f, Marked(e, f), NEW n, NEW route, NEW J, NEW U, NEW G,
         NEW pins \in Pinned,
         Unmarked(e, n, route, J, U, G, pins) \/ Stale(e, n, route, J, U, G)
  PROVE  Stale(f, n, route, J, U, G)
PROOF
  <1>1. Sound(f, n, route, J, U) /\ f.dirty
    BY DEF Marked, Unmarked, Stale, Sound
  <1>2. CASE Unmarked(e, n, route, J, U, G, pins)
    <2>1. /\ e.last = Positions(<<>>) /\ e.pins = pins
          /\ Suits(n, route, J, U, G, pins)
      BY <1>2 DEF Unmarked
    <2>2. Positions(pins) = f.last /\ DOMAIN f.pins \subseteq DOMAIN pins
      BY <2>1 DEF Marked
    <2> QED BY <1>1, <2>1, <2>2 DEF Stale
  <1>3. CASE Stale(e, n, route, J, U, G)
    <2>1. PICK was \in Pinned : /\ DOMAIN e.pins \subseteq DOMAIN was
                                /\ Positions(was) = e.last
                                /\ Suits(n, route, J, U, G, was)
      BY <1>3 DEF Stale
    <2>2. DOMAIN f.pins \subseteq DOMAIN was
      BY <2>1 DEF Marked
    <2>3. CASE e.last # Positions(<<>>)
      <3>1. Positions(was) = f.last
        BY <2>1, <2>3 DEF Marked
      <3> QED BY <1>1, <2>1, <2>2, <3>1 DEF Stale
    <2>4. CASE e.last = Positions(<<>>)
      <3>1. DOMAIN was = {}
        BY <2>1, <2>4, NoPins, SamePositions
      <3>2. DOMAIN e.pins = {}
        BY <2>1, <3>1
      <3>3. Positions(e.pins) = Positions(<<>>)
        <4>1. \A g : {p \in DOMAIN e.pins : e.pins[p] = g} = {}
          BY <3>2
        <4>2. \A g : {p \in DOMAIN <<>> : <<>>[p] = g} = {}
          OBVIOUS
        <4> QED BY <4>1, <4>2 DEF Positions
      <3>4. Positions(was) = f.last
        BY <2>1, <2>4, <3>3 DEF Marked
      <3> QED BY <1>1, <2>1, <2>2, <3>4 DEF Stale
    <2> QED BY <2>3, <2>4
  <1> QED BY <1>2, <1>3

\* Calls that mark the nets N.
Touches(q, d, N) ==
  /\ DOMAIN d.map = DOMAIN q.map
  /\ \A n \in DOMAIN q.map \ N : d.map[n] = q.map[n]
  /\ \A n \in DOMAIN q.map \cap N : Marked(q.map[n], d.map[n])
  /\ d.dirty = q.dirty \cup N
  /\ d.routes = q.routes

LEMMA DirtiedMarks ==
  ASSUME NEW e, DOMAIN e = {"pins", "last", "dirty", "merged"}
  PROVE  Marked(e, Dirtied(e))
PROOF
  BY DEF Marked, Dirtied

LEMMA AddDirtyTouches ==
  ASSUME NEW q, Router(q), NEW N, NEW d, d = AddDirty(q, N)
  PROVE  Touches(q, d, N)
PROOF
  <1> DEFINE map == [n \in DOMAIN q.map |-> IF n \in N THEN Dirtied(q.map[n]) ELSE q.map[n]]
  <1>1. d.map = map /\ d.dirty = q.dirty \cup N /\ d.routes = q.routes
    BY DEF AddDirty, Router, Fields
  <1>2. /\ DOMAIN map = DOMAIN q.map
        /\ \A n \in DOMAIN q.map \ N : map[n] = q.map[n]
        /\ \A n \in DOMAIN q.map \cap N : map[n] = Dirtied(q.map[n])
    OBVIOUS
  <1>3. \A n \in DOMAIN q.map : Marked(q.map[n], Dirtied(q.map[n]))
    BY DirtiedMarks DEF Router, Entries
  <1> HIDE DEF map
  <1> QED BY <1>1, <1>2, <1>3 DEF Touches

LEMMA PreDisconnectTouches ==
  ASSUME NEW q, Router(q), NEW n, NEW P, NEW d, d = PreDisconnect(q, n, P),
         NEW N, N = {n}
  PROVE  Touches(q, d, N)
PROOF
  <1> DEFINE a == AddDirty(q, {n})
  <1>1. Touches(q, a, N) /\ Router(a) /\ DOMAIN a.map = DOMAIN q.map
    BY AddDirtyTouches, AddDirtyProperties
  <1>2. d = IF P = {} \/ n \notin DOMAIN q.map THEN a
            ELSE [a EXCEPT !.map[n].pins = Restrict(@, DOMAIN @ \ P)]
    BY DEF PreDisconnect
  <1> HIDE DEF a
  <1>3. CASE P = {} \/ n \notin DOMAIN q.map
    BY <1>1, <1>2, <1>3
  <1>4. CASE P # {} /\ n \in DOMAIN q.map
    <2> DEFINE e == [a.map[n] EXCEPT !.pins = Restrict(@, DOMAIN @ \ P)]
               map == [a.map EXCEPT ![n] = e]
    <2>1. d = [a EXCEPT !.map = map]
      BY <1>1, <1>2, <1>4 DEF Router, Fields
    <2>2. /\ DOMAIN map = DOMAIN q.map
          /\ \A m \in DOMAIN q.map \ N : map[m] = a.map[m]
          /\ map[n] = e
      BY <1>1, <1>4
    <2>3. DOMAIN a.map[n] = {"pins", "last", "dirty", "merged"}
      BY <1>1, <1>4 DEF Router, Entries
    <2>4. /\ e.dirty = a.map[n].dirty /\ e.merged = a.map[n].merged
          /\ e.last = a.map[n].last
          /\ e.pins = Restrict(a.map[n].pins, DOMAIN a.map[n].pins \ P)
      BY <2>3
    <2>5. DOMAIN e.pins \subseteq DOMAIN a.map[n].pins
      BY <2>4 DEF Restrict
    <2>6. Marked(q.map[n], a.map[n])
      BY <1>1, <1>4 DEF Touches
    <2> HIDE DEF map, e
    <2>7. Marked(q.map[n], e)
      BY <2>4, <2>5, <2>6 DEF Marked
    <2>8. d.map = map /\ d.dirty = a.dirty /\ d.routes = a.routes
      BY <1>1, <2>1 DEF Router, Fields
    <2> QED BY <1>1, <2>2, <2>7, <2>8 DEF Touches
  <1> QED BY <1>3, <1>4

\* A net whose routes fit once still has routes that did when they are marked.
LEMMA TouchedKept ==
  ASSUME NEW q, NEW d, NEW N, Touches(q, d, N), NEW n \in DOMAIN q.map,
         NEW J, NEW U, NEW G, NEW pins \in Pinned, Kept(q, n, J, U, G, pins)
  PROVE  /\ Kept(d, n, J, U, G, pins)
         /\ n \in N => Stale(d.map[n], n, RouteOf(d, n), J, U, G)
PROOF
  <1>1. RouteOf(d, n) = RouteOf(q, n)
    BY DEF Touches, RouteOf
  <1>2. CASE n \in N
    <2>1. Marked(q.map[n], d.map[n])
      BY <1>2 DEF Touches
    <2>2. Stale(d.map[n], n, RouteOf(q, n), J, U, G)
      BY <2>1, MarkedIsStale DEF Kept
    <2> QED BY <1>1, <2>2 DEF Kept
  <1>3. CASE n \notin N
    <2>1. d.map[n] = q.map[n]
      BY <1>3 DEF Touches
    <2> QED BY <1>1, <1>3, <2>1 DEF Kept
  <1> QED BY <1>2, <1>3

\* A fit depends on the net alone.
Alike(n, J, U, G, K, V, H) ==
  /\ n \in J <=> n \in K
  /\ n \in U <=> n \in V
  /\ G[n] = H[n]

LEMMA AlikeSuits ==
  ASSUME NEW n, NEW J, NEW U, NEW G, NEW K, NEW V, NEW H, Alike(n, J, U, G, K, V, H),
         NEW route
  PROVE  /\ \A pins : Suits(n, route, J, U, G, pins) <=> Suits(n, route, K, V, H, pins)
         /\ \A e : Sound(e, n, route, J, U) <=> Sound(e, n, route, K, V)
         /\ \A e : Stale(e, n, route, J, U, G) => Stale(e, n, route, K, V, H)
         /\ \A e, pins : Unmarked(e, n, route, J, U, G, pins)
                           => Unmarked(e, n, route, K, V, H, pins)
PROOF
  <1>1. \A pins : Suits(n, route, J, U, G, pins) <=> Suits(n, route, K, V, H, pins)
    BY DEF Alike, Suits, Covers, Guided
  <1>2. \A e : Sound(e, n, route, J, U) <=> Sound(e, n, route, K, V)
    BY DEF Alike, Sound
  <1>3. \A e : Stale(e, n, route, J, U, G) => Stale(e, n, route, K, V, H)
    <2> SUFFICES ASSUME NEW e, Stale(e, n, route, J, U, G)
                 PROVE  Stale(e, n, route, K, V, H)
      OBVIOUS
    <2>1. PICK was \in Pinned : /\ DOMAIN e.pins \subseteq DOMAIN was
                                /\ Positions(was) = e.last
                                /\ Suits(n, route, J, U, G, was)
      BY DEF Stale
    <2>2. Suits(n, route, K, V, H, was) /\ Sound(e, n, route, K, V) /\ e.dirty
      BY <1>1, <1>2, <2>1 DEF Stale
    <2> QED BY <2>1, <2>2 DEF Stale
  <1>4. \A e, pins : Unmarked(e, n, route, J, U, G, pins)
                       => Unmarked(e, n, route, K, V, H, pins)
    BY <1>1, <1>2 DEF Unmarked
  <1> QED BY <1>1, <1>2, <1>3, <1>4

\* A net that a call does not touch.
LEMMA OthersFit ==
  ASSUME NEW n, NEW q, NEW d, d.map[n] = q.map[n], RouteOf(d, n) = RouteOf(q, n),
         n \in q.dirty => n \in d.dirty,
         NEW J, NEW U, NEW G, NEW K, NEW V, NEW H, Alike(n, J, U, G, K, V, H),
         NEW pins, Fits(q, n, J, U, G, pins)
  PROVE  Fits(d, n, K, V, H, pins)
PROOF
  <1>1. CASE Unmarked(q.map[n], n, RouteOf(q, n), J, U, G, pins) /\ ~q.map[n].merged
    BY <1>1, AlikeSuits DEF Fits
  <1>2. CASE n \in q.dirty /\ Stale(q.map[n], n, RouteOf(q, n), J, U, G)
    BY <1>2, AlikeSuits DEF Fits
  <1> QED BY <1>1, <1>2 DEF Fits

LEMMA CreatedOthers ==
  ASSUME NEW q, Router(q), NEW n, NEW d, d = NetCreated(q, n)
  PROVE  /\ d.map[n] = NewEntry(<<>>)
         /\ \A m \in DOMAIN q.map : m # n => d.map[m] = q.map[m]
         /\ d.routes = q.routes /\ d.dirty = q.dirty
PROOF
  <1> DEFINE e == NewEntry(<<>>)
             map == With(q.map, [m \in {n} |-> e])
  <1>1. d.map = map /\ d.routes = q.routes /\ d.dirty = q.dirty
    BY DEF NetCreated, Router, Fields
  <1>2. map[n] = e /\ \A m \in DOMAIN q.map : m # n => map[m] = q.map[m]
    BY DEF With
  <1> QED BY <1>1, <1>2

\* A net that was just created has no pins, and needs no route.
LEMMA CreatedFits ==
  ASSUME NEW n, NEW J, n \notin J, NEW U, NEW G
  PROVE  /\ Unmarked(NewEntry(<<>>), n, <<>>, J, U, G, <<>>)
         /\ ~NewEntry(<<>>).merged
PROOF
  <1> DEFINE e == NewEntry(<<>>)
  <1>1. e.pins = <<>> /\ e.last = Positions(<<>>) /\ ~e.dirty /\ ~e.merged
    BY DEF NewEntry
  <1> HIDE DEF e
  <1>2. Wires(<<>>)
    BY DEF Wires
  <1>3. ~Two(<<>>)
    BY NoPins, PinnedType
  <1>4. RouteFor(<<>>) = <<>>
    BY <1>3 DEF RouteFor, Two
  <1>5. Suits(n, <<>>, J, U, G, <<>>)
    BY <1>3, <1>4 DEF Suits, Covers, Guided
  <1>6. Unmarked(e, n, <<>>, J, U, G, <<>>)
    BY <1>1, <1>2, <1>5 DEF Unmarked, Sound
  <1> QED BY <1>1, <1>6 DEF e

LEMMA DestroyedFits ==
  ASSUME NEW q, Router(q), NEW n, NEW d, d = NetDestroyed(q, n)
  PROVE  /\ \A m \in DOMAIN q.map : m # n => d.map[m] = q.map[m]
         /\ \A m : m # n => RouteOf(d, m) = RouteOf(q, m)
         /\ d.dirty = q.dirty \ {n}
PROOF
  <1>1. /\ d.map = Restrict(q.map, DOMAIN q.map \ {n})
        /\ d.dirty = q.dirty \ {n}
        /\ d.routes = Restrict(q.routes, DOMAIN q.routes \ {n})
    BY DEF NetDestroyed, Router, Fields
  <1>2. \A m \in DOMAIN q.map : m # n => d.map[m] = q.map[m]
    BY <1>1 DEF Restrict
  <1>3. /\ DOMAIN d.routes = DOMAIN q.routes \ {n}
        /\ \A m \in DOMAIN d.routes : d.routes[m] = q.routes[m]
    BY <1>1 DEF Restrict
  <1>4. \A m : m # n => RouteOf(d, m) = RouteOf(q, m)
    BY <1>3 DEF RouteOf
  <1> QED BY <1>1, <1>2, <1>4

\* Two nets of which the first was not touched, and what becomes of it.
Mergeable(q, n1, n2, J, U, G, pins) ==
  /\ Router(q) /\ {n1, n2} \subseteq DOMAIN q.map /\ n1 # n2
  /\ Unmarked(q.map[n1], n1, RouteOf(q, n1), J, U, G, pins)
  /\ Wires(RouteOf(q, n2))

Survives(q, d, n1, n2, K, V, G, pins) ==
  /\ Unmarked(d.map[n1], n1, RouteOf(d, n1), K, V, G, pins)
  /\ \A m \in DOMAIN q.map \ {n1, n2} : d.map[m] = q.map[m]
  /\ \A m : m # n1 => RouteOf(d, m) = RouteOf(q, m)

\* The survivor of a merge: its route covers what it did, and more.
LEMMA MergedFits ==
  ASSUME NEW q, NEW n1, NEW n2, NEW J, NEW U, NEW G, NEW pins \in Pinned,
         Mergeable(q, n1, n2, J, U, G, pins),
         NEW K, n1 \in K, NEW V, n1 \in V,
         NEW c \in Place \X Place, NEW d, d = Merged(q, n1, n2, c)
  PROVE  Survives(q, d, n1, n2, K, V, G, pins)
PROOF
  <1>0. /\ Router(q) /\ n1 \in DOMAIN q.map /\ n2 \in DOMAIN q.map /\ n1 # n2
        /\ Unmarked(q.map[n1], n1, RouteOf(q, n1), J, U, G, pins)
        /\ Wires(RouteOf(q, n2))
    BY DEF Mergeable
  <1> DEFINE wire == IF c[1] = c[2] THEN <<>> ELSE <<{c[1], c[2]}>>
             route == RouteOf(q, n1)
             route2 == RouteOf(q, n2)
             joint == route \o route2 \o wire
             routes == With(q.routes, [m \in {n1} |-> joint])
             map == [[q.map EXCEPT ![n1].merged = TRUE] EXCEPT ![n2].merged = TRUE]
  <1>1. d.map = map /\ d.routes = routes
    BY <1>0 DEF Merged, JoinedRoute, Router, Fields
  <1>2. /\ DOMAIN routes = DOMAIN q.routes \cup {n1}
        /\ routes[n1] = joint
        /\ \A m \in DOMAIN q.routes : m # n1 => routes[m] = q.routes[m]
    BY DEF With
  <1>3. /\ map[n1] = [q.map[n1] EXCEPT !.merged = TRUE]
        /\ \A m \in DOMAIN q.map \ {n1, n2} : map[m] = q.map[m]
    BY <1>0
  <1>4. DOMAIN q.map[n1] = {"pins", "last", "dirty", "merged"}
    BY <1>0 DEF Router, Entries
  <1> DEFINE e == map[n1]
  <1>5. /\ e.pins = q.map[n1].pins /\ e.last = q.map[n1].last /\ e.dirty = q.map[n1].dirty
        /\ e.merged = TRUE
    BY <1>3, <1>4
  <1> HIDE DEF map, routes
  <1>6. RouteOf(d, n1) = joint /\ \A m : m # n1 => RouteOf(d, m) = RouteOf(q, m)
    BY <1>1, <1>2 DEF RouteOf
  <1>7. Wires(wire)
    <2>1. c[1] \in Place /\ c[2] \in Place
      OBVIOUS
    <2>2. {c[1], c[2]} \in SUBSET Place
      BY <2>1
    <2> DEFINE S == {c[1], c[2]}
    <2> HIDE DEF S
    <2>3. <<S>> \in Seq(SUBSET Place)
      BY <2>2 DEF S
    <2>4. <<>> \in Seq(SUBSET Place)
      OBVIOUS
    <2> QED BY <2>3, <2>4 DEF Wires, S
  <1>8. Wires(route) /\ Wires(route2)
    BY <1>0 DEF Unmarked, Sound
  <1> HIDE DEF wire, route2
  <1>9. Wires(joint) /\ Cover(route) \subseteq Cover(joint)
    <2> HIDE DEF route
    <2>1. Wires(route \o route2) /\ Cover(route) \subseteq Cover(route \o route2)
      BY <1>8, CoverGrows
    <2>2. Wires(joint) /\ Cover(route \o route2) \subseteq Cover(joint)
      BY <1>7, <2>1, CoverGrows
    <2> QED BY <2>1, <2>2
  <1>10. Two(pins) => Cells(pins) \subseteq Cover(route)
    <2>1. Covers(n1, route, J, pins)
      BY <1>0 DEF Unmarked, Suits
    <2>2. CASE n1 \in J
      BY <2>1, <2>2 DEF Covers
    <2>3. CASE n1 \notin J
      <3>1. route = RouteFor(pins)
        BY <2>1, <2>3 DEF Covers
      <3> QED BY <3>1, NewRoute
    <2> QED BY <2>2, <2>3
  <1> HIDE DEF joint, e
  <1>11. Suits(n1, joint, K, V, G, pins)
    BY <1>9, <1>10 DEF Suits, Covers, Guided
  <1>12. Unmarked(e, n1, joint, K, V, G, pins)
    BY <1>0, <1>5, <1>9, <1>11 DEF Unmarked, Sound
  <1>13. d.map[n1] = e /\ \A m \in DOMAIN q.map \ {n1, n2} : d.map[m] = q.map[m]
    BY <1>1, <1>3 DEF e
  <1> QED BY <1>6, <1>12, <1>13 DEF Survives

LEMMA MergesFits ==
  ASSUME NEW q, NEW n1, NEW n2, NEW J, NEW U, NEW G, NEW pins \in Pinned,
         Mergeable(q, n1, n2, J, U, G, pins), ~q.map[n1].dirty,
         NEW K, n1 \in K, NEW V, n1 \in V,
         NEW d \in Merges(q, n1, n2)
  PROVE  Survives(q, d, n1, n2, K, V, G, pins)
PROOF
  <1>1. PICK c \in Place \X Place :
          d = Merged(Merged(q, n1, n2, c), n1, n2, c) \/ d = Merged(q, n1, n2, c)
    BY DEF Merges, MergedBy, BufferCells
  <1>2. PICK e : e = Merged(q, n1, n2, c)
    OBVIOUS
  <1>3. Survives(q, e, n1, n2, K, V, G, pins)
    BY <1>2, MergedFits
  <1>4. Router(e) /\ DOMAIN e.map = DOMAIN q.map
    BY <1>2, MergedProperties DEF Mergeable
  <1>5. CASE d = e
    BY <1>3, <1>5
  <1>6. CASE d = Merged(e, n1, n2, c)
    <2>1. Mergeable(e, n1, n2, K, V, G, pins)
      BY <1>3, <1>4 DEF Mergeable, Survives
    <2>2. Survives(e, d, n1, n2, K, V, G, pins)
      BY <1>6, <2>1, MergedFits
    <2> QED BY <1>3, <1>4, <2>2 DEF Survives
  <1> QED BY <1>1, <1>2, <1>5, <1>6

\* A call that touches the nets N.
LEMMA FitsAgain ==
  ASSUME AllFit, NEW N, joined' \subseteq nets',
         \A n \in nets' \ N :
           /\ n \in nets /\ PinsNow(n)' = PinsNow(n)
           /\ r'.map[n] = r.map[n] /\ RouteOf(r', n) = RouteOf(r, n)
           /\ n \in r.dirty => n \in r'.dirty
           /\ Alike(n, joined, unsaved, guides, joined', unsaved', guides'),
         \A n \in nets' \cap N : Fits(r', n, joined', unsaved', guides', PinsNow(n)')
  PROVE  AllFit'
PROOF
  <1>1. ASSUME NEW n \in nets'
        PROVE  Fits(r', n, joined', unsaved', guides', PinsNow(n)')
    <2>1. CASE n \in N
      BY <1>1, <2>1
    <2>2. CASE n \notin N
      <3>1. Fits(r, n, joined, unsaved, guides, PinsNow(n))
        BY <1>1, <2>2 DEF AllFit
      <3>2. Fits(r', n, joined', unsaved', guides', PinsNow(n))
        BY <1>1, <2>2, <3>1, OthersFit
      <3> QED BY <1>1, <2>2, <3>2
    <2> QED BY <2>1, <2>2
  <1> QED BY <1>1 DEF AllFit

\* Calls that mark nets whose routes fit.
LEMMA TouchedFit ==
  ASSUME Picture, AllFit, Layout, NEW n \in nets, NEW q, NEW N, Touches(r, q, N)
  PROVE  /\ Kept(q, n, joined, unsaved, guides, PinsNow(n))
         /\ n \in N => Stale(q.map[n], n, RouteOf(q, n), joined, unsaved, guides)
PROOF
  <1>1. Kept(r, n, joined, unsaved, guides, PinsNow(n))
    BY DEF AllFit, Fits, Kept
  <1>2. PinsNow(n) \in Pinned /\ n \in DOMAIN r.map
    BY PinsNowPinned DEF Layout, Picture
  <1> QED BY <1>1, <1>2, TouchedKept

\* A call that is heard.
LEMMA HeardFits ==
  ASSUME RInv, FInv, Edits, lapses' = {}
  PROVE  owners # {} /\ Picture /\ AllFit /\ Router(r) /\ r.alive
PROOF
  <1>1. owners # {} /\ lapses = {}
    BY DEF Edits
  <1>2. r.alive /\ Picture
    BY <1>1 DEF RInv, Sees
  <1> QED BY <1>1, <1>2 DEF FInv, RInv, Books

LEMMA MoveFits ==
  ASSUME RInv, FInv, NEW i \in Inst, MoveInst(i)
  PROVE  FInv'
PROOF
  <1> DEFINE pins == {p \in Pin : InstOf[p] = i}
             N == {netOf[p] : p \in pins} \ {NoNet}
  <1>1. /\ Edits /\ undo' = NoUndo /\ Heard(AddDirty(r, N))
        /\ \E cells \in [pins -> Place] : place' = With(place, cells)
        /\ UNCHANGED <<nets, netOf, guides, joined, unsaved>>
    BY DEF MoveInst, Plain
  <1>2. /\ place' \in [Pin -> Place]
        /\ \A p \in Pin \ pins : place'[p] = place[p]
    <2>1. PICK cells \in [pins -> Place] : place' = With(place, cells)
      BY <1>1
    <2>2. place \in [Pin -> Place] /\ pins \subseteq Pin
      BY DEF FInv, Layout
    <2> HIDE DEF pins
    <2>3. place' = [p \in Pin |-> IF p \in pins THEN cells[p] ELSE place[p]]
      BY <2>1, <2>2 DEF With
    <2> QED BY <2>2, <2>3
  <1>3. Layout'
    BY <1>1, <1>2 DEF FInv, Layout
  <1>4. ASSUME lapses' = {} PROVE AllFit'
    <2>1. owners # {} /\ Picture /\ AllFit /\ Router(r)
      BY <1>1, <1>4, HeardFits
    <2>2. Touches(r, r', N)
      BY <1>1, <2>1, AddDirtyTouches DEF Heard
    <2>3. \A n \in nets \ N : PinsNow(n)' = PinsNow(n)
      <3> SUFFICES ASSUME NEW n \in nets \ N PROVE PinsNow(n)' = PinsNow(n)
        OBVIOUS
      <3>1. PinsOf(n)' = PinsOf(n)
        BY <1>1 DEF PinsOf
      <3>2. n # NoNet
        BY DEF RInv, Block
      <3>3. \A p \in PinsOf(n) : p \in Pin \ pins
        BY <3>2 DEF PinsOf
      <3> QED BY <1>2, <3>1, <3>3 DEF PinsNow
    <2> HIDE DEF N
    <2>4. \A n \in nets \ N : /\ r'.map[n] = r.map[n] /\ RouteOf(r', n) = RouteOf(r, n)
                              /\ n \in r.dirty => n \in r'.dirty
      BY <2>1, <2>2 DEF Touches, Picture, RouteOf
    <2>5. \A n \in nets : Alike(n, joined, unsaved, guides, joined', unsaved', guides')
      BY <1>1 DEF Alike
    <2>6. \A n \in nets \cap N : Fits(r', n, joined', unsaved', guides', PinsNow(n)')
      BY <1>1, <2>1, <2>2, TouchedFit DEF Touches, Fits, FInv
    <2> QED BY <1>1, <2>1, <2>3, <2>4, <2>5, <2>6, FitsAgain DEF AllFit
  <1> QED BY <1>3, <1>4 DEF FInv

LEMMA DisconnectFits ==
  ASSUME RInv, FInv, NEW p \in Pin, Disconnect(p)
  PROVE  FInv'
PROOF
  <1> DEFINE old == netOf[p]
             N == {old}
  <1>1. /\ Edits /\ undo' = NoUndo /\ Heard(PreDisconnect(r, old, {p}))
        /\ netOf' = [netOf EXCEPT ![p] = NoNet]
        /\ UNCHANGED <<nets, place, guides, joined, unsaved>>
    BY DEF Disconnect, Plain
  <1>2. Layout'
    BY <1>1 DEF FInv, Layout
  <1>3. ASSUME lapses' = {} PROVE AllFit'
    <2>1. owners # {} /\ Picture /\ AllFit /\ Router(r)
      BY <1>1, <1>3, HeardFits
    <2>2. Touches(r, r', N)
      BY <1>1, <2>1, PreDisconnectTouches DEF Heard
    <2>3. \A n \in nets \ N : PinsNow(n)' = PinsNow(n)
      <3> SUFFICES ASSUME NEW n \in nets \ N PROVE PinsNow(n)' = PinsNow(n)
        OBVIOUS
      <3>1. PinsOf(n)' = PinsOf(n)
        BY <1>1 DEF PinsOf, RInv, Block
      <3> QED BY <1>1, <3>1 DEF PinsNow
    <2> HIDE DEF N
    <2>4. \A n \in nets \ N : /\ r'.map[n] = r.map[n] /\ RouteOf(r', n) = RouteOf(r, n)
                              /\ n \in r.dirty => n \in r'.dirty
      BY <2>1, <2>2 DEF Touches, Picture, RouteOf
    <2>5. \A n \in nets : Alike(n, joined, unsaved, guides, joined', unsaved', guides')
      BY <1>1 DEF Alike
    <2>6. \A n \in nets \cap N : Fits(r', n, joined', unsaved', guides', PinsNow(n)')
      BY <1>1, <2>1, <2>2, TouchedFit DEF Touches, Fits, FInv
    <2> QED BY <1>1, <2>1, <2>3, <2>4, <2>5, <2>6, FitsAgain DEF AllFit
  <1> QED BY <1>2, <1>3 DEF FInv

LEMMA ConnectFits ==
  ASSUME RInv, FInv, NEW p \in Pin, NEW n \in Net, Connect(p, n)
  PROVE  FInv'
PROOF
  <1> DEFINE old == netOf[p]
             free == IF old = NoNet THEN r ELSE PreDisconnect(r, old, {p})
             M == IF old = NoNet THEN {} ELSE {old}
             N == {n}
  <1>1. /\ Edits /\ undo' = NoUndo /\ Heard(AddDirty(free, N))
        /\ netOf' = [netOf EXCEPT ![p] = n]
        /\ UNCHANGED <<nets, place, guides, joined, unsaved>>
    BY DEF Connect, Plain
  <1>2. Layout'
    BY <1>1 DEF FInv, Layout
  <1>3. ASSUME lapses' = {} PROVE AllFit'
    <2>1. owners # {} /\ Picture /\ AllFit /\ Router(r) /\ r' = AddDirty(free, N)
      BY <1>1, <1>3, HeardFits DEF Heard
    <2>2. \A m \in nets \ (M \cup N) : PinsNow(m)' = PinsNow(m)
      <3> SUFFICES ASSUME NEW m \in nets \ (M \cup N) PROVE PinsNow(m)' = PinsNow(m)
        OBVIOUS
      <3>1. m # NoNet /\ m # old /\ m # n
        BY DEF RInv, Block
      <3>2. PinsOf(m)' = PinsOf(m)
        BY <1>1, <3>1 DEF PinsOf, RInv, Block
      <3> QED BY <1>1, <3>2 DEF PinsNow
    <2>3. Touches(r, free, M) /\ Router(free)
      <3>1. CASE old = NoNet
        BY <2>1, <3>1 DEF Touches
      <3>2. CASE old # NoNet
        BY <2>1, <3>2, PreDisconnectTouches, PreDisconnectProperties
      <3> QED BY <3>1, <3>2
    <2>4. Touches(free, r', N)
      BY <2>1, <2>3, AddDirtyTouches
    <2> HIDE DEF M, N, free
    <2>5. \A m \in nets \ (M \cup N) :
            /\ r'.map[m] = r.map[m] /\ RouteOf(r', m) = RouteOf(r, m)
            /\ m \in r.dirty => m \in r'.dirty
      <3>1. \A m \in nets \ M : /\ free.map[m] = r.map[m] /\ RouteOf(free, m) = RouteOf(r, m)
                                /\ m \in r.dirty => m \in free.dirty
        BY <2>1, <2>3 DEF Touches, Picture, RouteOf
      <3>2. \A m \in nets \ N : /\ r'.map[m] = free.map[m] /\ RouteOf(r', m) = RouteOf(free, m)
                                /\ m \in free.dirty => m \in r'.dirty
        BY <2>1, <2>3, <2>4 DEF Touches, Picture, RouteOf
      <3> QED BY <3>1, <3>2
    <2>6. \A m \in nets : Alike(m, joined, unsaved, guides, joined', unsaved', guides')
      BY <1>1 DEF Alike
    <2>7. \A m \in nets \cap (M \cup N) : Fits(r', m, joined', unsaved', guides', PinsNow(m)')
      <3> SUFFICES ASSUME NEW m \in nets, m \in M \cup N
                   PROVE  /\ m \in r'.dirty
                          /\ Stale(r'.map[m], m, RouteOf(r', m), joined, unsaved, guides)
        BY <1>1 DEF Fits
      <3>1. /\ Kept(free, m, joined, unsaved, guides, PinsNow(m))
            /\ m \in M => Stale(free.map[m], m, RouteOf(free, m), joined, unsaved, guides)
        BY <2>1, <2>3, TouchedFit DEF FInv
      <3>2. PinsNow(m) \in Pinned /\ m \in DOMAIN free.map
        BY <2>1, <2>3, PinsNowPinned DEF FInv, Layout, Picture, Touches
      <3>3. m \in N => Stale(r'.map[m], m, RouteOf(r', m), joined, unsaved, guides)
        BY <2>4, <3>1, <3>2, TouchedKept
      <3>4. m \notin N => r'.map[m] = free.map[m] /\ RouteOf(r', m) = RouteOf(free, m)
        BY <2>4, <3>2 DEF Touches, RouteOf
      <3>5. m \in r'.dirty
        BY <2>3, <2>4 DEF Touches
      <3> QED BY <3>1, <3>3, <3>4, <3>5
    <2> QED BY <1>1, <2>1, <2>2, <2>5, <2>6, <2>7, FitsAgain DEF AllFit
  <1> QED BY <1>2, <1>3 DEF FInv

LEMMA CreateFits ==
  ASSUME RInv, FInv, NEW n \in Net, CreateNet(n)
  PROVE  FInv'
PROOF
  <1>1. /\ Edits /\ undo' = NoUndo /\ Heard(NetCreated(r, n))
        /\ n \notin nets /\ nets' = nets \cup {n}
        /\ UNCHANGED <<netOf, place, guides, joined, unsaved>>
    BY DEF CreateNet, Plain
  <1>2. Layout'
    BY <1>1 DEF FInv, Layout
  <1>3. ASSUME lapses' = {} PROVE AllFit'
    <2>1. owners # {} /\ Picture /\ AllFit /\ Router(r) /\ r' = NetCreated(r, n)
      BY <1>1, <1>3, HeardFits DEF Heard
    <2>2. /\ r'.map[n] = NewEntry(<<>>) /\ RouteOf(r', n) = <<>>
          /\ \A m \in DOMAIN r.map : m # n => r'.map[m] = r.map[m]
          /\ r'.routes = r.routes /\ r'.dirty = r.dirty
      BY <1>1, <2>1, CreatedOthers DEF Picture, RouteOf
    <2>10. /\ Unmarked(NewEntry(<<>>), n, <<>>, joined, unsaved, guides, <<>>)
           /\ ~NewEntry(<<>>).merged
      BY <1>1, <2>1, CreatedFits DEF AllFit
    <2>3. \A m : PinsNow(m)' = PinsNow(m)
      BY <1>1 DEF PinsNow, PinsOf
    <2>4. PinsNow(n) = <<>>
      <3>1. PinsOf(n) = {}
        BY <1>1 DEF RInv, Block, PinsOf
      <3> QED BY <3>1, PinsNowPinned, NoPins DEF FInv, Layout
    <2> DEFINE N == {n}
    <2>5. \A m \in nets' \ N :
            /\ m \in nets
            /\ r'.map[m] = r.map[m] /\ RouteOf(r', m) = RouteOf(r, m)
            /\ m \in r.dirty => m \in r'.dirty
      BY <1>1, <2>1, <2>2 DEF Picture, RouteOf
    <2>6. \A m : Alike(m, joined, unsaved, guides, joined', unsaved', guides')
      BY <1>1 DEF Alike
    <2>7. \A m \in nets' \cap N : Fits(r', m, joined', unsaved', guides', PinsNow(m)')
      BY <1>1, <2>2, <2>3, <2>4, <2>10 DEF Fits
    <2> HIDE DEF N
    <2> QED BY <1>1, <2>1, <2>3, <2>5, <2>6, <2>7, FitsAgain DEF AllFit
  <1> QED BY <1>2, <1>3 DEF FInv

LEMMA DestroyFits ==
  ASSUME RInv, FInv, NEW n \in Net, DestroyNet(n)
  PROVE  FInv'
PROOF
  <1> DEFINE q == IF PinsOf(n) = {} THEN r ELSE PreDisconnect(r, n, PinsOf(n))
             N == {n}
  <1>1. /\ Edits /\ undo' = NoUndo /\ Heard(NetDestroyed(q, n))
        /\ nets' = nets \ {n}
        /\ netOf' = [p \in Pin |-> IF netOf[p] = n THEN NoNet ELSE netOf[p]]
        /\ guides' = [guides EXCEPT ![n] = {}]
        /\ joined' = joined \ {n} /\ unsaved' = unsaved \ {n}
        /\ place' = place
    BY DEF DestroyNet
  <1>2. Layout'
    BY <1>1 DEF FInv, Layout
  <1>3. ASSUME lapses' = {} PROVE AllFit'
    <2>1. owners # {} /\ Picture /\ AllFit /\ Router(r) /\ r' = NetDestroyed(q, n)
      BY <1>1, <1>3, HeardFits DEF Heard
    <2>2. Router(q) /\ DOMAIN q.map = DOMAIN r.map
      BY <2>1, PreDisconnectProperties
    <2>3. /\ \A m \in DOMAIN r.map : m # n => q.map[m] = r.map[m]
          /\ \A m : RouteOf(q, m) = RouteOf(r, m)
          /\ r.dirty \subseteq q.dirty
      <3>1. CASE PinsOf(n) = {}
        BY <3>1
      <3>2. CASE PinsOf(n) # {}
        <4>1. Touches(r, q, N)
          BY <2>1, <3>2, PreDisconnectTouches
        <4> QED BY <4>1 DEF Touches, RouteOf
      <3> QED BY <3>1, <3>2
    <2> HIDE DEF q
    <2>4. /\ \A m \in DOMAIN q.map : m # n => r'.map[m] = q.map[m]
          /\ \A m : m # n => RouteOf(r', m) = RouteOf(q, m)
          /\ r'.dirty = q.dirty \ {n}
      BY <2>1, <2>2, DestroyedFits
    <2>5. \A m \in nets' : PinsNow(m)' = PinsNow(m)
      <3> SUFFICES ASSUME NEW m \in nets' PROVE PinsNow(m)' = PinsNow(m)
        OBVIOUS
      <3>1. m # NoNet /\ m # n
        BY <1>1 DEF RInv, Block
      <3>2. PinsOf(m)' = PinsOf(m)
        BY <1>1, <3>1 DEF PinsOf, RInv, Block
      <3> QED BY <1>1, <3>2 DEF PinsNow
    <2>6. \A m \in nets' :
            /\ m \in nets
            /\ r'.map[m] = r.map[m] /\ RouteOf(r', m) = RouteOf(r, m)
            /\ m \in r.dirty => m \in r'.dirty
      BY <1>1, <2>1, <2>2, <2>3, <2>4 DEF Picture
    <2>7. \A m \in nets' : Alike(m, joined, unsaved, guides, joined', unsaved', guides')
      BY <1>1 DEF Alike, FInv, Layout, RInv, Block
    <2>8. joined' \subseteq nets'
      BY <1>1, <2>1 DEF AllFit
    <2> DEFINE none == {}
    <2>9. \A m \in nets' \cap none : FALSE
      OBVIOUS
    <2> HIDE DEF none
    <2> QED BY <2>1, <2>5, <2>6, <2>7, <2>8, <2>9, FitsAgain
  <1> QED BY <1>2, <1>3 DEF FInv

\* The callbacks of a buffer's removal after the merge q.
LEMMA MovedFits ==
  ASSUME NEW q, Router(q), NEW n1 \in DOMAIN q.map, NEW n2 \in DOMAIN q.map, n1 # n2,
         NEW P, NEW B, NEW N1, N1 = {n1},
         NEW d, d = NetDestroyed(PreDisconnect(AddDirty(PreDisconnect(q, n2, P), N1), n1, B), n2),
         NEW J, NEW U, NEW G, NEW pins \in Pinned, Kept(q, n1, J, U, G, pins)
  PROVE  /\ n1 \in d.dirty /\ Stale(d.map[n1], n1, RouteOf(d, n1), J, U, G)
         /\ \A m \in DOMAIN q.map \ {n1, n2} :
              /\ d.map[m] = q.map[m] /\ RouteOf(d, m) = RouteOf(q, m)
              /\ m \in q.dirty => m \in d.dirty
PROOF
  <1> DEFINE N2 == {n2}
  <1>1. PICK a : a = PreDisconnect(q, n2, P)
    OBVIOUS
  <1>2. PICK b : b = AddDirty(a, N1)
    OBVIOUS
  <1>3. PICK c : c = PreDisconnect(b, n1, B)
    OBVIOUS
  <1>4. d = NetDestroyed(c, n2)
    BY <1>1, <1>2, <1>3
  <1>5. Router(a) /\ Touches(q, a, N2)
    BY <1>1, PreDisconnectTouches, PreDisconnectProperties
  <1>6. Router(b) /\ Touches(a, b, N1)
    BY <1>2, <1>5, AddDirtyTouches, AddDirtyProperties
  <1>7. Router(c) /\ Touches(b, c, N1)
    BY <1>3, <1>6, PreDisconnectTouches, PreDisconnectProperties
  <1>8. /\ \A m \in DOMAIN c.map : m # n2 => d.map[m] = c.map[m]
        /\ \A m : m # n2 => RouteOf(d, m) = RouteOf(c, m)
        /\ d.dirty = c.dirty \ {n2}
    BY <1>4, <1>7, DestroyedFits
  <1> HIDE DEF N2
  <1>9. DOMAIN a.map = DOMAIN q.map /\ DOMAIN b.map = DOMAIN q.map /\ DOMAIN c.map = DOMAIN q.map
    BY <1>5, <1>6, <1>7 DEF Touches
  <1>10. Stale(c.map[n1], n1, RouteOf(c, n1), J, U, G)
    <2>1. Kept(a, n1, J, U, G, pins)
      BY <1>5, TouchedKept
    <2>2. Kept(b, n1, J, U, G, pins)
      BY <1>6, <1>9, <2>1, TouchedKept
    <2> QED BY <1>7, <1>9, <2>2, TouchedKept
  <1>11. n1 \in d.dirty
    BY <1>7, <1>8 DEF Touches
  <1>12. ASSUME NEW m \in DOMAIN q.map \ {n1, n2}
         PROVE  /\ d.map[m] = q.map[m] /\ RouteOf(d, m) = RouteOf(q, m)
                /\ m \in q.dirty => m \in d.dirty
    <2>1. /\ a.map[m] = q.map[m] /\ RouteOf(a, m) = RouteOf(q, m)
          /\ m \in q.dirty => m \in a.dirty
      BY <1>5 DEF Touches, RouteOf, N2
    <2>2. /\ b.map[m] = a.map[m] /\ RouteOf(b, m) = RouteOf(a, m)
          /\ m \in a.dirty => m \in b.dirty
      BY <1>6, <1>9 DEF Touches, RouteOf
    <2>3. /\ c.map[m] = b.map[m] /\ RouteOf(c, m) = RouteOf(b, m)
          /\ m \in b.dirty => m \in c.dirty
      BY <1>7, <1>9 DEF Touches, RouteOf
    <2>4. /\ d.map[m] = c.map[m] /\ RouteOf(d, m) = RouteOf(c, m)
          /\ m \in c.dirty => m \in d.dirty
      BY <1>8, <1>9
    <2> QED BY <2>1, <2>2, <2>3, <2>4
  <1> QED BY <1>8, <1>9, <1>10, <1>11, <1>12

LEMMA RemoveFits ==
  ASSUME RInv, FInv, NEW b \in Buffer, NEW n1 \in Net, NEW n2 \in Net, RemoveBuffer(b, n1, n2)
  PROVE  FInv'
PROOF
  <1> DEFINE B == {b.in, b.out}
             P == PinsOf(n2)
             known == {n1, n2} \subseteq DOMAIN r.map
             joins == owners # {} /\ n1 \in DOMAIN r.map /\ ~r.map[n1].dirty
             more == IF joins THEN {n1} ELSE {}
             N1 == {n1}
  <1>1. /\ Removable(b, n1, n2) /\ Edits
        /\ nets' = nets \ {n2}
        /\ netOf' = [p \in Pin |-> IF p \in B THEN NoNet
                                   ELSE IF netOf[p] = n2 THEN n1 ELSE netOf[p]]
        /\ guides' = [guides EXCEPT ![n2] = {}]
        /\ joined' = (joined \ {n2}) \cup more /\ unsaved' = (unsaved \ {n2}) \cup more
        /\ undo' = [buffer |-> b, net |-> [p \in PinsOf(n1) \cup PinsOf(n2) |-> netOf[p]],
                    survivor |-> n1, removed |-> n2]
        /\ place' = place
    BY DEF RemoveBuffer
  <1>2. owners # {} /\ known =>
          \E q \in Merges(r, n1, n2) :
            r' = NetDestroyed(PreDisconnect(AddDirty(PreDisconnect(q, n2, P), N1), n1, B), n2)
    BY DEF RemoveBuffer
  <1>3. n1 # n2 /\ n1 \in nets /\ n2 \in nets /\ \A p \in B : p \in Pin /\ netOf[p] \in {n1, n2}
    <2>1. b.in \in Pin /\ b.out \in Pin
      OBVIOUS
    <2>2. {netOf[b.in], netOf[b.out]} = {n1, n2} /\ n1 # n2 /\ NoNet \notin {n1, n2}
      BY <1>1 DEF Removable
    <2>3. netOf[b.in] \in nets \cup {NoNet} /\ netOf[b.out] \in nets \cup {NoNet}
      BY <2>1 DEF RInv, Block
    <2> QED BY <2>1, <2>2, <2>3
  <1>4. Layout'
    <2>1. undo'.removed = n2
      BY <1>1
    <2> QED BY <1>1, <2>1 DEF FInv, Layout
  <1>5. \A m \in nets \ {n1, n2} : PinsNow(m)' = PinsNow(m)
    <2> SUFFICES ASSUME NEW m \in nets \ {n1, n2} PROVE PinsNow(m)' = PinsNow(m)
      OBVIOUS
    <2>1. m # NoNet
      BY DEF RInv, Block
    <2>2. \A p \in Pin : netOf'[p] = m <=> netOf[p] = m
      BY <1>1, <1>3, <2>1
    <2>3. PinsOf(m)' = PinsOf(m)
      BY <2>2 DEF PinsOf
    <2> QED BY <1>1, <2>3 DEF PinsNow
  <1>6. \A m \in nets \ {n1, n2} : Alike(m, joined, unsaved, guides, joined', unsaved', guides')
    BY <1>1 DEF Alike, FInv, Layout, RInv, Block
  <1>7. guides'[n1] = guides[n1]
    BY <1>1, <1>3 DEF FInv, Layout
  <1>8. ASSUME lapses' = {} PROVE AllFit'
    <2>1. owners # {} /\ Picture /\ AllFit /\ Router(r)
      BY <1>1, <1>8, HeardFits
    <2>2. n1 \in DOMAIN r.map /\ n2 \in DOMAIN r.map /\ known
      BY <1>3, <2>1 DEF Picture
    <2>3. PICK q \in Merges(r, n1, n2) :
            r' = NetDestroyed(PreDisconnect(AddDirty(PreDisconnect(q, n2, P), N1), n1, B), n2)
      BY <1>2, <2>1, <2>2
    <2> HIDE DEF B, P
    <2>4. /\ Router(q) /\ DOMAIN q.map = DOMAIN r.map /\ q.dirty = r.dirty
          /\ r.map[n1].dirty => q = r
      BY <2>1, <2>2, <2>3, MergesProperties
    <2> DEFINE pins == PinsNow(n1)
    <2>5. pins \in Pinned
      BY PinsNowPinned DEF FInv, Layout
    <2> HIDE DEF pins
    <2>6. Fits(r, n1, joined, unsaved, guides, pins)
      BY <1>3, <2>1 DEF AllFit, pins
    <2>7. /\ Kept(q, n1, joined', unsaved', guides', pins)
          /\ \A m \in nets \ {n1, n2} : q.map[m] = r.map[m] /\ RouteOf(q, m) = RouteOf(r, m)
      <3>1. CASE r.map[n1].dirty
        <4>1. Alike(n1, joined, unsaved, guides, joined', unsaved', guides')
          BY <1>1, <1>3, <1>7, <3>1 DEF Alike
        <4>2. Kept(r, n1, joined', unsaved', guides', pins)
          BY <2>6, <4>1, AlikeSuits DEF Fits, Kept
        <4> QED BY <2>4, <3>1, <4>2
      <3>2. CASE ~r.map[n1].dirty
        <4>1. Unmarked(r.map[n1], n1, RouteOf(r, n1), joined, unsaved, guides, pins)
          BY <2>6, <3>2 DEF Fits, Stale
        <4>2. Wires(RouteOf(r, n2))
          BY <1>3, <2>1 DEF AllFit, Fits, Unmarked, Stale, Sound
        <4>3. Mergeable(r, n1, n2, joined, unsaved, guides, pins)
          BY <1>3, <2>1, <2>2, <4>1, <4>2 DEF Mergeable
        <4>4. n1 \in joined' /\ n1 \in unsaved'
          BY <1>1, <2>1, <2>2, <3>2
        <4>5. Survives(r, q, n1, n2, joined', unsaved', guides, pins)
          BY <2>3, <2>5, <3>2, <4>3, <4>4, MergesFits
        <4>6. Alike(n1, joined', unsaved', guides, joined', unsaved', guides')
          BY <1>7 DEF Alike
        <4>7. Unmarked(q.map[n1], n1, RouteOf(q, n1), joined', unsaved', guides', pins)
          BY <4>5, <4>6, AlikeSuits DEF Survives
        <4> QED BY <2>1, <4>5, <4>7 DEF Survives, Kept, Picture
      <3> QED BY <3>1, <3>2
    <2>8. /\ n1 \in r'.dirty /\ Stale(r'.map[n1], n1, RouteOf(r', n1), joined', unsaved', guides')
          /\ \A m \in DOMAIN q.map \ {n1, n2} :
               /\ r'.map[m] = q.map[m] /\ RouteOf(r', m) = RouteOf(q, m)
               /\ m \in q.dirty => m \in r'.dirty
      BY <1>3, <2>2, <2>3, <2>4, <2>5, <2>7, MovedFits
    <2>9. \A m \in nets' \ N1 :
            /\ m \in nets /\ PinsNow(m)' = PinsNow(m)
            /\ r'.map[m] = r.map[m] /\ RouteOf(r', m) = RouteOf(r, m)
            /\ m \in r.dirty => m \in r'.dirty
            /\ Alike(m, joined, unsaved, guides, joined', unsaved', guides')
      BY <1>1, <1>5, <1>6, <2>1, <2>4, <2>7, <2>8 DEF Picture
    <2>10. \A m \in nets' \cap N1 : Fits(r', m, joined', unsaved', guides', PinsNow(m)')
      BY <2>8 DEF Fits
    <2>11. joined' \subseteq nets'
      BY <1>1, <1>3, <2>1 DEF AllFit
    <2> HIDE DEF N1
    <2> QED BY <2>1, <2>9, <2>10, <2>11, FitsAgain
  <1> QED BY <1>4, <1>8 DEF FInv

LEMMA UndoFits ==
  ASSUME RInv, FInv, UndoRemoveBuffer
  PROVE  FInv'
PROOF
  <1> DEFINE n1 == undo.survivor
             n2 == undo.removed
             net == undo.net
             back == {p \in DOMAIN net : net[p] = n2}
             N1 == {n1}
             N2 == {n2}
  <1>1. /\ Edits /\ undo # NoUndo /\ undo' = NoUndo
        /\ nets' = nets \cup {n2} /\ netOf' = With(netOf, net)
        /\ Heard(AddDirty(PreDisconnect(AddDirty(NetCreated(r, n2), N1), n1, back), N2))
        /\ UNCHANGED <<place, guides, joined, unsaved>>
    BY DEF UndoRemoveBuffer
  <1>2. /\ n1 \in nets /\ n2 \in Net /\ n2 \notin nets /\ DOMAIN net \subseteq Pin
        /\ \A p \in DOMAIN net : net[p] \in {n1, n2} /\ netOf[p] \in {n1, NoNet}
        /\ nets \subseteq Net /\ NoNet \notin nets /\ DOMAIN netOf = Pin
    BY <1>1 DEF RInv, Block, FInv, Layout
  <1> HIDE DEF n1, n2, net, back
  <1>3. Layout'
    BY <1>1 DEF FInv, Layout
  <1>4. \A m \in nets \ {n1, n2} : PinsNow(m)' = PinsNow(m)
    <2> SUFFICES ASSUME NEW m \in nets \ {n1, n2} PROVE PinsNow(m)' = PinsNow(m)
      OBVIOUS
    <2>1. m # NoNet /\ m # n1 /\ m # n2
      BY <1>2
    <2>2. \A p \in Pin : netOf'[p] = IF p \in DOMAIN net THEN net[p] ELSE netOf[p]
      BY <1>1, <1>2 DEF With
    <2>3. \A p \in Pin : netOf'[p] = m <=> netOf[p] = m
      BY <1>2, <2>1, <2>2
    <2>4. PinsOf(m)' = PinsOf(m)
      BY <2>3 DEF PinsOf
    <2> QED BY <1>1, <2>4 DEF PinsNow
  <1>5. ASSUME lapses' = {} PROVE AllFit'
    <2>1. /\ owners # {} /\ Picture /\ AllFit /\ Router(r)
          /\ r' = AddDirty(PreDisconnect(AddDirty(NetCreated(r, n2), N1), n1, back), N2)
      BY <1>1, <1>5, HeardFits DEF Heard
    <2>2. PICK a : a = NetCreated(r, n2)
      OBVIOUS
    <2>3. PICK b : b = AddDirty(a, N1)
      OBVIOUS
    <2>4. PICK c : c = PreDisconnect(b, n1, back)
      OBVIOUS
    <2>5. r' = AddDirty(c, N2)
      BY <2>1, <2>2, <2>3, <2>4
    <2>6. Router(a) /\ DOMAIN a.map = DOMAIN r.map \cup {n2}
      BY <2>1, <2>2, NetCreatedProperties
    <2>7. n2 \notin DOMAIN r.routes /\ n2 \notin joined /\ n2 \notin DOMAIN r.map
      BY <1>2, <2>1 DEF Picture, AllFit
    <2>8. /\ a.map[n2] = NewEntry(<<>>)
          /\ \A m \in DOMAIN r.map : m # n2 => a.map[m] = r.map[m]
          /\ a.routes = r.routes /\ a.dirty = r.dirty
      BY <2>1, <2>2, CreatedOthers
    <2>9. Unmarked(a.map[n2], n2, RouteOf(a, n2), joined, unsaved, guides, <<>>)
      BY <2>7, <2>8, CreatedFits DEF RouteOf
    <2>10. Router(b) /\ Touches(a, b, N1)
      BY <2>3, <2>6, AddDirtyTouches, AddDirtyProperties
    <2>11. Router(c) /\ Touches(b, c, N1)
      BY <2>4, <2>10, PreDisconnectTouches, PreDisconnectProperties
    <2>12. Touches(c, r', N2)
      BY <2>5, <2>11, AddDirtyTouches
    <2> HIDE DEF N1, N2
    <2>13. DOMAIN b.map = DOMAIN a.map /\ DOMAIN c.map = DOMAIN a.map
      BY <2>10, <2>11 DEF Touches
    <2>14. ASSUME NEW m \in {n1, n2}
           PROVE  m \in r'.dirty /\ Stale(r'.map[m], m, RouteOf(r', m), joined, unsaved, guides)
      <3>1. /\ m \in DOMAIN a.map
            /\ \E pins \in Pinned : Kept(a, m, joined, unsaved, guides, pins)
        <4>1. CASE m = n2
          BY <2>6, <2>9, <4>1, NoPins DEF Kept
        <4>2. CASE m = n1
          <5>1. n1 \in DOMAIN r.map /\ a.map[n1] = r.map[n1] /\ RouteOf(a, n1) = RouteOf(r, n1)
            BY <1>2, <2>1, <2>8 DEF Picture, RouteOf
          <5>2. Kept(a, n1, joined, unsaved, guides, PinsNow(n1))
            BY <1>2, <2>1, <5>1 DEF AllFit, Fits, Kept
          <5>3. PinsNow(n1) \in Pinned
            BY PinsNowPinned DEF FInv, Layout
          <5> QED BY <2>6, <4>2, <5>1, <5>2, <5>3
        <4> QED BY <2>14, <4>1, <4>2
      <3>2. PICK pins \in Pinned : Kept(a, m, joined, unsaved, guides, pins)
        BY <3>1
      <3>3. Kept(b, m, joined, unsaved, guides, pins)
        BY <2>10, <3>1, <3>2, TouchedKept
      <3>4. /\ Kept(c, m, joined, unsaved, guides, pins)
            /\ m \in N1 => Stale(c.map[m], m, RouteOf(c, m), joined, unsaved, guides)
        BY <2>11, <2>13, <3>1, <3>3, TouchedKept
      <3>5. m \in N2 => Stale(r'.map[m], m, RouteOf(r', m), joined, unsaved, guides)
        BY <2>12, <2>13, <3>1, <3>4, TouchedKept
      <3>6. m \notin N2 => r'.map[m] = c.map[m] /\ RouteOf(r', m) = RouteOf(c, m)
        BY <2>12, <2>13, <3>1 DEF Touches, RouteOf
      <3>7. m \in N1 \/ m \in N2
        BY <2>14 DEF N1, N2
      <3>8. m \in r'.dirty
        BY <2>11, <2>12, <3>7 DEF Touches
      <3> QED BY <3>4, <3>5, <3>6, <3>7, <3>8
    <2> DEFINE N == {n1, n2}
    <2>15. \A m \in nets' \ N :
             /\ m \in nets
             /\ r'.map[m] = r.map[m] /\ RouteOf(r', m) = RouteOf(r, m)
             /\ m \in r.dirty => m \in r'.dirty
      <3> SUFFICES ASSUME NEW m \in nets' \ N
                   PROVE  /\ m \in nets
                          /\ r'.map[m] = r.map[m] /\ RouteOf(r', m) = RouteOf(r, m)
                          /\ m \in r.dirty => m \in r'.dirty
        OBVIOUS
      <3>1. m \in nets /\ m \notin N1 /\ m \notin N2 /\ m # n2
        BY <1>1 DEF N1, N2
      <3>2. m \in DOMAIN r.map /\ m \in DOMAIN a.map
        BY <2>1, <2>6, <3>1 DEF Picture
      <3>3. /\ a.map[m] = r.map[m] /\ RouteOf(a, m) = RouteOf(r, m) /\ a.dirty = r.dirty
        BY <2>8, <3>1, <3>2 DEF RouteOf
      <3>4. b.map[m] = a.map[m] /\ RouteOf(b, m) = RouteOf(a, m) /\ a.dirty \subseteq b.dirty
        BY <2>10, <3>1, <3>2 DEF Touches, RouteOf
      <3>5. c.map[m] = b.map[m] /\ RouteOf(c, m) = RouteOf(b, m) /\ b.dirty \subseteq c.dirty
        BY <2>11, <2>13, <3>1, <3>2 DEF Touches, RouteOf
      <3>6. r'.map[m] = c.map[m] /\ RouteOf(r', m) = RouteOf(c, m) /\ c.dirty \subseteq r'.dirty
        BY <2>12, <2>13, <3>1, <3>2 DEF Touches, RouteOf
      <3> QED BY <3>1, <3>3, <3>4, <3>5, <3>6
    <2>16. \A m \in nets' \ N : PinsNow(m)' = PinsNow(m)
      BY <1>4, <2>15
    <2>17. \A m : Alike(m, joined, unsaved, guides, joined', unsaved', guides')
      BY <1>1 DEF Alike
    <2>18. \A m \in nets' \cap N : Fits(r', m, joined', unsaved', guides', PinsNow(m)')
      BY <1>1, <2>14 DEF Fits
    <2>19. joined' \subseteq nets'
      BY <1>1, <2>1 DEF AllFit
    <2> HIDE DEF N
    <2> QED BY <2>1, <2>15, <2>16, <2>17, <2>18, <2>19, FitsAgain
  <1> QED BY <1>3, <1>5 DEF FInv

\* What decides whether routes fit stays as it is.
LEMMA QuietFits ==
  ASSUME RInv, FInv, UNCHANGED <<block, guides, r, joined, unsaved>>,
         lapses \subseteq lapses', undo' = undo \/ undo' = NoUndo
  PROVE  FInv'
PROOF
  <1>1. Layout'
    BY DEF FInv, Layout, block
  <1>2. ASSUME lapses' = {} PROVE AllFit'
    <2>1. AllFit
      BY <1>2 DEF FInv
    <2>2. \A n : PinsNow(n)' = PinsNow(n)
      BY DEF PinsNow, PinsOf, block
    <2> QED BY <2>1, <2>2 DEF AllFit, block
  <1> QED BY <1>1, <1>2 DEF FInv

\* An entry as it was made.
Blank(e, pins) ==
  ~e.dirty /\ ~e.merged /\ e.last = Positions(<<>>) /\ e.pins = pins

LEMMA NewIsBlank ==
  ASSUME NEW pins
  PROVE  Blank(NewEntry(pins), pins)
PROOF
  BY DEF Blank, NewEntry

LEMMA BlankFits ==
  ASSUME NEW q, NEW n, NEW J, NEW U, NEW G, NEW pins, Blank(q.map[n], pins),
         Wires(RouteOf(q, n)), n \in J => Connected(RouteOf(q, n)),
         Suits(n, RouteOf(q, n), J, U, G, pins)
  PROVE  Fits(q, n, J, U, G, pins)
PROOF
  BY DEF Blank, Fits, Unmarked, Sound

\* Guides that are saved cover what the routes do.
LEMMA SavedGuided ==
  ASSUME NEW n, NEW route, NEW J, NEW pins \in Pinned, Covers(n, route, J, pins),
         NEW G, route # <<>> => G[n] = Cover(route), NEW U
  PROVE  Guided(n, U, G, pins)
PROOF
  <1> SUFFICES ASSUME Two(pins) PROVE Cells(pins) \subseteq G[n]
    BY DEF Guided
  <1>1. Cells(pins) \subseteq Cover(route)
    BY NewRoute DEF Covers
  <1>2. Cells(pins) # {}
    <2>1. PICK p \in DOMAIN pins : TRUE
      BY PinnedType
    <2>2. pins[p] \in Cells(pins)
      BY DEF Cells, Range
    <2> QED BY <2>2
  <1>3. Cover(<<>>) = {}
    BY DEF Cover, Range
  <1>4. route # <<>>
    BY <1>1, <1>2, <1>3
  <1> QED BY <1>1, <1>4

\* A net that is not routed again has a route that suits its pins now.
LEMMA NotRerouted ==
  ASSUME Layout, Apart(r) = {}, NEW n, n \notin Reroute(r),
         Fits(r, n, joined, unsaved, guides, PinsNow(n))
  PROVE  /\ Wires(RouteOf(r, n))
         /\ n \in joined => Connected(RouteOf(r, n))
         /\ Suits(n, RouteOf(r, n), joined, unsaved, guides, PinsNow(n))
         /\ n \notin r.dirty => Blank(r.map[n], PinsNow(n))
PROOF
  <1> DEFINE e == r.map[n]
             route == RouteOf(r, n)
             now == PinsNow(n)
  <1>1. now \in Pinned
    BY PinsNowPinned DEF Layout
  <1>2. n \in r.dirty => Positions(now) = e.last \/ (e.merged /\ Cells(now) \subseteq Cover(route))
    BY DEF Reroute
  <1>3. n \in r.dirty /\ e.merged => Connected(route)
    BY DEF Apart
  <1> HIDE DEF e, route, now
  <1>4. CASE Unmarked(e, n, route, joined, unsaved, guides, now) /\ ~e.merged
    BY <1>4 DEF Unmarked, Sound, Blank, e, route, now
  <1>5. CASE n \in r.dirty /\ Stale(e, n, route, joined, unsaved, guides)
    <2>1. /\ Wires(route) /\ (n \in joined => Connected(route))
          /\ e.merged => n \in joined /\ n \in unsaved
      BY <1>3, <1>5 DEF Stale, Sound
    <2>2. CASE Positions(now) = e.last
      <3>1. PICK was \in Pinned : /\ Positions(was) = e.last
                                  /\ Suits(n, route, joined, unsaved, guides, was)
        BY <1>5 DEF Stale
      <3>2. /\ Cells(was) = Cells(now) /\ Two(was) = Two(now)
            /\ RouteFor(was) = RouteFor(now)
        BY <1>1, <2>2, <3>1, SamePositions
      <3>3. Suits(n, route, joined, unsaved, guides, now)
        BY <3>1, <3>2 DEF Suits, Covers, Guided
      <3> QED BY <1>5, <2>1, <3>3 DEF route, now
    <2>3. CASE e.merged /\ Cells(now) \subseteq Cover(route)
      <3>1. Suits(n, route, joined, unsaved, guides, now)
        BY <2>1, <2>3 DEF Suits, Covers, Guided
      <3> QED BY <1>5, <2>1, <3>1 DEF route, now
    <2> QED BY <1>2, <1>5, <2>2, <2>3
  <1> QED BY <1>4, <1>5 DEF Fits, e, route, now

LEMMA ClearedRoutes ==
  ASSUME NEW q, Router(q), NEW S, NEW N, NEW d, d = Cleared(q, S, N)
  PROVE  \A n : n \notin N => RouteOf(d, n) = RouteOf(q, n)
PROOF
  <1> DEFINE routes == With(q.routes, [n \in N |-> <<>>])
  <1>1. d.routes = routes
    BY DEF Cleared, Router, Fields
  <1>2. /\ DOMAIN routes = DOMAIN q.routes \cup N
        /\ \A n \in DOMAIN q.routes : n \notin N => routes[n] = q.routes[n]
    BY DEF With
  <1> HIDE DEF routes
  <1> QED BY <1>1, <1>2 DEF RouteOf

LEMMA RoutedRoutes ==
  ASSUME NEW q, Router(q), NEW N, NEW d, d = Routed(q, N)
  PROVE  \A n : RouteOf(d, n) = IF n \in N THEN RouteFor(q.map[n].pins) ELSE RouteOf(q, n)
PROOF
  <1> DEFINE routes == With(q.routes, [n \in N |-> RouteFor(q.map[n].pins)])
  <1>1. d.routes = routes
    BY DEF Routed, Router, Fields
  <1>2. /\ DOMAIN routes = DOMAIN q.routes \cup N
        /\ \A n \in N : routes[n] = RouteFor(q.map[n].pins)
        /\ \A n \in DOMAIN q.routes : n \notin N => routes[n] = q.routes[n]
    BY DEF With
  <1> HIDE DEF routes
  <1> QED BY <1>1, <1>2 DEF RouteOf

LEMMA UpdatedFits ==
  ASSUME RInv, FInv, UNCHANGED <<block, undo, lapses>>, r.alive, Apart(r) = {},
         NEW E \in RoutedAlong, NEW save \in BOOLEAN, Updated(E, save)
  PROVE  FInv'
PROOF
  <1> DEFINE D == r.dirty
             N == Reroute(r)
             M == N \cup E
  <1>1. PICK c : c = Cleared(r, D, N)
    OBVIOUS
  <1>2. PICK d : d = Routed(c, M)
    OBVIOUS
  <1>3. /\ r' = [d EXCEPT !.dirty = {}] /\ joined' = joined \ M
        /\ IF save THEN guides' = SavedGuides(r', ClearedGuides(N)) /\ unsaved' = {}
           ELSE guides' = ClearedGuides(N) /\ unsaved' = unsaved \ N
    BY <1>1, <1>2 DEF Updated
  <1>4. N \subseteq D /\ E \subseteq DOMAIN r.tree
    BY DEF Reroute, RoutedAlong
  <1>5. Layout'
    BY <1>3 DEF FInv, Layout, block, SavedGuides, ClearedGuides
  <1> SUFFICES ASSUME lapses' = {} PROVE AllFit'
    BY <1>5 DEF FInv
  <1>6. /\ Router(r) /\ Picture /\ AllFit /\ Layout /\ nets \subseteq Net
        /\ r.dirty \subseteq nets /\ lapses = {}
    BY DEF RInv, Books, Sees, Marks, FInv, Block
  <1>7. M \subseteq nets
    BY <1>4, <1>6 DEF Picture
  <1> HIDE DEF N, M
  <1>8. /\ Router(c)
        /\ DOMAIN c.map = nets
        /\ \A n \in nets : c.map[n] = IF n \in D THEN NewEntry(PinsNow(n)) ELSE r.map[n]
        /\ \A n : n \notin N => RouteOf(c, n) = RouteOf(r, n)
    <2>1. /\ Router(c)
          /\ DOMAIN c.map = DOMAIN r.map \cup D
          /\ \A n \in DOMAIN c.map :
               c.map[n] = IF n \in D THEN NewEntry(PinsNow(n)) ELSE r.map[n]
      BY <1>1, <1>6, ClearedProperties
    <2>2. \A n : n \notin N => RouteOf(c, n) = RouteOf(r, n)
      BY <1>1, <1>6, ClearedRoutes
    <2> QED BY <1>6, <2>1, <2>2 DEF Picture
  <1>9. /\ Router(d) /\ d.map = c.map
        /\ \A n : RouteOf(d, n) = IF n \in M THEN RouteFor(c.map[n].pins) ELSE RouteOf(c, n)
    <2>1. Router(c) /\ d = Routed(c, M)
      BY <1>2, <1>8
    <2>2. Router(d) /\ d.map = c.map
      BY ONLY <2>1, RoutedProperties
    <2>3. \A n : RouteOf(d, n) = IF n \in M THEN RouteFor(c.map[n].pins) ELSE RouteOf(c, n)
      BY ONLY <2>1, RoutedRoutes
    <2> QED BY <2>2, <2>3
  <1>10. /\ r'.map = d.map /\ r'.routes = d.routes
         /\ \A n : RouteOf(r', n) = RouteOf(d, n)
    <2>1. r'.map = d.map /\ r'.routes = d.routes
      BY <1>3, <1>9 DEF Router, Fields
    <2> QED BY <2>1 DEF RouteOf
  <1>11. ASSUME NEW n \in nets
         PROVE  Fits(r', n, joined', unsaved', guides', PinsNow(n))
    <2> DEFINE pins == PinsNow(n)
               route == RouteOf(r', n)
    <2>1. pins \in Pinned
      BY <1>6, PinsNowPinned DEF Layout
    <2>2. Fits(r, n, joined, unsaved, guides, pins)
      BY <1>6 DEF AllFit
    <2>3. n \notin N => /\ Wires(RouteOf(r, n))
                        /\ n \in joined => Connected(RouteOf(r, n))
                        /\ Suits(n, RouteOf(r, n), joined, unsaved, guides, pins)
                        /\ n \notin r.dirty => Blank(r.map[n], pins)
      BY <1>6, <2>2, NotRerouted DEF N
    <2>4. Blank(c.map[n], pins)
      <3>1. CASE n \in D
        BY <1>8, <3>1, NewIsBlank
      <3>2. CASE n \notin D
        BY <1>4, <1>8, <2>3, <3>2 DEF N
      <3> QED BY <3>1, <3>2
    <2>5. /\ Wires(route) /\ (n \in joined' => Connected(route))
          /\ Covers(n, route, joined', pins)
      <3>1. CASE n \in M
        <4>1. n \notin joined' /\ route = RouteFor(pins)
          BY <1>3, <1>9, <1>10, <2>4, <3>1 DEF Blank
        <4> QED BY <2>1, <4>1, NewRoute DEF Covers
      <3>2. CASE n \notin M
        <4>1. n \notin N /\ route = RouteOf(r, n)
          BY <1>8, <1>9, <1>10, <3>2 DEF M
        <4>2. n \in joined' <=> n \in joined
          BY <1>3, <3>2
        <4> QED BY <2>3, <4>1, <4>2 DEF Suits, Covers
      <3> QED BY <3>1, <3>2
    <2>6. Guided(n, unsaved', guides', pins)
      <3>1. CASE save
        <4>1. route # <<>> => guides'[n] = Cover(route)
          BY <1>3, <1>6, <3>1 DEF SavedGuides, block
        <4> QED BY <2>1, <2>5, <4>1, SavedGuided
      <3>2. CASE ~save
        <4>1. guides'[n] = IF n \in N THEN {} ELSE guides[n]
          BY <1>3, <1>6, <3>2 DEF ClearedGuides
        <4>2. n \notin N => (n \in unsaved' <=> n \in unsaved)
          BY <1>3, <3>2
        <4> QED BY <2>3, <4>1, <4>2 DEF Suits, Guided
      <3> QED BY <3>1, <3>2
    <2> HIDE DEF pins, route
    <2>7. Suits(n, route, joined', unsaved', guides', pins) /\ Blank(r'.map[n], pins)
      BY <1>9, <1>10, <2>4, <2>5, <2>6 DEF Suits
    <2> QED BY <2>5, <2>7, BlankFits DEF pins, route
  <1>12. \A n : PinsNow(n)' = PinsNow(n)
    BY DEF PinsNow, PinsOf, block
  <1>13. joined' \subseteq nets' /\ nets' = nets
    BY <1>3, <1>6 DEF AllFit, block
  <1> QED BY <1>11, <1>12, <1>13 DEF AllFit

\* Everything routed from nothing.
LEMMA RebuiltFits ==
  ASSUME NEW q, Router(q), NEW N, Nothing(q), NEW n \in N, NEW pins \in Pinned,
         q.map[n] = NewEntry(pins), NEW d, d = Routed(q, N),
         NEW G, RouteOf(d, n) # <<>> => G[n] = Cover(RouteOf(d, n))
  PROVE  Fits(d, n, {}, {}, G, pins)
PROOF
  <1>1. Blank(q.map[n], pins)
    BY NewIsBlank
  <1>2. d.map = q.map /\ RouteOf(d, n) = RouteFor(q.map[n].pins)
    <2>1. Router(q) /\ d = Routed(q, N)
      OBVIOUS
    <2>2. d.map = q.map
      BY ONLY <2>1, RoutedProperties
    <2>3. RouteOf(d, n) = RouteFor(q.map[n].pins)
      BY ONLY <2>1, RoutedRoutes
    <2> QED BY <2>2, <2>3
  <1>3. RouteOf(d, n) = RouteFor(pins) /\ Blank(d.map[n], pins)
    BY <1>1, <1>2 DEF Blank
  <1> DEFINE none == {}
             route == RouteOf(d, n)
  <1>4. n \notin none /\ Covers(n, route, none, pins) /\ Wires(route)
    BY <1>3, NewRoute DEF Covers
  <1> HIDE DEF none, route
  <1>5. Guided(n, none, G, pins)
    BY <1>4, SavedGuided DEF route
  <1>6. Fits(d, n, none, none, G, pins)
    BY <1>3, <1>4, <1>5, BlankFits DEF Suits, route
  <1> QED BY <1>6 DEF none

LEMMA GlobalFits ==
  ASSUME RInv, FInv, GlobalRoute
  PROVE  FInv'
PROOF
  <1> DEFINE map == [n \in nets |-> NewEntry(PinsNow(n))]
             q == [map |-> map, dirty |-> r.dirty, routes |-> <<>>, tree |-> <<>>,
                   usage |-> NoUsage, alive |-> TRUE]
  <1>1. /\ r' = Routed(q, nets) /\ undo' = NoUndo
        /\ guides' = SavedGuides(r', guides)
        /\ joined' = {} /\ unsaved' = {}
        /\ UNCHANGED block
    BY DEF GlobalRoute, Rebuilt, NoUsage
  <1>2. Layout'
    BY <1>1 DEF FInv, Layout, block, SavedGuides
  <1>3. \A n \in nets : map[n] = NewEntry(PinsNow(n)) /\ PinsNow(n) \in Pinned
    BY PinsNowPinned DEF FInv, Layout
  <1>4. DOMAIN map = nets
    OBVIOUS
  <1> HIDE DEF map
  <1>5. Router(q) /\ q.map = map /\ Nothing(q)
    <2>1. q.map = map /\ q.routes = <<>> /\ q.tree = <<>> /\ q.usage = NoUsage
      OBVIOUS
    <2>2. Fields(q)
      BY DEF Fields
    <2>3. \A n \in nets : DOMAIN NewEntry(PinsNow(n)) = {"pins", "last", "dirty", "merged"}
      BY DEF NewEntry
    <2> HIDE DEF q
    <2>4. Entries(q)
      BY <1>3, <1>4, <2>1, <2>3 DEF Entries
    <2>5. DOMAIN q.routes = {}
      BY <2>1
    <2> QED BY <2>1, <2>2, <2>4, <2>5 DEF Router, Nothing
  <1> HIDE DEF q
  <1>6. ASSUME NEW n \in nets
        PROVE  Fits(r', n, {}, {}, guides', PinsNow(n))
    <2>1. RouteOf(r', n) # <<>> => guides'[n] = Cover(RouteOf(r', n))
      BY <1>1 DEF SavedGuides, block, RInv, Block
    <2>2. Router(q) /\ Nothing(q) /\ PinsNow(n) \in Pinned /\ q.map[n] = NewEntry(PinsNow(n))
          /\ r' = Routed(q, nets)
      BY <1>1, <1>3, <1>5
    <2> QED BY ONLY <1>6, <2>1, <2>2, RebuiltFits
  <1>7. \A n : PinsNow(n)' = PinsNow(n)
    BY <1>1 DEF PinsNow, PinsOf, block
  <1>8. AllFit'
    BY <1>1, <1>6, <1>7 DEF AllFit, block
  <1> QED BY <1>2, <1>8 DEF FInv

LEMMA InitFits ==
  ASSUME Init
  PROVE  FInv
PROOF
  <1> DEFINE pins(n) == [p \in {q \in Pin : InitNetOf[q] = n} |-> InitPlace[p]]
             map == [n \in InitNets |-> NewEntry(pins(n))]
             q == [map |-> map, dirty |-> {}, routes |-> <<>>, tree |-> <<>>,
                   usage |-> NoUsage, alive |-> TRUE]
  <1>1. /\ r = Routed(q, InitNets) /\ undo = NoUndo
        /\ guides = [n \in Net |-> IF n \in InitNets THEN Cover(RouteFor(pins(n))) ELSE {}]
        /\ joined = {} /\ unsaved = {}
        /\ nets = InitNets /\ netOf = InitNetOf /\ place = InitPlace
    BY DEF Init, NoUsage
  <1>2. Layout
    BY <1>1 DEF Layout
  <1>3. \A n : pins(n) = PinsNow(n)
    BY <1>1 DEF PinsNow, PinsOf
  <1> HIDE DEF pins
  <1>4. \A n \in InitNets : map[n] = NewEntry(PinsNow(n)) /\ PinsNow(n) \in Pinned
    BY <1>2, <1>3, PinsNowPinned DEF Layout
  <1>5. DOMAIN map = InitNets
    OBVIOUS
  <1> HIDE DEF map
  <1>6. Router(q) /\ q.map = map /\ Nothing(q)
    <2>1. q.map = map /\ q.routes = <<>> /\ q.tree = <<>> /\ q.usage = NoUsage
      OBVIOUS
    <2>2. Fields(q)
      BY DEF Fields
    <2>3. \A n \in InitNets : DOMAIN NewEntry(PinsNow(n)) = {"pins", "last", "dirty", "merged"}
      BY DEF NewEntry
    <2> HIDE DEF q
    <2>4. Entries(q)
      BY <1>4, <1>5, <2>1, <2>3 DEF Entries
    <2>5. DOMAIN q.routes = {}
      BY <2>1
    <2> QED BY <2>1, <2>2, <2>4, <2>5 DEF Router, Nothing
  <1> HIDE DEF q
  <1>7. ASSUME NEW n \in nets
        PROVE  Fits(r, n, {}, {}, guides, PinsNow(n))
    <2>1. /\ Router(q) /\ Nothing(q) /\ PinsNow(n) \in Pinned /\ q.map[n] = NewEntry(PinsNow(n))
          /\ r = Routed(q, nets)
      BY <1>1, <1>4, <1>6, <1>7
    <2>2. RouteOf(r, n) = RouteFor(PinsNow(n))
      <3>1. RouteOf(r, n) = RouteFor(q.map[n].pins)
        BY ONLY <1>7, <2>1, RoutedRoutes
      <3> QED BY <2>1, <3>1, NewIsBlank DEF Blank
    <2>3. guides[n] = Cover(RouteOf(r, n))
      BY <1>1, <1>3, <1>7, <2>2
    <2> QED BY ONLY <1>7, <2>1, <2>3, RebuiltFits
  <1>8. AllFit
    BY <1>1, <1>7 DEF AllFit
  <1> QED BY <1>2, <1>8 DEF FInv

LEMMA NextKeepsFInv ==
  ASSUME RInv, FInv, [Next]_vars
  PROVE  FInv'
PROOF
  <1>1. ASSUME NEW i \in Inst, MoveInst(i) PROVE FInv'
    BY <1>1, MoveFits
  <1>2. ASSUME NEW p \in Pin, Disconnect(p) PROVE FInv'
    BY <1>2, DisconnectFits
  <1>3. ASSUME NEW p \in Pin, NEW n \in Net, Connect(p, n) PROVE FInv'
    BY <1>3, ConnectFits
  <1>4. ASSUME NEW n \in Net, CreateNet(n) \/ DestroyNet(n) PROVE FInv'
    BY <1>4, CreateFits, DestroyFits
  <1>5. ASSUME NEW b \in Buffer, NEW n1 \in Net, NEW n2 \in Net, RemoveBuffer(b, n1, n2)
        PROVE  FInv'
    BY <1>5, RemoveFits
  <1>6. ASSUME NEW b \in Buffer, NEW n1 \in Net, NEW n2 \in Net, RemoveBufferThrows(b, n1, n2)
        PROVE  FInv'
    <2>1. /\ UNCHANGED <<block, guides, r, joined, unsaved, undo>>
          /\ lapses \subseteq lapses'
      BY <1>6 DEF RemoveBufferThrows, Edits
    <2> QED BY <2>1, QuietFits
  <1>7. CASE UndoRemoveBuffer
    BY <1>7, UndoFits
  <1>8. CASE UpdateRoutes \/ UpdateCongested
    <2>1. /\ UNCHANGED <<block, undo, lapses>> /\ r.alive /\ Apart(r) = {}
          /\ \E E \in RoutedAlong, save \in BOOLEAN : Updated(E, save)
      BY <1>8 DEF UpdateRoutes, UpdateCongested, Updates
    <2> QED BY <2>1, UpdatedFits
  <1>9. CASE UpdateFails \/ UpdateUndefined
    <2>1. lapses' # {} /\ UNCHANGED <<block, undo>>
      BY <1>9 DEF UpdateFails, UpdateUndefined, Updates
    <2>2. DOMAIN guides' = Net
      BY <1>9 DEF UpdateFails, UpdateUndefined, ClearedGuides, FInv, Layout
    <2> QED BY <2>1, <2>2 DEF FInv, Layout, block
  <1>10. CASE StartIncremental \/ BeginResizer \/ EndResizer
    <2>1. /\ UNCHANGED <<block, guides, r, joined, unsaved, undo>>
          /\ lapses \subseteq lapses'
      BY <1>10 DEF StartIncremental, BeginResizer, EndResizer, Register
    <2> QED BY <2>1, QuietFits
  <1>11. CASE EndIncremental
    <2>1. /\ UNCHANGED <<block, undo, lapses>> /\ r.alive /\ Apart(r) = {}
          /\ \E E \in RoutedAlong : Updated(E, TRUE)
      BY <1>11 DEF EndIncremental, Idle
    <2> QED BY <2>1, UpdatedFits
  <1>12. CASE GlobalRoute
    BY <1>12, GlobalFits
  <1>13. CASE UNCHANGED vars
    <2>1. /\ UNCHANGED <<block, guides, r, joined, unsaved, undo>>
          /\ lapses \subseteq lapses'
      BY <1>13 DEF vars, block
    <2> QED BY <2>1, QuietFits
  <1>14. Next => FInv'
    BY <1>1, <1>2, <1>3, <1>4, <1>5, <1>6, <1>7, <1>8, <1>9, <1>10, <1>11, <1>12 DEF Next
  <1> QED BY <1>13, <1>14

LEMMA FInvHolds == Spec => []FInv
PROOF
  <1>1. Init => FInv
    BY InitFits
  <1>2. RInv /\ FInv /\ [Next]_vars => FInv'
    BY NextKeepsFInv
  <1> QED BY <1>1, <1>2, RInvHolds, PTL DEF Spec

\* A net that is not marked was not touched since its route was made or joined.
LEMMA CleanFits ==
  ASSUME RInv, FInv, lapses = {}, NEW n \in Clean
  PROVE  /\ Suits(n, RouteOf(r, n), joined, unsaved, guides, PinsNow(n))
         /\ n \in joined => Connected(RouteOf(r, n))
PROOF
  <1>1. n \in nets /\ n \notin r.dirty
    BY DEF Clean
  <1>2. Fits(r, n, joined, unsaved, guides, PinsNow(n))
    BY <1>1 DEF FInv, AllFit
  <1> QED BY <1>1, <1>2 DEF Fits, Unmarked, Sound

-----------------------------------------------------------------------------
(***************************************************************************)
(* Theorems.                                                               *)
(***************************************************************************)

\* The router's tables have keys of OpenDB's nets only: no update meets a net
\* that was destroyed, and while every call was heard nothing is kept of a net
\* or a pin that is gone.
THEOREM NetsSeen == Spec => []ListenerSeesNets
PROOF
  <1>1. RInv => ListenerSeesNets
    <2> SUFFICES ASSUME RInv PROVE ListenerSeesNets
      OBVIOUS
    <2>1. r.alive => r.dirty \subseteq nets \cap DOMAIN r.map
      BY DEF RInv, Marks
    <2>2. lapses \cap {"unheard", "undefined"} = {} => r.alive /\ Picture
      BY DEF RInv, Sees
    <2> QED BY <2>1, <2>2 DEF ListenerSeesNets, Picture
  <1> QED BY <1>1, RInvHolds, PTL

\* Edge usage is the usage of the trees, after any number of reroutings,
\* removals, merges and undos, but for what mergeNet() forgets.
THEOREM UsageIsAccounted == Spec => []UsageAccounted
PROOF
  <1>1. RInv => UsageAccounted
    BY DEF RInv, Books, Accounted, UsageAccounted
  <1> QED BY <1>1, RInvHolds, PTL

\* A net that is not marked has a route for where its pins are now, or a joined
\* one that hangs together and covers them, however many calls, merges, undos
\* and updates there were, as long as each was heard and none failed.
THEOREM RoutesFit == Spec => []CleanRoutesHold
PROOF
  <1>1. RInv /\ FInv => CleanRoutesHold
    <2> SUFFICES ASSUME RInv, FInv, lapses = {}, NEW n \in Clean
                 PROVE  IF n \in joined
                        THEN /\ Cardinality(DOMAIN PinsNow(n)) > 1
                                  => Cells(PinsNow(n)) \subseteq Cover(RouteOf(r, n))
                             /\ Connected(RouteOf(r, n))
                        ELSE RouteOf(r, n) = RouteFor(PinsNow(n))
      BY DEF CleanRoutesHold
    <2>1. /\ Covers(n, RouteOf(r, n), joined, PinsNow(n))
          /\ n \in joined => Connected(RouteOf(r, n))
      BY CleanFits DEF Suits
    <2> QED BY <2>1 DEF Covers, Two
  <1> QED BY <1>1, RInvHolds, FInvHolds, PTL

\* The guides of a net that is not marked cover its pins, if it has guides and
\* was not joined since they were saved.
THEOREM GuidesFit == Spec => []GuidesHold
PROOF
  <1>1. RInv /\ FInv => GuidesHold
    <2> SUFFICES ASSUME RInv, FInv, lapses = {}, NEW n \in Clean \ unsaved,
                        Cardinality(PinsOf(n)) > 1, guides[n] # {}
                 PROVE  Cells(PinsNow(n)) \subseteq guides[n]
      BY DEF GuidesHold
    <2>1. Guided(n, unsaved, guides, PinsNow(n))
      BY CleanFits DEF Suits
    <2>2. DOMAIN PinsNow(n) = PinsOf(n)
      BY DEF PinsNow
    <2> QED BY <2>1, <2>2 DEF Guided, Two
  <1> QED BY <1>1, RInvHolds, FInvHolds, PTL
=============================================================================
