-------------------------- MODULE IncrementalRoute --------------------------
(***************************************************************************)
(* Incremental global routing (src/src/grt).  While a listener is          *)
(* registered with OpenDB, its callbacks keep the router's picture of the  *)
(* netlist (db_net_map_) in step and mark the nets whose routes may be     *)
(* wrong; updateDirtyRoutes() routes those again whose pins have moved.    *)
(* Removing a buffer joins the routes of two nets instead.  Below, the     *)
(* core router (FastRoute) accounts for the edges its trees use.           *)
(*                                                                         *)
(* There are two kinds of listeners: the one of the commands "global_route *)
(* -start_incremental" and "-end_incremental", and the IncrementalGRoute   *)
(* that the Resizer holds while it repairs.  Both may be registered.       *)
(*                                                                         *)
(* A route is a sequence of wires, and a wire the set of grid cells it     *)
(* covers: a new route is one wire that covers the cells of the pins.      *)
(* Usage is the bag of the cells of the trees that are accounted for.      *)
(*                                                                         *)
(* Left out: layers; ports, which callbacks treat as pins, except that     *)
(* moving one is not announced; special nets; nets that addNet() refuses;  *)
(* detailed routes, which an update destroys; routes read from guides,     *)
(* which have no tree; antenna repair; and the placement that a congested  *)
(* update resorts to.                                                      *)
(***************************************************************************)
EXTENDS Integers, Sequences, FiniteSets, Functions

CONSTANTS
  Net, Pin, Inst,
  InstOf,         \* the instance each pin belongs to
  Buffer,         \* buffers that may be removed: records of their two pins
  Fixed,          \* instances that are FIXED and dont_touch
  Place,          \* the cells of the routing grid
  InitNets, InitNetOf, InitPlace,   \* the netlist at the beginning
  NoNet, NoUndo,
  MaxEdits        \* bound: netlist calls (two, where a connect disconnects
                  \* first), listeners overwritten, and updates that end in
                  \* congestion

ASSUME NetlistAssumption ==
  /\ InstOf \in [Pin -> Inst]
  /\ Fixed \subseteq Inst
  /\ Buffer \subseteq [in : Pin, out : Pin]
  /\ IsFiniteSet(Net) /\ IsFiniteSet(Pin) /\ InitNets \subseteq Net /\ NoNet \notin Net
  /\ InitNetOf \in [Pin -> InitNets \cup {NoNet}]
  /\ InitPlace \in [Pin -> Place]
  /\ MaxEdits \in Nat

VARIABLES
  nets, netOf, place,   \* OpenDB: the nets, and each pin's net and grid cell
  guides,               \* OpenDB: the cells of each net's guides
  r,                    \* GlobalRouter and FastRouteCore
  owners,               \* the listeners registered, members of Listener
  removing,             \* removeBuffer has its updateParasitics still to do
  undo,                 \* what the undo of the last call would bring back
  lapses,               \* history: "unheard", the netlist changed and nobody
                        \* listened; "failed", an update did; "undefined", one
                        \* read what is not there
  joined, unsaved,      \* history: routes that were joined and kept; and not
                        \* written to guides since
  dropped,              \* history: the usage of the trees of merged nets
  edits                 \* bound

\* "leaked" stands for the listeners, one or more, whose owners lost the
\* pointers to them.
Listener == {"command", "resizer", "leaked"}

block == <<nets, netOf, place>>
vars  == <<nets, netOf, place, guides, r, owners, removing, undo, lapses,
           joined, unsaved, dropped, edits>>

-----------------------------------------------------------------------------
(***************************************************************************)
(* Pins, routes and trees.                                                 *)
(***************************************************************************)

PinsOf(n) == {p \in Pin : netOf[p] = n}

\* makeItermPins, findPins: the pins of a net with their cells.
PinsNow(n) == [p \in PinsOf(n) |-> place[p]]

Cells(pins) == Range(pins)

\* The multiset of the cells of some pins.
Positions(pins) == [g \in Place |-> Cardinality({p \in DOMAIN pins : pins[p] = g})]

Cover(route) == UNION Range(route)

NoTree == {}

Shape == {S \in SUBSET Place : Cardinality(S) > 1}

\* The usage of the trees of some nets: how many there are of each shape.
UsageOf(tree, N) == [S \in Shape |-> Cardinality({n \in N \cap DOMAIN tree : tree[n] = S})]

\* Usage without the trees of some nets.
Released(q, N) == [S \in Shape |-> q.usage[S] - UsageOf(q.tree, N)[S]]

\* isConnected: no wire is cut off from the others.
Connected(route) ==
  \A S \in SUBSET DOMAIN route \ {{}, DOMAIN route} :
    \E i \in S, j \in DOMAIN route \ S : route[i] \cap route[j] # {}

\* What findRouting gives: a wire for two pins or more, and a tree unless the
\* net is local.
RouteFor(pins) == IF Cardinality(DOMAIN pins) > 1 THEN <<Cells(pins)>> ELSE <<>>
TreeFor(pins) == IF Cardinality(Cells(pins)) > 1 THEN Cells(pins) ELSE NoTree

\* The entry of routes_, or the one that operator[] makes.
RouteOf(q, n) == IF n \in DOMAIN q.routes THEN q.routes[n] ELSE <<>>

\* A table with some entries written.
With(f, g) == [x \in DOMAIN f \cup DOMAIN g |-> IF x \in DOMAIN g THEN g[x] ELSE f[x]]

NewEntry(pins) == [pins |-> pins, last |-> Positions(<<>>), dirty |-> FALSE, merged |-> FALSE]

-----------------------------------------------------------------------------
(***************************************************************************)
(* The callbacks of GRouteDbCbk.  An entry that is missing is a null       *)
(* pointer, and using it a crash.                                          *)
(***************************************************************************)

\* Faulty: the positions are those of the last call.
DirtiedAgain(e) == [e EXCEPT !.dirty = TRUE, !.last = Positions(e.pins)]

\* saveLastPinPositions remembers the first positions only.
Dirtied(e) ==
  [e EXCEPT !.dirty = TRUE,
            !.last = IF @ = Positions(<<>>) THEN Positions(e.pins) ELSE @]

\* addDirtyNet of some nets.
AddDirty(q, N) ==
  [q EXCEPT !.map = [n \in DOMAIN @ |-> IF n \in N THEN Dirtied(@[n]) ELSE @[n]],
            !.dirty = @ \cup N,
            !.alive = @ /\ N \subseteq DOMAIN q.map]

\* inDbITermPreDisconnect of some of a net's pins, one after the other.
PreDisconnect(q, n, P) ==
  LET d == AddDirty(q, {n}) IN
  IF P = {} \/ n \notin DOMAIN q.map THEN d
  ELSE [d EXCEPT !.map[n].pins = Restrict(@, DOMAIN @ \ P)]

\* inDbNetCreate, and addNet for a net without pins.
NetCreated(q, n) ==
  [q EXCEPT !.map = With(@, [m \in {n} |-> NewEntry(<<>>)])]

\* Faulty: the net stays marked.
NetDestroyedKeepsMark(q, n) ==
  LET merged == n \in DOMAIN q.map /\ q.map[n].merged IN
  [q EXCEPT !.usage = IF merged THEN @ ELSE Released(q, {n}),
            !.tree = Restrict(@, DOMAIN @ \ {n}),
            !.map = Restrict(@, DOMAIN @ \ {n}),
            !.routes = Restrict(@, DOMAIN @ \ {n})]

\* inDbNetDestroy, and removeNet.  A net that was merged leaves its usage to
\* the net that survives.
NetDestroyed(q, n) ==
  LET merged == n \in DOMAIN q.map /\ q.map[n].merged IN
  [q EXCEPT !.usage = IF merged THEN @ ELSE Released(q, {n}),
            !.tree = Restrict(@, DOMAIN @ \ {n}),
            !.map = Restrict(@, DOMAIN @ \ {n}),
            !.routes = Restrict(@, DOMAIN @ \ {n}),
            !.dirty = @ \ {n}]

\* findBufferPinPostions: the cells of an instance with a pin on each net, the
\* last one of them.  Without one both positions are the origin.
BufferCells(q, n1, n2) ==
  {c \in Place \X Place :
     \E a \in DOMAIN q.map[n1].pins, b \in DOMAIN q.map[n2].pins :
       InstOf[a] = InstOf[b] /\ c = <<q.map[n1].pins[a], q.map[n2].pins[b]>>}

\* findTopLayerOverPosition throws at a position that no segment touches.
Joins(q, n1, n2, c) ==
  c[1] = c[2] \/ (c[1] \in Cover(RouteOf(q, n1)) /\ c[2] \in Cover(RouteOf(q, n2)))

\* connectRouting.
JoinedRoute(q, n1, n2, c) ==
  RouteOf(q, n1) \o RouteOf(q, n2) \o IF c[1] = c[2] THEN <<>> ELSE <<{c[1], c[2]}>>

\* inDbNetPreMerge, and mergeNetsRouting for a survivor that is not dirty.
Merged(q, n1, n2, c) ==
  [q EXCEPT !.routes = With(@, [m \in {n1} |-> JoinedRoute(q, n1, n2, c)]),
            !.map[n1].merged = TRUE,
            !.map[n2].merged = TRUE]

\* The same when several listen: the segments are joined again.
MergedBy(k, q, n1, n2, c) ==
  IF k > 1 THEN Merged(Merged(q, n1, n2, c), n1, n2, c) ELSE Merged(q, n1, n2, c)

\* What mergeNetsRouting may come to: it leaves a dirty survivor alone, and
\* throws, with nothing changed, when the routes cannot be joined.
Merges(q, n1, n2) ==
  IF q.map[n1].dirty THEN {q}
  ELSE LET found == BufferCells(q, n1, n2)
           cells == IF found = {} THEN {<<g, g>> : g \in Place} ELSE found
       IN {MergedBy(Cardinality(owners), q, n1, n2, c) : c \in {d \in cells : Joins(q, n1, n2, d)}}

-----------------------------------------------------------------------------
(***************************************************************************)
(* Netlist calls, with the callbacks they make.                            *)
(***************************************************************************)

Idle == r.alive /\ ~removing

Heard(q) == r' = IF owners = {} THEN r ELSE q

Counts(k) == edits + k <= MaxEdits /\ edits' = edits + k
Counted == Counts(1)

Edits ==
  /\ Idle
  /\ owners = {} => lapses = {}
  /\ lapses' = lapses \cup (IF owners = {} THEN {"unheard"} ELSE {})

Plain == removing' = FALSE /\ undo' = NoUndo /\ UNCHANGED <<dropped, owners>>

\* An error ends the Resizer's command, and its listener is left behind: the
\* next command overwrites incr_groute_.  The command's listener stays its own.
Thrown == owners' = IF "resizer" \in owners THEN (owners \ {"resizer"}) \cup {"leaked"}
                    ELSE owners

\* An instance moves or gets another master; its pins may move.
MoveInst(i) ==
  LET pins == {p \in Pin : InstOf[p] = i} IN
  /\ Counted /\ Edits /\ Plain
  /\ i \notin Fixed
  /\ \E cells \in [pins -> Place] : place' = With(place, cells)
  /\ Heard(AddDirty(r, {netOf[p] : p \in pins} \ {NoNet}))
  /\ UNCHANGED <<nets, netOf, guides, joined, unsaved>>

\* dbITerm::disconnect.
Disconnect(p) ==
  /\ Counted /\ Edits /\ Plain
  /\ netOf[p] # NoNet /\ InstOf[p] \notin Fixed
  /\ netOf' = [netOf EXCEPT ![p] = NoNet]
  /\ Heard(PreDisconnect(r, netOf[p], {p}))
  /\ UNCHANGED <<nets, place, guides, joined, unsaved>>

\* dbITerm::connect, which disconnects first: two calls in one.
Connect(p, n) ==
  /\ Counts(IF netOf[p] = NoNet THEN 1 ELSE 2) /\ Edits /\ Plain
  /\ n \in nets /\ netOf[p] # n /\ InstOf[p] \notin Fixed
  /\ netOf' = [netOf EXCEPT ![p] = n]
  /\ LET free == IF netOf[p] = NoNet THEN r ELSE PreDisconnect(r, netOf[p], {p})
     IN Heard(AddDirty(free, {n}))
  /\ UNCHANGED <<nets, place, guides, joined, unsaved>>

CreateNet(n) ==
  /\ Counted /\ Edits /\ Plain
  /\ n \notin nets
  /\ nets' = nets \cup {n}
  /\ Heard(NetCreated(r, n))
  /\ UNCHANGED <<netOf, place, guides, joined, unsaved>>

\* mergeNet forgets the tree of a net that is destroyed as merged.
Drops(n, merged) ==
  dropped' = IF owners # {} /\ n \in DOMAIN r.map /\ (merged \/ r.map[n].merged)
             THEN [S \in Shape |-> dropped[S] + UsageOf(r.tree, {n})[S]]
             ELSE dropped

\* dbNet::destroy disconnects the pins first; the guides go with the net.
DestroyNet(n) ==
  /\ Counted /\ Edits /\ removing' = FALSE /\ undo' = NoUndo
  /\ n \in nets /\ \A p \in PinsOf(n) : InstOf[p] \notin Fixed
  /\ nets' = nets \ {n}
  /\ netOf' = [p \in Pin |-> IF netOf[p] = n THEN NoNet ELSE netOf[p]]
  /\ guides' = [guides EXCEPT ![n] = {}]
  /\ Heard(NetDestroyed(IF PinsOf(n) = {} THEN r ELSE PreDisconnect(r, n, PinsOf(n)), n))
  /\ joined' = joined \ {n} /\ unsaved' = unsaved \ {n}
  /\ Drops(n, FALSE)
  /\ UNCHANGED <<place, owners>>

\* canRemoveBuffer, canMergeNet: n2 may be merged into n1.
Removable(b, n1, n2) ==
  /\ {netOf[b.in], netOf[b.out]} = {n1, n2} /\ n1 # n2 /\ NoNet \notin {n1, n2}
  /\ \A p \in PinsOf(n2) : InstOf[p] \notin Fixed

\* UnbufferMove::removeBuffer: mergeNet, which connects the pins of one net to
\* the other; then the buffer's pins are disconnected and the net destroyed.
RemoveBuffer(b, n1, n2) ==
  /\ Counted /\ Edits
  /\ Removable(b, n1, n2)
  /\ nets' = nets \ {n2}
  /\ netOf' = [p \in Pin |-> IF p \in {b.in, b.out} THEN NoNet
                             ELSE IF netOf[p] = n2 THEN n1 ELSE netOf[p]]
  /\ guides' = [guides EXCEPT ![n2] = {}]
  /\ IF owners = {} THEN r' = r
     ELSE IF {n1, n2} \subseteq DOMAIN r.map
     THEN \E q \in Merges(r, n1, n2) :
            LET moved == AddDirty(PreDisconnect(q, n2, PinsOf(n2)), {n1})
            IN r' = NetDestroyed(PreDisconnect(moved, n1, {b.in, b.out}), n2)
     ELSE r' = [r EXCEPT !.alive = FALSE]
  /\ LET joins == owners # {} /\ n1 \in DOMAIN r.map /\ ~r.map[n1].dirty
     IN /\ joined' = (joined \ {n2}) \cup (IF joins THEN {n1} ELSE {})
        /\ unsaved' = (unsaved \ {n2}) \cup (IF joins THEN {n1} ELSE {})
        /\ IF {n1, n2} \subseteq DOMAIN r.map THEN Drops(n2, joins)
           ELSE dropped' = dropped
  /\ removing' = ("resizer" \in owners)
  /\ undo' = [buffer |-> b, net |-> [p \in PinsOf(n1) \cup PinsOf(n2) |-> netOf[p]],
              survivor |-> n1, removed |-> n2]
  /\ UNCHANGED <<place, owners>>

\* The routes cannot be joined: an error, before anything is changed.
RemoveBufferThrows(b, n1, n2) ==
  /\ Counted /\ Edits /\ Thrown
  /\ Removable(b, n1, n2)
  /\ owners # {} /\ {n1, n2} \subseteq DOMAIN r.map /\ Merges(r, n1, n2) = {}
  /\ UNCHANGED <<block, guides, r, removing, undo, joined, unsaved, dropped>>

\* The undo of the journal of a buffer's removal, entry by entry from the last:
\* the net comes back, the buffer's pins are connected to the survivor, and
\* each pin of the removed net is taken from there.
UndoRemoveBuffer ==
  /\ Counted /\ Edits
  /\ undo # NoUndo
  /\ nets' = nets \cup {undo.removed}
  /\ netOf' = With(netOf, undo.net)
  /\ LET back == {p \in DOMAIN undo.net : undo.net[p] = undo.removed}
         survives == AddDirty(NetCreated(r, undo.removed), {undo.survivor})
     IN Heard(AddDirty(PreDisconnect(survives, undo.survivor, back), {undo.removed}))
  /\ removing' = ("resizer" \in owners)
  /\ undo' = NoUndo
  /\ UNCHANGED <<place, guides, owners, joined, unsaved, dropped>>

-----------------------------------------------------------------------------
(***************************************************************************)
(* updateDirtyRoutes.                                                      *)
(***************************************************************************)

\* updateDirtyNets routes a net again when its pins are no longer where they
\* were, unless its routes were joined and still cover them.
Reroute(q) ==
  {n \in q.dirty :
     /\ Positions(PinsNow(n)) # q.map[n].last
     /\ q.map[n].merged => ~(Cells(PinsNow(n)) \subseteq Cover(RouteOf(q, n)))}

\* It throws at a joined route that is kept and has come apart.
Apart(q) ==
  {n \in q.dirty \ Reroute(q) : q.map[n].merged /\ ~Connected(RouteOf(q, n))}

\* isConnected reads the first wire of a joined route that has none: undefined
\* behaviour.  What is there passes for a wire or not, or cannot be read.
NoWire(q) == {n \in q.dirty \ Reroute(q) : q.map[n].merged /\ RouteOf(q, n) = <<>>}

\* The nets S have been looked at, and N of them are to be routed.
Cleared(q, S, N) ==
  [q EXCEPT !.map = With(@, [n \in S |-> NewEntry(PinsNow(n))]),
            !.routes = With(@, [n \in N |-> <<>>]),
            !.usage = Released(q, N),
            !.tree = Restrict(@, DOMAIN @ \ N)]

\* Faulty: the tree a net had is not given back.
RoutedOver(q, N) ==
  LET pins(n) == q.map[n].pins
      tree == [n \in {m \in N : Cardinality(Cells(pins(m))) > 1} |-> Cells(pins(n))]
  IN [q EXCEPT !.routes = With(@, [n \in N |-> RouteFor(pins(n))]),
               !.usage = [S \in Shape |-> @[S] + UsageOf(tree, N)[S]],
               !.tree = With(Restrict(@, DOMAIN @ \ N), tree)]

\* findRouting and mergeResults.
Routed(q, N) ==
  LET pins(n) == q.map[n].pins
      tree == [n \in {m \in N : Cardinality(Cells(pins(m))) > 1} |-> Cells(pins(n))]
  IN [q EXCEPT !.routes = With(@, [n \in N |-> RouteFor(pins(n))]),
               !.usage = [S \in Shape |-> Released(q, N)[S] + UsageOf(tree, N)[S]],
               !.tree = With(Restrict(@, DOMAIN @ \ N), tree)]

\* Guides with those of some nets cleared.
ClearedGuides(N) == [n \in Net |-> IF n \in N THEN {} ELSE guides[n]]

\* Faulty: a net that has guides keeps them.
SavedGuidesOnce(q, g) ==
  [n \in Net |-> IF n \in nets /\ RouteOf(q, n) # <<>> /\ guides[n] = {}
                 THEN Cover(RouteOf(q, n)) ELSE guides[n]]

\* saveGuides leaves nets alone that have no route.
SavedGuides(q, g) ==
  [n \in Net |-> IF n \in nets /\ RouteOf(q, n) # <<>> THEN Cover(RouteOf(q, n))
                 ELSE g[n]]

\* Nothing is routed along unless something is routed.
RoutedAlong ==
  IF Reroute(r) = {} THEN {{}} ELSE SUBSET (DOMAIN r.tree \ Reroute(r))

\* The nets whose routes may be wrong are routed; E are nets in congested
\* places that are routed along, and keep their guides.
Updated(E, save) ==
  LET N == Reroute(r) IN
  /\ r' = [Routed(Cleared(r, r.dirty, N), N \cup E) EXCEPT !.dirty = {}]
  /\ joined' = joined \ (N \cup E)
  /\ IF save THEN guides' = SavedGuides(r', ClearedGuides(N)) /\ unsaved' = {}
     ELSE guides' = ClearedGuides(N) /\ unsaved' = unsaved \ N

Updates ==
  /\ r.alive /\ r.dirty # {}
  /\ removing' = FALSE
  /\ UNCHANGED <<block, undo, dropped>>

\* updateRoutes, which the Resizer calls after its changes.
UpdateRoutes ==
  /\ "resizer" \in owners
  /\ Updates /\ Apart(r) = {}
  /\ \E E \in RoutedAlong, save \in {FALSE, Reroute(r) # {}} : Updated(E, save)
  /\ UNCHANGED <<owners, lapses, edits>>

\* Routing is too congested: an error, when routes have been merged and no
\* guides saved.
UpdateCongested ==
  /\ owners \cap {"command", "resizer"} # {}
  /\ Updates /\ Counted /\ Apart(r) = {} /\ Reroute(r) # {}
  /\ \E E \in RoutedAlong : Updated(E, FALSE)
  /\ Thrown
  /\ UNCHANGED lapses

\* A net has come apart, or seems to have a wire that is none: an error, when
\* some nets have been looked at already.
UpdateFails ==
  /\ owners \cap {"command", "resizer"} # {}
  /\ Updates
  /\ \E n \in Apart(r) \cup NoWire(r) : \E S \in SUBSET (r.dirty \ (Apart(r) \cup {n})) :
       LET N == S \cap Reroute(r) IN
       /\ r' = [Cleared(r, S, N) EXCEPT !.map[n].pins = PinsNow(n)]
       /\ guides' = ClearedGuides(N)
       /\ joined' = joined \ N /\ unsaved' = unsaved \ N
  /\ lapses' = lapses \cup {"failed"}
  /\ Thrown
  /\ UNCHANGED edits

\* There never was a wire: the read is a crash.
UpdateUndefined ==
  /\ owners \cap {"command", "resizer"} # {}
  /\ Updates
  /\ NoWire(r) # {}
  /\ r' = [r EXCEPT !.alive = FALSE]
  /\ lapses' = lapses \cup {"undefined"}
  /\ UNCHANGED <<guides, owners, joined, unsaved, edits>>

-----------------------------------------------------------------------------
(***************************************************************************)
(* The listeners, and the command global_route.                            *)
(***************************************************************************)

\* A new listener takes the place of the one its owner had, which nobody takes
\* away any more.
Register(listener) ==
  /\ Idle
  /\ IF listener \in owners
     THEN Counted /\ owners' = owners \cup {"leaked"}
     ELSE owners' = owners \cup {listener} /\ UNCHANGED edits
  /\ UNCHANGED <<block, guides, r, removing, undo, lapses, joined, unsaved, dropped>>

StartIncremental == Register("command")

\* -end_incremental updates the routes and saves the guides of all nets.
EndIncremental ==
  /\ Idle /\ "command" \in owners
  /\ Apart(r) = {}
  /\ \E E \in RoutedAlong : Updated(E, TRUE)
  /\ owners' = owners \ {"command"}
  /\ UNCHANGED <<block, removing, undo, lapses, dropped, edits>>

\* incrementalParasiticsBegin, which journalBegin and journalRestore call, too.
BeginResizer == Register("resizer")

\* incrementalParasiticsEnd, which the Resizer calls after an update of what it
\* has changed.
EndResizer ==
  /\ Idle /\ "resizer" \in owners
  /\ r.dirty = {} \/ owners # {"resizer"}
  /\ owners' = owners \ {"resizer"}
  /\ UNCHANGED <<block, guides, r, removing, undo, lapses, joined, unsaved, dropped, edits>>

\* The picture is built anew, but the nets marked stay marked.
Rebuilt(N) ==
  LET map == [n \in N |-> NewEntry(PinsNow(n))]
  IN Routed([map |-> map, dirty |-> r.dirty, routes |-> <<>>, tree |-> <<>>,
             usage |-> UsageOf(<<>>, {}), alive |-> TRUE], N)

\* global_route.  A net without a route keeps the guides it had.  A command of
\* the Resizer may have left its listener (a journal that nobody closed).
GlobalRoute ==
  /\ Idle
  /\ r' = Rebuilt(nets)
  /\ guides' = SavedGuides(r', guides)
  /\ joined' = {} /\ unsaved' = {} /\ dropped' = UsageOf(<<>>, {})
  /\ lapses' = {} /\ undo' = NoUndo
  /\ UNCHANGED <<block, owners, removing, edits>>

-----------------------------------------------------------------------------
\* After a global_route.
Init ==
  /\ nets = InitNets /\ netOf = InitNetOf /\ place = InitPlace
  /\ LET pins(n) == [p \in {q \in Pin : InitNetOf[q] = n} |-> InitPlace[p]]
         empty == [map |-> [n \in InitNets |-> NewEntry(pins(n))], dirty |-> {},
                   routes |-> <<>>, tree |-> <<>>, usage |-> UsageOf(<<>>, {}), alive |-> TRUE]
     IN /\ r = Routed(empty, InitNets)
        /\ guides = [n \in Net |-> IF n \in InitNets THEN Cover(RouteFor(pins(n))) ELSE {}]
  /\ owners = {} /\ removing = FALSE /\ undo = NoUndo
  /\ lapses = {} /\ joined = {} /\ unsaved = {} /\ dropped = UsageOf(<<>>, {})
  /\ edits = 0

Next ==
  \/ \E i \in Inst : MoveInst(i)
  \/ \E p \in Pin : Disconnect(p)
  \/ \E p \in Pin, n \in Net : Connect(p, n)
  \/ \E n \in Net : CreateNet(n) \/ DestroyNet(n)
  \/ \E b \in Buffer, n1, n2 \in Net : RemoveBuffer(b, n1, n2)
  \/ \E b \in Buffer, n1, n2 \in Net : RemoveBufferThrows(b, n1, n2)
  \/ UndoRemoveBuffer
  \/ UpdateRoutes \/ UpdateCongested \/ UpdateFails \/ UpdateUndefined
  \/ StartIncremental \/ EndIncremental
  \/ BeginResizer \/ EndResizer \/ GlobalRoute

Spec == Init /\ [][Next]_vars

-----------------------------------------------------------------------------
(***************************************************************************)
(* Properties.                                                             *)
(***************************************************************************)

Clean == nets \ r.dirty

\* A net that is not marked dirty has a route that fits where its pins are now:
\* one made for just these places; or one that was joined in place of a removed
\* buffer, hangs together and covers them, if there are two or more.  Nets are
\* marked by five callbacks, compared with where their pins were at the first of
\* them, and looked at in some later update, after other calls and with other
\* listeners.
CleanRoutesHold ==
  lapses = {} =>
    \A n \in Clean : LET pins == PinsNow(n) IN
      IF n \in joined
      THEN /\ Cardinality(DOMAIN pins) > 1 => Cells(pins) \subseteq Cover(RouteOf(r, n))
           /\ Connected(RouteOf(r, n))
      ELSE RouteOf(r, n) = RouteFor(pins)

\* db_net_map_, dirty_nets_, routes_ and the trees are keyed by pointers to
\* OpenDB's nets.  An update never meets a net that is gone or that the router
\* does not know, though listeners come and go; and while every call was heard
\* no callback uses a null pointer, and nothing is kept of a net or a pin that
\* is gone.
ListenerSeesNets ==
  /\ r.alive => r.dirty \subseteq nets \cap DOMAIN r.map
  /\ lapses \cap {"unheard", "undefined"} = {} =>
       /\ r.alive
       /\ DOMAIN r.map = nets
       /\ DOMAIN r.routes \cup DOMAIN r.tree \subseteq nets
       /\ \A n \in nets : DOMAIN r.map[n].pins \subseteq PinsOf(n)

\* What the edges are used is what the trees of the nets use, no more and no
\* less, through rerouting, removal and undo; but for the trees of nets that
\* were merged into others, which mergeNet() forgets without giving their
\* usage back.
UsageAccounted ==
  \A S \in Shape : r.usage[S] = UsageOf(r.tree, DOMAIN r.tree)[S] + dropped[S]

\* The guides of a clean net with two pins or more, if it has any, cover its
\* pins: guides of routes that were given up do not stay in OpenDB.  A joined
\* route gets its guides when guides are saved.
GuidesHold ==
  lapses = {} =>
    \A n \in Clean \ unsaved :
      Cardinality(PinsOf(n)) > 1 /\ guides[n] # {} => Cells(PinsNow(n)) \subseteq guides[n]
=============================================================================
