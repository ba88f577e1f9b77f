------------------------- MODULE RepairTiming_proof -------------------------
(***************************************************************************)
(* Proofs about RepairTiming, for any limits: the counts of the moves, the *)
(* parasitics, the incremental router and the journal stay in order        *)
(* through every loop, and the netlist a loop returns to is the one it     *)
(* accepted.  The Resizer's functions come first: what each of them leaves *)
(* of books that are in order.  After an error of the router only the      *)
(* counts are.                                                             *)
(***************************************************************************)
EXTENDS RepairTiming, TLAPS

\* The books add up, and while the router has not failed, with losses l, they
\* are in order.
Closed(r) == r.log = NoLog => r.pending = 0
InOrder(r, l) == "router" \notin l => r.rc = "right" /\ Closed(r)
Sound(r) == r \in Rz /\ Counted(r)
Books(r) == Sound(r) /\ InOrder(r, lost)
Lossless(l) == l \cap {"passes", "router"} = {}
Routed(r) == r.routed => r.groute

InPasses == {"setup_pass", "gasp_pass"}
InHold == {"hold", "hold_ends", "hold_path"}

\* The books r at place p, with the last endpoint left for reason why: a pass
\* has a journal and a router, a hold repair a router; elsewhere a journal is
\* open only by a leftover.
Fine(p, r, why, l) ==
  /\ Sound(r) /\ InOrder(r, l)
  /\ p \in InPasses => r.log # NoLog /\ Routed(r)
  /\ p \in InHold => Routed(r)
  /\ r.crashed => p = "idle" /\ why = "area"
  /\ (r.log # NoLog /\ p \notin InPasses)
        => l \cap {"passes", "power", "router"} # {} /\ (Lossless(l) => r.pending = 0)
  /\ Lossless(l) => r.dropped = 0
  /\ p = "power" => "power" \in l

Locals ==
  /\ at \in Place
  /\ hold_next \in BOOLEAN /\ fails \in BOOLEAN
  /\ end_index \in Nat /\ pass \in Nat /\ tries \in Nat /\ bad \in Nat /\ stops \in Nat
  /\ inserted \in Nat /\ before \in Nat /\ commands \in Nat
  /\ mark \in Netlist /\ first \in [worst : Slack, hold : Nat]
  /\ left \in Reason
  /\ lost \subseteq {"passes", "area", "power", "router"}

IInv == Locals /\ Fine(at, rz, left, lost)

-----------------------------------------------------------------------------
(***************************************************************************)
(* The Resizer's functions.                                                *)
(***************************************************************************)
\* Two books that agree but for the parasitics, or but for the journal.
SamePaper(q, r) ==
  /\ q.net = r.net /\ q.log = r.log /\ q.pending = r.pending
  /\ q.committed = r.committed /\ q.dropped = r.dropped
SameRoute(q, r) ==
  q.rc = r.rc /\ q.routed = r.routed /\ q.groute = r.groute /\ q.crashed = r.crashed

\* The types of the numbers in the books; NoLog is no netlist.
LEMMA Fields ==
  ASSUME NEW r \in Rz
  PROVE  /\ r.net \in Netlist /\ r.net # NoLog /\ r.net.moves \in Nat
         /\ r.log # NoLog => r.log \in Netlist /\ r.log.moves \in Nat
         /\ r.pending \in Nat /\ r.committed \in Nat /\ r.dropped \in Nat
         /\ r.groute \in BOOLEAN /\ r.routed \in BOOLEAN /\ r.crashed \in BOOLEAN
<1>1. r.net \in Netlist /\ r.log \in Netlist \cup {NoLog}
  BY DEF Rz
<1>2. \A n \in Netlist : n # NoLog /\ n.moves \in Nat
  BY NoLogAssumption DEF Netlist
<1>3. /\ r.pending \in Nat /\ r.committed \in Nat /\ r.dropped \in Nat
      /\ r.groute \in BOOLEAN /\ r.routed \in BOOLEAN /\ r.crashed \in BOOLEAN
  BY DEF Rz
<1>4. QED BY <1>1, <1>2, <1>3

\* incrementalParasiticsBegin and End lose nothing while no net is listed.
LEMMA BeginParasitics ==
  ASSUME NEW r \in Rz
  PROVE  /\ ParasiticsBegin(r) \in Rz /\ SamePaper(ParasiticsBegin(r), r)
         /\ r.rc = "right" => ParasiticsBegin(r).rc = "right"
         /\ Routed(ParasiticsBegin(r))
         /\ ParasiticsBegin(r).routed = r.routed /\ ParasiticsBegin(r).crashed = r.crashed
BY DEF Rz, ParasiticsBegin, Unlisted, SamePaper, Routed

LEMMA EndParasitics ==
  ASSUME NEW r \in Rz
  PROVE  /\ ParasiticsEnd(r) \in Rz /\ SamePaper(ParasiticsEnd(r), r)
         /\ r.rc = "right" => ParasiticsEnd(r).rc = "right"
         /\ ParasiticsEnd(r).routed = r.routed /\ ParasiticsEnd(r).crashed = r.crashed
BY DEF Rz, ParasiticsEnd, Unlisted, SamePaper

\* updateParasitics puts listed nets right, when it has its router.
LEMMA UpdateIsRight ==
  ASSUME NEW r \in Rz
  PROVE  /\ UpdateParasitics(r) \in Rz /\ SamePaper(UpdateParasitics(r), r)
         /\ UpdateParasitics(r).routed = r.routed /\ UpdateParasitics(r).groute = r.groute
         /\ Routed(r) => UpdateParasitics(r).crashed = r.crashed
         /\ (Routed(r) /\ r.rc # "wrong") => UpdateParasitics(r).rc = "right"
         /\ r.rc = "right" => UpdateParasitics(r).rc = "right"
         /\ r.crashed => UpdateParasitics(r).crashed
<1>1. CASE r.routed /\ ~r.groute
  <2>1. UpdateParasitics(r) = [r EXCEPT !.crashed = TRUE] BY <1>1 DEF UpdateParasitics
  <2>2. QED BY <1>1, <2>1 DEF Rz, SamePaper, Routed
<1>2. CASE ~(r.routed /\ ~r.groute)
  <2>1. UpdateParasitics(r) = [r EXCEPT !.rc = IF r.rc = "wrong" THEN r.rc ELSE "right"]
    BY <1>2 DEF UpdateParasitics
  <2>2. QED BY <1>2, <2>1 DEF Rz, SamePaper, Routed
<1>3. QED BY <1>1, <1>2

\* beginEco drops a journal that is still open.
LEMMA EcoBegins ==
  ASSUME NEW r \in Rz
  PROVE  /\ BeginEco(r) \in Rz /\ SameRoute(BeginEco(r), r)
         /\ BeginEco(r).net = r.net /\ BeginEco(r).log = r.net
         /\ BeginEco(r).pending = r.pending /\ BeginEco(r).committed = r.committed
         /\ BeginEco(r).dropped = IF r.log = NoLog THEN r.dropped ELSE r.dropped + r.pending
<1>1. r.net \in Netlist /\ r.pending \in Nat /\ r.dropped \in Nat
  BY Fields
<1>2. PICK d \in Nat : d = IF r.log = NoLog THEN r.dropped ELSE r.dropped + r.pending
  BY <1>1
<1>3. BeginEco(r) = [r EXCEPT !.log = r.net, !.dropped = d]
  BY <1>2 DEF BeginEco
<1>4. [r EXCEPT !.log = r.net, !.dropped = d] \in Rz
  BY <1>1, <1>2 DEF Rz
<1>5. QED BY <1>2, <1>3, <1>4 DEF Rz, SameRoute

LEMMA EcoEnds ==
  ASSUME NEW r \in Rz
  PROVE  /\ EndEco(r) \in Rz /\ SameRoute(EndEco(r), r)
         /\ EndEco(r).net = r.net /\ EndEco(r).log = NoLog /\ EndEco(r).pending = r.pending
         /\ EndEco(r).committed = r.committed /\ EndEco(r).dropped = r.dropped
BY DEF Rz, EndEco, SameRoute

LEMMA MovesUndone ==
  ASSUME NEW r \in Rz
  PROVE  /\ UndoMoves(r) \in Rz /\ SameRoute(UndoMoves(r), r)
         /\ UndoMoves(r).net = r.net /\ UndoMoves(r).log = r.log /\ UndoMoves(r).pending = 0
         /\ UndoMoves(r).committed = r.committed /\ UndoMoves(r).dropped = r.dropped
BY DEF Rz, UndoMoves, SameRoute

LEMMA MovesCommitted ==
  ASSUME NEW r \in Rz
  PROVE  /\ CommitMoves(r) \in Rz /\ SameRoute(CommitMoves(r), r)
         /\ CommitMoves(r).net = r.net /\ CommitMoves(r).log = r.log /\ CommitMoves(r).pending = 0
         /\ CommitMoves(r).committed = r.committed + r.pending
         /\ CommitMoves(r).dropped = r.dropped
<1>1. r.committed + r.pending \in Nat BY Fields
<1>2. QED BY <1>1 DEF Rz, CommitMoves, SameRoute

LEMMA NetChanged ==
  ASSUME NEW r \in Rz, NEW n \in Netlist
  PROVE  /\ Net(r, n) \in Rz /\ Net(r, n).net = n
         /\ r.rc # "wrong" => Net(r, n).rc = "listed"
         /\ Net(r, n).log = r.log /\ Net(r, n).pending = r.pending
         /\ Net(r, n).committed = r.committed /\ Net(r, n).dropped = r.dropped
         /\ Net(r, n).routed = r.routed /\ Net(r, n).groute = r.groute
         /\ Net(r, n).crashed = r.crashed
BY DEF Rz, Net

-----------------------------------------------------------------------------
(***************************************************************************)
(* What the journal's functions leave of books that are in order.          *)
(***************************************************************************)
\* journalBegin: everything is measured from here.
LEMMA BeginKeeps ==
  ASSUME NEW r, Books(r)
  PROVE  /\ Books(JournalBegin(r)) /\ Routed(JournalBegin(r))
         /\ JournalBegin(r).net = r.net /\ JournalBegin(r).log = r.net
         /\ JournalBegin(r).log # NoLog /\ JournalBegin(r).pending = 0
         /\ JournalBegin(r).dropped = IF r.log = NoLog THEN r.dropped ELSE r.dropped + r.pending
         /\ JournalBegin(r).routed = r.routed /\ JournalBegin(r).crashed = r.crashed
<1> DEFINE p == ParasiticsBegin(r)
           e == BeginEco(p)
<1>1. r \in Rz /\ Counted(r) /\ InOrder(r, lost) BY DEF Books, Sound
<1>2. /\ p \in Rz /\ SamePaper(p, r) /\ (r.rc = "right" => p.rc = "right") /\ Routed(p)
      /\ p.routed = r.routed /\ p.crashed = r.crashed
  BY <1>1, BeginParasitics
<1>3. /\ e \in Rz /\ SameRoute(e, p) /\ e.net = p.net /\ e.log = p.net /\ e.pending = p.pending
      /\ e.committed = p.committed
      /\ e.dropped = IF p.log = NoLog THEN p.dropped ELSE p.dropped + p.pending
  BY <1>2, EcoBegins
<1> DEFINE u == UndoMoves(e)
<1>4. /\ u \in Rz /\ SameRoute(u, e) /\ u.net = e.net /\ u.log = e.log /\ u.pending = 0
      /\ u.committed = e.committed /\ u.dropped = e.dropped
  BY <1>3, MovesUndone
<1>5. JournalBegin(r) = u BY DEF JournalBegin
<1>6. r.net # NoLog /\ r.net.moves \in Nat /\ r.pending \in Nat /\ r.dropped \in Nat /\ r.committed \in Nat
  BY <1>1, Fields
<1> HIDE DEF p, e, u
<1>7. /\ u.net = r.net /\ u.log = r.net /\ u.committed = r.committed
      /\ u.dropped = IF r.log = NoLog THEN r.dropped ELSE r.dropped + r.pending
  BY <1>2, <1>3, <1>4 DEF SamePaper
<1>8. (r.rc = "right" => u.rc = "right") /\ Routed(u) /\ u.routed = r.routed /\ u.crashed = r.crashed
  BY <1>2, <1>3, <1>4 DEF SameRoute, Routed
<1>9. Counted(u) BY <1>1, <1>4, <1>6, <1>7 DEF Counted
<1>10. InOrder(u, lost) BY <1>1, <1>4, <1>8 DEF InOrder, Closed
<1>11. QED BY <1>4, <1>5, <1>6, <1>7, <1>8, <1>9, <1>10 DEF Books, Sound

\* journalEnd: the books are right even where it crashes.
LEMMA EndKeeps ==
  ASSUME NEW r, Books(r), Closed(r)
  PROVE  /\ Books(JournalEnd(r))
         /\ JournalEnd(r).net = r.net /\ JournalEnd(r).log = NoLog
         /\ JournalEnd(r).pending = 0 /\ JournalEnd(r).dropped = r.dropped
         /\ JournalEnd(r).routed = r.routed
         /\ Routed(r) => JournalEnd(r).crashed = r.crashed
<1> DEFINE m == IF EcoEmpty(r) THEN r ELSE UpdateParasitics(r)
           p == ParasiticsEnd(m)
           e == EndEco(p)
           c == CommitMoves(e)
<1>1. r \in Rz /\ Counted(r) /\ InOrder(r, lost) BY DEF Books, Sound
<1>2. /\ m \in Rz /\ SamePaper(m, r) /\ (r.rc = "right" => m.rc = "right") /\ m.routed = r.routed
      /\ Routed(r) => m.crashed = r.crashed
  BY <1>1, UpdateIsRight DEF SamePaper
<1>3. /\ p \in Rz /\ SamePaper(p, m) /\ (m.rc = "right" => p.rc = "right")
      /\ p.routed = m.routed /\ p.crashed = m.crashed
  BY <1>2, EndParasitics
<1>4. /\ e \in Rz /\ SameRoute(e, p) /\ e.net = p.net /\ e.log = NoLog /\ e.pending = p.pending
      /\ e.committed = p.committed /\ e.dropped = p.dropped
  BY <1>3, EcoEnds
<1>5. /\ c \in Rz /\ SameRoute(c, e) /\ c.net = e.net /\ c.log = e.log /\ c.pending = 0
      /\ c.committed = e.committed + e.pending /\ c.dropped = e.dropped
  BY <1>4, MovesCommitted
<1>6. JournalEnd(r) = c BY DEF JournalEnd
<1>7. r.net.moves \in Nat /\ r.pending \in Nat /\ r.dropped \in Nat /\ r.committed \in Nat
  BY <1>1, Fields
<1> HIDE DEF m, p, e, c
<1>8. /\ c.net = r.net /\ c.log = NoLog /\ c.dropped = r.dropped /\ c.committed = r.committed + r.pending
      /\ (r.rc = "right" => c.rc = "right") /\ c.routed = r.routed /\ (Routed(r) => c.crashed = r.crashed)
  BY <1>2, <1>3, <1>4, <1>5 DEF SamePaper, SameRoute
<1>9. Counted(c) BY <1>1, <1>5, <1>7, <1>8 DEF Counted, Closed
<1>10. InOrder(c, lost) BY <1>1, <1>5, <1>8 DEF InOrder, Closed
<1>11. QED BY <1>5, <1>6, <1>8, <1>9, <1>10 DEF Books, Sound

\* The journal is undone, but the parasitics are not updated yet.
Undone(r) == EndEco(Net(ParasiticsBegin(ParasiticsEnd(r)), r.log))

LEMMA UndoneKeeps ==
  ASSUME NEW r, Sound(r), r.log # NoLog
  PROVE  /\ Sound(Undone(r)) /\ Routed(Undone(r))
         /\ Undone(r).net = r.log /\ Undone(r).log = NoLog
         /\ Undone(r).pending = r.pending /\ Undone(r).dropped = r.dropped
         /\ Undone(r).committed = r.committed
         /\ Undone(r).routed = r.routed /\ Undone(r).crashed = r.crashed
         /\ r.rc = "right" => Undone(r).rc # "wrong"
<1> DEFINE a == ParasiticsEnd(r)
           b == ParasiticsBegin(a)
           n == Net(b, r.log)
           e == EndEco(n)
<1>1. r \in Rz /\ Counted(r) BY DEF Sound
<1>2. /\ r.net.moves \in Nat /\ r.pending \in Nat /\ r.dropped \in Nat /\ r.committed \in Nat
      /\ r.log \in Netlist /\ r.log.moves \in Nat
  BY <1>1, Fields
<1>3. /\ a \in Rz /\ SamePaper(a, r) /\ (r.rc = "right" => a.rc = "right")
      /\ a.routed = r.routed /\ a.crashed = r.crashed
  BY <1>1, EndParasitics
<1>4. /\ b \in Rz /\ SamePaper(b, a) /\ (a.rc = "right" => b.rc = "right") /\ Routed(b)
      /\ b.routed = a.routed /\ b.crashed = a.crashed
  BY <1>3, BeginParasitics
<1>5. /\ n \in Rz /\ n.net = r.log /\ (b.rc # "wrong" => n.rc = "listed")
      /\ n.log = b.log /\ n.pending = b.pending
      /\ n.committed = b.committed /\ n.dropped = b.dropped
      /\ n.routed = b.routed /\ n.groute = b.groute /\ n.crashed = b.crashed
  BY <1>2, <1>4, NetChanged
<1>6. /\ e \in Rz /\ SameRoute(e, n) /\ e.net = n.net /\ e.log = NoLog /\ e.pending = n.pending
      /\ e.committed = n.committed /\ e.dropped = n.dropped
  BY <1>5, EcoEnds
<1>7. Undone(r) = e BY DEF Undone
<1> HIDE DEF a, b, n, e
<1>8. /\ e.net = r.log /\ e.pending = r.pending /\ e.committed = r.committed /\ e.dropped = r.dropped
      /\ e.routed = r.routed /\ e.crashed = r.crashed /\ Routed(e)
      /\ r.rc = "right" => e.rc # "wrong"
  BY <1>3, <1>4, <1>5, <1>6 DEF SamePaper, SameRoute, Routed
<1>9. Counted(e) BY <1>1, <1>2, <1>6, <1>8 DEF Counted
<1>10. QED BY <1>6, <1>7, <1>8, <1>9 DEF Sound

\* journalRestore, with a journal: the netlist is the checkpoint's.
LEMMA RestoreKeeps ==
  ASSUME NEW r, Books(r), r.log # NoLog
  PROVE  /\ Books(JournalRestore(r))
         /\ JournalRestore(r).net = r.log /\ JournalRestore(r).log = NoLog
         /\ JournalRestore(r).pending = 0 /\ JournalRestore(r).dropped = r.dropped
         /\ JournalRestore(r).routed = r.routed /\ JournalRestore(r).crashed = r.crashed
<1>1. r \in Rz /\ Counted(r) /\ InOrder(r, lost) BY DEF Books, Sound
<1>2. /\ r.net.moves \in Nat /\ r.pending \in Nat /\ r.dropped \in Nat /\ r.committed \in Nat
      /\ r.log \in Netlist /\ r.log.moves \in Nat
  BY <1>1, Fields
<1>3. CASE EcoEmpty(r)
  <2> DEFINE e == EndEco(r)
             p == ParasiticsEnd(e)
  <2>1. /\ e \in Rz /\ SameRoute(e, r) /\ e.net = r.net /\ e.log = NoLog /\ e.pending = r.pending
        /\ e.committed = r.committed /\ e.dropped = r.dropped
    BY <1>1, EcoEnds
  <2>2. /\ p \in Rz /\ SamePaper(p, e) /\ (e.rc = "right" => p.rc = "right")
        /\ p.routed = e.routed /\ p.crashed = e.crashed
    BY <2>1, EndParasitics
  <2>3. JournalRestore(r) = p BY <1>3 DEF JournalRestore
  <2> HIDE DEF e, p
  <2>4. r.net = r.log BY <1>3 DEF EcoEmpty
  <2>5. r.pending = 0 BY <1>1, <1>2, <2>4 DEF Counted
  <2>6. Counted(p) BY <1>1, <1>2, <2>1, <2>2, <2>5 DEF Counted, SamePaper
  <2>7. InOrder(p, lost)
    BY <1>1, <2>1, <2>2, <2>5 DEF InOrder, Closed, SamePaper, SameRoute
  <2>8. QED BY <2>1, <2>2, <2>3, <2>4, <2>5, <2>6, <2>7 DEF SamePaper, SameRoute, Books, Sound
<1>4. CASE ~EcoEmpty(r)
  <2> DEFINE e == Undone(r)
             w == UpdateParasitics(e)
             p == ParasiticsEnd(w)
             u == UndoMoves(p)
  <2>1. /\ e \in Rz /\ Counted(e) /\ Routed(e) /\ e.net = r.log /\ e.log = NoLog /\ e.pending = r.pending
        /\ e.committed = r.committed /\ e.dropped = r.dropped
        /\ e.routed = r.routed /\ e.crashed = r.crashed /\ (r.rc = "right" => e.rc # "wrong")
    BY UndoneKeeps DEF Books, Sound
  <2>2. JournalRestore(r) = u BY <1>4 DEF JournalRestore, Undone
  <2> HIDE DEF e
  <2>3. /\ w \in Rz /\ SamePaper(w, e) /\ (r.rc = "right" => w.rc = "right")
        /\ w.routed = e.routed /\ w.crashed = e.crashed
    BY <2>1, UpdateIsRight
  <2> HIDE DEF w
  <2>4. /\ p \in Rz /\ SamePaper(p, w) /\ (w.rc = "right" => p.rc = "right")
        /\ p.routed = w.routed /\ p.crashed = w.crashed
    BY <2>3, EndParasitics
  <2> HIDE DEF p
  <2>5. /\ u \in Rz /\ SameRoute(u, p) /\ u.net = p.net /\ u.log = p.log /\ u.pending = 0
        /\ u.committed = p.committed /\ u.dropped = p.dropped
    BY <2>4, MovesUndone
  <2> HIDE DEF u
  <2>6. /\ u.net = r.log /\ u.log = NoLog /\ u.committed = r.committed /\ u.dropped = r.dropped
        /\ (r.rc = "right" => u.rc = "right") /\ u.routed = r.routed /\ u.crashed = r.crashed
    BY <2>1, <2>3, <2>4, <2>5 DEF SamePaper, SameRoute
  <2>7. Counted(u) BY <1>1, <1>2, <2>5, <2>6 DEF Counted
  <2>8. InOrder(u, lost) BY <1>1, <2>5, <2>6 DEF InOrder, Closed
  <2>9. QED BY <2>2, <2>5, <2>6, <2>7, <2>8 DEF Books, Sound
<1>5. QED BY <1>3, <1>4

\* What is done to a netlist makes a netlist.
LEMMA MovedNetlist ==
  ASSUME NEW n \in Netlist, NEW w \in Slack, NEW a \in Slack
  PROVE  /\ [n EXCEPT !.moves = n.moves + 1, !.worst = w, !.also = a] \in Netlist
         /\ [n EXCEPT !.moves = n.moves + 1, !.worst = w, !.also = a].moves = n.moves + 1
<1>1. PICK k \in Nat : k = n.moves + 1 BY DEF Netlist
<1>2. [n EXCEPT !.moves = k, !.worst = w, !.also = a] \in Netlist
      /\ [n EXCEPT !.moves = k, !.worst = w, !.also = a].moves = k
  BY DEF Netlist
<1>3. QED BY <1>1, <1>2, Zenon

LEMMA MovedWorst ==
  ASSUME NEW n \in Netlist, NEW w \in Slack, NEW a \in Slack
  PROVE  [n EXCEPT !.moves = n.moves + 1, !.worst = w, !.also = a].worst = w
BY DEF Netlist

LEMMA ResizedNetlist ==
  ASSUME NEW n \in Netlist, NEW w \in Slack
  PROVE  /\ [n EXCEPT !.other = n.other + 1, !.worst = w] \in Netlist
         /\ [n EXCEPT !.other = n.other + 1, !.worst = w].moves = n.moves
         /\ [n EXCEPT !.other = n.other + 1, !.worst = w].hold = n.hold
<1>1. PICK k \in Nat : k = n.other + 1 BY DEF Netlist
<1>2. [n EXCEPT !.other = k, !.worst = w] \in Netlist
      /\ [n EXCEPT !.other = k, !.worst = w].moves = n.moves
      /\ [n EXCEPT !.other = k, !.worst = w].hold = n.hold
  BY DEF Netlist
<1>3. QED BY <1>1, <1>2, Zenon

LEMMA BufferedNetlist ==
  ASSUME NEW n \in Netlist
  PROVE  /\ [n EXCEPT !.hold = n.hold + 1] \in Netlist
         /\ [n EXCEPT !.hold = n.hold + 1].moves = n.moves
         /\ [n EXCEPT !.hold = n.hold + 1].hold = n.hold + 1
BY DEF Netlist

\* Books that differ by what was done to the netlist.
Same(q, r) ==
  /\ q.log = r.log /\ q.dropped = r.dropped
  /\ q.routed = r.routed /\ q.groute = r.groute /\ q.crashed = r.crashed

\* A move while a journal is open, before and after it is measured.
LEMMA MovedKeeps ==
  ASSUME NEW r, Books(r), r.log # NoLog, Routed(r), NEW s \in Slacks
  PROVE  /\ Sound(Moved(r, s)) /\ Moved(r, s).crashed = r.crashed
         /\ Books(UpdateParasitics(Moved(r, s))) /\ Same(UpdateParasitics(Moved(r, s)), r)
         /\ UpdateParasitics(Moved(r, s)).net.worst = s.worst
<1> DEFINE n == [r.net EXCEPT !.moves = @ + 1, !.worst = s.worst, !.also = s.also]
           q == Net(r, n)
           v == Moved(r, s)
           w == UpdateParasitics(v)
<1>1. r \in Rz /\ Counted(r) /\ InOrder(r, lost) BY DEF Books, Sound
<1>2. /\ r.net.moves \in Nat /\ r.pending \in Nat /\ r.dropped \in Nat /\ r.committed \in Nat
      /\ r.net \in Netlist /\ r.log.moves \in Nat
  BY <1>1, Fields
<1>3. n \in Netlist /\ n.moves = r.net.moves + 1 /\ n.worst = s.worst
  <2>1. s.worst \in Slack /\ s.also \in Slack
    BY DEF Slacks
  <2>2. n = [r.net EXCEPT !.moves = r.net.moves + 1, !.worst = s.worst, !.also = s.also]
    BY DEF n
  <2> HIDE DEF n
  <2>3. /\ [r.net EXCEPT !.moves = r.net.moves + 1, !.worst = s.worst, !.also = s.also] \in Netlist
        /\ [r.net EXCEPT !.moves = r.net.moves + 1, !.worst = s.worst, !.also = s.also].moves
             = r.net.moves + 1
    BY <1>2, <2>1, MovedNetlist, Zenon
  <2>4. [r.net EXCEPT !.moves = r.net.moves + 1, !.worst = s.worst, !.also = s.also].worst = s.worst
    <3>1. PICK m \in Netlist, x \in Slack, y \in Slack : m = r.net /\ x = s.worst /\ y = s.also
      BY <1>2, <2>1
    <3>2. [m EXCEPT !.moves = m.moves + 1, !.worst = x, !.also = y].worst = x
      BY MovedWorst
    <3>3. QED BY <3>1, <3>2, Zenon
  <2>5. QED BY <2>2, <2>3, <2>4, Zenon
<1>4. /\ q \in Rz /\ q.net = n /\ (r.rc # "wrong" => q.rc = "listed") /\ q.log = r.log
      /\ q.pending = r.pending /\ q.committed = r.committed /\ q.dropped = r.dropped
      /\ q.routed = r.routed /\ q.groute = r.groute /\ q.crashed = r.crashed
  BY <1>1, <1>3, NetChanged
<1>5. v = [q EXCEPT !.pending = q.pending + 1] BY DEF Moved
<1> HIDE DEF n, q, v, w
<1>6. q.pending + 1 \in Nat BY <1>2, <1>4
<1>7. /\ v \in Rz /\ v.net = n /\ v.rc = q.rc /\ v.log = r.log /\ v.pending = r.pending + 1
      /\ v.committed = r.committed /\ v.dropped = r.dropped
      /\ v.routed = r.routed /\ v.groute = r.groute /\ v.crashed = r.crashed
  BY <1>4, <1>5, <1>6 DEF Rz
<1>8. Routed(v) BY <1>7 DEF Routed
<1>9. w = UpdateParasitics(v) /\ v = Moved(r, s) BY DEF w, v
<1>10. /\ w \in Rz /\ SamePaper(w, v) /\ (r.rc = "right" => w.rc = "right") /\ w.crashed = v.crashed
       /\ w.routed = v.routed /\ w.groute = v.groute
  BY <1>4, <1>7, <1>8, <1>9, UpdateIsRight
<1>11. Counted(v)
  <2>1. r.log.moves + r.pending = r.net.moves /\ r.committed + r.dropped + r.pending = r.net.moves
    BY <1>1 DEF Counted
  <2>2. v.log.moves + v.pending = v.net.moves BY <1>2, <1>3, <1>7, <2>1
  <2>3. v.committed + v.dropped + v.pending = v.net.moves
    <3>1. r.committed + r.dropped + (r.pending + 1) = r.net.moves + 1 BY <1>2, <2>1
    <3>2. QED BY <1>3, <1>7, <3>1, Zenon
  <2>4. QED BY <1>7, <2>2, <2>3 DEF Counted
<1>12. Counted(w) BY <1>10, <1>11 DEF Counted, SamePaper
<1>13. InOrder(w, lost) BY <1>1, <1>7, <1>10 DEF InOrder, Closed, SamePaper
<1>14. w.net.worst = s.worst BY <1>3, <1>7, <1>10 DEF SamePaper
<1>15. Same(w, r) BY <1>7, <1>10 DEF Same, SamePaper
<1>16. Sound(v) /\ Books(w) BY <1>7, <1>10, <1>11, <1>12, <1>13 DEF Books, Sound
<1>17. QED BY <1>7, <1>9, <1>14, <1>15, <1>16, Zenon

\* Changes that BaseMove does not count.
LEMMA UncountedKeeps ==
  ASSUME NEW r, Books(r), Routed(r), NEW n \in Netlist, n.moves = r.net.moves
  PROVE  /\ Sound(Net(r, n)) /\ Net(r, n).crashed = r.crashed
         /\ Books(UpdateParasitics(Net(r, n))) /\ Same(UpdateParasitics(Net(r, n)), r)
         /\ UpdateParasitics(Net(r, n)).net = n
         /\ UpdateParasitics(Net(r, n)).pending = r.pending
<1> DEFINE q == Net(r, n)
           w == UpdateParasitics(q)
<1>1. r \in Rz /\ Counted(r) /\ InOrder(r, lost) BY DEF Books, Sound
<1>2. /\ q \in Rz /\ q.net = n /\ (r.rc # "wrong" => q.rc = "listed") /\ q.log = r.log
      /\ q.pending = r.pending /\ q.committed = r.committed /\ q.dropped = r.dropped
      /\ q.routed = r.routed /\ q.groute = r.groute /\ q.crashed = r.crashed
  BY <1>1, NetChanged
<1> HIDE DEF q
<1>3. Routed(q) BY <1>2 DEF Routed
<1>4. /\ w \in Rz /\ SamePaper(w, q) /\ (r.rc = "right" => w.rc = "right") /\ w.crashed = q.crashed
      /\ w.routed = q.routed /\ w.groute = q.groute
  BY <1>2, <1>3, UpdateIsRight
<1> HIDE DEF w
<1>5. Counted(q) BY <1>1, <1>2 DEF Counted
<1>6. Counted(w) BY <1>4, <1>5 DEF Counted, SamePaper
<1>7. InOrder(w, lost) BY <1>1, <1>2, <1>4 DEF InOrder, Closed, SamePaper
<1>8. w = UpdateParasitics(Net(r, n)) /\ q = Net(r, n) BY DEF w, q
<1>9. QED BY <1>2, <1>4, <1>5, <1>6, <1>7, <1>8 DEF Books, Sound, Same, SamePaper

LEMMA ResizedKeeps ==
  ASSUME NEW r, Books(r), Routed(r), NEW s \in Slack
  PROVE  /\ Sound(Resized(r, s)) /\ Resized(r, s).crashed = r.crashed
         /\ Books(UpdateParasitics(Resized(r, s))) /\ Same(UpdateParasitics(Resized(r, s)), r)
         /\ UpdateParasitics(Resized(r, s)).pending = r.pending
         /\ UpdateParasitics(Resized(r, s)).net.hold = r.net.hold
<1>1. r.net \in Netlist BY Fields DEF Books, Sound
<1>2. /\ [r.net EXCEPT !.other = @ + 1, !.worst = s] \in Netlist
      /\ [r.net EXCEPT !.other = @ + 1, !.worst = s].moves = r.net.moves
      /\ [r.net EXCEPT !.other = @ + 1, !.worst = s].hold = r.net.hold
  BY <1>1, ResizedNetlist, Zenon
<1>3. QED BY <1>2, UncountedKeeps DEF Resized

LEMMA BufferedKeeps ==
  ASSUME NEW r, Books(r), Routed(r)
  PROVE  /\ Sound(Buffered(r)) /\ Buffered(r).crashed = r.crashed
         /\ Books(UpdateParasitics(Buffered(r))) /\ Same(UpdateParasitics(Buffered(r)), r)
         /\ UpdateParasitics(Buffered(r)).pending = r.pending
         /\ UpdateParasitics(Buffered(r)).net.hold = r.net.hold + 1
<1>1. r.net \in Netlist BY Fields DEF Books, Sound
<1>2. /\ [r.net EXCEPT !.hold = @ + 1] \in Netlist
      /\ [r.net EXCEPT !.hold = @ + 1].moves = r.net.moves
      /\ [r.net EXCEPT !.hold = @ + 1].hold = r.net.hold + 1
  BY <1>1, BufferedNetlist, Zenon
<1>3. QED BY <1>2, UncountedKeeps DEF Buffered

\* Looking at another endpoint changes nothing.
LEMMA LookingKeeps ==
  ASSUME NEW r, Books(r), NEW s \in Slack
  PROVE  /\ Books(Looking(r, s)) /\ Same(Looking(r, s), r)
         /\ Looking(r, s).pending = r.pending /\ Looking(r, s).net \in Netlist
         /\ Looking(r, s).net.worst = r.net.worst
<1>1. r \in Rz /\ Counted(r) /\ InOrder(r, lost) BY DEF Books, Sound
<1>2. r.net \in Netlist BY <1>1, Fields
<1>3. /\ [r.net EXCEPT !.also = s] \in Netlist /\ [r.net EXCEPT !.also = s].moves = r.net.moves
      /\ [r.net EXCEPT !.also = s].worst = r.net.worst
  BY <1>2 DEF Netlist
<1>4. Looking(r, s) = [r EXCEPT !.net = [r.net EXCEPT !.also = s]] BY DEF Looking, Rz
<1>5. /\ Looking(r, s) \in Rz /\ Looking(r, s).net = [r.net EXCEPT !.also = s]
      /\ SameRoute(Looking(r, s), r) /\ Looking(r, s).log = r.log /\ Looking(r, s).pending = r.pending
      /\ Looking(r, s).committed = r.committed /\ Looking(r, s).dropped = r.dropped
  BY <1>1, <1>3, <1>4 DEF Rz, SameRoute
<1>6. Counted(Looking(r, s)) BY <1>1, <1>3, <1>5 DEF Counted
<1>7. InOrder(Looking(r, s), lost) BY <1>1, <1>5 DEF InOrder, Closed, SameRoute
<1>8. QED BY <1>1, <1>3, <1>5, <1>6, <1>7 DEF Books, Sound, Same, SameRoute

\* The parasitics alone.
LEMMA ParasiticsKeep ==
  ASSUME NEW r, Books(r)
  PROVE  /\ Books(ParasiticsBegin(r)) /\ SamePaper(ParasiticsBegin(r), r) /\ Routed(ParasiticsBegin(r))
         /\ ParasiticsBegin(r).routed = r.routed /\ ParasiticsBegin(r).crashed = r.crashed
         /\ Books(ParasiticsEnd(r)) /\ SamePaper(ParasiticsEnd(r), r)
         /\ ParasiticsEnd(r).routed = r.routed /\ ParasiticsEnd(r).crashed = r.crashed
         /\ Routed(r) => /\ Books(UpdateParasitics(r)) /\ SamePaper(UpdateParasitics(r), r)
                         /\ Routed(UpdateParasitics(r))
                         /\ UpdateParasitics(r).crashed = r.crashed
<1>1. r \in Rz /\ Counted(r) /\ InOrder(r, lost) BY DEF Books, Sound
<1>2. \A q : SamePaper(q, r) => Counted(q) BY <1>1 DEF SamePaper, Counted
<1>3. \A q : (SamePaper(q, r) /\ (r.rc = "right" => q.rc = "right")) => InOrder(q, lost)
  BY <1>1 DEF SamePaper, InOrder, Closed
<1>4. QED BY <1>1, <1>2, <1>3, BeginParasitics, EndParasitics, UpdateIsRight DEF Books, Sound, Routed

-----------------------------------------------------------------------------
(***************************************************************************)
(* The inductive invariant.                                                *)
(***************************************************************************)
LEMMA SeenType ==
  ASSUME NEW r, Books(r)
  PROVE  Seen(r) \in [worst : Slack, hold : Nat]
<1>1. r.net \in Netlist BY Fields DEF Books, Sound
<1>2. r.net.worst \in Slack /\ r.net.hold \in Nat BY <1>1 DEF Netlist
<1>3. QED BY <1>2 DEF Seen

LEMMA NetType == ASSUME NEW r, Books(r) PROVE r.net \in Netlist /\ r.pending \in Nat /\ r.dropped \in Nat
BY Fields DEF Books, Sound

LEMMA InitIInv == Init => IInv
<1> SUFFICES ASSUME Init PROVE IInv OBVIOUS
<1>1. /\ rz.net \in [moves : {0}, other : {0}, hold : {0}, worst : Slack, also : {0}]
      /\ rz.log = NoLog /\ rz.pending = 0 /\ rz.committed = 0 /\ rz.rc = "right"
      /\ rz.crashed = FALSE /\ rz.dropped = 0
  BY DEF Init
<1>2. rz.net \in Netlist /\ rz.net.moves = 0
  BY <1>1, LimitsAssumption DEF Netlist, Slack, Limits
<1>3. rz \in Rz
  <2>1. rz.routed \in BOOLEAN BY DEF Init
  <2>2. rz = [net |-> rz.net, log |-> NoLog, pending |-> 0, committed |-> 0, rc |-> "right",
              routed |-> rz.routed, groute |-> FALSE, crashed |-> FALSE, dropped |-> 0]
    BY DEF Init
  <2>3. \A n \in Netlist, b \in BOOLEAN :
          [net |-> n, log |-> NoLog, pending |-> 0, committed |-> 0, rc |-> "right",
           routed |-> b, groute |-> FALSE, crashed |-> FALSE, dropped |-> 0] \in Rz
    BY DEF Rz
  <2>4. QED BY <1>2, <2>1, <2>2, <2>3, Zenon
<1>4. Books(rz) BY <1>1, <1>2, <1>3 DEF Books, Sound, InOrder, Closed, Counted
<1>5. Locals BY <1>2, <1>4, SeenType DEF Init, Locals, Place, Reason
<1>6. QED BY <1>1, <1>4, <1>5 DEF IInv, Fine, Books, InOrder, Lossless, InPasses, InHold, Init

\* The search for hold violations sets up its router.
LEMMA HoldStartsKeeps ==
  ASSUME IInv, NEW f \in BOOLEAN, at \notin InPasses, ~rz.crashed, HoldStarts(f),
         UNCHANGED <<hold_next, end_index, tries, bad, stops, left, lost>>, commands' \in Nat
  PROVE  IInv'
<1>1. Books(rz) BY DEF IInv, Fine, Books, InOrder, Lossless
<1>2. Books(rz') /\ SamePaper(rz', rz) /\ Routed(rz') /\ rz'.crashed = rz.crashed
  BY <1>1, ParasiticsKeep DEF HoldStarts
<1>3. Fine(at', rz', left', lost')
  BY <1>2 DEF IInv, Fine, Books, InOrder, Lossless, SamePaper, HoldStarts, InPasses
<1>4. Locals'
  BY <1>1, SeenType, NetType DEF HoldStarts, IInv, Locals, Place
<1>5. QED BY <1>3, <1>4 DEF IInv

\* The slacks are found in a journal that is undone, or the changes are kept.
LEMMA SlacksFound ==
  ASSUME IInv, NEW s \in Slack, NEW restore \in BOOLEAN, FindResizeSlacks(s, restore)
  PROVE  IInv' /\ rz'.net = mark'
<1>0. Books(rz) /\ rz.net \in Netlist
  BY NetType DEF IInv, Fine, Books, InOrder, Lossless
<1> DEFINE begun == IF restore THEN JournalBegin(rz) ELSE rz
           placed == [begun EXCEPT !.routed = FALSE, !.rc = "right"]
           b == ParasiticsBegin(placed)
           u == UpdateParasitics(Resized(b, s))
           design == ParasiticsEnd(u)
<1>1. /\ Books(begun) /\ begun.crashed = rz.crashed
      /\ restore => /\ begun.log = rz.net /\ begun.log # NoLog
                    /\ begun.dropped = IF rz.log = NoLog THEN rz.dropped ELSE rz.dropped + rz.pending
      /\ ~restore => begun = rz
  BY <1>0, BeginKeeps
<1>2. /\ Books(placed) /\ placed.log = begun.log /\ placed.dropped = begun.dropped
      /\ placed.pending = begun.pending /\ placed.crashed = begun.crashed
  <2> HIDE DEF begun
  <2>1. /\ placed \in Rz /\ placed.net = begun.net /\ placed.log = begun.log
        /\ placed.dropped = begun.dropped /\ placed.committed = begun.committed
        /\ placed.pending = begun.pending /\ placed.crashed = begun.crashed /\ placed.rc = "right"
    BY <1>1 DEF Books, Sound, Rz
  <2>2. Counted(placed) BY <1>1, <2>1 DEF Books, Sound, Counted
  <2>3. InOrder(placed, lost) BY <1>1, <2>1 DEF Books, InOrder, Closed
  <2>4. QED BY <2>1, <2>2, <2>3 DEF Books, Sound
<1>3. FindResizeSlacks(s, restore) =>
        /\ rz' = IF restore THEN JournalRestore(design) ELSE design
        /\ mark' = IF restore THEN rz.net ELSE design.net
  BY DEF FindResizeSlacks
<1> HIDE DEF begun, placed
<1>4. Books(b) /\ SamePaper(b, placed) /\ Routed(b) /\ b.crashed = placed.crashed
  BY <1>2, ParasiticsKeep
<1> HIDE DEF b
<1>5. Books(u) /\ Same(u, b) /\ u.pending = b.pending
  BY <1>4, ResizedKeeps
<1> HIDE DEF u
<1>6. Books(design) /\ SamePaper(design, u) /\ design.crashed = u.crashed
  BY <1>5, ParasiticsKeep
<1> HIDE DEF design
<1>7. CASE restore
  <2>1. /\ design.log # NoLog /\ design.log = rz.net /\ ~design.crashed
        /\ design.dropped = IF rz.log = NoLog THEN rz.dropped ELSE rz.dropped + rz.pending
    BY <1>1, <1>2, <1>4, <1>5, <1>6, <1>7 DEF SamePaper, Same, FindResizeSlacks, Called
  <2>2. /\ Books(rz') /\ rz'.net = design.log /\ rz'.log = NoLog
        /\ rz'.dropped = design.dropped /\ ~rz'.crashed
    BY <1>3, <1>6, <1>7, <2>1, RestoreKeeps
  <2>3. Fine(at', rz', left', lost')
    <3>1. rz.pending \in Nat /\ rz.dropped \in Nat
      BY <1>0, NetType
    <3>2. Lossless(lost) => rz.dropped = 0 /\ (rz.log = NoLog \/ rz.pending = 0)
      BY <3>1 DEF FindResizeSlacks, Called, IInv, Fine, Books, InOrder, Lossless, InPasses
    <3>3. QED BY <2>1, <2>2, <3>1, <3>2 DEF FindResizeSlacks, Called, Fine, Books, InOrder, Lossless, InPasses, InHold
  <2>4. Locals'
    BY <1>0, <1>3, <1>7 DEF FindResizeSlacks, Called, IInv, Locals, Reason, loop
  <2>5. rz'.net = mark' BY <1>3, <1>7, <2>1, <2>2
  <2>6. QED BY <2>3, <2>4, <2>5 DEF IInv
<1>8. CASE ~restore
  <2>1. /\ design.log = rz.log /\ design.dropped = rz.dropped /\ design.pending = rz.pending
        /\ ~design.crashed
    BY <1>1, <1>2, <1>4, <1>5, <1>6, <1>8 DEF SamePaper, Same, FindResizeSlacks, Called
  <2>2. Fine(at', rz', left', lost')
    BY <1>3, <1>6, <1>8, <2>1 DEF FindResizeSlacks, Called, IInv, Fine, Books, InOrder, Lossless, InPasses, InHold
  <2>3. design.net \in Netlist BY <1>6, NetType
  <2>4. Locals'
    BY <1>3, <1>8, <2>3 DEF FindResizeSlacks, Called, IInv, Locals, Reason, loop
  <2>5. rz'.net = mark' BY <1>3, <1>8
  <2>6. QED BY <2>2, <2>4, <2>5 DEF IInv
<1>9. QED BY <1>7, <1>8

LEMMA CommandKeeps == ASSUME IInv, Command PROVE IInv'
<1>1. Books(rz) /\ rz.net \in Netlist /\ Seen(rz) \in [worst : Slack, hold : Nat]
  BY SeenType, NetType DEF IInv, Fine, Books, InOrder, Lossless
<1>2. ASSUME NEW h \in BOOLEAN, RepairSetupBegin(h) PROVE IInv'
  <2>1. Locals' BY <1>1, <1>2 DEF RepairSetupBegin, Called, IInv, Locals, Place, loop
  <2>2. Fine(at', rz', left', lost')
    BY <1>2 DEF RepairSetupBegin, Called, IInv, Fine, Books, InOrder, Lossless, InPasses, InHold
  <2>3. QED BY <2>1, <2>2 DEF IInv
<1>3. ASSUME NEW f \in BOOLEAN, RepairHoldBegin(f) PROVE IInv'
  <2>1. commands' \in Nat BY <1>3 DEF RepairHoldBegin, Called, IInv, Locals
  <2>2. QED BY <1>3, <2>1, HoldStartsKeeps DEF RepairHoldBegin, Called, InPasses
<1>4. CASE RecoverPowerBegin
  <2>1. Locals' BY <1>1, <1>4 DEF RecoverPowerBegin, Called, IInv, Locals, Place, loop
  <2>2. Fine(at', rz', left', lost')
    BY <1>4 DEF RecoverPowerBegin, Called, IInv, Fine, Books, InOrder, Lossless, InPasses, InHold
  <2>3. QED BY <2>1, <2>2 DEF IInv
<1>5. ASSUME NEW s \in Slack, NEW restore \in BOOLEAN, FindResizeSlacks(s, restore) PROVE IInv'
  BY <1>5, SlacksFound
<1>6. QED BY <1>2, <1>3, <1>4, <1>5 DEF Command

\* Outside the passes nothing is pending that a new journal would drop.
LEMMA NothingPending ==
  ASSUME IInv, at \notin InPasses
  PROVE  Lossless(lost) => (IF rz.log = NoLog THEN rz.dropped ELSE rz.dropped + rz.pending) = 0
<1>1. rz.pending \in Nat /\ rz.dropped \in Nat
  BY NetType DEF IInv, Fine, Books
<1>2. QED BY <1>1 DEF IInv, Fine

\* A command that the router ends leaves books that add up.
LEMMA ThrowsKeeps ==
  ASSUME IInv, NEW q, Sound(q), ~q.crashed, RouterThrows(q)
  PROVE  IInv'
<1>1. Locals' BY DEF RouterThrows, Returns, IInv, Locals, Place, Reason
<1>2. Fine(at', rz', left', lost')
  BY DEF RouterThrows, Returns, Fine, InOrder, Lossless, InPasses, InHold
<1>3. QED BY <1>1, <1>2 DEF IInv

LEMMA RestoreThrowsKeeps ==
  ASSUME IInv, NEW q, Sound(q), q.log # NoLog, ~q.crashed, RestoreThrows(q)
  PROVE  IInv'
<1>1. RouterThrows(Undone(q)) BY DEF RestoreThrows, Undone
<1>2. Sound(Undone(q)) /\ ~Undone(q).crashed BY UndoneKeeps
<1>3. QED BY <1>1, <1>2, ThrowsKeeps

\* What a pass measures, and the checkpoint made of it.
LEMMA TriedIsFine ==
  ASSUME IInv, at \in InPasses, NEW s \in Slacks
  PROVE  /\ Books(Tried(s)) /\ Tried(s).log # NoLog /\ Routed(Tried(s))
         /\ Tried(s).dropped = rz.dropped /\ ~Tried(s).crashed /\ Tried(s).net \in Netlist
         /\ Tried(s).log = rz.log /\ Tried(s).net.worst = s.worst
         /\ Sound(Moved(rz, s)) /\ ~Moved(rz, s).crashed /\ Sound(Tried(s))
<1>1. Books(rz) /\ rz.log # NoLog /\ Routed(rz) /\ ~rz.crashed
  BY DEF IInv, Fine, Books, InOrder, Lossless, InPasses
<1>2. /\ Books(Tried(s)) /\ Same(Tried(s), rz) /\ Tried(s).net.worst = s.worst
      /\ Sound(Moved(rz, s)) /\ Moved(rz, s).crashed = rz.crashed
  BY <1>1, MovedKeeps DEF Tried
<1>3. QED BY <1>1, <1>2, NetType DEF Same, Routed, Books

LEMMA CheckpointIsFine ==
  ASSUME NEW r, Books(r), Closed(r), Routed(r), ~r.crashed
  PROVE  /\ Books(JournalBegin(JournalEnd(r))) /\ JournalBegin(JournalEnd(r)).log # NoLog
         /\ Routed(JournalBegin(JournalEnd(r))) /\ ~JournalBegin(JournalEnd(r)).crashed
         /\ JournalBegin(JournalEnd(r)).dropped = r.dropped
         /\ JournalBegin(JournalEnd(r)).pending = 0
         /\ JournalBegin(JournalEnd(r)).net = r.net /\ JournalBegin(JournalEnd(r)).log = r.net
<1> DEFINE e == JournalEnd(r)
<1>1. /\ Books(e) /\ e.net = r.net /\ e.log = NoLog /\ e.pending = 0 /\ e.dropped = r.dropped
      /\ ~e.crashed
  BY EndKeeps
<1> HIDE DEF e
<1>2. QED BY <1>1, BeginKeeps DEF e

\* An endpoint is left with its journal closed.
LEMMA LeavesKeeps ==
  ASSUME IInv, at \in InPasses, NEW p \in {"setup", "gasp"}, NEW q, NEW why \in Reason,
         Leaves(p, q, why), Books(q), q.log = NoLog, q.dropped = rz.dropped, ~q.crashed,
         pass' \in Nat, bad' \in Nat, stops' \in Nat, mark' \in Netlist,
         lost' = lost \/ lost' = lost \cup {"area"}
  PROVE  IInv'
<1>1. Locals' BY DEF Leaves, IInv, Locals, Place
<1>2. Fine(at', rz', left', lost') BY DEF Leaves, IInv, Fine, Books, InOrder, Lossless, InPasses, InHold
<1>3. QED BY <1>1, <1>2 DEF IInv

LEMMA NextPassKeeps ==
  ASSUME IInv, at \in InPasses, NEW p \in {"setup", "gasp"}, NEW q, NextPass(p, q),
         Books(q), q.log # NoLog, Routed(q), q.dropped = rz.dropped, ~q.crashed,
         bad' \in Nat, mark' \in Netlist
  PROVE  IInv'
<1>1. CASE /\ Leaves(p, JournalEnd(q), "area") /\ lost' = lost \cup {"area"}
           /\ UNCHANGED <<pass, stops>>
  <2>1. pass' \in Nat /\ stops' \in Nat BY <1>1 DEF IInv, Locals
  <2>2. QED BY <1>1, <2>1, EndKeeps, LeavesKeeps DEF Reason, Closed
<1>2. CASE /\ rz' = q /\ pass' = pass + 1 /\ stops' \in {stops, 0}
           /\ UNCHANGED <<at, hold_next, end_index, fails, tries, inserted, before, commands, first, left, lost>>
  <2>1. Locals' BY <1>2 DEF IInv, Locals
  <2>2. Fine(at', rz', left', lost') BY <1>2 DEF IInv, Fine, Books, InOrder, Lossless, InPasses, InHold
  <2>3. QED BY <2>1, <2>2 DEF IInv
<1>3. QED BY <1>1, <1>2 DEF NextPass

LEMMA OutOfPassesKeeps ==
  ASSUME IInv, NEW p \in InPasses, NEW loops \in {"setup", "gasp"}, OutOfPasses(p, loops)
  PROVE  IInv'
<1>1. Locals' BY DEF OutOfPasses, Leaves, IInv, Locals, Place, Reason
<1>2. Fine(at', rz', left', lost')
  BY DEF OutOfPasses, Leaves, IInv, Fine, Books, InOrder, Lossless, InPasses, InHold
<1>3. QED BY <1>1, <1>2 DEF IInv

\* Back to the command line, with the books as they are.
LEMMA ReturnsKeeps ==
  ASSUME IInv, at \notin InPasses, ~rz.crashed, Returns, NEW q, rz' = q, Books(q),
         q.log = NoLog \/ (q.log = rz.log /\ q.pending = rz.pending), q.dropped = rz.dropped, ~q.crashed,
         UNCHANGED <<commands, history>>
  PROVE  IInv'
<1>1. Locals' BY DEF Returns, IInv, Locals, Place, history
<1>2. Fine(at', rz', left', lost') BY DEF Returns, IInv, Fine, Books, InOrder, Lossless, InPasses, InHold, history
<1>3. QED BY <1>1, <1>2 DEF IInv

LEMMA SetupEndsKeeps ==
  ASSUME IInv, at \in {"setup", "gasp"}, NEW error \in BOOLEAN, NEW f \in BOOLEAN, SetupEnds(error, f)
  PROVE  IInv'
<1>1. ~rz.crashed /\ Books(rz) /\ commands \in Nat /\ at \notin InPasses
  BY DEF IInv, Fine, Books, InOrder, Lossless, Locals, InPasses
<1>2. CASE hold_next /\ ~error
  BY <1>1, <1>2, HoldStartsKeeps DEF SetupEnds
<1>3. CASE ~(hold_next /\ ~error)
  BY <1>1, <1>3, ReturnsKeeps DEF SetupEnds
<1>4. QED BY <1>2, <1>3

LEMMA SetupKeeps == ASSUME IInv, Setup PROVE IInv'
<1>1. ASSUME NEW s \in Slack, SetupEndpoint(s) PROVE IInv'
  <2> DEFINE k == Looking(rz, s)
  <2>1. Books(rz) /\ ~rz.crashed /\ at \notin InPasses
    BY <1>1 DEF SetupEndpoint, IInv, Fine, Books, InOrder, Lossless, InPasses
  <2>2. Books(k) /\ Same(k, rz) /\ k.pending = rz.pending /\ k.net \in Netlist
    BY <2>1, LookingKeeps
  <2>3. rz' = JournalBegin(k) /\ mark' = k.net BY <1>1 DEF SetupEndpoint
  <2> HIDE DEF k
  <2>4. /\ Books(rz') /\ Routed(rz') /\ rz'.log # NoLog /\ ~rz'.crashed
        /\ Lossless(lost) => rz'.dropped = 0
    BY <2>1, <2>2, <2>3, BeginKeeps, NothingPending DEF Same
  <2>5. Locals' BY <1>1, <2>2, <2>3 DEF SetupEndpoint, IInv, Locals, Place
  <2>6. Fine(at', rz', left', lost')
    BY <1>1, <2>4 DEF SetupEndpoint, Fine, Books, InOrder, Lossless, InPasses, InHold
  <2>7. QED BY <2>5, <2>6 DEF IInv
<1>2. ASSUME at \in InPasses
      PROVE  /\ Books(rz) /\ rz.log # NoLog /\ Routed(rz) /\ ~rz.crashed
             /\ pass \in Nat /\ bad \in Nat /\ stops \in Nat /\ stops + 1 \in Nat /\ bad + 1 \in Nat
             /\ mark \in Netlist
  BY <1>2 DEF IInv, Fine, Books, InOrder, Lossless, Locals, InPasses
<1>3. CASE SetupStops
  BY <1>2, <1>3, RestoreKeeps, LeavesKeeps DEF SetupStops, InPasses, Reason
<1>4. CASE SetupNothing
  BY <1>2, <1>4, RestoreKeeps, EndKeeps, LeavesKeeps DEF SetupNothing, InPasses, Reason, Closed
<1>5. ASSUME NEW s \in Slacks, SetupBetter(s) PROVE IInv'
  BY <1>2, <1>5, TriedIsFine, CheckpointIsFine, NextPassKeeps DEF SetupBetter, Changes, InPasses, Closed
<1>6. ASSUME NEW s \in Slacks, SetupWorse(s) PROVE IInv'
  BY <1>2, <1>6, TriedIsFine, NextPassKeeps DEF SetupWorse, Changes, InPasses
<1>7. ASSUME NEW s \in Slacks, SetupTooBad(s) PROVE IInv'
  BY <1>2, <1>7, TriedIsFine, RestoreKeeps, LeavesKeeps DEF SetupTooBad, Changes, InPasses, Reason
<1>8. CASE OutOfPasses("setup_pass", "setup")
  BY <1>8, OutOfPassesKeeps DEF InPasses
<1>9. ASSUME NEW error \in BOOLEAN, NEW f \in BOOLEAN, SetupDone(error, f) PROVE IInv'
  BY <1>9, SetupEndsKeeps DEF SetupDone
<1>10. CASE SetupThrows
  <2>1. at \in InPasses BY <1>10 DEF SetupThrows, InPasses
  <2>2. CASE RouterThrows(rz) \/ RestoreThrows(rz)
    BY <1>2, <2>1, <2>2, ThrowsKeeps, RestoreThrowsKeeps DEF Books
  <2>3. ASSUME NEW s \in Slacks,
               RouterThrows(Moved(rz, s)) \/ RestoreThrows(Tried(s)) \/ EndThrows(Tried(s))
        PROVE  IInv'
    BY <2>1, <2>3, TriedIsFine, ThrowsKeeps, RestoreThrowsKeeps DEF EndThrows
  <2>4. QED BY <1>10, <2>2, <2>3 DEF SetupThrows
<1>11. QED BY <1>1, <1>3, <1>4, <1>5, <1>6, <1>7, <1>8, <1>9, <1>10 DEF Setup

LEMMA LastGaspKeeps == ASSUME IInv, LastGasp PROVE IInv'
<1>1. ASSUME NEW tns \in Slack, GaspBegin(tns) PROVE IInv'
  <2> DEFINE k == Looking(rz, tns)
  <2>1. Books(rz) /\ ~rz.crashed BY <1>1 DEF GaspBegin, IInv, Fine, Books, InOrder, Lossless
  <2>2. Books(k) /\ Same(k, rz) /\ k.pending = rz.pending /\ k.net \in Netlist
    BY <2>1, LookingKeeps
  <2>3. rz' = k /\ mark' = k.net BY <1>1 DEF GaspBegin
  <2> HIDE DEF k
  <2>4. Locals' BY <1>1, <2>2, <2>3 DEF GaspBegin, IInv, Locals, Place
  <2>5. Fine(at', rz', left', lost')
    BY <1>1, <2>1, <2>2, <2>3 DEF GaspBegin, IInv, Fine, Books, InOrder, Lossless, Same, InPasses, InHold
  <2>6. QED BY <2>4, <2>5 DEF IInv
<1>2. CASE GaspEndpoint
  <2>1. Books(rz) /\ ~rz.crashed /\ at \notin InPasses
    BY <1>2 DEF GaspEndpoint, IInv, Fine, Books, InOrder, Lossless, InPasses
  <2>2. /\ Books(rz') /\ Routed(rz') /\ rz'.log # NoLog /\ ~rz'.crashed
        /\ Lossless(lost) => rz'.dropped = 0
    BY <1>2, <2>1, BeginKeeps, NothingPending DEF GaspEndpoint
  <2>3. Locals' BY <1>2 DEF GaspEndpoint, IInv, Locals, Place, history
  <2>4. Fine(at', rz', left', lost')
    BY <1>2, <2>2 DEF GaspEndpoint, Fine, Books, InOrder, Lossless, InPasses, InHold, history
  <2>5. QED BY <2>3, <2>4 DEF IInv
<1>3. ASSUME at \in InPasses
      PROVE  /\ Books(rz) /\ rz.log # NoLog /\ Routed(rz) /\ ~rz.crashed
             /\ pass \in Nat /\ bad \in Nat /\ stops \in Nat /\ stops + 1 \in Nat
             /\ mark \in Netlist
  BY <1>3 DEF IInv, Fine, Books, InOrder, Lossless, Locals, InPasses
<1>4. CASE GaspStops
  BY <1>3, <1>4, EndKeeps, LeavesKeeps DEF GaspStops, InPasses, Reason, Closed
<1>5. ASSUME NEW changed \in BOOLEAN, GaspNothing(changed) PROVE IInv'
  BY <1>3, <1>5, RestoreKeeps, EndKeeps, LeavesKeeps DEF GaspNothing, InPasses, Reason, Closed
<1>6. ASSUME NEW s \in Slacks, GaspBetter(s) PROVE IInv'
  BY <1>3, <1>6, TriedIsFine, CheckpointIsFine, NextPassKeeps DEF GaspBetter, Changes, InPasses, Closed
<1>7. ASSUME NEW s \in Slacks, GaspWorse(s) PROVE IInv'
  BY <1>3, <1>7, TriedIsFine, RestoreKeeps, LeavesKeeps DEF GaspWorse, Changes, InPasses, Reason
<1>8. CASE OutOfPasses("gasp_pass", "gasp")
  BY <1>8, OutOfPassesKeeps DEF InPasses
<1>9. ASSUME NEW error \in BOOLEAN, NEW f \in BOOLEAN, GaspDone(error, f) PROVE IInv'
  BY <1>9, SetupEndsKeeps DEF GaspDone
<1>10. CASE GaspThrows
  <2>1. at \in InPasses BY <1>10 DEF GaspThrows, InPasses
  <2>2. CASE RouterThrows(rz) \/ RestoreThrows(rz)
    BY <1>3, <2>1, <2>2, ThrowsKeeps, RestoreThrowsKeeps DEF Books
  <2>3. ASSUME NEW s \in Slacks,
               RouterThrows(Moved(rz, s)) \/ RestoreThrows(Tried(s)) \/ EndThrows(Tried(s))
        PROVE  IInv'
    BY <2>1, <2>3, TriedIsFine, ThrowsKeeps, RestoreThrowsKeeps DEF EndThrows
  <2>4. QED BY <1>10, <2>2, <2>3 DEF GaspThrows
<1>11. QED BY <1>1, <1>2, <1>4, <1>5, <1>6, <1>7, <1>8, <1>9, <1>10 DEF LastGasp

\* The journal of one buffer, with and without the resizing.
LEMMA DelayIsFine ==
  ASSUME IInv, at \in InHold, NEW s \in Slack, NEW resize \in BOOLEAN
  PROVE  /\ Books(HoldDelay(s, resize)) /\ HoldDelay(s, resize).log # NoLog
         /\ Routed(HoldDelay(s, resize)) /\ ~HoldDelay(s, resize).crashed
         /\ Lossless(lost) => HoldDelay(s, resize).dropped = 0
         /\ HoldDelay(s, resize).log = rz.net /\ HoldDelay(s, resize).net.hold = rz.net.hold + 1
         /\ Sound(HoldBuffer) /\ ~HoldBuffer.crashed
         /\ Sound(Resized(UpdateParasitics(HoldBuffer), s))
         /\ ~Resized(UpdateParasitics(HoldBuffer), s).crashed
<1> DEFINE e == ParasiticsEnd(rz)
           b == JournalBegin(e)
           u == UpdateParasitics(Buffered(b))
<1>1. Books(rz) /\ ~rz.crashed /\ at \notin InPasses
  BY DEF IInv, Fine, Books, InOrder, Lossless, InPasses, InHold
<1>2. Books(e) /\ SamePaper(e, rz) /\ e.crashed = rz.crashed
  BY <1>1, ParasiticsKeep
<1>3. /\ HoldDelay(s, resize) = IF resize THEN UpdateParasitics(Resized(u, s)) ELSE u
      /\ HoldBuffer = Buffered(b) /\ u = UpdateParasitics(HoldBuffer)
  BY DEF HoldDelay, HoldBuffer
<1> HIDE DEF e
<1>4. /\ Books(b) /\ Routed(b) /\ b.log # NoLog /\ ~b.crashed
      /\ Lossless(lost) => b.dropped = 0
      /\ b.net = rz.net /\ b.log = rz.net
  BY <1>1, <1>2, BeginKeeps, NothingPending DEF SamePaper
<1> HIDE DEF b
<1>5. /\ Books(u) /\ Same(u, b) /\ u.net.hold = rz.net.hold + 1
      /\ Sound(Buffered(b)) /\ ~Buffered(b).crashed
  BY <1>4, BufferedKeeps
<1> HIDE DEF u
<1>6. Routed(u) BY <1>4, <1>5 DEF Same, Routed
<1>7. /\ Books(UpdateParasitics(Resized(u, s))) /\ Same(UpdateParasitics(Resized(u, s)), u)
      /\ UpdateParasitics(Resized(u, s)).net.hold = u.net.hold
      /\ Sound(Resized(u, s)) /\ Resized(u, s).crashed = u.crashed
  BY <1>5, <1>6, ResizedKeeps
<1>8. QED BY <1>3, <1>4, <1>5, <1>6, <1>7 DEF Same, Routed

LEMMA HoldKeeps == ASSUME IInv, Hold PROVE IInv'
<1>1. ASSUME at \in InHold
      PROVE  Books(rz) /\ Routed(rz) /\ ~rz.crashed /\ at \notin InPasses
  BY <1>1 DEF IInv, Fine, Books, InOrder, Lossless, InHold, InPasses
<1>2. /\ Books(rz) /\ Routed(rz)
         => /\ Books(UpdateParasitics(rz)) /\ SamePaper(UpdateParasitics(rz), rz)
            /\ Routed(UpdateParasitics(rz)) /\ UpdateParasitics(rz).crashed = rz.crashed
  BY ParasiticsKeep
<1>3. CASE HoldPass
  <2>1. Fine(at', rz', left', lost')
    BY <1>1, <1>2, <1>3 DEF HoldPass, IInv, Fine, Books, InOrder, Lossless, InPasses, InHold, SamePaper, history
  <2>2. Locals' BY <1>3 DEF HoldPass, IInv, Locals, Place, history
  <2>3. QED BY <2>1, <2>2 DEF IInv
<1>4. CASE HoldEndpoint
  <2>1. Fine(at', rz', left', lost')
    BY <1>1, <1>2, <1>4 DEF HoldEndpoint, IInv, Fine, Books, InOrder, Lossless, InPasses, InHold, SamePaper, history
  <2>2. Locals' BY <1>4 DEF HoldEndpoint, IInv, Locals, Place, history
  <2>3. QED BY <2>1, <2>2 DEF IInv
<1>5. ASSUME NEW s \in Slack, NEW resize \in BOOLEAN, HoldKeep(s, resize) PROVE IInv'
  <2> DEFINE e == JournalEnd(HoldDelay(s, resize))
  <2>1. at \in InHold BY <1>5 DEF HoldKeep, InHold
  <2>2. Books(e) /\ e.log = NoLog /\ ~e.crashed /\ (Lossless(lost) => e.dropped = 0)
    BY <2>1, DelayIsFine, EndKeeps DEF Closed
  <2>3. rz' = ParasiticsBegin(e) BY <1>5 DEF HoldKeep
  <2> HIDE DEF e
  <2>4. Books(rz') /\ SamePaper(rz', e) /\ Routed(rz') /\ ~rz'.crashed
    BY <2>2, <2>3, ParasiticsKeep
  <2>5. rz'.net \in Netlist BY <2>4, NetType
  <2>6. Locals' BY <1>5, <2>5 DEF HoldKeep, IInv, Locals, Place
  <2>7. Fine(at', rz', left', lost')
    BY <1>5, <2>2, <2>4 DEF HoldKeep, Fine, Books, InOrder, Lossless, InPasses, InHold, SamePaper
  <2>8. QED BY <2>6, <2>7 DEF IInv
<1>6. ASSUME NEW s \in Slack, NEW resize \in BOOLEAN, HoldUndo(s, resize) PROVE IInv'
  <2> DEFINE e == JournalRestore(HoldDelay(s, resize))
  <2>1. at \in InHold BY <1>6 DEF HoldUndo, InHold
  <2>2. Books(e) /\ e.log = NoLog /\ ~e.crashed /\ (Lossless(lost) => e.dropped = 0)
    BY <2>1, DelayIsFine, RestoreKeeps
  <2>3. rz' = ParasiticsBegin(e) BY <1>6 DEF HoldUndo
  <2> HIDE DEF e
  <2>4. Books(rz') /\ SamePaper(rz', e) /\ Routed(rz') /\ ~rz'.crashed
    BY <2>2, <2>3, ParasiticsKeep
  <2>5. Locals' BY <1>6 DEF HoldUndo, IInv, Locals, Place, history
  <2>6. Fine(at', rz', left', lost')
    BY <1>6, <2>2, <2>4 DEF HoldUndo, Fine, Books, InOrder, Lossless, InPasses, InHold, SamePaper, history
  <2>7. QED BY <2>5, <2>6 DEF IInv
<1>7. ASSUME NEW last \in BOOLEAN, NEW f \in BOOLEAN, HoldPathEnds(last, f) PROVE IInv'
  <2>1. at' \in {"hold", "hold_ends"} /\ fails' \in BOOLEAN
    BY <1>7 DEF HoldPathEnds, IInv, Locals
  <2>2. Locals' BY <1>7, <2>1 DEF HoldPathEnds, IInv, Locals, Place, Reason
  <2>3. Fine(at', rz', left', lost')
    BY <1>7, <2>1 DEF HoldPathEnds, IInv, Fine, Books, InOrder, Lossless, InPasses, InHold
  <2>4. QED BY <2>2, <2>3 DEF IInv
<1>8. CASE HoldDone
  <2> DEFINE u == UpdateParasitics(rz)
  <2>1. Books(rz) /\ Routed(rz) /\ ~rz.crashed /\ at \notin InPasses
    BY <1>1, <1>8 DEF HoldDone, InHold
  <2>2. Books(u) /\ SamePaper(u, rz) /\ ~u.crashed BY <1>2, <2>1
  <2>3. rz' = ParasiticsEnd(u) BY <1>8 DEF HoldDone
  <2> HIDE DEF u
  <2>4. Books(rz') /\ SamePaper(rz', u) /\ ~rz'.crashed BY <2>2, <2>3, ParasiticsKeep
  <2>5. QED BY <1>8, <2>1, <2>2, <2>4, ReturnsKeeps DEF HoldDone, SamePaper
<1>9. CASE HoldFails
  BY <1>1, <1>9, ReturnsKeeps DEF HoldFails, InHold
<1>10. CASE HoldThrows
  <2>1. at \in InHold BY <1>10 DEF HoldThrows, InHold
  <2>2. CASE RouterThrows(rz)
    BY <1>1, <2>1, <2>2, ThrowsKeeps DEF Books
  <2>3. CASE RouterThrows(HoldBuffer)
    <3>1. 0 \in Slack BY LimitsAssumption DEF Slack, Limits
    <3>2. QED BY <2>1, <2>3, <3>1, DelayIsFine, ThrowsKeeps
  <2>4. ASSUME NEW s \in Slack, RouterThrows(Resized(UpdateParasitics(HoldBuffer), s)) PROVE IInv'
    BY <2>1, <2>4, DelayIsFine, ThrowsKeeps
  <2>5. ASSUME NEW s \in Slack, NEW resize \in BOOLEAN,
               EndThrows(HoldDelay(s, resize)) \/ RestoreThrows(HoldDelay(s, resize))
        PROVE  IInv'
    BY <2>1, <2>5, DelayIsFine, ThrowsKeeps, RestoreThrowsKeeps DEF EndThrows, Books
  <2>6. QED BY <1>10, <2>2, <2>3, <2>4, <2>5 DEF HoldThrows
<1>11. QED BY <1>3, <1>4, <1>5, <1>6, <1>7, <1>8, <1>9, <1>10 DEF Hold

\* What power recovery measures within a journal of its own.
LEMMA PowerTriedIsFine ==
  ASSUME IInv, at = "power", NEW s \in Slack
  PROVE  /\ Books(PowerTried(s)) /\ PowerTried(s).log # NoLog
         /\ Routed(PowerTried(s)) /\ ~PowerTried(s).crashed /\ PowerTried(s).net \in Netlist
         /\ Lossless(lost) => PowerTried(s).dropped = 0
         /\ PowerTried(s).log = rz.net
         /\ Sound(PowerChange(s)) /\ ~PowerChange(s).crashed
<1> DEFINE b == JournalBegin(rz)
<1>1. Books(rz) /\ ~rz.crashed /\ at \notin InPasses
  BY DEF IInv, Fine, Books, InOrder, Lossless, InPasses
<1>2. /\ Books(b) /\ Routed(b) /\ b.log # NoLog /\ ~b.crashed /\ b.log = rz.net
      /\ Lossless(lost) => b.dropped = 0
  BY <1>1, BeginKeeps, NothingPending
<1>3. PowerTried(s) = UpdateParasitics(Resized(b, s)) /\ PowerChange(s) = Resized(b, s)
  BY DEF PowerTried, PowerChange
<1> HIDE DEF b
<1>4. /\ Books(PowerTried(s)) /\ Same(PowerTried(s), b)
      /\ Sound(PowerChange(s)) /\ PowerChange(s).crashed = b.crashed
  BY <1>2, <1>3, ResizedKeeps
<1>5. QED BY <1>2, <1>4, NetType DEF Same, Routed

LEMMA PowerGoesOn ==
  ASSUME IInv, at = "power", NEW q, NEW failed \in Nat,
         Books(q), ~q.crashed, q.pending = 0, Lossless(lost) => q.dropped = 0, mark' \in Netlist,
         PowerNext(q, failed)
  PROVE  IInv'
<1>1. Locals' BY DEF PowerNext, IInv, Locals, Place, Reason
<1>2. Fine(at', rz', left', lost') BY DEF PowerNext, IInv, Fine, Books, InOrder, Lossless, InPasses, InHold
<1>3. QED BY <1>1, <1>2 DEF IInv

\* Over the maximum area the journal is ended, with or without a router.
LEMMA PowerStops ==
  ASSUME IInv, at = "power", NEW q,
         Books(q), q.pending = 0, Lossless(lost) => q.dropped = 0, mark' \in Netlist, PowerOver(q)
  PROVE  IInv'
<1>1. Books(rz') /\ rz'.log = NoLog /\ rz'.dropped = q.dropped
  BY EndKeeps DEF PowerOver, Closed
<1>2. Locals' BY DEF PowerOver, Returns, IInv, Locals, Place, Reason
<1>3. Fine(at', rz', left', lost')
  BY <1>1 DEF PowerOver, Returns, IInv, Fine, Books, InOrder, Lossless, InPasses, InHold
<1>4. QED BY <1>2, <1>3 DEF IInv

LEMMA PowerKeeps == ASSUME IInv, Power PROVE IInv'
<1>1. ASSUME at = "power"
      PROVE  /\ Books(rz) /\ ~rz.crashed /\ at \notin InPasses
             /\ bad \in Nat /\ bad + 1 \in Nat /\ 0 \in Nat /\ mark \in Netlist
             /\ Books(JournalBegin(rz)) /\ ~JournalBegin(rz).crashed /\ JournalBegin(rz).pending = 0
             /\ Routed(JournalBegin(rz)) /\ JournalBegin(rz).log # NoLog
             /\ Lossless(lost) => JournalBegin(rz).dropped = 0
  <2>1. Books(rz) /\ ~rz.crashed /\ at \notin InPasses /\ bad \in Nat /\ mark \in Netlist
    BY <1>1 DEF IInv, Fine, Books, InOrder, Lossless, Locals, InPasses
  <2>2. QED BY <2>1, BeginKeeps, NothingPending
<1>2. CASE PowerUnchanged
  BY <1>1, <1>2, PowerGoesOn DEF PowerUnchanged, PowerEndpoint
<1>3. ASSUME NEW s \in Slack, PowerBetter(s) PROVE IInv'
  <2> DEFINE k == JournalBegin(JournalEnd(PowerTried(s)))
  <2>1. at = "power" /\ mark' = PowerTried(s).net BY <1>3 DEF PowerBetter, PowerEndpoint
  <2>2. /\ Books(k) /\ ~k.crashed /\ k.pending = 0 /\ (Lossless(lost) => k.dropped = 0)
        /\ mark' \in Netlist
    BY <2>1, PowerTriedIsFine, CheckpointIsFine DEF Closed
  <2>3. PowerNext(k, 0) \/ PowerOver(k) BY <1>3 DEF PowerBetter
  <2> HIDE DEF k
  <2>4. QED BY <2>1, <2>2, <2>3, PowerGoesOn, PowerStops
<1>4. ASSUME NEW s \in Slack, PowerWorse(s) PROVE IInv'
  <2> DEFINE k == JournalRestore(PowerTried(s))
  <2>1. at = "power" /\ mark' = mark BY <1>4 DEF PowerWorse, PowerEndpoint
  <2>2. /\ Books(k) /\ ~k.crashed /\ k.pending = 0 /\ (Lossless(lost) => k.dropped = 0)
    BY <2>1, PowerTriedIsFine, RestoreKeeps
  <2>3. PowerNext(k, bad + 1) \/ PowerOver(k) BY <1>4 DEF PowerWorse
  <2> HIDE DEF k
  <2>4. QED BY <1>1, <2>1, <2>2, <2>3, PowerGoesOn, PowerStops
<1>5. ASSUME NEW s \in Slack, PowerTooBad(s) PROVE IInv'
  <2>1. at = "power" BY <1>5 DEF PowerTooBad, PowerEndpoint
  <2>2. rz' = JournalEnd(PowerTried(s)) BY <1>5 DEF PowerTooBad
  <2>3. /\ Books(rz') /\ rz'.log = NoLog /\ ~rz'.crashed
        /\ Lossless(lost) => rz'.dropped = 0
    BY <2>1, <2>2, PowerTriedIsFine, EndKeeps DEF Closed
  <2>4. Locals' BY <1>5 DEF PowerTooBad, Returns, IInv, Locals, Place, Reason
  <2>5. Fine(at', rz', left', lost')
    BY <1>5, <2>3 DEF PowerTooBad, Returns, IInv, Fine, Books, InOrder, Lossless, InPasses, InHold
  <2>6. QED BY <2>4, <2>5 DEF IInv
<1>6. ASSUME NEW more \in BOOLEAN, PowerDone(more) PROVE IInv'
  <2>1. at = "power" BY <1>6 DEF PowerDone
  <2>2. rz' = IF more THEN JournalEnd(JournalBegin(rz)) ELSE rz BY <1>6 DEF PowerDone
  <2>3. /\ Books(rz') /\ ~rz'.crashed /\ (Lossless(lost) => rz'.dropped = 0)
        /\ rz'.log = NoLog \/ rz' = rz
    BY <1>1, <2>1, <2>2, EndKeeps DEF IInv, Fine, Books, InOrder, Lossless, Closed
  <2>4. Locals' BY <1>6 DEF PowerDone, Returns, IInv, Locals, Place, history
  <2>5. Fine(at', rz', left', lost')
    BY <1>6, <2>1, <2>3 DEF PowerDone, Returns, IInv, Fine, Books, InOrder, Lossless, InPasses, InHold, history
  <2>6. QED BY <2>4, <2>5 DEF IInv
<1>7. CASE PowerThrows
  <2>1. at = "power" BY <1>7 DEF PowerThrows, PowerEndpoint
  <2>2. ASSUME NEW s \in Slack,
               RouterThrows(PowerChange(s)) \/ EndThrows(PowerTried(s)) \/ RestoreThrows(PowerTried(s))
        PROVE  IInv'
    BY <2>1, <2>2, PowerTriedIsFine, ThrowsKeeps, RestoreThrowsKeeps DEF EndThrows, Books
  <2>3. QED BY <1>7, <2>2 DEF PowerThrows
<1>8. QED BY <1>2, <1>3, <1>4, <1>5, <1>6, <1>7 DEF Power

LEMMA NextKeeps == ASSUME IInv, Next PROVE IInv'
BY CommandKeeps, SetupKeeps, LastGaspKeeps, HoldKeeps, PowerKeeps DEF Next

LEMMA StutterKeeps == ASSUME IInv, UNCHANGED vars PROVE IInv'
BY DEF vars, loop, history, IInv, Locals, Fine, Books, InOrder, Lossless, Counted, Routed, Place, Reason

-----------------------------------------------------------------------------
(***************************************************************************)
(* What is accepted.                                                       *)
(***************************************************************************)
InSetup == {"setup", "setup_pass", "gasp", "gasp_pass"}
Spoiled == {"passes", "area", "failed", "router"}

\* The checkpoint of a pass is the netlist accepted last, which has lost no
\* worst slack; elsewhere it is the netlist itself.
Accepted ==
  /\ at \in InHold \cup {"gasp", "power"} => rz.net = mark
  /\ (at \in {"idle", "setup", "gasp"} /\ left \notin Spoiled) => rz.net = mark
  /\ (at \in {"setup", "gasp"} /\ lost \subseteq {"power", "router"}) => rz.net = mark
  /\ at \in InPasses => rz.log = mark
  /\ at = "gasp_pass" => rz.net = mark
  /\ (at = "setup_pass" /\ pass = 1) => rz.net = mark
  /\ (at \in InSetup /\ lost \subseteq {"power", "router"}) => mark.worst >= first.worst
  /\ at \in InHold => inserted + first.hold <= rz.net.hold
  /\ pass # 0

Both == IInv /\ Accepted

LEMMA Numbers ==
  ASSUME NEW r, Books(r)
  PROVE  r.net.worst \in Nat /\ r.net.hold \in Nat /\ Seen(r).worst = r.net.worst /\ Seen(r).hold = r.net.hold
<1>1. r.net \in Netlist BY NetType
<1>2. QED BY <1>1 DEF Netlist, Slack, Seen

LEMMA InitAccepted == Init => Accepted
<1>1. Init => Books(rz) BY InitIInv DEF IInv, Fine, Books, InOrder, Lossless
<1>2. QED BY <1>1, Numbers DEF Init, Accepted, InHold, InPasses, InSetup

LEMMA HoldStartsAccepts ==
  ASSUME Both, NEW f \in BOOLEAN, HoldStarts(f)
  PROVE  Accepted'
<1>1. Books(rz) BY DEF Both, IInv, Fine, Books, InOrder, Lossless
<1>2. rz'.net = rz.net BY <1>1, ParasiticsKeep DEF HoldStarts, SamePaper
<1>3. QED BY <1>1, <1>2, Numbers DEF HoldStarts, Accepted, InHold, InPasses, InSetup

LEMMA CommandAccepts == ASSUME Both, Command PROVE Accepted'
<1>1. Books(rz) BY DEF Both, IInv, Fine, Books, InOrder, Lossless
<1>2. ASSUME NEW h \in BOOLEAN, RepairSetupBegin(h) PROVE Accepted'
  BY <1>1, <1>2, Numbers DEF RepairSetupBegin, Called, loop, Both, Accepted, InHold, InPasses, InSetup
<1>3. ASSUME NEW f \in BOOLEAN, RepairHoldBegin(f) PROVE Accepted'
  BY <1>3, HoldStartsAccepts DEF RepairHoldBegin
<1>4. CASE RecoverPowerBegin
  BY <1>1, <1>4 DEF RecoverPowerBegin, Called, loop, Both, Accepted, InHold, InPasses, InSetup
<1>5. ASSUME NEW s \in Slack, NEW restore \in BOOLEAN, FindResizeSlacks(s, restore) PROVE Accepted'
  <2>1. rz'.net = mark' BY <1>5, SlacksFound DEF Both
  <2>2. QED BY <1>5, <2>1 DEF FindResizeSlacks, Called, loop, Both, Accepted, InHold, InPasses, InSetup
<1>6. QED BY <1>2, <1>3, <1>4, <1>5 DEF Command

\* An endpoint of setup repair is left with the netlist accepted last, or
\* with the accepted passes behind it.
LEMMA LeavesAccepts ==
  ASSUME Both, at \in InPasses, NEW p \in {"setup", "gasp"}, NEW q, NEW why, Leaves(p, q, why), pass' = pass,
         \/ /\ q.net = mark /\ mark' = mark /\ lost' = lost
         \/ /\ why \in Spoiled /\ ~(lost' \subseteq {"power", "router"})
            /\ p = "gasp" => q.net = mark'
  PROVE  Accepted'
BY DEF Leaves, Both, Accepted, InHold, InPasses, InSetup

LEMMA NextPassAccepts ==
  ASSUME Both, at \in InPasses, NEW p \in {"setup", "gasp"}, NEW q, NextPass(p, q),
         Books(q), q.log = mark', q.log # NoLog, p = "gasp" => q.net = mark', (at = "gasp_pass") = (p = "gasp"),
         lost \subseteq {"power", "router"} => mark'.worst >= first.worst
  PROVE  Accepted'
<1>1. CASE /\ Leaves(p, JournalEnd(q), "area") /\ lost' = lost \cup {"area"}
           /\ UNCHANGED <<pass, stops>>
  BY <1>1, EndKeeps, LeavesAccepts DEF Spoiled, Closed
<1>2. CASE /\ rz' = q /\ pass' = pass + 1
           /\ UNCHANGED <<at, hold_next, end_index, fails, tries, inserted, before, commands, first, left, lost>>
  <2>1. pass' # 1 /\ pass' # 0
    BY <1>2 DEF Both, IInv, Locals, Accepted
  <2>2. QED BY <1>2, <2>1 DEF Accepted, InHold, InPasses, InSetup
<1>3. QED BY <1>1, <1>2 DEF NextPass

LEMMA OutOfPassesAccepts ==
  ASSUME Both, NEW p \in InPasses, NEW loops \in {"setup", "gasp"}, OutOfPasses(p, loops),
         (p = "gasp_pass") = (loops = "gasp")
  PROVE  Accepted'
BY LeavesAccepts DEF OutOfPasses, InPasses, Spoiled, Both, Accepted

LEMMA ReturnsAccepts ==
  ASSUME Both, Returns, rz'.net = rz.net, mark' = mark, left' = left,
         left \notin Spoiled => rz.net = mark
  PROVE  Accepted'
BY DEF Returns, Accepted, InHold, InPasses, InSetup

LEMMA SetupEndsAccepts ==
  ASSUME Both, at \in {"setup", "gasp"}, NEW error \in BOOLEAN, NEW f \in BOOLEAN, SetupEnds(error, f)
  PROVE  Accepted'
<1>1. left \notin Spoiled => rz.net = mark BY DEF Both, Accepted
<1>2. CASE hold_next /\ ~error BY <1>2, HoldStartsAccepts DEF SetupEnds
<1>3. CASE ~(hold_next /\ ~error) BY <1>1, <1>3, ReturnsAccepts DEF SetupEnds, history
<1>4. QED BY <1>2, <1>3

\* A command that the router ends claims nothing.
LEMMA ThrowsAccepts ==
  ASSUME NEW q, RouterThrows(q)
  PROVE  Accepted'
BY DEF RouterThrows, Returns, Accepted, InHold, InPasses, InSetup, Spoiled

LEMMA SetupAccepts == ASSUME Both, Setup PROVE Accepted'
<1>1. ASSUME NEW s \in Slack, SetupEndpoint(s) PROVE Accepted'
  <2> DEFINE k == Looking(rz, s)
  <2>1. Books(rz) BY DEF Both, IInv, Fine, Books, InOrder, Lossless
  <2>2. Books(k) /\ k.net.worst = rz.net.worst BY <2>1, LookingKeeps
  <2>3. rz' = JournalBegin(k) /\ mark' = k.net BY <1>1 DEF SetupEndpoint
  <2> HIDE DEF k
  <2>4. rz'.net = mark' /\ rz'.log = mark' /\ mark'.worst = rz.net.worst
    BY <2>2, <2>3, BeginKeeps
  <2>5. QED BY <1>1, <2>4 DEF SetupEndpoint, Both, Accepted, InHold, InPasses, InSetup
<1>2. ASSUME at \in InPasses
      PROVE  Books(rz) /\ rz.log = mark /\ rz.log # NoLog
  BY <1>2 DEF Both, IInv, Fine, Books, InOrder, Lossless, Accepted
<1>3. CASE SetupStops
  BY <1>2, <1>3, RestoreKeeps, LeavesAccepts DEF SetupStops, InPasses
<1>4. CASE SetupNothing
  <2>1. pass = 1 => rz.net = mark BY <1>4 DEF SetupNothing, Both, Accepted
  <2>2. QED BY <1>2, <1>4, <2>1, RestoreKeeps, EndKeeps, LeavesAccepts DEF SetupNothing, InPasses, Closed
<1>5. ASSUME at = "setup_pass"
      PROVE  lost \subseteq {"power", "router"} => mark.worst >= first.worst
  BY <1>5 DEF Both, Accepted, InSetup
<1>6. mark.worst \in Nat /\ first.worst \in Nat /\ Slack \subseteq Nat
  BY DEF Both, IInv, Locals, Netlist, Slack
<1>7. ASSUME NEW s \in Slacks, SetupBetter(s) PROVE Accepted'
  <2>1. at = "setup_pass" /\ at \in InPasses /\ mark' = Tried(s).net /\ s.worst \in Nat
    BY <1>6, <1>7 DEF SetupBetter, Changes, InPasses, Slacks
  <2>2. /\ Books(Tried(s)) /\ Tried(s).log # NoLog /\ Routed(Tried(s)) /\ ~Tried(s).crashed
        /\ mark'.worst = s.worst
    BY <2>1, TriedIsFine DEF Both
  <2>3. s.worst >= mark.worst BY <1>6, <1>7, <2>1 DEF SetupBetter, Better
  <2>4. lost \subseteq {"power", "router"} => mark'.worst >= first.worst
    BY <1>5, <1>6, <2>1, <2>2, <2>3
  <2>5. QED BY <1>7, <2>1, <2>2, <2>4, CheckpointIsFine, NextPassAccepts DEF SetupBetter, Closed
<1>8. ASSUME NEW s \in Slacks, SetupWorse(s) PROVE Accepted'
  <2>1. at = "setup_pass" /\ at \in InPasses /\ mark' = mark
    BY <1>8 DEF SetupWorse, Changes, InPasses
  <2>2. Tried(s).log = mark' /\ Tried(s).log # NoLog /\ Books(Tried(s)) BY <1>2, <2>1, TriedIsFine DEF Both
  <2>3. QED BY <1>5, <1>8, <2>1, <2>2, NextPassAccepts DEF SetupWorse
<1>9. ASSUME NEW s \in Slacks, SetupTooBad(s) PROVE Accepted'
  <2>1. at = "setup_pass" /\ at \in InPasses BY <1>9 DEF SetupTooBad, Changes, InPasses
  <2>2. Books(Tried(s)) /\ Tried(s).log = mark /\ Tried(s).log # NoLog
    BY <1>2, <2>1, TriedIsFine DEF Both
  <2>3. QED BY <1>9, <2>1, <2>2, RestoreKeeps, LeavesAccepts DEF SetupTooBad
<1>10. CASE OutOfPasses("setup_pass", "setup")
  BY <1>10, OutOfPassesAccepts DEF InPasses
<1>11. ASSUME NEW error \in BOOLEAN, NEW f \in BOOLEAN, SetupDone(error, f) PROVE Accepted'
  BY <1>11, SetupEndsAccepts DEF SetupDone
<1>12. CASE SetupThrows
  BY <1>12, ThrowsAccepts DEF SetupThrows, EndThrows, RestoreThrows
<1>13. QED BY <1>1, <1>3, <1>4, <1>7, <1>8, <1>9, <1>10, <1>11, <1>12 DEF Setup

LEMMA LastGaspAccepts == ASSUME Both, LastGasp PROVE Accepted'
<1>1. ASSUME NEW tns \in Slack, GaspBegin(tns) PROVE Accepted'
  <2>1. Books(rz) BY DEF Both, IInv, Fine, Books, InOrder, Lossless
  <2>2. rz'.net = mark' /\ mark'.worst = rz.net.worst
    BY <1>1, <2>1, LookingKeeps DEF GaspBegin
  <2>3. QED BY <1>1, <2>2 DEF GaspBegin, Both, Accepted, InHold, InPasses, InSetup
<1>2. CASE GaspEndpoint
  <2>1. rz'.net = rz.net /\ rz'.log = rz.net
    BY <1>2, BeginKeeps DEF GaspEndpoint, Both, IInv, Fine, Books, InOrder, Lossless
  <2>2. QED BY <1>2, <2>1 DEF GaspEndpoint, history, Both, Accepted, InHold, InPasses, InSetup
<1>3. ASSUME at = "gasp_pass"
      PROVE  /\ Books(rz) /\ rz.log = mark /\ rz.log # NoLog /\ rz.net = mark
             /\ lost \subseteq {"power", "router"} => mark.worst >= first.worst
  BY <1>3 DEF Both, IInv, Fine, Books, InOrder, Lossless, Accepted, InPasses, InSetup
<1>4. mark.worst \in Nat /\ first.worst \in Nat /\ Slack \subseteq Nat
  BY DEF Both, IInv, Locals, Netlist, Slack
<1>5. CASE GaspStops
  BY <1>3, <1>5, EndKeeps, LeavesAccepts DEF GaspStops, InPasses, Closed
<1>6. ASSUME NEW changed \in BOOLEAN, GaspNothing(changed) PROVE Accepted'
  BY <1>3, <1>6, RestoreKeeps, EndKeeps, LeavesAccepts DEF GaspNothing, InPasses, Closed
<1>7. ASSUME NEW s \in Slacks, GaspBetter(s) PROVE Accepted'
  <2>1. at = "gasp_pass" /\ at \in InPasses /\ mark' = Tried(s).net /\ s.worst \in Nat
    BY <1>4, <1>7 DEF GaspBetter, Changes, InPasses, Slacks
  <2>2. /\ Books(Tried(s)) /\ Tried(s).log # NoLog /\ Routed(Tried(s)) /\ ~Tried(s).crashed
        /\ mark'.worst = s.worst
    BY <2>1, TriedIsFine DEF Both
  <2>3. s.worst >= mark.worst BY <1>7 DEF GaspBetter, NoWorse
  <2>4. lost \subseteq {"power", "router"} => mark'.worst >= first.worst
    BY <1>3, <1>4, <2>1, <2>2, <2>3
  <2>5. QED BY <1>7, <2>1, <2>2, <2>4, CheckpointIsFine, NextPassAccepts DEF GaspBetter, Closed
<1>8. ASSUME NEW s \in Slacks, GaspWorse(s) PROVE Accepted'
  <2>1. at = "gasp_pass" /\ at \in InPasses BY <1>8 DEF GaspWorse, Changes, InPasses
  <2>2. Books(Tried(s)) /\ Tried(s).log = mark /\ Tried(s).log # NoLog
    BY <1>3, <2>1, TriedIsFine DEF Both
  <2>3. QED BY <1>8, <2>1, <2>2, RestoreKeeps, LeavesAccepts DEF GaspWorse
<1>9. CASE OutOfPasses("gasp_pass", "gasp")
  BY <1>9, OutOfPassesAccepts DEF InPasses
<1>10. ASSUME NEW error \in BOOLEAN, NEW f \in BOOLEAN, GaspDone(error, f) PROVE Accepted'
  BY <1>10, SetupEndsAccepts DEF GaspDone
<1>11. CASE GaspThrows
  BY <1>11, ThrowsAccepts DEF GaspThrows, EndThrows, RestoreThrows
<1>12. QED BY <1>1, <1>2, <1>5, <1>6, <1>7, <1>8, <1>9, <1>10, <1>11 DEF LastGasp

LEMMA HoldAccepts == ASSUME Both, Hold PROVE Accepted'
<1>1. Books(rz) /\ inserted \in Nat /\ first.hold \in Nat /\ rz.net.hold \in Nat
  BY Numbers DEF Both, IInv, Fine, Books, InOrder, Lossless, Locals
<1>2. UpdateParasitics(rz).net = rz.net
  BY <1>1, UpdateIsRight DEF Books, SamePaper, Sound
<1>3. CASE HoldPass
  BY <1>2, <1>3 DEF HoldPass, history, Both, Accepted, InHold, InPasses, InSetup
<1>4. CASE HoldEndpoint
  BY <1>2, <1>4 DEF HoldEndpoint, history, Both, Accepted, InHold, InPasses, InSetup
<1>5. ASSUME NEW s \in Slack, NEW resize \in BOOLEAN, HoldKeep(s, resize) PROVE Accepted'
  <2> DEFINE d == HoldDelay(s, resize)
             e == JournalEnd(d)
  <2>1. at \in InHold BY <1>5 DEF HoldKeep, InHold
  <2>2. Books(d) /\ d.log # NoLog /\ d.net.hold = rz.net.hold + 1 BY <2>1, DelayIsFine DEF Both
  <2>3. Books(e) /\ e.net = d.net BY <2>2, EndKeeps DEF Closed
  <2>4. rz' = ParasiticsBegin(e) /\ mark' = rz'.net BY <1>5 DEF HoldKeep
  <2> HIDE DEF d, e
  <2>5. rz'.net.hold = rz.net.hold + 1 BY <2>2, <2>3, <2>4, ParasiticsKeep DEF SamePaper
  <2>6. inserted + first.hold <= rz.net.hold /\ inserted' = inserted + 1 /\ first' = first
    BY <1>5, <2>1 DEF HoldKeep, Both, Accepted
  <2>7. inserted' + first'.hold <= rz'.net.hold BY <1>1, <2>5, <2>6
  <2>8. QED BY <1>5, <2>4, <2>7 DEF HoldKeep, Both, Accepted, InHold, InPasses, InSetup
<1>6. ASSUME NEW s \in Slack, NEW resize \in BOOLEAN, HoldUndo(s, resize) PROVE Accepted'
  <2> DEFINE d == HoldDelay(s, resize)
             e == JournalRestore(d)
  <2>1. at \in InHold BY <1>6 DEF HoldUndo, InHold
  <2>2. Books(d) /\ d.log = rz.net /\ d.log # NoLog BY <2>1, DelayIsFine DEF Both
  <2>3. Books(e) /\ e.net = rz.net BY <2>2, RestoreKeeps
  <2>4. rz' = ParasiticsBegin(e) BY <1>6 DEF HoldUndo
  <2> HIDE DEF d, e
  <2>5. rz'.net = rz.net BY <2>3, <2>4, ParasiticsKeep DEF SamePaper
  <2>6. inserted + first.hold <= rz.net.hold /\ inserted' = 0 /\ first' = first
    BY <1>6, <2>1 DEF HoldUndo, history, Both, Accepted
  <2>7. inserted' + first'.hold <= rz'.net.hold BY <1>1, <2>5, <2>6
  <2>8. QED BY <1>6, <2>5, <2>7 DEF HoldUndo, history, Both, Accepted, InHold, InPasses, InSetup
<1>7. ASSUME NEW last \in BOOLEAN, NEW f \in BOOLEAN, HoldPathEnds(last, f) PROVE Accepted'
  <2>1. at' \in {"hold", "hold_ends"} /\ at = "hold_path" /\ pass' # 0
    BY <1>7 DEF HoldPathEnds, Both, IInv, Locals
  <2>2. QED BY <1>7, <2>1 DEF HoldPathEnds, Both, Accepted, InHold, InPasses, InSetup
<1>8. CASE HoldDone
  <2> DEFINE u == UpdateParasitics(rz)
  <2>1. rz.net = mark BY <1>8 DEF HoldDone, Both, Accepted, InHold
  <2>2. u \in Rz /\ u.net = rz.net
    BY <1>1, <1>2, UpdateIsRight DEF Books, Sound
  <2>3. rz' = ParasiticsEnd(u) BY <1>8 DEF HoldDone
  <2> HIDE DEF u
  <2>4. rz'.net = rz.net BY <2>2, <2>3, EndParasitics DEF SamePaper
  <2>5. QED BY <1>8, <2>1, <2>4, ReturnsAccepts DEF HoldDone, history
<1>9. CASE HoldFails
  <2>1. rz.net = mark BY <1>9 DEF HoldFails, Both, Accepted, InHold
  <2>2. QED BY <1>9, <2>1, ReturnsAccepts DEF HoldFails, history
<1>10. CASE HoldThrows
  BY <1>10, ThrowsAccepts DEF HoldThrows, EndThrows, RestoreThrows
<1>11. QED BY <1>3, <1>4, <1>5, <1>6, <1>7, <1>8, <1>9, <1>10 DEF Hold

LEMMA PowerGoesOnAccepts ==
  ASSUME Both, at = "power", NEW q, NEW failed, PowerNext(q, failed), q.net = mark'
  PROVE  Accepted'
BY DEF PowerNext, Both, Accepted, InHold, InPasses, InSetup

LEMMA PowerStopsAccepts ==
  ASSUME Both, NEW q, PowerOver(q)
  PROVE  Accepted'
BY DEF PowerOver, Returns, Accepted, InHold, InPasses, InSetup, Spoiled

LEMMA PowerAccepts == ASSUME Both, Power PROVE Accepted'
<1>1. ASSUME at = "power"
      PROVE  /\ Books(rz) /\ rz.net = mark
             /\ JournalBegin(rz).net = rz.net /\ Books(JournalBegin(rz)) /\ JournalBegin(rz).log # NoLog
  BY <1>1, BeginKeeps DEF Both, IInv, Fine, Books, InOrder, Lossless, Accepted
<1>2. CASE PowerUnchanged
  BY <1>1, <1>2, PowerGoesOnAccepts DEF PowerUnchanged, PowerEndpoint
<1>3. ASSUME NEW s \in Slack, PowerBetter(s) PROVE Accepted'
  <2> DEFINE k == JournalBegin(JournalEnd(PowerTried(s)))
  <2>1. at = "power" /\ mark' = PowerTried(s).net BY <1>3 DEF PowerBetter, PowerEndpoint
  <2>2. k.net = mark' BY <2>1, PowerTriedIsFine, CheckpointIsFine DEF Both, Closed
  <2>3. PowerNext(k, 0) \/ PowerOver(k) BY <1>3 DEF PowerBetter
  <2> HIDE DEF k
  <2>4. QED BY <2>1, <2>2, <2>3, PowerGoesOnAccepts, PowerStopsAccepts
<1>4. ASSUME NEW s \in Slack, PowerWorse(s) PROVE Accepted'
  <2> DEFINE k == JournalRestore(PowerTried(s))
  <2>1. at = "power" /\ mark' = mark BY <1>4 DEF PowerWorse, PowerEndpoint
  <2>2. k.net = mark' BY <1>1, <2>1, PowerTriedIsFine, RestoreKeeps DEF Both
  <2>3. PowerNext(k, bad + 1) \/ PowerOver(k) BY <1>4 DEF PowerWorse
  <2> HIDE DEF k
  <2>4. QED BY <2>1, <2>2, <2>3, PowerGoesOnAccepts, PowerStopsAccepts
<1>5. ASSUME NEW s \in Slack, PowerTooBad(s) PROVE Accepted'
  BY <1>5 DEF PowerTooBad, Returns, Accepted, InHold, InPasses, InSetup, Spoiled
<1>6. ASSUME NEW more \in BOOLEAN, PowerDone(more) PROVE Accepted'
  <2>1. rz'.net = rz.net /\ rz.net = mark BY <1>1, <1>6, EndKeeps DEF PowerDone, Closed
  <2>2. QED BY <1>6, <2>1, ReturnsAccepts DEF PowerDone, history
<1>7. CASE PowerThrows
  BY <1>7, ThrowsAccepts DEF PowerThrows, EndThrows, RestoreThrows
<1>8. QED BY <1>2, <1>3, <1>4, <1>5, <1>6, <1>7 DEF Power

\* The invariants together: books in order, and the accepted netlist at the
\* checkpoint.
THEOREM Acceptance == Spec => []Both
<1>1. Init => Both BY InitIInv, InitAccepted DEF Both
<1>2. Both /\ [Next]_vars => Both'
  <2> SUFFICES ASSUME Both, [Next]_vars PROVE Both' OBVIOUS
  <2>1. CASE Next
    <3>1. IInv' BY <2>1, NextKeeps DEF Both
    <3>2. Accepted'
      BY <2>1, CommandAccepts, SetupAccepts, LastGaspAccepts, HoldAccepts, PowerAccepts DEF Next
    <3>3. QED BY <3>1, <3>2 DEF Both
  <2>2. CASE UNCHANGED vars
    <3>1. IInv' BY <2>2, StutterKeeps DEF Both
    <3>2. Accepted'
      BY <2>2 DEF vars, loop, history, Both, Accepted, InHold, InPasses, InSetup
    <3>3. QED BY <3>1, <3>2 DEF Both
  <2>3. QED BY <2>1, <2>2
<1>3. QED BY <1>1, <1>2, PTL DEF Spec

-----------------------------------------------------------------------------
(***************************************************************************)
(* Theorems.                                                               *)
(***************************************************************************)
\* Every variable keeps its type through every loop and command.
THEOREM TypeCorrect == Spec => []TypeOK
<1>1. Both => TypeOK BY DEF Both, IInv, Fine, Books, InOrder, Lossless, Locals, TypeOK, Sound
<1>2. QED BY <1>1, Acceptance, PTL

\* BaseMove's pending and committed counts go with the netlist and its
\* journal; only passes that run out, and errors of the router, drop any.
THEOREM CountsAreKept == Spec => []CountsKept
<1>1. Both => CountsKept BY DEF Both, IInv, Fine, Books, InOrder, Lossless, CountsKept, Sound, Closed
<1>2. QED BY <1>1, Acceptance, PTL

\* incrementalParasiticsBegin and End never forget a net that is listed as
\* invalid: updateParasitics comes first, wherever a loop ends without an error
\* of the router.  And it finds its router, but in power recovery over the
\* maximum area.
THEOREM ParasiticsAreInOrder == Spec => []ParasiticsInOrder
<1>1. Both => ParasiticsInOrder BY DEF Both, IInv, Fine, Books, InOrder, Lossless, ParasiticsInOrder
<1>2. QED BY <1>1, Acceptance, PTL

\* A command leaves no journal open but after passes that ran out, power
\* recovery, or an error of the router.
THEOREM JournalIsClosed == Spec => []JournalClosed
<1>1. Both => JournalClosed BY DEF Both, IInv, Fine, Books, InOrder, Lossless, JournalClosed, InPasses
<1>2. QED BY <1>1, Acceptance, PTL

\* Between endpoints, and after a command, the netlist is the last one that
\* was accepted, whatever was tried since, but where the router (or another
\* reason that KeptIsAccepted names) ended it.
THEOREM KeptNetlistIsAccepted == Spec => []KeptIsAccepted
<1>1. Both => KeptIsAccepted
  BY DEF Both, Accepted, KeptIsAccepted, InHold, Spoiled
<1>2. QED BY <1>1, Acceptance, PTL

\* repair_setup does not lose worst slack, while no endpoint runs out of
\* passes or meets the maximum area; whatever commands the router ended.
THEOREM WorstSlackIsKept == Spec => []WorstSlackKept
<1>1. Both => WorstSlackKept
  BY DEF Both, Accepted, WorstSlackKept, InSetup
<1>2. QED BY <1>1, Acceptance, PTL

\* Hold repair counts no buffer that was taken back.
THEOREM HoldCountIsTrue == Spec => []HoldCountTrue
<1>1. Both => HoldCountTrue
  <2>1. Both => inserted \in Nat /\ first.hold \in Nat /\ rz.net.hold \in Nat
    BY Numbers DEF Both, IInv, Fine, Books, InOrder, Lossless, Locals
  <2>2. QED BY <2>1 DEF Both, Accepted, HoldCountTrue, InHold
<1>2. QED BY <1>1, Acceptance, PTL
=============================================================================
