------------------------------- MODULE Netlist ------------------------------
(***************************************************************************)
(* The part of an OpenDB block (odb::dbBlock) that the ECO journal can     *)
(* change: instances, their pins (iterms) and nets.  A state of the block  *)
(* is one record; an operation of the database is an operator on it, and   *)
(* the modules that use this one decide when each is called and logged.    *)
(*                                                                         *)
(* Every kind of object lives in a table of its own (DbTable).  Here a     *)
(* table is what IdPool says a DbTable implements: a stack of free ids.    *)
(* Left out: regions, groups, modules and the modnet half of a connection, *)
(* which the journal treats exactly as their flat counterparts; block      *)
(* terms; wires, guides and parasitics, whose undo the code does not       *)
(* promise.  A net's pins are the pins that name it: the order of the      *)
(* doubly linked list through them is no part of any promise.              *)
(***************************************************************************)
EXTENDS Integers, Sequences

CONSTANTS
  InstId, PinId, NetId,   \* the ids each table can hand out: 1..n
  InstName, NetName,
  Master,                 \* library cells
  MTerms,                 \* the ordered terminal names of each master
  Orient,                 \* the orientations in use
  Shift,                  \* what an orientation adds to the low corner of a cell
  Loc,                    \* coordinates a caller asks for
  Mark,                   \* values of a net's signal type
  NoObj                   \* an id that names no object

Fixed  == {"FIRM"}              \* dbPlacementStatus::isFixed: LOCKED, FIRM, COVER
Placed == {"PLACED", "FIRM"}    \* dbPlacementStatus::isPlaced
Status == {"NONE", "PLACED", "FIRM"}

\* A flags word: what the journal saves and restores as one integer.
InstFlags == [status: Status, orient: Orient, dont_touch: BOOLEAN]
NetFlags  == [sig_type: Mark, dont_touch: BOOLEAN]

Inst == [name: InstName, master: Master, flags: InstFlags, origin: Int,
         iterms: Seq(PinId)]
Net  == [name: NetName, flags: NetFlags]
Pin  == [inst: InstId, net: NetId \cup {0}]    \* net 0: not connected

Block == [inst: [InstId -> Inst \cup {NoObj}],
          pin:  [PinId -> Pin \cup {NoObj}],
          net:  [NetId -> Net \cup {NoObj}],
          inst_tbl: Seq(InstId), iterm_tbl: Seq(PinId), net_tbl: Seq(NetId)]

\* Flags and coordinates of a new object: the constructor's zeros.
CONSTANTS R0, Signal

ASSUME NetlistAssumption ==
  /\ InstId \subseteq Nat \ {0} /\ PinId \subseteq Nat \ {0} /\ NetId \subseteq Nat \ {0}
  /\ MTerms \in [Master -> Seq(STRING)]
  /\ \A m \in Master : \A j, k \in 1..Len(MTerms[m]) :
       MTerms[m][j] = MTerms[m][k] => j = k
  /\ Shift \in [Orient -> Int]
  /\ Loc \subseteq Int
  /\ R0 \in Orient /\ Shift[R0] = 0
  /\ Signal \in Mark
  /\ NoObj \notin Inst /\ NoObj \notin Pin /\ NoObj \notin Net

NewInstFlags == [status |-> "NONE", orient |-> R0, dont_touch |-> FALSE]
NewNetFlags  == [sig_type |-> Signal, dont_touch |-> FALSE]

-----------------------------------------------------------------------------
LiveInst(s) == {i \in InstId : s.inst[i] # NoObj}
LivePin(s)  == {t \in PinId : s.pin[t] # NoObj}
LiveNet(s)  == {n \in NetId : s.net[n] # NoObj}

Elems(q) == {q[k] : k \in 1..Len(q)}
PinsOf(s, i) == Elems(s.inst[i].iterms)
PinsOn(s, n) == {t \in LivePin(s) : s.pin[t].net = n}

InstNameTaken(s, nm) == \E i \in LiveInst(s) : s.inst[i].name = nm
NetNameTaken(s, nm)  == \E n \in LiveNet(s) : s.net[n].name = nm

\* The bound of the model: the tables hold no more ids than their pools.
RoomForInst(s, m) == s.inst_tbl # <<>> /\ Len(s.iterm_tbl) >= Len(MTerms[m])
RoomForNet(s) == s.net_tbl # <<>>

\* dbInst::create: an instance with one unconnected pin per terminal of its
\* master, the pins created in the order of the terminals.
NewInst(s, nm, m) ==
  LET i == Head(s.inst_tbl)
      n == Len(MTerms[m])
      ts == SubSeq(s.iterm_tbl, 1, n)
  IN  [s EXCEPT
        !.inst[i] = [name |-> nm, master |-> m, flags |-> NewInstFlags,
                     origin |-> 0, iterms |-> ts],
        !.pin = [t \in PinId |-> IF t \in Elems(ts) THEN [inst |-> i, net |-> 0]
                                 ELSE s.pin[t]],
        !.inst_tbl = Tail(@),
        !.iterm_tbl = SubSeq(@, n + 1, Len(@))]

\* Faulty: the pins are destroyed in the order of the list.
FreePinsInOrder(s, ts) ==
  [s EXCEPT !.pin = [t \in PinId |-> IF t \in Elems(ts) THEN NoObj ELSE s.pin[t]],
            !.iterm_tbl = [k \in 1..Len(ts) |-> ts[Len(ts) + 1 - k]] \o @]

\* The pins a list names are destroyed in reverse order, each going back to
\* its table, so that they can be created again in the same order.
FreePins(s, ts) ==
  [s EXCEPT !.pin = [t \in PinId |-> IF t \in Elems(ts) THEN NoObj ELSE s.pin[t]],
            !.iterm_tbl = ts \o @]

\* The end of dbInst::destroy: pins and instance leave their tables.
FreeInst(s, i) ==
  [FreePins(s, s.inst[i].iterms) EXCEPT !.inst[i] = NoObj, !.inst_tbl = <<i>> \o @]

NewNet(s, nm) ==
  [s EXCEPT !.net[Head(s.net_tbl)] = [name |-> nm, flags |-> NewNetFlags],
            !.net_tbl = Tail(@)]

FreeNet(s, n) == [s EXCEPT !.net[n] = NoObj, !.net_tbl = <<n>> \o @]

\* Connecting a pin to a net, or to none.
SetPinNet(s, t, n) == [s EXCEPT !.pin[t].net = n]

\* Whether every terminal of one master is a terminal of the other, in any
\* order: what dbInst::swapMaster checks by sorting both lists by name.
SameTerms(m, m2) ==
  Len(MTerms[m]) = Len(MTerms[m2]) /\ Elems(MTerms[m]) = Elems(MTerms[m2])

\* The pins in the order of the new master's terminals.
Reordered(ts, m, m2) ==
  [k \in 1..Len(ts) |-> ts[CHOOSE j \in 1..Len(ts) : MTerms[m][j] = MTerms[m2][k]]]

SwapMaster(s, i, m2) ==
  IF SameTerms(s.inst[i].master, m2)
  THEN [s EXCEPT !.inst[i].iterms = Reordered(@, s.inst[i].master, m2),
                 !.inst[i].master = m2]
  ELSE s

SetInstFlags(s, i, f) == [s EXCEPT !.inst[i].flags = f]
SetNetFlags(s, n, f)  == [s EXCEPT !.net[n].flags = f]
PutOrigin(s, i, x)    == [s EXCEPT !.inst[i].origin = x]

HasAllPins(s, i) == Len(s.inst[i].iterms) = Len(MTerms[s.inst[i].master])

IsFixed(s, i)  == s.inst[i].flags.status \in Fixed
IsPlaced(s, i) == s.inst[i].flags.status \in Placed

-----------------------------------------------------------------------------
(***************************************************************************)
(* What makes a block consistent, between operations.                      *)
(***************************************************************************)

\* A free list holds each unused id once and no other: an id is never given
\* to two objects and never lost.
TableOK(tbl, ids, live) ==
  /\ \A j, k \in 1..Len(tbl) : tbl[j] = tbl[k] => j = k
  /\ Elems(tbl) = ids \ live

\* An instance has one pin per terminal of its master, and they are its own.
PinsMatchMaster(s) ==
  \A i \in LiveInst(s) :
    /\ HasAllPins(s, i)
    /\ \A j, k \in 1..Len(s.inst[i].iterms) :
         s.inst[i].iterms[j] = s.inst[i].iterms[k] => j = k
    /\ \A t \in PinsOf(s, i) : s.pin[t] # NoObj /\ s.pin[t].inst = i

\* No pin is left without its instance or on a net that does not exist.
NoOrphanPin(s) ==
  \A t \in LivePin(s) :
    /\ s.pin[t].inst \in LiveInst(s) /\ t \in PinsOf(s, s.pin[t].inst)
    /\ s.pin[t].net # 0 => s.pin[t].net \in LiveNet(s)

NamesUnique(s) ==
  /\ \A i, j \in LiveInst(s) : s.inst[i].name = s.inst[j].name => i = j
  /\ \A n, o \in LiveNet(s) : s.net[n].name = s.net[o].name => n = o

Consistent(s) ==
  /\ TableOK(s.inst_tbl, InstId, LiveInst(s))
  /\ TableOK(s.iterm_tbl, PinId, LivePin(s))
  /\ TableOK(s.net_tbl, NetId, LiveNet(s))
  /\ PinsMatchMaster(s)
  /\ NoOrphanPin(s)
  /\ NamesUnique(s)
=============================================================================
