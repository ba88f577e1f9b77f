-------------------------------- MODULE DbEco -------------------------------
(***************************************************************************)
(* The ECO journal of an OpenDB block (src/src/odb/src/db/dbJournal.cpp):  *)
(* beginEco opens a log, every change of the netlist appends what undoing  *)
(* it needs, endEco makes the log pending, undoEco replays it backwards.   *)
(* The resizer rolls optimisation attempts back with it.                   *)
(*                                                                         *)
(* OpenDB is single-threaded: one call runs at a time.  A call that logs   *)
(* more than one entry, or that can throw between two of them, is a        *)
(* sequence of steps, "call" being its position in the code; no other call *)
(* starts meanwhile.  A call that only throws, or returns before changing  *)
(* anything, is no step.                                                   *)
(*                                                                         *)
(* Avoid names the uses of the journal that callers keep away from: see    *)
(* Restorable, MarkAllowed and UndoEco.  With Avoid = {} they keep away    *)
(* from none.  MaxLog and MaxEdits bound the model: the entries of a log   *)
(* and the calls that change the netlist.                                  *)
(***************************************************************************)
EXTENDS Netlist

CONSTANTS
  InitBlocks,   \* the blocks to start from
  Avoid,        \* a subset of {"fixed", "shifted", "dont_touch", "marked",
                \* "unmarked", "late"}
  MaxLog, MaxEdits,
  NoLog         \* the null pointer to a journal

VARIABLES
  db,           \* the block
  journal,      \* _dbBlock::_journal, the open log, or NoLog
  pending,      \* _dbBlock::_journal_pending, or NoLog
  call,         \* the call in progress and its position
  edits,        \* number of calls that changed the netlist (bound)
  stale,        \* history: the block was changed since endEco
  trail,        \* history: the block at beginEco, and after each entry of the
                \* open log
  ptrail        \* history: the same for the pending log

vars == <<db, journal, pending, call, edits, stale, trail, ptrail>>

Idle == [op |-> "idle"]

Call ==
  {Idle}
  \cup [op: {"destroy_inst"}, inst: InstId, k: Nat]
  \cup [op: {"destroy_net"}, net: NetId]
  \cup [op: {"connect"}, pin: PinId, net: NetId]
  \cup [op: {"undo"}, at: Nat \ {0}]

-----------------------------------------------------------------------------
(***************************************************************************)
(* Log entries: what beginAction ... endAction pushes, field by field.     *)
(***************************************************************************)
InstCreated(i, nm, m)  == [act |-> "create", obj |-> "inst", id |-> i, name |-> nm, master |-> m]
InstDeleted(i, r)      == [act |-> "delete", obj |-> "inst", id |-> i, name |-> r.name,
                           master |-> r.master, flags |-> r.flags, origin |-> r.origin]
NetCreated(n, nm)      == [act |-> "create", obj |-> "net", id |-> n, name |-> nm]
NetDeleted(n, r)       == [act |-> "delete", obj |-> "net", id |-> n, name |-> r.name,
                           flags |-> r.flags]
Connected(t, n)        == [act |-> "connect", pin |-> t, net |-> n]
Disconnected(t, n)     == [act |-> "disconnect", pin |-> t, net |-> n]
Swapped(i, m, m2)      == [act |-> "swap", inst |-> i, prev |-> m, new |-> m2]
InstFlagsSet(i, f, f2) == [act |-> "update", field |-> "inst_flags", id |-> i, prev |-> f, new |-> f2]
OriginSet(i, x, x2)    == [act |-> "update", field |-> "origin", id |-> i, prev_x |-> x, new_x |-> x2]
NetFlagsSet(n, f, f2)  == [act |-> "update", field |-> "net_flags", id |-> n, prev |-> f, new |-> f2]

Entry ==
  [act: {"create"}, obj: {"inst"}, id: InstId, name: InstName, master: Master]
  \cup [act: {"delete"}, obj: {"inst"}, id: InstId, name: InstName, master: Master,
        flags: InstFlags, origin: Int]
  \cup [act: {"create"}, obj: {"net"}, id: NetId, name: NetName]
  \cup [act: {"delete"}, obj: {"net"}, id: NetId, name: NetName, flags: NetFlags]
  \cup [act: {"connect", "disconnect"}, pin: PinId, net: NetId]
  \cup [act: {"swap"}, inst: InstId, prev: Master, new: Master]
  \cup [act: {"update"}, field: {"inst_flags"}, id: InstId, prev: InstFlags, new: InstFlags]
  \cup [act: {"update"}, field: {"origin"}, id: InstId, prev_x: Int, new_x: Int]
  \cup [act: {"update"}, field: {"net_flags"}, id: NetId, prev: NetFlags, new: NetFlags]

ASSUME EcoAssumption ==
  /\ \A s \in InitBlocks : s \in Block /\ Consistent(s)
  /\ NoLog \notin Seq(Entry) /\ NoLog \notin Block

\* beginAction ... endAction, when a journal is open.
Log(entry) ==
  /\ journal' = IF journal = NoLog THEN NoLog ELSE Append(journal, entry)
  /\ trail' = IF journal = NoLog THEN trail ELSE Append(trail, db')

NoLogging == UNCHANGED <<journal, trail>>

LogFits == journal # NoLog => Len(journal) < MaxLog

-----------------------------------------------------------------------------
(***************************************************************************)
(* Calls that change the netlist.                                          *)
(***************************************************************************)

\* A call begins; MaxEdits bounds how many do.
Begins ==
  /\ call = Idle
  /\ edits < MaxEdits /\ edits' = edits + 1
  /\ stale' = TRUE
  /\ LogFits
  /\ UNCHANGED <<pending, ptrail>>

\* A call goes on, or ends.
GoesOn == UNCHANGED <<pending, ptrail, edits, stale>>

Whole == call' = Idle

\* What callers do not destroy when they may have to undo it.  UnbufferMove
\* checks it of the buffers it removes: they are not fixed, and none of
\* their nets is dont_touch.  "shifted" it does not check.
Restorable(i) ==
  /\ "fixed" \in Avoid => ~IsFixed(db, i)
  /\ "shifted" \in Avoid => Shift[db.inst[i].flags.orient] = 0
  /\ "dont_touch" \in Avoid =>
       \A t \in PinsOf(db, i) :
         db.pin[t].net # 0 => ~db.net[db.pin[t].net].flags.dont_touch

InstCreate(nm, m) ==
  /\ Begins /\ Whole
  /\ ~InstNameTaken(db, nm)
  /\ RoomForInst(db, m)
  /\ db' = NewInst(db, nm, m)
  /\ Log(InstCreated(Head(db.inst_tbl), nm, m))

\* dbInst::destroy: its pins are disconnected from the last to the first ...
InstDestroyBegin(i) ==
  /\ Begins
  /\ i \in LiveInst(db) /\ ~db.inst[i].flags.dont_touch
  /\ Restorable(i)
  /\ call' = [op |-> "destroy_inst", inst |-> i, k |-> Len(db.inst[i].iterms)]
  /\ NoLogging /\ UNCHANGED db

\* Faulty: the pins that a throw leaves destroyed stay in their table.
InstDestroyPinKeepsPins ==
  /\ call.op = "destroy_inst" /\ call.k > 0
  /\ GoesOn
  /\ LET ts == db.inst[call.inst].iterms
         t == ts[call.k]
         n == db.pin[t].net
     IN  IF n # 0 /\ db.net[n].flags.dont_touch
         THEN /\ db' = [db EXCEPT !.inst[call.inst].iterms = SubSeq(ts, 1, call.k)]
              /\ Whole /\ NoLogging
         ELSE /\ db' = SetPinNet(db, t, 0)
              /\ IF n = 0 THEN NoLogging ELSE Log(Disconnected(t, n))
              /\ call' = [call EXCEPT !.k = @ - 1]

\* ... one pin per step.  When the pin's net is dont_touch the call throws,
\* and the pins already passed are gone: the code destroys each pin as soon as
\* it is disconnected.
InstDestroyPin ==
  /\ call.op = "destroy_inst" /\ call.k > 0
  /\ GoesOn
  /\ LET i == call.inst
         ts == db.inst[i].iterms
         t == ts[call.k]
         n == db.pin[t].net
         next == [call EXCEPT !.k = @ - 1]
     IN  \/ /\ n = 0
            /\ call' = next /\ NoLogging /\ UNCHANGED db
         \/ /\ n # 0 /\ ~db.net[n].flags.dont_touch
            /\ db' = SetPinNet(db, t, 0)
            /\ Log(Disconnected(t, n))
            /\ call' = next
         \/ /\ n # 0 /\ db.net[n].flags.dont_touch
            /\ db' = [FreePins(db, SubSeq(ts, call.k + 1, Len(ts)))
                        EXCEPT !.inst[i].iterms = SubSeq(ts, 1, call.k)]
            /\ Whole /\ NoLogging

\* Faulty: the pins stay behind.
InstDestroyEndKeepsPins ==
  /\ call.op = "destroy_inst" /\ call.k = 0
  /\ GoesOn /\ Whole
  /\ db' = [db EXCEPT !.inst[call.inst] = NoObj, !.inst_tbl = <<call.inst>> \o @]
  /\ Log(InstDeleted(call.inst, db.inst[call.inst]))

\* ... and the instance goes.
InstDestroyEnd ==
  /\ call.op = "destroy_inst" /\ call.k = 0
  /\ GoesOn /\ Whole
  /\ db' = FreeInst(db, call.inst)
  /\ Log(InstDeleted(call.inst, db.inst[call.inst]))

NetCreate(nm) ==
  /\ Begins /\ Whole
  /\ ~NetNameTaken(db, nm)
  /\ RoomForNet(db)
  /\ db' = NewNet(db, nm)
  /\ Log(NetCreated(Head(db.net_tbl), nm))

\* dbNet::destroy disconnects the net's pins one after the other.
NetDestroyBegin(n) ==
  /\ Begins
  /\ n \in LiveNet(db) /\ ~db.net[n].flags.dont_touch
  /\ call' = [op |-> "destroy_net", net |-> n]
  /\ NoLogging /\ UNCHANGED db

\* A pin of a dont_touch instance makes it throw; what was disconnected stays.
NetDestroyPin(t) ==
  /\ call.op = "destroy_net" /\ t \in PinsOn(db, call.net)
  /\ GoesOn
  /\ IF db.inst[db.pin[t].inst].flags.dont_touch
     THEN /\ Whole /\ NoLogging /\ UNCHANGED db
     ELSE /\ db' = SetPinNet(db, t, 0)
          /\ Log(Disconnected(t, call.net))
          /\ UNCHANGED call

NetDestroyEnd ==
  /\ call.op = "destroy_net" /\ PinsOn(db, call.net) = {}
  /\ GoesOn /\ Whole
  /\ db' = FreeNet(db, call.net)
  /\ Log(NetDeleted(call.net, db.net[call.net]))

\* Whether connecting or disconnecting the pin throws.
PinLocked(t) == db.inst[db.pin[t].inst].flags.dont_touch
NetLocked(n) == n # 0 /\ db.net[n].flags.dont_touch

\* dbITerm::connect(dbNet*): a connected pin is disconnected first, which is
\* an entry of its own.
PinConnect(t, n) ==
  /\ Begins
  /\ t \in LivePin(db) /\ n \in LiveNet(db) /\ db.pin[t].net # n
  /\ ~PinLocked(t) /\ ~NetLocked(n) /\ ~NetLocked(db.pin[t].net)
  /\ IF db.pin[t].net # 0
     THEN /\ db' = SetPinNet(db, t, 0)
          /\ Log(Disconnected(t, db.pin[t].net))
          /\ call' = [op |-> "connect", pin |-> t, net |-> n]
     ELSE /\ db' = SetPinNet(db, t, n)
          /\ Log(Connected(t, n))
          /\ Whole

PinConnectEnd ==
  /\ call.op = "connect"
  /\ GoesOn /\ Whole
  /\ db' = SetPinNet(db, call.pin, call.net)
  /\ Log(Connected(call.pin, call.net))

PinDisconnect(t) ==
  /\ Begins /\ Whole
  /\ t \in LivePin(db) /\ db.pin[t].net # 0
  /\ ~PinLocked(t) /\ ~NetLocked(db.pin[t].net)
  /\ db' = SetPinNet(db, t, 0)
  /\ Log(Disconnected(t, db.pin[t].net))

\* dbInst::swapMaster logs the swap before it knows that the masters'
\* terminals match, and does nothing more when they do not.  Instances that a
\* failed destroy left without some of their pins are not swapped.
InstSwapMaster(i, m) ==
  /\ Begins /\ Whole
  /\ i \in LiveInst(db) /\ ~db.inst[i].flags.dont_touch /\ HasAllPins(db, i)
  /\ db' = SwapMaster(db, i, m)
  /\ Log(Swapped(i, db.inst[i].master, m))

InstSetOrigin(i, x) ==
  /\ Begins /\ Whole
  /\ i \in LiveInst(db) /\ ~IsFixed(db, i)
  /\ ~(IsPlaced(db, i) /\ db.inst[i].origin = x)
  /\ db' = PutOrigin(db, i, x)
  /\ Log(OriginSet(i, db.inst[i].origin, x))

\* setPlacementStatus and setOrient: setters of the flags word that log it.
InstSetFlags(i, f) ==
  /\ Begins /\ Whole
  /\ i \in LiveInst(db) /\ f # db.inst[i].flags
  /\ f.dont_touch = db.inst[i].flags.dont_touch
  /\ \/ f.orient = db.inst[i].flags.orient
     \/ f.status = db.inst[i].flags.status /\ ~IsFixed(db, i)
  /\ db' = SetInstFlags(db, i, f)
  /\ Log(InstFlagsSet(i, db.inst[i].flags, f))

NetSetSigType(n, v) ==
  /\ Begins /\ Whole
  /\ n \in LiveNet(db)
  /\ LET f == [db.net[n].flags EXCEPT !.sig_type = v]
     IN  /\ db' = SetNetFlags(db, n, f)
         /\ Log(NetFlagsSet(n, db.net[n].flags, f))

\* setDoNotTouch is not logged, and nothing in it looks at the journal.
\* Callers that may have to undo do not put a mark on while a log is open
\* ("marked"): the undo would be refused.  UnbufferMove takes marks off while
\* one is open, "for manual ECO"; a log that is to be redone on a copy of the
\* block, which keeps its marks, does not bear that either ("unmarked").
MarkAllowed(value) ==
  journal # NoLog => IF value THEN "marked" \notin Avoid ELSE "unmarked" \notin Avoid

InstSetDoNotTouch(i) ==
  /\ Begins /\ Whole /\ NoLogging
  /\ i \in LiveInst(db)
  /\ MarkAllowed(~db.inst[i].flags.dont_touch)
  /\ db' = [db EXCEPT !.inst[i].flags.dont_touch = ~@]

NetSetDoNotTouch(n) ==
  /\ Begins /\ Whole /\ NoLogging
  /\ n \in LiveNet(db)
  /\ MarkAllowed(~db.net[n].flags.dont_touch)
  /\ db' = [db EXCEPT !.net[n].flags.dont_touch = ~@]

-----------------------------------------------------------------------------
(***************************************************************************)
(* The journal's own operations.                                           *)
(***************************************************************************)

\* An open log is thrown away: "Eco changes can not be nested".
BeginEco ==
  /\ call = Idle
  /\ journal' = <<>> /\ trail' = <<db>>
  /\ UNCHANGED <<db, pending, call, edits, stale, ptrail>>

\* Faulty: the log stays open.
EndEcoLeavesOpen ==
  /\ call = Idle
  /\ pending' = journal
  /\ ptrail' = trail
  /\ stale' = FALSE
  /\ UNCHANGED <<db, call, edits, journal, trail>>

EndEco ==
  /\ call = Idle
  /\ pending' = journal
  /\ ptrail' = trail
  /\ journal' = NoLog /\ trail' = <<>>
  /\ stale' = FALSE
  /\ UNCHANGED <<db, call, edits>>

\* The objects an entry names, which undoing it looks up by id.
ObjectsExist(entry, s) ==
  CASE entry.act = "create" /\ entry.obj = "inst" ->
         /\ entry.id \in LiveInst(s)
         /\ \A t \in PinsOf(s, entry.id) : s.pin[t] # NoObj /\ s.pin[t].net = 0
    [] entry.act = "create" /\ entry.obj = "net" ->
         entry.id \in LiveNet(s) /\ PinsOn(s, entry.id) = {}
    [] entry.act = "delete" /\ entry.obj = "inst" ->
         RoomForInst(s, entry.master) /\ ~InstNameTaken(s, entry.name)
    [] entry.act = "delete" /\ entry.obj = "net" ->
         RoomForNet(s) /\ ~NetNameTaken(s, entry.name)
    [] entry.act = "connect" -> entry.pin \in LivePin(s)
    [] entry.act = "disconnect" -> entry.pin \in LivePin(s) /\ entry.net \in LiveNet(s)
    [] entry.act = "swap" -> entry.inst \in LiveInst(s) /\ HasAllPins(s, entry.inst)
    [] entry.act = "update" /\ entry.field = "net_flags" -> entry.id \in LiveNet(s)
    [] OTHER -> entry.id \in LiveInst(s)

\* The instance a deletion restores: created anew, its flags restored ...
Recreated(entry, s) ==
  SetInstFlags(NewInst(s, entry.name, entry.master), Head(s.inst_tbl), entry.flags)

\* ... and then placed with setLocation, which takes a low corner, at the
\* coordinates of its origin.
PlacedBack(entry, s) ==
  PutOrigin(Recreated(entry, s), Head(s.inst_tbl),
            entry.origin - Shift[entry.flags.orient])

UndoCreate(entry, s) ==
  IF entry.obj = "inst" THEN FreeInst(s, entry.id) ELSE FreeNet(s, entry.id)

UndoDelete(entry, s) ==
  IF entry.obj = "inst" THEN PlacedBack(entry, s)
  ELSE SetNetFlags(NewNet(s, entry.name), Head(s.net_tbl), entry.flags)

UndoConnect(entry, s) == SetPinNet(s, entry.pin, 0)

\* Faulty: undoing a disconnection is forgotten.
UndoDisconnectForgets(entry, s) == s

UndoDisconnect(entry, s) == SetPinNet(s, entry.pin, entry.net)

\* Faulty: the master from after the swap is taken.
UndoSwapNew(entry, s) == SwapMaster(s, entry.inst, entry.new)

UndoSwap(entry, s) == SwapMaster(s, entry.inst, entry.prev)

UndoUpdate(entry, s) ==
  CASE entry.field = "net_flags" -> SetNetFlags(s, entry.id, entry.prev)
    [] entry.field = "inst_flags" -> SetInstFlags(s, entry.id, entry.prev)
    [] OTHER -> PutOrigin(s, entry.id, entry.prev_x)

\* The block after one entry is undone.
UndoEntry(entry, s) ==
  CASE entry.act = "create" -> UndoCreate(entry, s)
    [] entry.act = "delete" -> UndoDelete(entry, s)
    [] entry.act = "connect" -> UndoConnect(entry, s)
    [] entry.act = "disconnect" -> UndoDisconnect(entry, s)
    [] entry.act = "swap" -> UndoSwap(entry, s)
    [] OTHER -> UndoUpdate(entry, s)

\* Whether the database call that undoes an entry throws.
PinHeld(s, t) ==
  \/ s.inst[s.pin[t].inst].flags.dont_touch
  \/ s.pin[t].net # 0 /\ s.net[s.pin[t].net].flags.dont_touch

OriginHeld(s, i, x) ==
  /\ s.inst[i].flags.status \in Fixed
  /\ s.inst[i].origin # x

UndoThrows(entry, s) ==
  CASE entry.act = "create" /\ entry.obj = "inst" -> s.inst[entry.id].flags.dont_touch
    [] entry.act = "create" /\ entry.obj = "net" -> s.net[entry.id].flags.dont_touch
    [] entry.act = "delete" /\ entry.obj = "inst" ->
         OriginHeld(Recreated(entry, s), Head(s.inst_tbl),
                    entry.origin - Shift[entry.flags.orient])
    [] entry.act = "connect" -> s.pin[entry.pin].net # 0 /\ PinHeld(s, entry.pin)
    [] entry.act = "disconnect" ->
         s.pin[entry.pin].net # entry.net
           /\ (PinHeld(s, entry.pin) \/ s.net[entry.net].flags.dont_touch)
    [] entry.act = "swap" -> s.inst[entry.inst].flags.dont_touch
    [] entry.act = "update" /\ entry.field = "origin" -> OriginHeld(s, entry.id, entry.prev_x)
    [] OTHER -> FALSE

\* What a throw leaves: undoing a deletion has created the instance already.
AfterThrow(entry, s) ==
  IF entry.act = "delete" /\ entry.obj = "inst" THEN Recreated(entry, s) ELSE s

\* undoEco.  Resizer::journalRestore and the tests' in_eco call it directly
\* after endEco, before the block is changed again, and not later ("late").
UndoEco ==
  /\ call = Idle /\ pending # NoLog /\ journal = NoLog
  /\ "late" \in Avoid => ~stale
  /\ IF pending = <<>>
     THEN pending' = NoLog /\ ptrail' = <<>> /\ UNCHANGED call
     ELSE call' = [op |-> "undo", at |-> Len(pending)] /\ UNCHANGED <<pending, ptrail>>
  /\ UNCHANGED <<db, journal, edits, stale, trail>>

\* dbJournal::undo, one entry, from the last to the first.
UndoStep ==
  /\ call.op = "undo"
  /\ LET entry == pending[call.at]
     IN  /\ ObjectsExist(entry, db)
         /\ ~UndoThrows(entry, db)
         /\ db' = UndoEntry(entry, db)
  /\ IF call.at = 1
     THEN Whole /\ pending' = NoLog /\ ptrail' = <<>>
     ELSE call' = [call EXCEPT !.at = @ - 1] /\ UNCHANGED <<pending, ptrail>>
  /\ UNCHANGED <<journal, edits, stale, trail>>

\* The exception leaves the log pending and the block half undone.
UndoFails ==
  /\ call.op = "undo"
  /\ LET entry == pending[call.at]
     IN  /\ ObjectsExist(entry, db)
         /\ UndoThrows(entry, db)
         /\ db' = AfterThrow(entry, db)
  /\ Whole
  /\ stale' = TRUE
  /\ UNCHANGED <<journal, pending, edits, trail, ptrail>>

-----------------------------------------------------------------------------
Init ==
  /\ db \in InitBlocks
  /\ journal = NoLog /\ pending = NoLog
  /\ call = Idle
  /\ edits = 0 /\ stale = FALSE
  /\ trail = <<>> /\ ptrail = <<>>

InstEdit ==
  \/ \E nm \in InstName, m \in Master : InstCreate(nm, m)
  \/ \E i \in InstId :
       \/ InstDestroyBegin(i)
       \/ InstSetDoNotTouch(i)
       \/ \E m \in Master : InstSwapMaster(i, m)
       \/ \E x \in Loc : InstSetOrigin(i, x)
       \/ \E f \in InstFlags : InstSetFlags(i, f)
  \/ InstDestroyPin \/ InstDestroyEnd

NetEdit ==
  \/ \E nm \in NetName : NetCreate(nm)
  \/ \E n \in NetId :
       \/ NetDestroyBegin(n)
       \/ NetSetDoNotTouch(n)
       \/ \E v \in Mark : NetSetSigType(n, v)
  \/ \E t \in PinId : NetDestroyPin(t)
  \/ NetDestroyEnd

PinEdit ==
  \/ \E t \in PinId, n \in NetId : PinConnect(t, n)
  \/ \E t \in PinId : PinDisconnect(t)
  \/ PinConnectEnd

EcoCall == BeginEco \/ EndEco \/ UndoEco \/ UndoStep \/ UndoFails

Next == InstEdit \/ NetEdit \/ PinEdit \/ EcoCall

Spec == Init /\ [][Next]_vars

\* The steps of a call that is running; nothing else runs meanwhile.
CallSteps ==
  \/ InstDestroyPin \/ InstDestroyEnd
  \/ (\E t \in PinId : NetDestroyPin(t)) \/ NetDestroyEnd
  \/ PinConnectEnd
  \/ UndoStep \/ UndoFails

-----------------------------------------------------------------------------
(***************************************************************************)
(* Properties.                                                             *)
(***************************************************************************)

\* Whatever calls are made, undone or not, and between the steps of each:
\* every instance has exactly the pins of its master, no pin or net dangles,
\* no id is lost or given twice, and names are unique.
BlockConsistent == Consistent(db)

\* What even a call or an undo that throws half way keeps: no id is lost or
\* given twice, no pin is left without its instance and no name is taken twice.
TablesSound ==
  /\ TableOK(db.inst_tbl, InstId, LiveInst(db))
  /\ TableOK(db.iterm_tbl, PinId, LivePin(db))
  /\ TableOK(db.net_tbl, NetId, LiveNet(db))
  /\ NoOrphanPin(db)
  /\ NamesUnique(db)

\* An instance or a net without its dont_touch mark.
Unmarked(r) == [r EXCEPT !.flags.dont_touch = FALSE]

\* The block s is b, but for dont_touch marks that were taken off: what the
\* log cannot bring back, because setDoNotTouch does not write to it.
Back(s, b) ==
  /\ \A i \in InstId :
       s.inst[i] = b.inst[i] \/ (i \in LiveInst(b) /\ s.inst[i] = Unmarked(b.inst[i]))
  /\ \A n \in NetId :
       s.net[n] = b.net[n] \/ (n \in LiveNet(b) /\ s.net[n] = Unmarked(b.net[n]))
  /\ s.pin = b.pin
  /\ s.inst_tbl = b.inst_tbl /\ s.iterm_tbl = b.iterm_tbl /\ s.net_tbl = b.net_tbl

\* Undoing an entry from the block s looks up only objects that exist, does
\* not throw, and goes back to the block b.
Reverses(entry, s, b) ==
  /\ ObjectsExist(entry, s)
  /\ ~UndoThrows(entry, s)
  /\ Back(UndoEntry(entry, s), b)

\* The open log always leads from the block of beginEco to the block as it
\* is: between any two steps of any call, no change but a mark taken off
\* escapes it.
LogComplete ==
  journal # NoLog =>
    /\ Len(trail) = Len(journal) + 1
    /\ Back(db, trail[Len(trail)])
    /\ \A k \in 1..Len(journal) : Reverses(journal[k], trail[k + 1], trail[k])

\* While the log is replayed the block goes back over the very blocks it went
\* through: same objects under the same ids, same flags, places, pins and
\* connections, same free lists.  Marks taken off meanwhile do not stop it.
ReplayOnTrack ==
  call.op = "undo" =>
    /\ call.at \in 1..Len(pending)
    /\ Back(db, ptrail[call.at + 1])
    /\ Reverses(pending[call.at], db, ptrail[call.at])

\* "Undo any pending netlist changes": when undoEco is done the block is the
\* one beginEco found, but for the marks taken off since.
UndoRestores ==
  [][call.op = "undo" /\ call'.op = "idle" /\ pending' = NoLog => Back(db', ptrail[1])]_vars

\* A block without its dont_touch marks, which are no part of an ECO.
Bare(s) ==
  [s EXCEPT
     !.inst = [i \in InstId |-> IF i \in LiveInst(s) THEN Unmarked(s.inst[i]) ELSE NoObj],
     !.net = [n \in NetId |-> IF n \in LiveNet(s) THEN Unmarked(s.net[n]) ELSE NoObj]]

\* The journal is a checkpoint facility.  While an undo runs its users see
\* nothing of it.
Users == INSTANCE Checkpoint WITH
           Value <- {Bare(s) : s \in InitBlocks},
           None <- NoLog,
           view <- Bare(IF call.op = "undo" THEN ptrail[Len(ptrail)] ELSE db),
           base <- IF journal = NoLog THEN NoLog ELSE Bare(trail[1]),
           saved <- IF pending = NoLog THEN NoLog ELSE Bare(ptrail[1]),
           undoing <- call.op = "undo"

ImplementsCheckpoint == Users!Spec
=============================================================================
