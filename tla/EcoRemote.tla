------------------------------ MODULE EcoRemote -----------------------------
(***************************************************************************)
(* An ECO taken from one process to another: the sender's pending log is   *)
(* written to a file (writeEco), a receiver that holds a copy of the       *)
(* sender's block reads it (readEco) and replays it forwards (commitEco).  *)
(* The receiver names objects by the sender's ids, so the replay depends   *)
(* on the copy having the same free lists, which streaming a table keeps.  *)
(*                                                                         *)
(* The sender is DbEco.  The copy is taken when an ECO is opened: it has   *)
(* the dont_touch marks of that moment, whatever setDoNotTouch does later. *)
(***************************************************************************)
EXTENDS DbEco

VARIABLES
  remote,     \* the receiver's block, or NoObj
  file,       \* the log in the file, or NoLog
  fblocks,    \* history: the blocks the sender went through while logging it
  redone      \* the entry commitEco is about to replay, 0 when it is not running

remoteVars == <<vars, remote, file, fblocks, redone>>

Sends == UNCHANGED <<remote, file, fblocks, redone>>
Receives == UNCHANGED vars

\* The sender's database is written and read back by the receiver.
CopyBlock ==
  /\ redone = 0 /\ call = Idle /\ journal = <<>>
  /\ remote' = db
  /\ UNCHANGED <<file, fblocks, redone>> /\ Receives

WriteEco ==
  /\ redone = 0 /\ call = Idle /\ pending # NoLog
  /\ file' = pending /\ fblocks' = ptrail
  /\ UNCHANGED <<remote, redone>> /\ Receives

\* readEco and commitEco, on a block that is what the sender's was at
\* beginEco.  That it is, is the caller's business: the code has no check.
CommitEco ==
  /\ redone = 0 /\ remote # NoObj
  /\ file # NoLog /\ file # <<>>
  /\ remote = fblocks[1]
  /\ redone' = 1
  /\ UNCHANGED <<remote, file, fblocks>> /\ Receives

RedoCreate(entry, s) ==
  IF entry.obj = "inst" THEN NewInst(s, entry.name, entry.master)
  ELSE NewNet(s, entry.name)

RedoDelete(entry, s) ==
  IF entry.obj = "inst" THEN FreeInst(s, entry.id) ELSE FreeNet(s, entry.id)

\* Faulty: the master from before the swap is taken.
RedoSwapPrev(entry, s) == SwapMaster(s, entry.inst, entry.prev)

RedoSwap(entry, s) == SwapMaster(s, entry.inst, entry.new)

\* Faulty: the values before the update are taken.
RedoUpdatePrev(entry, s) ==
  CASE entry.field = "inst_flags" -> SetInstFlags(s, entry.id, entry.prev)
    [] entry.field = "net_flags" -> SetNetFlags(s, entry.id, entry.prev)
    [] OTHER -> PutOrigin(s, entry.id, entry.prev_x)

RedoUpdate(entry, s) ==
  CASE entry.field = "inst_flags" -> SetInstFlags(s, entry.id, entry.new)
    [] entry.field = "net_flags" -> SetNetFlags(s, entry.id, entry.new)
    [] OTHER -> PutOrigin(s, entry.id, entry.new_x)

RedoConnect(entry, s) == SetPinNet(s, entry.pin, entry.net)

RedoDisconnect(entry, s) == SetPinNet(s, entry.pin, 0)

RedoEntry(entry, s) ==
  CASE entry.act = "create" -> RedoCreate(entry, s)
    [] entry.act = "delete" -> RedoDelete(entry, s)
    [] entry.act = "connect" -> RedoConnect(entry, s)
    [] entry.act = "disconnect" -> RedoDisconnect(entry, s)
    [] entry.act = "swap" -> RedoSwap(entry, s)
    [] OTHER -> RedoUpdate(entry, s)

\* What an entry needs: the objects it names, with the ids it gives them, and
\* calls that do not refuse.
RedoFinds(entry, s) ==
  CASE entry.act = "create" /\ entry.obj = "inst" ->
         /\ RoomForInst(s, entry.master) /\ Head(s.inst_tbl) = entry.id
         /\ ~InstNameTaken(s, entry.name)
    [] entry.act = "create" /\ entry.obj = "net" ->
         RoomForNet(s) /\ Head(s.net_tbl) = entry.id /\ ~NetNameTaken(s, entry.name)
    [] entry.act = "delete" /\ entry.obj = "inst" ->
         /\ entry.id \in LiveInst(s) /\ ~s.inst[entry.id].flags.dont_touch
         /\ \A t \in PinsOf(s, entry.id) : s.pin[t].net = 0
    [] entry.act = "delete" /\ entry.obj = "net" ->
         /\ entry.id \in LiveNet(s) /\ ~s.net[entry.id].flags.dont_touch
         /\ PinsOn(s, entry.id) = {}
    [] entry.act = "connect" ->
         /\ entry.pin \in LivePin(s) /\ entry.net \in LiveNet(s)
         /\ s.pin[entry.pin].net = 0
         /\ ~PinHeld(s, entry.pin) /\ ~s.net[entry.net].flags.dont_touch
    [] entry.act = "disconnect" ->
         entry.pin \in LivePin(s) /\ s.pin[entry.pin].net = entry.net /\ ~PinHeld(s, entry.pin)
    [] entry.act = "swap" -> entry.inst \in LiveInst(s) /\ ~s.inst[entry.inst].flags.dont_touch
    [] entry.act = "update" /\ entry.field = "net_flags" -> entry.id \in LiveNet(s)
    [] entry.act = "update" /\ entry.field = "inst_flags" -> entry.id \in LiveInst(s)
    [] OTHER -> entry.id \in LiveInst(s) /\ ~OriginHeld(s, entry.id, entry.new_x)

\* dbJournal::redo, one entry, from the first to the last.
RedoStep ==
  /\ redone > 0
  /\ remote' = RedoEntry(file[redone], remote)
  /\ redone' = IF redone = Len(file) THEN 0 ELSE redone + 1
  /\ UNCHANGED <<file, fblocks>> /\ Receives

RemoteInit ==
  /\ Init
  /\ remote = NoObj /\ file = NoLog /\ fblocks = <<>> /\ redone = 0

\* The sender goes on while the receiver replays.
RemoteNext ==
  \/ Next /\ Sends
  \/ CopyBlock \/ WriteEco \/ CommitEco \/ RedoStep

\* A call that is running in the sender goes on.
RemoteSpec ==
  RemoteInit /\ [][RemoteNext]_remoteVars /\ WF_remoteVars(CallSteps /\ Sends)

-----------------------------------------------------------------------------
(***************************************************************************)
(* Properties.                                                             *)
(***************************************************************************)

\* The replay meets, entry by entry, the blocks the sender went through: the
\* lookups by id find the sender's objects and no call refuses.
RedoOnTrack ==
  redone > 0 =>
    /\ remote = fblocks[redone]
    /\ RedoFinds(file[redone], remote)

\* "Commit any pending netlist changes": when commitEco is done the copy is
\* the block the sender had at endEco, ids and free lists included, so that
\* the next ECO can be sent the same way.
CommitReproduces ==
  [][redone > 0 /\ redone' = 0 => remote' = fblocks[Len(fblocks)]]_remoteVars
=============================================================================
