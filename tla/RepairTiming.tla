---------------------------- MODULE RepairTiming ----------------------------
(***************************************************************************)
(* repair_timing (src/src/rsz) on top of OpenDB's journal: the loops of    *)
(* RepairSetup, RepairHold and RecoverPower try changes of the netlist,    *)
(* measure, and keep them or go back to the last checkpoint; so does the   *)
(* timing-driven placer (findResizeSlacks).                                *)
(*                                                                         *)
(* A netlist is what has been done to it, with the slacks this gives: the  *)
(* worst one, and the one the loop looks at besides (the endpoint's, in    *)
(* the last gasp the total).  What a change does to slacks, whether the    *)
(* path can be changed at all, whether the design is over its maximum area *)
(* and when the loops see too little progress is any choice.  The journal  *)
(* is the netlist it leads back to (module DbEco says how it does that).   *)
(* Where parasitics come from the global router, each of its updates may   *)
(* end the command with an error.                                          *)
(*                                                                         *)
(* MaxSlack, MaxEnds, MaxTries (drivers of a path), MaxMoves (changes by   *)
(* setup repair) and MaxCommands bound the model; the others are limits of *)
(* the code.                                                               *)
(***************************************************************************)
EXTENDS Naturals

CONSTANTS
  MaxPasses,      \* max_passes, and max_last_gasp_passes_
  MaxDecreasing,  \* decreasing_slack_max_passes_
  MaxFailed,      \* failed_move_threshold_limit_
  MaxBuffers,     \* max_buffer_count
  MaxSlack, MaxEnds, MaxTries, MaxMoves, MaxCommands,
  NoLog

Limits == <<MaxPasses, MaxDecreasing, MaxFailed, MaxBuffers, MaxSlack, MaxEnds, MaxTries, MaxMoves, MaxCommands>>
ASSUME LimitsAssumption == Limits \in Nat \X Nat \X Nat \X Nat \X Nat \X Nat \X Nat \X Nat \X Nat

Slack == 0 .. MaxSlack
Netlist == [moves : Nat,   \* changes that BaseMove counts
            other : Nat,   \* changes that it does not
            hold : Nat,    \* hold buffers
            worst : Slack, also : Slack]
ASSUME NoLogAssumption == NoLog \notin Netlist

VARIABLES
  rz,          \* the netlist, its journal and the Resizer's books
  at,          \* which loop runs, and where it is
  hold_next,   \* repair_timing repairs hold after setup
  end_index,   \* the endpoint at work
  fails,       \* endpoints have failed their hold checks
  pass,        \* passes, or tries, for this endpoint (hold: in all)
  tries,
  bad,         \* decreasing_slack_passes, failed_move_threshold
  stops,       \* terminateProgress in a row
  inserted,    \* inserted_buffer_count_, and its value before the pass
  before,
  commands,
  mark,        \* history: the netlist that was accepted last
  first,       \* history: worst slack and hold buffers when it began
  left,        \* history: why the last endpoint was left
  lost         \* history: endpoints were left without a look at their slack,
               \* power recovery ran, or the router ended a command

loop == <<end_index, fails, pass, tries, bad, stops, inserted, before>>
history == <<mark, first, left, lost>>
vars == <<rz, at, hold_next, loop, commands, history>>

-----------------------------------------------------------------------------
(***************************************************************************)
(* The Resizer's books.                                                    *)
(*   log       netlist at beginEco, NoLog when no journal is open          *)
(*   pending, committed   pending_count_, all_count_ of the moves          *)
(*   rc        parasitics: as the netlist, of nets listed as invalid, or   *)
(*             wrong and not listed                                        *)
(*   routed    parasitics come from the global router                      *)
(*   groute    incr_groute_ is set                                         *)
(*   crashed   incr_groute_ was used when it was not                       *)
(*   dropped   history: pending moves that undoMoves forgot and that the   *)
(*             netlist keeps                                               *)
(***************************************************************************)
Net(r, net) == [r EXCEPT !.net = net, !.rc = IF @ = "wrong" THEN @ ELSE "listed"]
Unlisted(r) == IF r.rc = "listed" THEN [r EXCEPT !.rc = "wrong"] ELSE r

ParasiticsBegin(r) == [Unlisted(r) EXCEPT !.groute = IF r.routed THEN TRUE ELSE @]
ParasiticsEnd(r) == [Unlisted(r) EXCEPT !.groute = IF r.routed THEN FALSE ELSE @]
UpdateParasitics(r) ==
  IF r.routed /\ ~r.groute THEN [r EXCEPT !.crashed = TRUE]
  ELSE [r EXCEPT !.rc = IF @ = "wrong" THEN @ ELSE "right"]

UndoMoves(r) == [r EXCEPT !.pending = 0]
\* Faulty: moves count twice when the next journal does not begin at once.
CommitMovesKeeps(r) == [r EXCEPT !.committed = @ + r.pending]
CommitMoves(r) == [r EXCEPT !.committed = @ + r.pending, !.pending = 0]

\* A journal that is still open is deleted, and its changes stay.
BeginEco(r) == [r EXCEPT !.log = r.net, !.dropped = IF r.log = NoLog THEN @ ELSE @ + r.pending]
EndEco(r) == [r EXCEPT !.log = NoLog]
\* Without an open journal, it is not empty.
EcoEmpty(r) == r.log = r.net

JournalBegin(r) == UndoMoves(BeginEco(ParasiticsBegin(r)))
JournalEnd(r) ==
  CommitMoves(EndEco(ParasiticsEnd(IF EcoEmpty(r) THEN r ELSE UpdateParasitics(r))))

\* Faulty: the observer of the undo is not registered.
JournalRestoreUnheard(r) ==
  IF EcoEmpty(r) THEN ParasiticsEnd(EndEco(r))
  ELSE UndoMoves(ParasiticsEnd(EndEco([ParasiticsBegin(ParasiticsEnd(r)) EXCEPT !.net = r.log, !.rc = "wrong"])))

\* The undo's callbacks list the nets it touches.
JournalRestore(r) ==
  IF EcoEmpty(r) THEN ParasiticsEnd(EndEco(r))
  ELSE UndoMoves(ParasiticsEnd(UpdateParasitics(EndEco(Net(ParasiticsBegin(ParasiticsEnd(r)), r.log)))))

\* A change that gives slacks s.
Moved(r, s) ==
  [Net(r, [r.net EXCEPT !.moves = @ + 1, !.worst = s.worst, !.also = s.also]) EXCEPT !.pending = @ + 1]
Resized(r, s) == Net(r, [r.net EXCEPT !.other = @ + 1, !.worst = s])
Buffered(r) == Net(r, [r.net EXCEPT !.hold = @ + 1])
Looking(r, s) == [r EXCEPT !.net.also = s]
Slacks == [worst : Slack, also : Slack]

-----------------------------------------------------------------------------
(***************************************************************************)
(* Commands.                                                               *)
(***************************************************************************)
Seen(r) == [worst |-> r.net.worst, hold |-> r.net.hold]

\* The locals of the loops are gone.
Returns ==
  /\ at' = "idle"
  /\ end_index' = 0 /\ fails' = FALSE /\ pass' = 1 /\ tries' = 0 /\ bad' = 0 /\ stops' = 0
  /\ inserted' = 0 /\ before' = 0 /\ hold_next' = FALSE

Called ==
  /\ at = "idle" /\ ~rz.crashed
  /\ commands < MaxCommands /\ commands' = commands + 1

RepairSetupBegin(h) ==
  /\ Called
  /\ at' = "setup" /\ hold_next' = h
  /\ mark' = rz.net /\ first' = Seen(rz)
  /\ UNCHANGED <<rz, loop, left, lost>>

\* repairHold: the search for violations comes first.
HoldStarts(f) ==
  /\ rz' = ParasiticsBegin(rz)
  /\ at' = "hold" /\ fails' = f
  /\ inserted' = 0 /\ before' = 0 /\ pass' = 1
  /\ first' = Seen(rz) /\ mark' = rz.net

RepairHoldBegin(f) ==
  /\ Called
  /\ HoldStarts(f)
  /\ UNCHANGED <<hold_next, end_index, tries, bad, stops, left, lost>>

RecoverPowerBegin ==
  /\ Called
  /\ at' = "power"
  /\ mark' = rz.net /\ first' = Seen(rz)
  /\ lost' = lost \cup {"power"}
  /\ UNCHANGED <<rz, hold_next, loop, left>>

\* findResizeSlacks: repair_design within a journal, for the slacks it gives;
\* late in placement its changes are kept.
FindResizeSlacks(s, restore) ==
  /\ Called
  /\ LET begun == IF restore THEN JournalBegin(rz) ELSE rz
         placed == [begun EXCEPT !.routed = FALSE, !.rc = "right"]
         design == ParasiticsEnd(UpdateParasitics(Resized(ParasiticsBegin(placed), s)))
     IN /\ rz' = IF restore THEN JournalRestore(design) ELSE design
        /\ mark' = IF restore THEN rz.net ELSE design.net
  /\ left' = IF restore THEN "checked" ELSE left
  /\ UNCHANGED <<at, hold_next, loop, first, lost>>

-----------------------------------------------------------------------------
(***************************************************************************)
(* Errors of the global router, out of updateParasitics: too much          *)
(* congestion (GRT 232), a joined route in pieces (GRT 267).  They end the *)
(* command; the Resizer's books stay as they are at that moment.           *)
(***************************************************************************)
RouterThrows(r) ==
  /\ r.routed /\ r.groute
  /\ rz' = r
  /\ Returns /\ left' = "router"
  /\ lost' = lost \cup {"router"}
  /\ UNCHANGED <<commands, mark, first>>

\* In journalEnd; and in journalRestore, when the journal is undone and the
\* moves are still counted.
EndThrows(r) == ~EcoEmpty(r) /\ RouterThrows(r)
RestoreThrows(r) ==
  ~EcoEmpty(r) /\ RouterThrows(EndEco(Net(ParasiticsBegin(ParasiticsEnd(r)), r.log)))

-----------------------------------------------------------------------------
(***************************************************************************)
(* RepairSetup::repairSetup.                                               *)
(***************************************************************************)
Leaves(p, r, why) ==
  /\ at' = p /\ rz' = r /\ left' = why
  /\ UNCHANGED <<hold_next, end_index, fails, tries, inserted, before, commands, first>>

SetupEndpoint(s) ==
  /\ at = "setup" /\ end_index < MaxEnds /\ stops < 2
  /\ at' = "setup_pass"
  /\ end_index' = end_index + 1 /\ pass' = 1 /\ bad' = 0
  /\ rz' = JournalBegin(Looking(rz, s))
  /\ mark' = Looking(rz, s).net
  /\ UNCHANGED <<hold_next, fails, tries, stops, inserted, before, commands, first, left, lost>>

SetupStops ==
  /\ at = "setup_pass" /\ pass <= MaxPasses
  /\ stops' = stops + 1
  /\ Leaves("setup", JournalRestore(rz), "checked")
  /\ UNCHANGED <<pass, bad, mark, lost>>

\* Faulty: the journal is not ended when it is empty.
SetupNothingOpen ==
  /\ at = "setup_pass" /\ pass <= MaxPasses
  /\ Leaves("setup", IF pass # 1 THEN JournalRestore(rz) ELSE rz, "checked")
  /\ UNCHANGED <<pass, bad, stops, mark, lost>>

\* The slack is above the margin, or repairPath finds nothing to change.
SetupNothing ==
  /\ at = "setup_pass" /\ pass <= MaxPasses
  /\ Leaves("setup", IF pass # 1 THEN JournalRestore(rz) ELSE JournalEnd(rz), "checked")
  /\ UNCHANGED <<pass, bad, stops, mark, lost>>

\* Faulty: the endpoint may gain what the design loses.
BetterByEnd(s) == s.worst > mark.worst \/ (end_index # 1 /\ s.also > mark.also)

Better(s) ==
  \/ s.worst > mark.worst
  \/ end_index # 1 /\ s.worst = mark.worst /\ s.also > mark.also

\* After a pass: over the maximum area, or on to the next one, where
\* terminateProgress may have seen progress.
NextPass(p, r) ==
  \/ /\ Leaves(p, JournalEnd(r), "area")
     /\ lost' = lost \cup {"area"}
     /\ UNCHANGED <<pass, stops>>
  \/ /\ rz' = r /\ pass' = pass + 1
     /\ stops' \in {stops, 0}
     /\ UNCHANGED <<at, hold_next, end_index, fails, tries, inserted, before, commands, first, left, lost>>

Changes(p) == at = p /\ pass <= MaxPasses /\ rz.net.moves < MaxMoves
Tried(s) == UpdateParasitics(Moved(rz, s))

\* Faulty: no new checkpoint.
SetupBetterNoCheckpoint(s) ==
  /\ Changes("setup_pass") /\ Better(s)
  /\ bad' = 0 /\ mark' = Tried(s).net
  /\ NextPass("setup", Tried(s))

SetupBetter(s) ==
  /\ Changes("setup_pass") /\ Better(s)
  /\ bad' = 0 /\ mark' = Tried(s).net
  /\ NextPass("setup", JournalBegin(JournalEnd(Tried(s))))

SetupWorse(s) ==
  /\ Changes("setup_pass") /\ ~Better(s)
  /\ bad < MaxDecreasing /\ bad' = bad + 1
  /\ NextPass("setup", Tried(s))
  /\ UNCHANGED mark

SetupTooBad(s) ==
  /\ Changes("setup_pass") /\ ~Better(s)
  /\ bad = MaxDecreasing
  /\ Leaves("setup", JournalRestore(Tried(s)), "checked")
  /\ UNCHANGED <<pass, bad, stops, mark, lost>>

\* An update after the pass or at its end; or routes that cannot be joined, by
\* a move that then changes nothing (GRT 703).
SetupThrows ==
  /\ at = "setup_pass" /\ pass <= MaxPasses
  /\ \/ RouterThrows(rz) \/ RestoreThrows(rz)
     \/ \E s \in Slacks :
          /\ Changes("setup_pass")
          /\ \/ RouterThrows(Moved(rz, s))
             \/ IF ~Better(s) /\ bad = MaxDecreasing THEN RestoreThrows(Tried(s)) ELSE EndThrows(Tried(s))

\* The journal stays open.
OutOfPasses(p, loops) ==
  /\ at = p /\ pass > MaxPasses
  /\ Leaves(loops, rz, "passes")
  /\ lost' = lost \cup {"passes"}
  /\ UNCHANGED <<pass, bad, stops, mark>>

\* The end of repairSetup, over the maximum area (RSZ 25) or not.
SetupEnds(error, f) ==
  IF hold_next /\ ~error
  THEN HoldStarts(f) /\ UNCHANGED <<hold_next, end_index, tries, bad, stops, commands, left, lost>>
  ELSE Returns /\ UNCHANGED <<rz, commands, history>>

SetupDone(error, f) == at = "setup" /\ SetupEnds(error, f)

-----------------------------------------------------------------------------
(***************************************************************************)
(* RepairSetup::repairSetupLastGasp.                                       *)
(***************************************************************************)
GaspBegin(tns) ==
  /\ at = "setup"
  /\ at' = "gasp" /\ end_index' = 0 /\ stops' = 0
  /\ rz' = Looking(rz, tns) /\ mark' = Looking(rz, tns).net
  /\ UNCHANGED <<hold_next, fails, pass, tries, bad, inserted, before, commands, first, left, lost>>

GaspEndpoint ==
  /\ at = "gasp" /\ end_index < MaxEnds /\ stops < 2
  /\ at' = "gasp_pass"
  /\ end_index' = end_index + 1 /\ pass' = 1
  /\ rz' = JournalBegin(rz)
  /\ UNCHANGED <<hold_next, fails, tries, bad, stops, inserted, before, commands, history>>

GaspStops ==
  /\ at = "gasp_pass" /\ pass <= MaxPasses
  /\ stops' = stops + 1
  /\ Leaves("gasp", JournalEnd(rz), "checked")
  /\ UNCHANGED <<pass, bad, mark, lost>>

GaspNothing(changed) ==
  /\ at = "gasp_pass" /\ pass <= MaxPasses
  /\ Leaves("gasp", IF ~changed /\ pass # 1 THEN JournalRestore(rz) ELSE JournalEnd(rz), "checked")
  /\ UNCHANGED <<pass, bad, stops, mark, lost>>

NoWorse(s) == s.worst >= mark.worst /\ s.also >= mark.also

GaspBetter(s) ==
  /\ Changes("gasp_pass") /\ NoWorse(s)
  /\ mark' = Tried(s).net
  /\ NextPass("gasp", JournalBegin(JournalEnd(Tried(s))))
  /\ UNCHANGED bad

GaspWorse(s) ==
  /\ Changes("gasp_pass") /\ ~NoWorse(s)
  /\ Leaves("gasp", JournalRestore(Tried(s)), "checked")
  /\ UNCHANGED <<pass, bad, stops, mark, lost>>

GaspThrows ==
  /\ at = "gasp_pass" /\ pass <= MaxPasses
  /\ \/ RouterThrows(rz) \/ RestoreThrows(rz)
     \/ \E s \in Slacks :
          /\ Changes("gasp_pass")
          /\ \/ RouterThrows(Moved(rz, s))
             \/ IF NoWorse(s) THEN EndThrows(Tried(s)) ELSE RestoreThrows(Tried(s))

GaspDone(error, f) == at = "gasp" /\ SetupEnds(error, f)

-----------------------------------------------------------------------------
(***************************************************************************)
(* RepairHold::repairHold.  pass counts endpoints.                         *)
(***************************************************************************)
HoldGoesOn ==
  /\ fails /\ (inserted > before \/ pass = 1)
  /\ inserted <= MaxBuffers /\ pass <= MaxPasses

TooManyBuffers == inserted > MaxBuffers

HoldPass ==
  /\ at = "hold" /\ HoldGoesOn
  /\ at' = "hold_ends"
  /\ rz' = UpdateParasitics(rz)
  /\ before' = inserted /\ end_index' = 0
  /\ UNCHANGED <<hold_next, fails, pass, tries, bad, stops, inserted, commands, history>>

HoldEndpoint ==
  /\ at = "hold_ends"
  /\ at' = "hold_path"
  /\ rz' = UpdateParasitics(rz)
  /\ tries' = 0
  /\ UNCHANGED <<hold_next, end_index, fails, pass, bad, stops, inserted, before, commands, history>>

\* makeHoldDelay, which may resize the buffer as well.
HoldBuffer == Buffered(JournalBegin(ParasiticsEnd(rz)))
HoldDelay(s, resize) ==
  LET buffer == UpdateParasitics(HoldBuffer)
  IN IF resize THEN UpdateParasitics(Resized(buffer, s)) ELSE buffer

HoldKeep(s, resize) ==
  /\ at = "hold_path" /\ tries < MaxTries
  /\ tries' = tries + 1
  /\ inserted' = inserted + 1
  /\ rz' = ParasiticsBegin(JournalEnd(HoldDelay(s, resize)))
  /\ mark' = rz'.net
  /\ UNCHANGED <<at, hold_next, end_index, fails, pass, bad, stops, before, commands, first, left, lost>>

\* Faulty: the buffer that is taken back stays counted.
HoldUndoCounts(s, resize) ==
  /\ at = "hold_path" /\ tries < MaxTries
  /\ tries' = tries + 1
  /\ inserted' = inserted + 1
  /\ rz' = ParasiticsBegin(JournalRestore(HoldDelay(s, resize)))
  /\ UNCHANGED <<at, hold_next, end_index, fails, pass, bad, stops, before, commands, history>>

\* It forgets the buffers that were kept, too.
HoldUndo(s, resize) ==
  /\ at = "hold_path" /\ tries < MaxTries
  /\ tries' = tries + 1
  /\ inserted' = 0
  /\ rz' = ParasiticsBegin(JournalRestore(HoldDelay(s, resize)))
  /\ UNCHANGED <<at, hold_next, end_index, fails, pass, bad, stops, before, commands, history>>

\* The end of repairEndHold.  After the last endpoint, or too many buffers,
\* endpoints are found to fail or not.
HoldPathEnds(last, f) ==
  /\ at = "hold_path"
  /\ pass' = pass + 1 /\ end_index' = end_index + 1
  /\ left' = "checked"
  /\ IF last \/ inserted > MaxBuffers THEN at' = "hold" /\ fails' = f
     ELSE at' = "hold_ends" /\ end_index' < MaxEnds /\ UNCHANGED fails
  /\ UNCHANGED <<rz, hold_next, tries, bad, stops, inserted, before, commands, mark, first, lost>>

\* The loop has ended, without an error.
HoldDone ==
  /\ at = "hold" /\ ~HoldGoesOn /\ ~TooManyBuffers
  /\ Returns
  /\ rz' = ParasiticsEnd(UpdateParasitics(rz))
  /\ UNCHANGED <<commands, history>>

HoldThrows ==
  \/ (at = "hold_ends" \/ (at = "hold" /\ ~TooManyBuffers)) /\ RouterThrows(rz)
  \/ /\ at = "hold_path" /\ tries < MaxTries
     /\ \/ RouterThrows(HoldBuffer)
        \/ \E s \in Slack : RouterThrows(Resized(UpdateParasitics(HoldBuffer), s))
        \/ \E s \in Slack, resize \in BOOLEAN :
             EndThrows(HoldDelay(s, resize)) \/ RestoreThrows(HoldDelay(s, resize))

\* Too many buffers (RSZ 60), or over the maximum area (RSZ 50) at any time:
\* the error leaves before the parasitics are put in order.
HoldFails ==
  /\ at = "hold" /\ (fails \/ pass > 1)
  /\ Returns
  /\ UNCHANGED <<rz, commands, history>>

-----------------------------------------------------------------------------
(***************************************************************************)
(* RecoverPower::recoverPower.                                             *)
(***************************************************************************)
PowerEndpoint == at = "power" /\ end_index < MaxEnds
PowerChange(s) == Resized(JournalBegin(rz), s)
PowerTried(s) == UpdateParasitics(PowerChange(s))

\* The loop goes on, or ends over the maximum area.
PowerNext(r, failed) ==
  /\ rz' = r /\ left' = "checked"
  /\ bad' = failed /\ end_index' = end_index + 1
  /\ UNCHANGED <<at, hold_next, fails, pass, tries, stops, inserted, before, commands, first, lost>>

PowerOver(r) ==
  /\ Returns
  /\ rz' = JournalEnd(r) /\ left' = "area"
  /\ UNCHANGED <<commands, first, lost>>

PowerUnchanged ==
  /\ PowerEndpoint
  /\ PowerNext(JournalBegin(rz), bad)
  /\ UNCHANGED mark

PowerBetter(s) ==
  /\ PowerEndpoint
  /\ mark' = PowerTried(s).net
  /\ LET kept == JournalBegin(JournalEnd(PowerTried(s)))
     IN PowerNext(kept, 0) \/ PowerOver(kept)

PowerWorse(s) ==
  /\ PowerEndpoint
  /\ bad < MaxFailed
  /\ LET undone == JournalRestore(PowerTried(s))
     IN PowerNext(undone, bad + 1) \/ PowerOver(undone)
  /\ UNCHANGED mark

\* The last change stays, although it failed.
PowerTooBad(s) ==
  /\ PowerEndpoint
  /\ bad = MaxFailed
  /\ Returns /\ left' = "failed"
  /\ rz' = JournalEnd(PowerTried(s))
  /\ UNCHANGED <<commands, mark, first, lost>>

PowerThrows ==
  /\ PowerEndpoint
  /\ \E s \in Slack :
       \/ RouterThrows(PowerChange(s)) \/ EndThrows(PowerTried(s))
       \/ bad < MaxFailed /\ RestoreThrows(PowerTried(s))

\* There are no more endpoints, or more than max_end_count of them.
PowerDone(more) ==
  /\ at = "power"
  /\ Returns
  /\ rz' = IF more THEN JournalEnd(JournalBegin(rz)) ELSE rz
  /\ UNCHANGED <<commands, history>>

-----------------------------------------------------------------------------
Init ==
  /\ rz \in [net : [moves : {0}, other : {0}, hold : {0}, worst : Slack, also : {0}],
             log : {NoLog}, pending : {0}, committed : {0}, rc : {"right"},
             routed : BOOLEAN, groute : {FALSE}, crashed : {FALSE}, dropped : {0}]
  /\ at = "idle" /\ hold_next = FALSE
  /\ end_index = 0 /\ fails = FALSE /\ pass = 1 /\ tries = 0 /\ bad = 0 /\ stops = 0
  /\ inserted = 0 /\ before = 0 /\ commands = 0
  /\ mark = rz.net /\ first = Seen(rz) /\ left = "checked" /\ lost = {}

Command ==
  \/ \E b \in BOOLEAN : RepairSetupBegin(b) \/ RepairHoldBegin(b)
  \/ RecoverPowerBegin
  \/ \E s \in Slack, restore \in BOOLEAN : FindResizeSlacks(s, restore)

Setup ==
  \/ \E s \in Slack : SetupEndpoint(s)
  \/ SetupStops \/ SetupNothing
  \/ \E s \in Slacks : SetupBetter(s) \/ SetupWorse(s) \/ SetupTooBad(s)
  \/ SetupThrows
  \/ OutOfPasses("setup_pass", "setup")
  \/ \E error, f \in BOOLEAN : SetupDone(error, f)

LastGasp ==
  \/ \E tns \in Slack : GaspBegin(tns)
  \/ GaspEndpoint \/ GaspStops
  \/ \E changed \in BOOLEAN : GaspNothing(changed)
  \/ \E s \in Slacks : GaspBetter(s) \/ GaspWorse(s)
  \/ GaspThrows
  \/ OutOfPasses("gasp_pass", "gasp")
  \/ \E error, f \in BOOLEAN : GaspDone(error, f)

Hold ==
  \/ HoldPass \/ HoldEndpoint
  \/ \E s \in Slack, resize \in BOOLEAN : HoldKeep(s, resize) \/ HoldUndo(s, resize)
  \/ \E last, f \in BOOLEAN : HoldPathEnds(last, f)
  \/ HoldDone \/ HoldThrows \/ HoldFails

Power ==
  \/ PowerUnchanged
  \/ \E s \in Slack : PowerBetter(s) \/ PowerWorse(s) \/ PowerTooBad(s)
  \/ PowerThrows
  \/ \E more \in BOOLEAN : PowerDone(more)

Next == Command \/ Setup \/ LastGasp \/ Hold \/ Power

Spec == Init /\ [][Next]_vars

-----------------------------------------------------------------------------
(***************************************************************************)
(* Properties.                                                             *)
(***************************************************************************)
Rz == [net : Netlist, log : Netlist \cup {NoLog}, pending : Nat, committed : Nat,
       rc : {"right", "listed", "wrong"}, routed : BOOLEAN, groute : BOOLEAN,
       crashed : BOOLEAN, dropped : Nat]
Place == {"idle", "setup", "setup_pass", "gasp", "gasp_pass", "hold", "hold_ends", "hold_path", "power"}
Reason == {"checked", "passes", "area", "failed", "router"}

\* Every variable has its type: Resizer.hh, BaseMove.hh, and the locals of the
\* three loops.
TypeOK ==
  /\ rz \in Rz
  /\ at \in Place
  /\ hold_next \in BOOLEAN /\ fails \in BOOLEAN
  /\ end_index \in Nat /\ pass \in Nat /\ tries \in Nat /\ bad \in Nat /\ stops \in Nat
  /\ inserted \in Nat /\ before \in Nat /\ commands \in Nat
  /\ mark \in Netlist /\ first \in [worst : Slack, hold : Nat]
  /\ left \in Reason
  /\ lost \subseteq {"passes", "area", "power", "router"}

\* Pending moves count while the journal is open.
Counted(r) ==
  /\ r.log # NoLog => r.log.moves + r.pending = r.net.moves
  /\ r.committed + r.dropped + (IF r.log = NoLog THEN 0 ELSE r.pending) = r.net.moves

\* BaseMove's counts (BaseMove.cc:64-99) go with the journal through every
\* begin, end, restore and early return: moves since the checkpoint are
\* pending, and the netlist's other moves are committed, but for those that an
\* endpoint which ran out of passes, or an error of the router, left behind in
\* an open journal.
CountsKept ==
  /\ Counted(rz)
  /\ lost \cap {"passes", "router"} = {} => rz.dropped = 0
  /\ ("router" \notin lost /\ rz.log = NoLog) => rz.pending = 0

\* No net keeps the parasitics of a netlist that is gone: incrementalParasitics
\* Begin and End clear the list of invalid nets (EstimateWireParasitics.cc:297,
\* 314), and never while a net is on it, unless an error of the router kept
\* updateParasitics from it.  And updateParasitics finds its IncrementalGRoute
\* (line 333) everywhere but in power recovery over the maximum area
\* (RecoverPower.cc:176, 188).
ParasiticsInOrder ==
  /\ "router" \notin lost => rz.rc # "wrong"
  /\ rz.crashed => at = "idle" /\ left = "area"

\* Between endpoints, and after a command, the netlist is the last that was
\* accepted (RepairSetup.cc:261-390, RepairHold.cc:480-489), whatever passes
\* were tried meanwhile; but for passes that run out, the maximum area, the
\* failure that ends power recovery, and an error of the router, which keeps
\* what was tried.
KeptIsAccepted ==
  (at \in {"idle", "setup", "gasp", "hold_path"} /\ left \notin {"passes", "area", "failed", "router"})
     => rz.net = mark

\* repair_setup does not lose worst slack (RepairSetup.cc:330-380, 757), when
\* no endpoint ran out of passes or met the maximum area half way; also after
\* a command that the router ended.
WorstSlackKept ==
  (at \in {"setup", "gasp"} /\ lost \subseteq {"power", "router"}) => rz.net.worst >= first.worst

\* inserted_buffer_count_ never counts a buffer that was taken back
\* (RepairHold.cc:486, 608), so that "Max buffer count reached" is true when
\* it is said.
HoldCountTrue ==
  at \in {"hold", "hold_ends", "hold_path"} => inserted <= rz.net.hold - first.hold

\* After a command no journal is left to record what other commands do, but
\* where an endpoint ran out of passes or the router ended a command, or after
\* power recovery.
JournalClosed ==
  (at = "idle" /\ rz.log # NoLog) => lost \cap {"passes", "power", "router"} # {}

\* README.md of rsz on -max_buffer_percent: a hold repair that ends without
\* "Max buffer count reached" has inserted no more than the maximum.
HoldWithinMax ==
  [][HoldDone => rz.net.hold - first.hold <= MaxBuffers]_vars
=============================================================================
