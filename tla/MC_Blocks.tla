------------------------------ MODULE MC_Blocks -----------------------------
(***************************************************************************)
(* Small blocks: two instances, two nets, masters whose terminals agree in *)
(* another order (and2, or2) or not at all (inv).                          *)
(***************************************************************************)
EXTENDS Netlist

CONSTANTS and2, or2, inv

\* Terminals are listed by each master in an order of its own.
MCMTerms == [m \in Master |-> CASE m = and2 -> <<"A", "Z">>
                                [] m = or2  -> <<"Z", "A">>
                                [] OTHER    -> <<"A">>]

\* MX mirrors a cell: its low corner lies one unit below its origin.
MCShift == [o \in Orient |-> IF o = "MX" THEN -1 ELSE 0]

EmptyBlock ==
  [inst |-> [i \in InstId |-> NoObj],
   pin  |-> [t \in PinId |-> NoObj],
   net  |-> [n \in NetId |-> NoObj],
   inst_tbl  |-> [i \in InstId |-> i],
   iterm_tbl |-> [t \in PinId |-> t],
   net_tbl   |-> [n \in NetId |-> n]]

\* A placed instance whose pins are on two nets.
OneCell == SetPinNet(SetPinNet(
             PutOrigin(NewNet(NewNet(NewInst(EmptyBlock, "a", and2), "n"), "m"), 1, 1),
             1, 1), 2, 2)

\* Two instances on one net, the second created after an earlier one with the
\* same ids was destroyed: the free lists have been used.
TwoCells == SetPinNet(SetPinNet(
              NewInst(FreeInst(NewInst(NewNet(NewInst(EmptyBlock, "a", and2), "n"),
                                       "b", and2), 2), "b", or2),
              1, 1), 3, 1)

MCInitBlocks == {OneCell, TwoCells}
=============================================================================
