------------------------------ MODULE MCClient ------------------------------
(***************************************************************************)
(* Small instances of Client for TLC: one token, one person at the command *)
(* line, configurations that differ in everything or in their fees only.   *)
(***************************************************************************)
EXTENDS Client

Terms(vs, vt, rt, supply, protocol, creator, fee) ==
  [vs |-> vs, vt |-> vt, rt |-> rt, supply |-> supply,
   fees |-> [protocol |-> protocol, creator |-> creator],
   migrationFee |-> fee, ammConfig |-> "standard"]

\* Two launches' terms; those of the first after an update of its fees.
MCTerms ==
  {Terms(6, 8, 5, 9, 2, 1, 2), Terms(5, 5, 3, 6, 0, 1, 1),
   Terms(6, 8, 5, 9, 0, 1, 2)}
AlwaysOpen == {[open |-> TRUE, cost |-> 1]}

Command(op, budget) == [op |-> op, budget |-> budget, changes |-> <<>>]
Change(op, changes) == [op |-> op, budget |-> 0, changes |-> changes]

\* Every command, with one option for those that administer.
MCCommands ==
  {Command("create", 0), Command("create", 8), Command("buy", 8),
   Command("sell", 0),
   Change("update-config", [fees |-> [protocol |-> 0, creator |-> 1]]),
   Change("pause", [tradingPaused |-> TRUE])}

\* What the proof about quotes asks of the widths.
ASSUME MCRoom == RoomToTrade(8)

=============================================================================
