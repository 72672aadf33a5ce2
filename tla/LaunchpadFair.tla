--------------------------- MODULE LaunchpadFair ---------------------------
(***************************************************************************)
(* Launchpad implements FairLaunch: the mapping of the program's accounts  *)
(* to what the public is promised.                                         *)
(***************************************************************************)
EXTENDS Launchpad

phaseBar ==
  [m \in Mints |->
     CASE curve[m].status = "Absent"   -> "Planned"
       [] curve[m].status = "Trading"  -> "Open"
       [] curve[m].status = "Complete" -> "SoldOut"
       [] OTHER                        -> "Graduated"]

allotmentBar ==
  [m \in Mints |-> IF curve[m].status = "Absent" THEN 0 ELSE launch[m].rt]

\* migrate empties rt, as the sale of the last token did before it.
soldBar ==
  [m \in Mints |->
     IF curve[m].status = "Absent" THEN 0 ELSE launch[m].rt - curve[m].rt]

escrowBar == [m \in Mints |-> curve[m].rs]

Fair == INSTANCE FairLaunch
          WITH phase <- phaseBar, allotment <- allotmentBar,
               sold <- soldBar, escrow <- escrowBar

\* The SOL a launch raises leaves its curve only against tokens sold back or,
\* once everything is sold, as a whole at graduation; no instruction on one
\* token, and no change of the configuration or of Raydium, moves the SOL of
\* another (README, "the admin cannot touch the SOL of the curves").
ImplementsFairLaunch == Fair!Spec

=============================================================================
