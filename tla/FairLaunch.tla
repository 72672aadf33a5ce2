----------------------------- MODULE FairLaunch -----------------------------
(***************************************************************************)
(* What a launch promises to the people who buy the token, whatever the    *)
(* price curve, the fees, the administrator and Raydium do.  Each token    *)
(* has an allotment offered to the public and an escrow of the SOL it      *)
(* raised.  SOL enters the escrow only for tokens, leaves it only for      *)
(* tokens handed back, and goes away as a whole only to the pool, once,    *)
(* after the allotment is sold out.  Tokens never affect one another.      *)
(***************************************************************************)
EXTENDS Integers

CONSTANT Mints

VARIABLES
  phase,      \* "Planned", "Open", "SoldOut" or "Graduated"
  allotment,  \* tokens offered to the public
  sold,       \* tokens of the allotment in the hands of the public
  escrow      \* lamports raised for them

vars == <<phase, allotment, sold, escrow>>

Init ==
  /\ phase = [m \in Mints |-> "Planned"]
  /\ allotment = [m \in Mints |-> 0]
  /\ sold = [m \in Mints |-> 0]
  /\ escrow = [m \in Mints |-> 0]

Offer(m) ==
  /\ phase[m] = "Planned"
  /\ allotment'[m] > 0
  /\ phase' = [phase EXCEPT ![m] = "Open"]
  /\ allotment' = [allotment EXCEPT ![m] = allotment'[m]]
  /\ UNCHANGED <<sold, escrow>>

Invest(m) ==
  /\ phase[m] = "Open"
  /\ sold'[m] \in sold[m] + 1 .. allotment[m]
  /\ escrow'[m] > escrow[m]
  /\ phase' = [phase EXCEPT ![m] = IF sold'[m] = allotment[m] THEN "SoldOut"
                                                              ELSE @]
  /\ sold' = [sold EXCEPT ![m] = sold'[m]]
  /\ escrow' = [escrow EXCEPT ![m] = escrow'[m]]
  /\ UNCHANGED allotment

Exit(m) ==
  /\ phase[m] \in {"Open", "SoldOut"}
  /\ sold'[m] \in 0 .. sold[m] - 1
  /\ escrow'[m] \in 0 .. escrow[m] - 1
  /\ phase' = [phase EXCEPT ![m] = "Open"]
  /\ sold' = [sold EXCEPT ![m] = sold'[m]]
  /\ escrow' = [escrow EXCEPT ![m] = escrow'[m]]
  /\ UNCHANGED allotment

Graduate(m) ==
  /\ phase[m] = "SoldOut"
  /\ escrow[m] > 0
  /\ phase' = [phase EXCEPT ![m] = "Graduated"]
  /\ escrow' = [escrow EXCEPT ![m] = 0]
  /\ UNCHANGED <<allotment, sold>>

Next == \E m \in Mints : Offer(m) \/ Invest(m) \/ Exit(m) \/ Graduate(m)

Spec == Init /\ [][Next]_vars

=============================================================================
