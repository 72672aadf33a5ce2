------------------------------- MODULE Mirror -------------------------------
(***************************************************************************)
(* What a database that follows a chain promises to whoever reads it,      *)
(* whatever the node, the process and the machine go through.  It is a     *)
(* copy of all the tokens as they were at one and the same moment of the   *)
(* chain, never a mixture of two; it moves on with the chain one           *)
(* transaction at a time and skips none; only an outage, a loss of power,  *)
(* throws it back to an earlier moment.                                    *)
(***************************************************************************)
EXTENDS Naturals, Sequences

CONSTANT Blank   \* the tokens before the first transaction

VARIABLES
  past,       \* the tokens after each transaction so far
  position,   \* how many of the transactions the copy has followed
  copy,       \* what a reader finds
  outage      \* power has been lost

vars == <<past, position, copy, outage>>

Moment(n) == IF n = 0 THEN Blank ELSE past[n]

Init ==
  /\ past = <<>>
  /\ position = 0
  /\ copy = Blank
  /\ outage = FALSE

Grow ==
  /\ Len(past') = Len(past) + 1
  /\ SubSeq(past', 1, Len(past)) = past
  /\ UNCHANGED <<position, copy, outage>>

Follow ==
  /\ position < Len(past)
  /\ position' = position + 1
  /\ copy' = Moment(position + 1)
  /\ UNCHANGED <<past, outage>>

FallBack ==
  /\ position' \in 0 .. position
  /\ copy' = Moment(position')
  /\ outage' = TRUE
  /\ UNCHANGED past

Next == Grow \/ Follow \/ FallBack

Spec == Init /\ [][Next]_vars

=============================================================================
