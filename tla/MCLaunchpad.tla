---------------------------- MODULE MCLaunchpad ----------------------------
(***************************************************************************)
(* Small instances of Launchpad for TLC.  A basis point is a tenth here    *)
(* (BPS = 10), so fees of 20% to 50% round visibly at every trade.         *)
(***************************************************************************)
EXTENDS LaunchpadFair, TLC

Terms(vs, vt, rt, supply, protocol, creator, fee, a) ==
  [vs |-> vs, vt |-> vt, rt |-> rt, supply |-> supply,
   fees |-> [protocol |-> protocol, creator |-> creator],
   migrationFee |-> fee, ammConfig |-> a]

Open(cost) == [open |-> TRUE, cost |-> cost]
Closed == [open |-> FALSE, cost |-> 0]

\* One token under one configuration: long trading histories, gifts, the
\* timeout and a Raydium that opens and closes.  The supply kept for the pool is
\* the least validate accepts, and a graduation costs a lamport per trade.
\* (The second parameters keep less than that and the third raise too little:
\* validate refuses both.)
OneConfig == {Terms(4, 20, 12, 17, 2, 3, 2, "standard"),
              Terms(4, 20, 12, 13, 2, 3, 2, "standard"),
              Terms(2, 20, 12, 17, 2, 3, 2, "standard")}
OpenOrClosed == {Open(2), Closed}

\* Two tokens, and an administrator who changes the fees, the migration fee,
\* the price curve and the Raydium fee tier between the steps of both.  The
\* third terms reach the width of the integers in two trades; the last ones
\* raise too little for the pool, and validate refuses them.
ManyConfigs == {Terms(6, 8, 5, 9, 2, 3, 2, "standard"),
                Terms(5, 5, 3, 6, 0, 2, 1, "other"),
                Terms(12, 8, 5, 9, 0, 0, 0, "standard"),
                Terms(2, 8, 5, 9, 0, 0, 0, "standard")}
AlwaysOpen == {Open(1)}

\* A curve that sells all but one of its virtual tokens: its final price is so
\* high that the SOL it raised is not worth a token.
Steep == {Terms(5, 4, 3, 4, 0, 0, 2, "standard")}

\* The mints are interchangeable.
MintSymmetry == Permutations(Mints)

=============================================================================
