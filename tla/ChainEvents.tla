---------------------------- MODULE ChainEvents ----------------------------
(***************************************************************************)
(* The program as the backend sees it: transactions, in chain order, with  *)
(* the events each instruction emits and what it leaves on chain.  Of the  *)
(* reserves only left, the tokens still for sale, is kept: Launchpad shows *)
(* that it determines the others.  Amounts of SOL are counted as the       *)
(* tokens they pay for.                                                    *)
(***************************************************************************)
EXTENDS Naturals, Sequences

CONSTANTS
  Mints,    \* the tokens that may be launched
  Stock     \* tokens a launch puts on sale

ASSUME ChainEventsAssumption == Stock \in Nat \ {0}

-----------------------------------------------------------------------------

TokenStatus == {"none", "trading", "complete", "migrated"}

\* What the chain knows of a token: besides the curve, the trades so far.
Token == [status : TokenStatus, left : 0 .. Stock, trades : Nat, volume : Nat]

NoToken == [status |-> "none", left |-> 0, trades |-> 0, volume |-> 0]

Event(name, m, left, amount) ==
  [name |-> name, mint |-> m, left |-> left, amount |-> amount]

\* One instruction: the events it emits, and the tokens after it.
Effect(t, m, token, events) ==
  [events |-> events, after |-> [t EXCEPT ![m] = token]]

Creation(t, m) ==
  Effect(t, m, [NoToken EXCEPT !.status = "trading", !.left = Stock],
         <<Event("tokenCreated", m, Stock, 0)>>)

Purchase(t, m, n) ==
  LET left == t[m].left - n
      last == left = 0
  IN Effect(t, m,
            [t[m] EXCEPT !.left = left, !.trades = @ + 1, !.volume = @ + n,
                         !.status = IF last THEN "complete" ELSE @],
            <<Event("trade", m, left, n)>>
              \o IF last THEN <<Event("curveCompleted", m, 0, 0)>> ELSE <<>>)

Sale(t, m, n) ==
  LET left == t[m].left + n
      reopened == t[m].status = "complete"
  IN Effect(t, m,
            [t[m] EXCEPT !.left = left, !.trades = @ + 1, !.volume = @ + n,
                         !.status = "trading"],
            (IF reopened THEN <<Event("curveReopened", m, 0, 0)>> ELSE <<>>)
              \o <<Event("trade", m, left, n)>>)

Graduation(t, m) ==
  Effect(t, m, [t[m] EXCEPT !.status = "migrated"],
         <<Event("migrated", m, 0, 0)>>)

\* What one instruction on m may do when the tokens are t.  The clock is not
\* modelled: a complete curve may always have been stuck for long enough.
Instructions(t, m) ==
  CASE t[m].status = "none"     -> {Creation(t, m)}
    [] t[m].status = "trading"  ->
         {Purchase(t, m, n) : n \in 1 .. t[m].left}
           \cup {Sale(t, m, n) : n \in 1 .. Stock - t[m].left}
    [] t[m].status = "complete" ->
         {Sale(t, m, n) : n \in 1 .. Stock} \cup {Graduation(t, m)}
    [] OTHER                    -> {}

\* A transaction may hold several instructions: the launch of the SDK appends
\* the creator's first buy, and anyone may trade twice in one transaction.
Pairs(t, m) ==
  UNION {{[second EXCEPT !.events = first.events \o @] :
            second \in Instructions(first.after, m)} :
         first \in Instructions(t, m)}

Succeeding(t) ==
  {[failed |-> FALSE, events |-> e.events, after |-> e.after] :
     e \in UNION {Instructions(t, m) \cup Pairs(t, m) : m \in Mints}}

\* A transaction that failed is listed with the others and changed nothing; one
\* that claims fees or changes the configuration has no event of a token.
Failing(t) == [failed |-> TRUE, events |-> <<>>, after |-> t]
Unrelated(t) == [failed |-> FALSE, events |-> <<>>, after |-> t]

Transactions(t) == Succeeding(t) \cup {Failing(t), Unrelated(t)}

=============================================================================
