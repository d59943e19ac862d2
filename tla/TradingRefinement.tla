-------------------------- MODULE TradingRefinement --------------------------
(***************************************************************************)
(* Trading implements TradeLedger as long as the overlaps named in Races    *)
(* do not happen.                                                           *)
(***************************************************************************)
EXTENDS Trading

\* The balance get_or_create would load for an account.
Shown(a) ==
  IF Visible(a) = {} THEN 0 ELSE volume[CHOOSE r \in Rows : Visible(a) = {r}]

\* What the ledger keeps of a trade: not who created it nor when it expires.
Deal(t) == [status |-> trade[t].status, seller |-> trade[t].seller, buyer |-> trade[t].buyer,
            commodity |-> trade[t].commodity, volume |-> trade[t].volume, level |-> trade[t].level]

Ledger == INSTANCE TradeLedger WITH
  deal <- [t \in Trades |-> Deal(t)],
  balance <- [a \in Accounts |-> Shown(a)]

\* Each request takes effect at one moment, its commit: reading the trade before
\* the transaction, locking the two balances one after the other and opening rows
\* on the way are invisible, and so is a request that fails or dies.
ImplementsLedger == Ledger!Spec

=============================================================================
