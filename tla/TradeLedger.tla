----------------------------- MODULE TradeLedger -----------------------------
(***************************************************************************)
(* What the trading endpoints promise, without workers, locks or rows: a    *)
(* ledger in which a trade is proposed once and closed once, and whatever   *)
(* closing it changes - both balances, the seller's automatic purchase, the *)
(* traceability handed on - changes in one step.                            *)
(***************************************************************************)
EXTENDS Integers, FiniteSetsExt

CONSTANTS Users, Commodities, Trades, Volumes, Levels, NoUser, NoCommodity

VARIABLES
  deal,       \* each trade: status, parties, commodity, volume, level
  balance,    \* what each account holds
  produced,   \* what its producer transactions brought
  sources     \* their traceability levels

vars == <<deal, balance, produced, sources>>

Accounts == Users \X Commodities
Incomplete == 1

NoDeal == [status |-> "none", seller |-> NoUser, buyer |-> NoUser,
           commodity |-> NoCommodity, volume |-> 0, level |-> 0]

Side(t, side) == <<deal[t][side], deal[t].commodity>>

Purchases(a) ==
  sources[a] \cup {deal[t].level : t \in {x \in Trades : deal[x].status = "accepted"
                                                      /\ Side(x, "buyer") = a}}

Init ==
  /\ deal = [t \in Trades |-> NoDeal]
  /\ balance = [a \in Accounts |-> 0]
  /\ produced = [a \in Accounts |-> 0]
  /\ sources = [a \in Accounts |-> {}]

Propose(t, s, b, c, v) ==
  /\ deal[t] = NoDeal /\ s # b
  /\ deal' = [deal EXCEPT ![t] = [status |-> "pending", seller |-> s, buyer |-> b,
                                  commodity |-> c, volume |-> v, level |-> 0]]
  /\ UNCHANGED <<balance, produced, sources>>

\* The seller buys automatically, untraced, exactly what it lacks; the buyer
\* inherits the worst level among all the seller has bought by then.
Accept(t) ==
  LET s == Side(t, "seller")
      short == deal[t].volume - balance[s]
      bought == IF short > 0 THEN short ELSE 0
      levels == Purchases(s) \cup (IF short > 0 THEN {Incomplete} ELSE {})
  IN /\ deal[t].status = "pending"
     /\ {s, Side(t, "buyer")} \subseteq Accounts
     /\ balance' = [balance EXCEPT ![s] = @ + bought - deal[t].volume,
                                   ![Side(t, "buyer")] = @ + deal[t].volume]
     /\ produced' = [produced EXCEPT ![s] = @ + bought]
     /\ sources' = [sources EXCEPT ![s] = IF short > 0 THEN @ \cup {Incomplete} ELSE @]
     /\ deal' = [deal EXCEPT ![t].status = "accepted",
                             ![t].level = IF levels = {} THEN Incomplete ELSE Min(levels)]

Close(t, status) ==
  /\ deal[t].status = "pending"
  /\ deal' = [deal EXCEPT ![t].status = status]
  /\ UNCHANGED <<balance, produced, sources>>

Produce(a, v, l) ==
  /\ balance' = [balance EXCEPT ![a] = @ + v]
  /\ produced' = [produced EXCEPT ![a] = @ + v]
  /\ sources' = [sources EXCEPT ![a] = @ \cup {l}]
  /\ UNCHANGED deal

Next ==
  \/ \E t \in Trades :
       \/ \E s, b \in Users \cup {NoUser}, c \in Commodities, v \in Volumes : Propose(t, s, b, c, v)
       \/ Accept(t)
       \/ \E status \in {"rejected", "no_response"} : Close(t, status)
  \/ \E a \in Accounts, v \in Volumes, l \in Levels : Produce(a, v, l)

Spec == Init /\ [][Next]_vars

=============================================================================
