----------------------------- MODULE MCTrading -----------------------------
(***************************************************************************)
(* Small instances of Trading.                                              *)
(***************************************************************************)
EXTENDS TradingRefinement, TLC

CONSTANTS u1, u2, u3, c1, t1, t2, r1, r2, r3, r4, q1, q2, s1, s2

TwoUsers == {u1, u2}
ThreeUsers == {u1, u2, u3}
OneCommodity == {c1}
OneUser == {u1}
OneTrade == {t1}
TwoTrades == {t1, t2}
TwoRows == {r1, r2}
ThreeRows == {r1, r2, r3}
FourRows == {r1, r2, r3, r4}
OneRequest == {q1}
TwoRequests == {q1, q2}
OneSweep == {s1}
TwoSweeps == {s1, s2}
NoAccountValue == <<NoUser, NoCommodity>>

\* Workers and primary keys are interchangeable, and so are users who are all
\* registered from the start.
Symmetry == Permutations(Rows) \cup Permutations(Requests) \cup Permutations(Trades)
            \cup Permutations(Users)

\* For the liveness run: both trades are proposed already, t1 by its seller u1, t2
\* in the same or in the opposite direction, by its seller too; both balances
\* are open.  Each of these states is one that Spec reaches from Init.
Proposed(seller, buyer, creator) ==
  [status |-> "pending", seller |-> seller, buyer |-> buyer, creator |-> creator,
   commodity |-> c1, volume |-> 1, expires |-> TRUE, level |-> 0]

ProposedInit ==
  /\ registered = Users
  /\ \E seller \in Users :
       trade = t1 :> Proposed(u1, u2, u1) @@
               t2 :> Proposed(seller, CHOOSE u \in Users : u # seller, seller)
  /\ overdue = {}
  /\ notices = [t \in Trades |-> [k \in Notices |-> IF k = "pending" THEN 1 ELSE 0]]
  /\ produced = [a \in Accounts |-> 0] /\ sources = [a \in Accounts |-> {}]
  /\ rowOf = r1 :> <<u1, c1>> @@ r2 :> <<u2, c1>>
  /\ volume = [r \in Rows |-> 0] /\ lockedBy = [r \in Rows |-> NoRequest]
  /\ pc = [w \in Requests |-> "idle"]
  /\ onTrade = [w \in Requests |-> NoTrade] /\ lot = [w \in Requests |-> NoLot]
  /\ want = [w \in Requests |-> {}] /\ fresh = [w \in Requests |-> {}]
  /\ row = [w \in Requests |-> [s \in Sides |-> NoRow]]
  /\ seen = [w \in Requests |-> [s \in Sides |-> 0]]
  /\ batch = [s \in Sweeps |-> {}]

ProposedLiveSpec == ProposedInit /\ [][Next]_vars /\ Fairness

=============================================================================
