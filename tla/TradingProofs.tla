---------------------------- MODULE TradingProofs ----------------------------
(***************************************************************************)
(* What Trading guarantees for any number of users, commodities, trades,    *)
(* balance rows, workers and tasks.                                         *)
(***************************************************************************)
EXTENDS Trading, TLAPS

\* create_downstream fills the row once: its creator is one of two different
\* parties, the other may be missing.
TradeShape ==
  \A t \in Trades : trade[t].status # "none" =>
    /\ trade[t].commodity \in Commodities /\ trade[t].creator \in Users
    /\ \/ trade[t].seller = trade[t].creator /\ trade[t].buyer # trade[t].creator
       \/ trade[t].buyer = trade[t].creator /\ trade[t].seller # trade[t].creator

\* What a request has in hand at each of its steps.
InHand(w) ==
  /\ pc[w] \in Accepting => /\ onTrade[w] \in Trades
                            /\ trade[onTrade[w]].buyer \in Users
                            /\ trade[onTrade[w]].seller \in Users
                            /\ trade[onTrade[w]].status # "none"
  /\ pc[w] \in {"reject", "resend"} => /\ onTrade[w] \in Trades
                                       /\ trade[onTrade[w]].status # "none"
  /\ pc[w] \in Producing => lot[w].account \in Accounts /\ lot[w].level \in 1..4
  /\ pc[w] \in {"produce", "ask_seller", "lock_seller", "accept"} => row[w]["buyer"] \in Rows
  /\ pc[w] = "accept" => row[w]["seller"] \in Rows

RequestShape == \A w \in Requests : InHand(w)

\* A task only visits trades that exist.
BatchShape == \A s \in Sweeps : \A t \in batch[s] \cup overdue : trade[t].status # "none"

Shape == TypeOK /\ TradeShape /\ RequestShape /\ BatchShape /\ OnlyPendingExpires

-----------------------------------------------------------------------------
LEMMA InitShape == Init => Shape
  <1> SUFFICES ASSUME Init PROVE Shape
    OBVIOUS
  <1>1. TypeOK
    BY KnownAssumption DEF Init, TypeOK, TradeRecord, Blank, NoLot, Outcomes, Notices, Steps, Accepting, Producing
  <1>2. TradeShape
    BY DEF Init, TradeShape, Blank
  <1>3. RequestShape
    BY DEF Init, RequestShape, InHand, Accepting, Producing
  <1>4. BatchShape
    BY DEF Init, BatchShape
  <1>5. OnlyPendingExpires
    BY DEF Init, OnlyPendingExpires, Blank
  <1> QED BY <1>1, <1>2, <1>3, <1>4, <1>5 DEF Shape

\* The smallest member of a set of levels is one of them.
LEMMA MinLevel ==
  ASSUME NEW S \in SUBSET (0..4)
  PROVE  DownstreamTraceability(S) \in 0..4 /\ DownstreamTraceability(S) \in S \cup {Incomplete}
  <1>1. CASE S = {}
    BY <1>1 DEF DownstreamTraceability, Incomplete
  <1>2. CASE S # {}
    <2>1. \E x \in S : \A y \in S : x =< y
      <3>1. \A x \in S : x \in {0, 1, 2, 3, 4}
        OBVIOUS
      <3>2. CASE 0 \in S
        BY <3>1, <3>2
      <3>3. CASE 0 \notin S /\ 1 \in S
        BY <3>1, <3>3
      <3>4. CASE 0 \notin S /\ 1 \notin S /\ 2 \in S
        BY <3>1, <3>4
      <3>5. CASE 0 \notin S /\ 1 \notin S /\ 2 \notin S /\ 3 \in S
        BY <3>1, <3>5
      <3>6. CASE 0 \notin S /\ 1 \notin S /\ 2 \notin S /\ 3 \notin S
        <4>1. PICK x \in S : TRUE
          BY <1>2
        <4>2. S = {4}
          BY <3>1, <3>6, <4>1
        <4> QED BY <4>2
      <3> QED BY <3>2, <3>3, <3>4, <3>5, <3>6
    <2>2. Min(S) \in S
      BY <2>1 DEF Min
    <2> QED BY <1>2, <2>2 DEF DownstreamTraceability
  <1> QED BY <1>1, <1>2

\* A step creates or settles trades, but changes none of what was agreed.
SameTerms ==
  \A x \in Trades : trade[x].status # "none" =>
    /\ trade'[x].buyer = trade[x].buyer /\ trade'[x].seller = trade[x].seller
    /\ trade'[x].commodity = trade[x].commodity /\ trade'[x].volume = trade[x].volume
    /\ trade'[x].status # "none"

\* A trade, once created, keeps its parties; settling it keeps the tables typed.
LEMMA SettleShape ==
  ASSUME Shape, NEW t \in Trades, trade[t].status # "none",
         NEW status \in Outcomes, NEW level \in 0..4,
         Settle(t, status, level)
  PROVE  /\ trade' \in [Trades -> TradeRecord]
         /\ overdue' \subseteq Trades
         /\ notices' \in [Trades -> [Notices -> Nat]]
         /\ TradeShape' /\ OnlyPendingExpires'
         /\ SameTerms
  <1>1. TypeOK /\ TradeShape /\ OnlyPendingExpires
    BY DEF Shape
  <1>2. trade \in [Trades -> TradeRecord] /\ notices \in [Trades -> [Notices -> Nat]]
        /\ overdue \subseteq Trades
    BY <1>1 DEF TypeOK
  <1> DEFINE new == [trade[t] EXCEPT !.status = status, !.expires = FALSE, !.level = level]
  <1>3. /\ new \in TradeRecord /\ new.status = status /\ new.expires = FALSE
        /\ new.buyer = trade[t].buyer /\ new.seller = trade[t].seller
        /\ new.creator = trade[t].creator /\ new.commodity = trade[t].commodity
        /\ new.volume = trade[t].volume
    BY <1>2 DEF TradeRecord
  <1> HIDE DEF new
  <1>4. trade' = [trade EXCEPT ![t] = new]
    BY DEF Settle, new
  <1>5. trade' \in [Trades -> TradeRecord]
    BY <1>2, <1>3, <1>4
  <1>6. overdue' \subseteq Trades /\ notices' \in [Trades -> [Notices -> Nat]]
    <2> DEFINE told == [notices[t] EXCEPT ![status] = @ + 1]
    <2>1. status \in Notices
      BY DEF Notices
    <2>2. notices[t] \in [Notices -> Nat]
      BY <1>2
    <2>3. told \in [Notices -> Nat]
      BY <2>1, <2>2
    <2>4. notices' = [notices EXCEPT ![t] = told] /\ overdue' = overdue \ {t}
      BY DEF Settle
    <2> HIDE DEF told
    <2> QED BY <1>2, <2>3, <2>4
  <1>7. \A x \in Trades : /\ trade'[x].buyer = trade[x].buyer
                          /\ trade'[x].seller = trade[x].seller
                          /\ trade'[x].creator = trade[x].creator
                          /\ trade'[x].commodity = trade[x].commodity
                          /\ trade'[x].volume = trade[x].volume
                          /\ trade[x].status # "none" => trade'[x].status # "none"
                          /\ trade'[x].status # "none" => trade[x].status # "none"
    BY <1>2, <1>3, <1>4 DEF Outcomes
  <1>8. TradeShape'
    BY <1>1, <1>7 DEF TradeShape
  <1>9. OnlyPendingExpires'
    BY <1>1, <1>2, <1>3, <1>4 DEF OnlyPendingExpires, Settle, Outcomes
  <1> QED BY <1>5, <1>6, <1>7, <1>8, <1>9 DEF SameTerms

-----------------------------------------------------------------------------
\* The types of what a request keeps to itself, and of the locks.
LocalTypes ==
  /\ lockedBy \in [Rows -> Requests \cup {NoRequest}]
  /\ pc \in [Requests -> Steps]
  /\ onTrade \in [Requests -> Trades \cup {NoTrade}]
  /\ lot \in [Requests -> [account : Accounts \cup {NoAccount}, volume : Nat, level : 0..4]]
  /\ want \in [Requests -> SUBSET Rows] /\ fresh \in [Requests -> SUBSET Rows]
  /\ row \in [Requests -> [Sides -> Rows \cup {NoRow}]]
  /\ seen \in [Requests -> [Sides -> Int]]

\* A step leaves request x alone.
SameRequest(x) ==
  /\ pc'[x] = pc[x] /\ onTrade'[x] = onTrade[x] /\ lot'[x] = lot[x]
  /\ want'[x] = want[x] /\ fresh'[x] = fresh[x]
  /\ row'[x] = row[x] /\ seen'[x] = seen[x]

LEMMA LeaveTypes ==
  ASSUME TypeOK, NEW w \in Requests, Leave(w)
  PROVE  /\ LocalTypes' /\ pc'[w] = "idle" /\ InHand(w)'
         /\ \A x \in Requests \ {w} : SameRequest(x)
  <1>1. /\ NoLot \in [account : Accounts \cup {NoAccount}, volume : Nat, level : 0..4]
        /\ [s \in Sides |-> NoRow] \in [Sides -> Rows \cup {NoRow}]
        /\ [s \in Sides |-> 0] \in [Sides -> Int]
        /\ "idle" \in Steps
    BY DEF NoLot, Steps
  <1>2. LocalTypes'
    BY <1>1 DEF Leave, TypeOK, LocalTypes
  <1>3. pc'[w] = "idle"
    BY DEF Leave, TypeOK
  <1>4. InHand(w)'
    BY <1>3 DEF InHand, Accepting, Producing
  <1>5. \A x \in Requests \ {w} : SameRequest(x)
    BY DEF Leave, TypeOK, SameRequest
  <1> QED BY <1>2, <1>3, <1>4, <1>5

\* A step of one request that keeps the terms of every trade keeps the others in
\* shape.
LEMMA OthersInHand ==
  ASSUME RequestShape, SameTerms, NEW w, InHand(w)',
         \A x \in Requests \ {w} : SameRequest(x)
  PROVE  RequestShape'
  <1> SUFFICES ASSUME NEW x \in Requests, x # w
               PROVE  InHand(x)'
    BY DEF RequestShape
  <1> QED BY DEF RequestShape, SameTerms, SameRequest, InHand

LEMMA UnchangedInHand ==
  ASSUME RequestShape, SameTerms, UNCHANGED locals
  PROVE  RequestShape'
  BY DEF RequestShape, InHand, SameTerms, locals

LEMMA TermsKept ==
  ASSUME UNCHANGED trade
  PROVE  SameTerms
  BY DEF SameTerms

-----------------------------------------------------------------------------
LEMMA CreateShape ==
  ASSUME Shape, Create
  PROVE  Shape'
  <1> PICK u \in Users, recipient \in Users \cup {NoUser}, selling \in BOOLEAN,
           c \in Commodities, v \in Volumes, t \in Trades :
             CreateDownstream(u, recipient, selling, c, v, t)
    BY DEF Create
  <1> USE DEF CreateDownstream
  <1>1. TypeOK /\ TradeShape /\ RequestShape /\ BatchShape /\ OnlyPendingExpires
    BY DEF Shape
  <1> DEFINE new == [status |-> "pending", creator |-> u, commodity |-> c, volume |-> v,
                     seller |-> IF selling THEN u ELSE recipient,
                     buyer |-> IF selling THEN recipient ELSE u,
                     expires |-> TRUE, level |-> 0]
  <1>2. new \in TradeRecord /\ trade' = [trade EXCEPT ![t] = new]
    BY VolumeAssumption DEF TradeRecord
  <1>3. SameTerms
    BY <1>1, <1>2 DEF SameTerms, TypeOK, Blank
  <1>4. TypeOK'
    <2>1. trade' \in [Trades -> TradeRecord]
      BY <1>1, <1>2 DEF TypeOK
    <2>2. notices' \in [Trades -> [Notices -> Nat]]
      <3>1. CASE recipient = NoUser
        BY <1>1, <3>1 DEF TypeOK
      <3>2. CASE recipient # NoUser
        <4> DEFINE told == [notices[t] EXCEPT !["pending"] = @ + 1]
        <4>1. told \in [Notices -> Nat]
          BY <1>1 DEF TypeOK, Notices
        <4>2. notices' = [notices EXCEPT ![t] = told]
          BY <3>2
        <4> HIDE DEF told
        <4> QED BY <1>1, <4>1, <4>2 DEF TypeOK
      <3> QED BY <3>1, <3>2
    <2>3. registered' \subseteq Users
      BY <1>1 DEF TypeOK
    <2> QED BY <1>1, <2>1, <2>2, <2>3 DEF TypeOK, locals
  <1>5. TradeShape'
    BY <1>1, <1>2 DEF TradeShape, TypeOK
  <1>6. RequestShape'
    BY <1>1, <1>3, UnchangedInHand
  <1>7. BatchShape'
    BY <1>1, <1>2, <1>3 DEF BatchShape, SameTerms, TypeOK
  <1>8. OnlyPendingExpires'
    BY <1>1, <1>2 DEF OnlyPendingExpires, TypeOK, Blank
  <1> QED BY <1>4, <1>5, <1>6, <1>7, <1>8 DEF Shape

LEMMA TimePassesShape ==
  ASSUME Shape, NEW t \in Trades, TimePasses(t)
  PROVE  Shape'
  <1>1. TypeOK /\ TradeShape /\ RequestShape /\ BatchShape /\ OnlyPendingExpires
    BY DEF Shape
  <1> USE DEF TimePasses
  <1>2. TypeOK' /\ TradeShape'
    BY <1>1 DEF TypeOK, TradeShape, locals
  <1>3. RequestShape'
    BY <1>1, TermsKept, UnchangedInHand
  <1>4. BatchShape' /\ OnlyPendingExpires'
    BY <1>1 DEF BatchShape, OnlyPendingExpires
  <1> QED BY <1>2, <1>3, <1>4 DEF Shape

\* A step of request w that leaves the tables of trades alone.
LEMMA RequestStepShape ==
  ASSUME Shape, NEW w \in Requests, LocalTypes', InHand(w)',
         \A x \in Requests \ {w} : SameRequest(x),
         registered' \subseteq Users,
         notices' \in [Trades -> [Notices -> Nat]],
         produced' \in [Accounts -> Int], sources' \in [Accounts -> SUBSET (1..4)],
         rowOf' \in [Rows -> Accounts \cup {NoAccount}],
         volume' \in [Rows -> Int],
         UNCHANGED <<trade, overdue, batch>>
  PROVE  Shape'
  <1>1. TypeOK /\ TradeShape /\ RequestShape /\ BatchShape /\ OnlyPendingExpires
    BY DEF Shape
  <1>2. TypeOK'
    BY <1>1 DEF TypeOK, LocalTypes
  <1>3. TradeShape' /\ BatchShape' /\ OnlyPendingExpires'
    BY <1>1 DEF TradeShape, BatchShape, OnlyPendingExpires
  <1>4. RequestShape'
    BY <1>1, TermsKept, OthersInHand
  <1> QED BY <1>2, <1>3, <1>4 DEF Shape

LEMMA RollbackShape ==
  ASSUME Shape, NEW w \in Requests, Rollback(w)
  PROVE  Shape'
  <1>1. TypeOK
    BY DEF Shape
  <1>2. /\ LocalTypes' /\ InHand(w)'
        /\ \A x \in Requests \ {w} : SameRequest(x)
    BY <1>1, LeaveTypes DEF Rollback
  <1>3. rowOf' \in [Rows -> Accounts \cup {NoAccount}]
    BY <1>1 DEF Rollback, TypeOK
  <1> QED BY <1>1, <1>2, <1>3, RequestStepShape DEF Rollback, TypeOK

LEMMA StartShape ==
  ASSUME Shape, NEW w \in Requests, NEW t \in Trades,
         NEW next \in {"ask_buyer", "reject", "resend"}, Start(w, t, next),
         trade[t].status # "none",
         next = "ask_buyer" => trade[t].buyer \in Users /\ trade[t].seller \in Users
  PROVE  Shape'
  <1>1. TypeOK
    BY DEF Shape
  <1>2. next \in Steps
    BY DEF Steps, Accepting
  <1>3. LocalTypes' /\ \A x \in Requests \ {w} : SameRequest(x)
    BY <1>1, <1>2 DEF Start, TypeOK, LocalTypes, SameRequest
  <1>4. pc'[w] = next /\ onTrade'[w] = t /\ trade' = trade
    BY <1>1 DEF Start, TypeOK, tables
  <1>5. InHand(w)'
    BY <1>4 DEF InHand, Accepting, Producing
  <1> QED BY <1>1, <1>3, <1>5, RequestStepShape DEF Start, TypeOK, tables

LEMMA BeginTradeShape ==
  ASSUME Shape, NEW w \in Requests, NEW u \in Users, NEW t \in Trades,
         AcceptRead(w, u, t) \/ RejectRead(w, u, t) \/ ResendRead(w, u, t)
  PROVE  Shape'
  <1>1. TypeOK /\ TradeShape
    BY DEF Shape
  <1>2. CASE AcceptRead(w, u, t)
    <2>1. u \in Parties(t) /\ trade[t].status = "pending" /\ u # trade[t].creator
      BY <1>2 DEF AcceptRead, Incoming
    <2>2. trade[t].buyer \in Users /\ trade[t].seller \in Users
      BY <1>1, <2>1 DEF TradeShape, Parties
    <2> QED BY <1>2, <2>1, <2>2, StartShape DEF AcceptRead
  <1>3. CASE RejectRead(w, u, t)
    BY <1>3, StartShape DEF RejectRead, Incoming
  <1>4. CASE ResendRead(w, u, t)
    BY <1>4, StartShape DEF ResendRead
  <1> QED BY <1>2, <1>3, <1>4

LEMMA AskRowShape ==
  ASSUME Shape, NEW w \in Requests, NEW side \in Sides, AskRow(w, side)
  PROVE  Shape'
  <1>1. TypeOK /\ RequestShape
    BY DEF Shape
  <1> DEFINE next == IF side = "buyer" THEN "lock_buyer" ELSE "lock_seller"
             found == Visible(AccountOf(onTrade[w], side))
  <1>2. next \in Steps /\ found \subseteq Rows
    BY DEF Steps, Accepting, Visible
  <1> HIDE DEF found
  <1>3. pc' = [pc EXCEPT ![w] = next] /\ want' = [want EXCEPT ![w] = found]
    BY DEF AskRow, found
  <1>4. LocalTypes' /\ \A x \in Requests \ {w} : SameRequest(x)
    BY <1>1, <1>2, <1>3 DEF AskRow, TypeOK, LocalTypes, SameRequest
  <1>5. InHand(w)'
    BY <1>1, <1>3 DEF InHand, RequestShape, TypeOK, AskRow, tables, Accepting, Producing
  <1> QED BY <1>1, <1>4, <1>5, RequestStepShape DEF AskRow, TypeOK, tables

LEMMA LoadShape ==
  ASSUME TypeOK, RequestShape, NEW w \in Requests, NEW side \in Sides, NEW r \in Rows,
         NEW v \in Int, Locking(w, side), Load(w, side, r, v),
         fresh' \in [Requests -> SUBSET Rows],
         \A x \in Requests \ {w} : fresh'[x] = fresh[x]
  PROVE  /\ LocalTypes' /\ InHand(w)'
         /\ \A x \in Requests \ {w} : SameRequest(x)
  <1> DEFINE next == IF side = "buyer" THEN "ask_seller" ELSE "accept"
             rows == [row[w] EXCEPT ![side] = r]
             copies == [seen[w] EXCEPT ![side] = v]
  <1>1. next \in Steps
    BY DEF Steps, Accepting
  <1>2. /\ rows \in [Sides -> Rows \cup {NoRow}] /\ rows[side] = r
        /\ \A s \in Sides \ {side} : rows[s] = row[w][s]
    BY DEF TypeOK
  <1>3. copies \in [Sides -> Int]
    BY DEF TypeOK
  <1> HIDE DEF rows, copies
  <1>4. /\ pc' = [pc EXCEPT ![w] = next] /\ row' = [row EXCEPT ![w] = rows]
        /\ seen' = [seen EXCEPT ![w] = copies] /\ want' = [want EXCEPT ![w] = {}]
        /\ lockedBy' = [lockedBy EXCEPT ![r] = w]
        /\ UNCHANGED <<trade, onTrade, lot>>
    BY DEF Load, rows, copies
  <1>5. LocalTypes'
    BY <1>1, <1>2, <1>3, <1>4 DEF TypeOK, LocalTypes
  <1>6. \A x \in Requests \ {w} : SameRequest(x)
    BY <1>4 DEF TypeOK, SameRequest
  <1>7. InHand(w)'
    <2>1. pc'[w] = next /\ row'[w] = rows
      BY <1>4 DEF TypeOK
    <2>2. pc[w] \in Accepting /\ (side = "seller" => row[w]["buyer"] \in Rows)
      BY DEF Locking, Accepting, RequestShape, InHand, Sides
    <2>3. /\ onTrade[w] \in Trades /\ trade[onTrade[w]].buyer \in Users
          /\ trade[onTrade[w]].seller \in Users /\ trade[onTrade[w]].status # "none"
      BY <2>2 DEF RequestShape, InHand
    <2>4. rows["buyer"] \in Rows /\ (side = "seller" => rows["seller"] \in Rows)
      BY <1>2, <2>2 DEF Sides
    <2> QED BY <1>4, <2>1, <2>3, <2>4 DEF InHand, Accepting, Producing, Sides
  <1> QED BY <1>5, <1>6, <1>7

LEMMA LockRowShape ==
  ASSUME Shape, NEW w \in Requests, NEW side \in Sides, LockRow(w, side)
  PROVE  Shape'
  <1>1. TypeOK /\ RequestShape
    BY DEF Shape
  <1> PICK r \in Rows : Load(w, side, r, volume[r])
    BY DEF LockRow
  <1>2. volume[r] \in Int /\ Locking(w, side) /\ UNCHANGED <<rowOf, fresh>>
    BY <1>1 DEF LockRow, TypeOK
  <1>3. /\ LocalTypes' /\ InHand(w)'
        /\ \A x \in Requests \ {w} : SameRequest(x)
    BY <1>1, <1>2, LoadShape DEF TypeOK
  <1> QED BY <1>1, <1>2, <1>3, RequestStepShape DEF Load, TypeOK

LEMMA InsertRowShape ==
  ASSUME Shape, NEW w \in Requests, NEW side \in Sides, InsertRow(w, side)
  PROVE  Shape'
  <1>1. TypeOK /\ RequestShape /\ TradeShape
    BY DEF Shape
  <1> PICK r \in Rows : /\ rowOf' = [rowOf EXCEPT ![r] = AccountOf(onTrade[w], side)]
                        /\ fresh' = [fresh EXCEPT ![w] = @ \cup {r}]
                        /\ Load(w, side, r, 0)
    BY DEF InsertRow
  <1>2. fresh' \in [Requests -> SUBSET Rows] /\ \A x \in Requests \ {w} : fresh'[x] = fresh[x]
    BY <1>1 DEF TypeOK
  <1>3. /\ LocalTypes' /\ InHand(w)'
        /\ \A x \in Requests \ {w} : SameRequest(x)
    BY <1>1, <1>2, LoadShape DEF InsertRow
  <1>4. AccountOf(onTrade[w], side) \in Accounts
    <2>1. pc[w] \in Accepting
      BY DEF InsertRow, Locking, Accepting
    <2>2. onTrade[w] \in Trades /\ trade[onTrade[w]].commodity \in Commodities
          /\ trade[onTrade[w]]["buyer"] \in Users /\ trade[onTrade[w]]["seller"] \in Users
      BY <1>1, <2>1 DEF RequestShape, InHand, TradeShape
    <2> QED BY <2>2 DEF AccountOf, Accounts, Sides
  <1>5. rowOf' \in [Rows -> Accounts \cup {NoAccount}]
    BY <1>1, <1>4 DEF TypeOK
  <1> QED BY <1>1, <1>3, <1>5, RequestStepShape DEF Load, TypeOK

\* A step that settles the trade of request w, or of no request, and may write
\* balances and producer transactions.
LEMMA SettlingStepShape ==
  ASSUME Shape, NEW t \in Trades, trade[t].status # "none",
         NEW status \in Outcomes, NEW level \in 0..4, Settle(t, status, level),
         LocalTypes', RequestShape',
         registered' = registered, rowOf' = rowOf,
         produced' \in [Accounts -> Int], sources' \in [Accounts -> SUBSET (1..4)],
         volume' \in [Rows -> Int],
         batch' \in [Sweeps -> SUBSET Trades],
         \A s \in Sweeps : batch'[s] \subseteq batch[s]
  PROVE  Shape'
  <1>1. TypeOK /\ BatchShape
    BY DEF Shape
  <1>2. /\ trade' \in [Trades -> TradeRecord] /\ overdue' \subseteq Trades
        /\ notices' \in [Trades -> [Notices -> Nat]]
        /\ TradeShape' /\ OnlyPendingExpires' /\ SameTerms
    BY SettleShape
  <1>3. TypeOK'
    BY <1>1, <1>2 DEF TypeOK, LocalTypes
  <1>4. BatchShape'
    <2>1. overdue' \subseteq overdue
      BY DEF Settle
    <2> QED BY <1>1, <1>2, <2>1 DEF BatchShape, SameTerms, TypeOK
  <1> QED BY <1>2, <1>3, <1>4 DEF Shape

LEMMA AcceptCommitShape ==
  ASSUME Shape, NEW w \in Requests, AcceptCommit(w)
  PROVE  Shape'
  <1>1. TypeOK /\ RequestShape /\ TradeShape
    BY DEF Shape
  <1> DEFINE t == onTrade[w]
             seller == AccountOf(t, "seller")
             bought == AutomaticVolume(w)
             untraced == IF bought > 0 THEN {Incomplete} ELSE {}
             level == DownstreamTraceability(PurchaseLevels(seller) \cup untraced)
  <1>2. /\ pc[w] = "accept"
        /\ produced' = [produced EXCEPT ![seller] = @ + bought]
        /\ sources' = [sources EXCEPT ![seller] = @ \cup untraced]
        /\ volume' = [volume EXCEPT
              ![row[w]["seller"]] = seen[w]["seller"] + bought - trade[t].volume,
              ![row[w]["buyer"]] = seen[w]["buyer"] + trade[t].volume]
        /\ Settle(t, "accepted", level) /\ Leave(w)
        /\ UNCHANGED <<registered, rowOf, batch>>
    BY DEF AcceptCommit
  <1>3. /\ t \in Trades /\ trade[t].status # "none"
        /\ trade[t].seller \in Users /\ trade[t].commodity \in Commodities
        /\ row[w]["seller"] \in Rows /\ row[w]["buyer"] \in Rows
    BY <1>1, <1>2 DEF RequestShape, InHand, TradeShape, Accepting
  <1>4. /\ trade[t].volume \in Nat /\ seen[w]["seller"] \in Int /\ seen[w]["buyer"] \in Int
    BY <1>1, <1>3 DEF TypeOK, TradeRecord, Sides
  <1>5. bought \in Int
    BY <1>4 DEF AutomaticVolume
  <1>6. seller \in Accounts
    BY <1>3 DEF AccountOf, Accounts
  <1>7. untraced \subseteq 1..4
    BY DEF Incomplete
  <1>8. level \in 0..4
    <2>1. PurchaseLevels(seller) \subseteq 0..4
      BY <1>1, <1>6 DEF PurchaseLevels, TypeOK, TradeRecord
    <2> QED BY <1>7, <2>1, MinLevel
  <1> HIDE DEF t, seller, bought, untraced, level
  <1>9. /\ produced' \in [Accounts -> Int] /\ sources' \in [Accounts -> SUBSET (1..4)]
        /\ volume' \in [Rows -> Int]
    <2>1. produced' \in [Accounts -> Int]
      BY <1>1, <1>2, <1>5, <1>6 DEF TypeOK
    <2>2. sources' \in [Accounts -> SUBSET (1..4)]
      BY <1>1, <1>2, <1>6, <1>7 DEF TypeOK
    <2>3. /\ seen[w]["seller"] + bought - trade[t].volume \in Int
          /\ seen[w]["buyer"] + trade[t].volume \in Int
      BY <1>4, <1>5
    <2>4. volume' \in [Rows -> Int]
      BY <1>1, <1>2, <1>3, <2>3 DEF TypeOK
    <2> QED BY <2>1, <2>2, <2>4
  <1>10. LocalTypes' /\ InHand(w)' /\ \A x \in Requests \ {w} : SameRequest(x)
    BY <1>1, <1>2, LeaveTypes
  <1>11. SameTerms
    BY <1>2, <1>3, <1>8, SettleShape DEF Outcomes
  <1>12. RequestShape'
    BY <1>1, <1>10, <1>11, OthersInHand
  <1> QED BY <1>1, <1>2, <1>3, <1>8, <1>9, <1>10, <1>12, SettlingStepShape DEF Outcomes, TypeOK

LEMMA RejectCommitShape ==
  ASSUME Shape, NEW w \in Requests, RejectCommit(w)
  PROVE  Shape'
  <1>1. TypeOK /\ RequestShape
    BY DEF Shape
  <1> DEFINE t == onTrade[w]
  <1>2. t \in Trades /\ trade[t].status # "none" /\ trade[t].level \in 0..4
    BY <1>1 DEF RequestShape, InHand, RejectCommit, TypeOK, TradeRecord
  <1>3. Settle(t, "rejected", trade[t].level) /\ Leave(w)
        /\ UNCHANGED <<registered, produced, sources, rowOf, volume, batch>>
    BY DEF RejectCommit
  <1> HIDE DEF t
  <1>4. LocalTypes' /\ InHand(w)' /\ \A x \in Requests \ {w} : SameRequest(x)
    BY <1>1, <1>3, LeaveTypes
  <1>5. SameTerms
    BY <1>2, <1>3, SettleShape DEF Outcomes
  <1>6. RequestShape'
    BY <1>1, <1>4, <1>5, OthersInHand
  <1> QED BY <1>1, <1>2, <1>3, <1>4, <1>6, SettlingStepShape DEF Outcomes, TypeOK

LEMMA ResendCommitShape ==
  ASSUME Shape, NEW w \in Requests, ResendCommit(w)
  PROVE  Shape'
  <1>1. TypeOK /\ RequestShape
    BY DEF Shape
  <1>2. onTrade[w] \in Trades
    BY <1>1 DEF RequestShape, InHand, ResendCommit
  <1>3. LocalTypes' /\ InHand(w)' /\ \A x \in Requests \ {w} : SameRequest(x)
    BY <1>1, LeaveTypes DEF ResendCommit
  <1>4. notices' \in [Trades -> [Notices -> Nat]]
    <2> DEFINE told == [notices[onTrade[w]] EXCEPT !["pending"] = @ + 1]
    <2>1. told \in [Notices -> Nat]
      BY <1>1, <1>2 DEF TypeOK, Notices
    <2>2. notices' = [notices EXCEPT ![onTrade[w]] = told]
      BY DEF ResendCommit
    <2> HIDE DEF told
    <2> QED BY <1>1, <2>1, <2>2 DEF TypeOK
  <1> QED BY <1>1, <1>3, <1>4, RequestStepShape DEF ResendCommit, TypeOK

LEMMA ProduceFindShape ==
  ASSUME Shape, NEW w \in Requests, NEW u \in Users, NEW c \in Commodities,
         NEW v \in Volumes, NEW l \in Levels, ProduceFind(w, u, c, v, l)
  PROVE  Shape'
  <1>1. TypeOK
    BY DEF Shape
  <1> DEFINE new == [account |-> <<u, c>>, volume |-> v, level |-> l]
  <1>2. /\ new \in [account : Accounts \cup {NoAccount}, volume : Nat, level : 0..4]
        /\ new.account \in Accounts /\ new.level \in 1..4
    BY VolumeAssumption, LevelAssumption DEF Accounts
  <1> HIDE DEF new
  <1>3. lot' = [lot EXCEPT ![w] = new] /\ UNCHANGED <<tables, lockedBy, onTrade, want, fresh, batch>>
    BY DEF ProduceFind, new
  <1>4. LocalTypes' /\ InHand(w)' /\ \A x \in Requests \ {w} : SameRequest(x)
    <2>1. CASE pc' = [pc EXCEPT ![w] = "insert"] /\ UNCHANGED <<row, seen>>
      <3>1. LocalTypes' /\ \A x \in Requests \ {w} : SameRequest(x)
        BY <1>1, <1>2, <1>3, <2>1 DEF TypeOK, LocalTypes, SameRequest, Steps, Producing
      <3>2. pc'[w] = "insert" /\ lot'[w] = new
        BY <1>1, <1>3, <2>1 DEF TypeOK
      <3> QED BY <1>2, <3>1, <3>2 DEF InHand, Accepting, Producing
    <2>2. ASSUME NEW r \in Rows, pc' = [pc EXCEPT ![w] = "produce"],
                 row' = [row EXCEPT ![w]["buyer"] = r],
                 seen' = [seen EXCEPT ![w]["buyer"] = volume[r]]
          PROVE  LocalTypes' /\ InHand(w)' /\ \A x \in Requests \ {w} : SameRequest(x)
      <3>1. LocalTypes' /\ \A x \in Requests \ {w} : SameRequest(x)
        BY <1>1, <1>2, <1>3, <2>2 DEF TypeOK, LocalTypes, SameRequest, Steps, Producing, Sides
      <3>2. pc'[w] = "produce" /\ lot'[w] = new /\ row'[w]["buyer"] = r
        BY <1>1, <1>3, <2>2 DEF TypeOK, Sides
      <3> QED BY <1>2, <3>1, <3>2 DEF InHand, Accepting, Producing
    <2> QED BY <2>1, <2>2 DEF ProduceFind
  <1> QED BY <1>1, <1>3, <1>4, RequestStepShape DEF TypeOK, tables

LEMMA ProduceInsertShape ==
  ASSUME Shape, NEW w \in Requests, ProduceInsert(w)
  PROVE  Shape'
  <1>1. TypeOK /\ RequestShape
    BY DEF Shape
  <1>2. lot[w].account \in Accounts /\ lot[w].level \in 1..4
    BY <1>1 DEF RequestShape, InHand, ProduceInsert, Producing
  <1> PICK r \in Rows : /\ rowOf' = [rowOf EXCEPT ![r] = lot[w].account]
                        /\ row' = [row EXCEPT ![w]["buyer"] = r]
    BY DEF ProduceInsert
  <1>3. LocalTypes' /\ \A x \in Requests \ {w} : SameRequest(x)
    BY <1>1 DEF ProduceInsert, TypeOK, LocalTypes, SameRequest, Steps, Producing, Sides
  <1>4. pc'[w] = "produce" /\ lot' = lot /\ row'[w]["buyer"] = r
    BY <1>1 DEF ProduceInsert, TypeOK, Sides
  <1>5. InHand(w)'
    BY <1>2, <1>4 DEF InHand, Accepting, Producing
  <1>6. rowOf' \in [Rows -> Accounts \cup {NoAccount}]
    BY <1>1, <1>2 DEF TypeOK
  <1> QED BY <1>1, <1>3, <1>5, <1>6, RequestStepShape DEF ProduceInsert, TypeOK

LEMMA ProduceCommitShape ==
  ASSUME Shape, NEW w \in Requests, ProduceCommit(w)
  PROVE  Shape'
  <1>1. TypeOK /\ RequestShape
    BY DEF Shape
  <1>2. lot[w].account \in Accounts /\ lot[w].level \in 1..4 /\ row[w]["buyer"] \in Rows
    BY <1>1 DEF RequestShape, InHand, ProduceCommit, Producing
  <1>3. lot[w].volume \in Nat /\ seen[w]["buyer"] \in Int
    BY <1>1 DEF TypeOK, Sides
  <1>4. LocalTypes' /\ \A x \in Requests \ {w} : SameRequest(x)
    BY <1>1 DEF ProduceCommit, TypeOK, LocalTypes, SameRequest, Steps
  <1>5. pc'[w] = "deliver"
    BY <1>1 DEF ProduceCommit, TypeOK
  <1>6. InHand(w)'
    BY <1>5 DEF InHand, Accepting, Producing
  <1>7. /\ volume' \in [Rows -> Int] /\ produced' \in [Accounts -> Int]
        /\ sources' \in [Accounts -> SUBSET (1..4)]
    BY <1>1, <1>2, <1>3 DEF ProduceCommit, TypeOK
  <1> QED BY <1>1, <1>4, <1>6, <1>7, RequestStepShape DEF ProduceCommit, TypeOK

LEMMA ProduceTailShape ==
  ASSUME Shape, NEW w \in Requests, NEW recipient \in Users \cup {NoUser},
         ProduceTail(w, recipient)
  PROVE  Shape'
  <1>1. TypeOK
    BY DEF Shape
  <1>2. LocalTypes' /\ InHand(w)' /\ \A x \in Requests \ {w} : SameRequest(x)
    BY <1>1, LeaveTypes DEF ProduceTail
  <1>3. registered' \subseteq Users
    BY <1>1 DEF ProduceTail, TypeOK
  <1> QED BY <1>1, <1>2, <1>3, RequestStepShape DEF ProduceTail, TypeOK

LEMMA SweepShape ==
  ASSUME Shape, NEW s \in Sweeps,
         SweepSelect(s) \/ SweepDies(s) \/ \E t \in Trades : SweepOne(s, t)
  PROVE  Shape'
  <1>1. TypeOK /\ TradeShape /\ RequestShape /\ BatchShape /\ OnlyPendingExpires
    BY DEF Shape
  <1>2. CASE SweepSelect(s) \/ SweepDies(s)
    <2>1. UNCHANGED <<tables, lockedBy, locals>> /\ batch' \in [Sweeps -> SUBSET Trades]
          /\ \A x \in Sweeps : batch'[x] \subseteq batch[x] \cup overdue
      BY <1>1, <1>2 DEF SweepSelect, SweepDies, TypeOK
    <2>2. TypeOK' /\ TradeShape' /\ OnlyPendingExpires'
      BY <1>1, <2>1 DEF TypeOK, TradeShape, OnlyPendingExpires, tables, locals
    <2>3. RequestShape'
      BY <1>1, <2>1, TermsKept, UnchangedInHand DEF tables
    <2>4. BatchShape'
      BY <1>1, <2>1 DEF BatchShape, tables
    <2> QED BY <2>2, <2>3, <2>4 DEF Shape
  <1>3. ASSUME NEW t \in Trades, SweepOne(s, t)
        PROVE  Shape'
    <2>1. trade[t].status # "none" /\ trade[t].level \in 0..4
      BY <1>1, <1>3 DEF BatchShape, SweepOne, TypeOK, TradeRecord
    <2>2. /\ Settle(t, "no_response", trade[t].level)
          /\ UNCHANGED <<registered, produced, sources, rowOf, volume, lockedBy, locals>>
      BY <1>3 DEF SweepOne
    <2>3. batch' \in [Sweeps -> SUBSET Trades] /\ \A x \in Sweeps : batch'[x] \subseteq batch[x]
      BY <1>1, <1>3 DEF SweepOne, TypeOK
    <2>4. SameTerms
      BY <2>1, <2>2, SettleShape DEF Outcomes
    <2>5. RequestShape'
      BY <1>1, <2>2, <2>4, UnchangedInHand
    <2>6. LocalTypes'
      BY <1>1, <2>2 DEF TypeOK, LocalTypes, locals
    <2> QED BY <1>1, <2>1, <2>2, <2>3, <2>5, <2>6, SettlingStepShape DEF Outcomes, TypeOK
  <1> QED BY <1>2, <1>3

LEMMA NextShape == Shape /\ [Next]_vars => Shape'
  <1> SUFFICES ASSUME Shape, [Next]_vars PROVE Shape'
    OBVIOUS
  <1>1. CASE Create
    BY <1>1, CreateShape
  <1>2. ASSUME NEW t \in Trades, TimePasses(t) PROVE Shape'
    BY <1>2, TimePassesShape
  <1>3. ASSUME NEW w \in Requests, Begin(w) PROVE Shape'
    BY <1>3, BeginTradeShape, ProduceFindShape DEF Begin
  <1>4. ASSUME NEW w \in Requests, Proceed(w) PROVE Shape'
    BY <1>4, AskRowShape, LockRowShape, InsertRowShape, RollbackShape, AcceptCommitShape,
       RejectCommitShape, ResendCommitShape, ProduceInsertShape, ProduceCommitShape,
       ProduceTailShape DEF Proceed, TooManyRows
  <1>5. ASSUME NEW w \in Requests, DeadlockVictim(w) \/ WorkerDies(w) PROVE Shape'
    BY <1>5, RollbackShape DEF DeadlockVictim, WorkerDies
  <1>6. ASSUME NEW s \in Sweeps,
               SweepSelect(s) \/ SweepDies(s) \/ \E t \in Trades : SweepOne(s, t)
        PROVE  Shape'
    BY <1>6, SweepShape
  <1>7. CASE UNCHANGED vars
    <2>1. UNCHANGED <<tables, lockedBy, locals, batch>>
      BY <1>7 DEF vars
    <2> QED BY <2>1 DEF Shape, TypeOK, TradeShape, RequestShape, InHand, BatchShape,
                        OnlyPendingExpires, tables, locals
  <1> QED BY <1>1, <1>2, <1>3, <1>4, <1>5, <1>6, <1>7 DEF Next

\* Type correctness, for every value of the constants.
THEOREM TypeCorrect == Spec => []TypeOK
  <1>1. Shape => TypeOK
    BY DEF Shape
  <1> QED BY <1>1, InitShape, NextShape, PTL DEF Spec

\* expires_at is set on pending trades and on no others, so that the query of
\* expire_transactions, which does not look at the status, selects no settled one.
THEOREM PendingTradesExpire == Spec => []OnlyPendingExpires
  <1>1. Shape => OnlyPendingExpires
    BY DEF Shape
  <1> QED BY <1>1, InitShape, NextShape, PTL DEF Spec

-----------------------------------------------------------------------------
\* Only a transaction of _accept holds row locks or uncommitted rows.
OnlyAcceptHolds ==
  \A w \in Requests : pc[w] \notin Accepting =>
    fresh[w] = {} /\ \A r \in Rows : lockedBy[r] # w

\* An uncommitted row is locked by the transaction that inserted it, and empty.
FreshIsLocked ==
  \A w \in Requests : \A r \in fresh[w] :
    lockedBy[r] = w /\ volume[r] = 0 /\ rowOf[r] # NoAccount

NoRowNoLock ==
  \A r \in Rows : rowOf[r] = NoAccount => volume[r] = 0 /\ lockedBy[r] = NoRequest

NotYetLoaded ==
  \A w \in Requests : pc[w] \in {"idle", "ask_buyer", "lock_buyer"} =>
    \A s \in Sides : row[w][s] = NoRow

\* The rows a request waits for are committed rows of the account it asked for.
WantedIsCommitted ==
  \A w \in Requests, side \in Sides : Locking(w, side) =>
    \A r \in want[w] : /\ rowOf[r] = AccountOf(onTrade[w], side)
                       /\ \A x \in Requests : r \notin fresh[x]

\* So is the row create_producer writes.
ProducedIsCommitted ==
  \A w \in Requests : pc[w] = "produce" =>
    /\ rowOf[row[w]["buyer"]] # NoAccount
    /\ \A x \in Requests : row[w]["buyer"] \notin fresh[x]

Locks == /\ OnlyAcceptHolds /\ FreshIsLocked /\ NoRowNoLock /\ NotYetLoaded
         /\ WantedIsCommitted /\ ProducedIsCommitted /\ LockedCopyIsCurrent

LEMMA InitLocks == Init => Locks
  <1> SUFFICES ASSUME Init PROVE Locks
    OBVIOUS
  <1>1. OnlyAcceptHolds /\ FreshIsLocked /\ NoRowNoLock
    BY NullAssumption DEF Init, OnlyAcceptHolds, FreshIsLocked, NoRowNoLock
  <1>2. NotYetLoaded /\ WantedIsCommitted /\ ProducedIsCommitted /\ LockedCopyIsCurrent
    BY DEF Init, NotYetLoaded, WantedIsCommitted, Locking, ProducedIsCommitted,
           LockedCopyIsCurrent, Accepting
  <1> QED BY <1>1, <1>2 DEF Locks

\* Both sides of a trade that is being accepted are accounts.
LEMMA AcceptedAccounts ==
  ASSUME Shape, NEW w \in Requests, pc[w] \in Accepting, NEW side \in Sides
  PROVE  /\ onTrade[w] \in Trades /\ trade[onTrade[w]].status # "none"
         /\ AccountOf(onTrade[w], side) \in Accounts
         /\ AccountOf(onTrade[w], side) # NoAccount
  <1>1. onTrade[w] \in Trades /\ trade[onTrade[w]].commodity \in Commodities
        /\ trade[onTrade[w]]["buyer"] \in Users /\ trade[onTrade[w]]["seller"] \in Users
        /\ trade[onTrade[w]].status # "none"
    BY DEF Shape, RequestShape, InHand, TradeShape
  <1>2. AccountOf(onTrade[w], side) \in Accounts
    BY <1>1 DEF AccountOf, Accounts, Sides
  <1> QED BY <1>1, <1>2, NullAssumption DEF Accounts

\* A step that touches neither balances nor the requests that hold some.
LEMMA OutsideLocks ==
  ASSUME Shape, Locks, SameTerms, UNCHANGED <<rowOf, volume, lockedBy, locals>>
  PROVE  Locks'
  <1>1. \A w \in Requests, side \in Sides : pc[w] \in Accepting =>
          AccountOf(onTrade[w], side)' = AccountOf(onTrade[w], side)
    BY AcceptedAccounts DEF AccountOf, SameTerms, locals, Sides
  <1>2. OnlyAcceptHolds' /\ FreshIsLocked' /\ NoRowNoLock' /\ NotYetLoaded' /\ ProducedIsCommitted'
    BY DEF Locks, OnlyAcceptHolds, FreshIsLocked, NoRowNoLock, NotYetLoaded,
           ProducedIsCommitted, locals
  <1>3. WantedIsCommitted'
    BY <1>1 DEF Locks, WantedIsCommitted, Locking, Accepting, locals
  <1>4. LockedCopyIsCurrent'
    BY <1>1 DEF Locks, LockedCopyIsCurrent, locals
  <1> QED BY <1>2, <1>3, <1>4 DEF Locks

\* A request commits or rolls back: it frees its rows, and writes or removes only
\* rows it had locked.
LEMMA LeaveLocks ==
  ASSUME Shape, Locks, NEW w \in Requests, Leave(w), SameTerms,
         rowOf' \in [Rows -> Accounts \cup {NoAccount}],
         \A r \in Rows : lockedBy[r] # w => rowOf'[r] = rowOf[r] /\ volume'[r] = volume[r],
         \A r \in Rows : lockedBy[r] = w =>
           \/ rowOf'[r] = rowOf[r]
           \/ r \in fresh[w] /\ volume'[r] = 0
  PROVE  Locks'
  <1>1. TypeOK /\ w # NoRequest
    BY NullAssumption DEF Shape
  <1>2. /\ pc'[w] = "idle" /\ fresh'[w] = {} /\ row'[w] = [s \in Sides |-> NoRow]
        /\ \A x \in Requests \ {w} : SameRequest(x)
    BY <1>1, LeaveTypes DEF Leave, TypeOK
  <1>3. \A r \in Rows : lockedBy'[r] = IF lockedBy[r] = w THEN NoRequest ELSE lockedBy[r]
    BY DEF Leave
  <1>4. ASSUME NEW x \in Requests \ {w}, NEW side \in Sides, pc[x] \in Accepting
        PROVE  AccountOf(onTrade[x], side)' = AccountOf(onTrade[x], side)
    <2>1. onTrade'[x] = onTrade[x]
      BY <1>2 DEF SameRequest
    <2>2. onTrade[x] \in Trades /\ trade[onTrade[x]].status # "none"
      BY <1>4, AcceptedAccounts
    <2> QED BY <2>1, <2>2 DEF AccountOf, SameTerms, Sides
  <1>5. OnlyAcceptHolds'
    <2> SUFFICES ASSUME NEW x \in Requests, pc'[x] \notin Accepting
                 PROVE  fresh'[x] = {} /\ \A r \in Rows : lockedBy'[r] # x
      BY DEF OnlyAcceptHolds
    <2>1. CASE x = w
      BY <1>1, <1>2, <1>3, <2>1
    <2>2. CASE x # w
      <3>1. SameRequest(x) /\ x # NoRequest
        BY <1>2, <2>2, NullAssumption
      <3>2. fresh[x] = {} /\ \A r \in Rows : lockedBy[r] # x
        BY <3>1 DEF Locks, OnlyAcceptHolds, SameRequest
      <3> QED BY <1>3, <3>1, <3>2 DEF SameRequest
    <2> QED BY <2>1, <2>2
  <1>6. FreshIsLocked'
    <2> SUFFICES ASSUME NEW x \in Requests, NEW r \in fresh'[x]
                 PROVE  lockedBy'[r] = x /\ volume'[r] = 0 /\ rowOf'[r] # NoAccount
      BY DEF FreshIsLocked
    <2>1. x # w /\ fresh'[x] = fresh[x]
      BY <1>2 DEF SameRequest
    <2>2. r \in Rows /\ lockedBy[r] = x /\ volume[r] = 0 /\ rowOf[r] # NoAccount
      BY <1>1, <2>1 DEF TypeOK, Locks, FreshIsLocked
    <2> QED BY <1>3, <2>1, <2>2
  <1>7. NoRowNoLock'
    BY <1>1, <1>3 DEF NoRowNoLock, Locks
  <1>8. NotYetLoaded'
    BY <1>2 DEF NotYetLoaded, Locks, SameRequest
  <1>9. WantedIsCommitted'
    <2> SUFFICES ASSUME NEW x \in Requests, NEW side \in Sides, Locking(x, side)',
                        NEW r \in want'[x]
                 PROVE  /\ rowOf'[r] = AccountOf(onTrade[x], side)'
                        /\ \A y \in Requests : r \notin fresh'[y]
      BY DEF WantedIsCommitted
    <2>1. x # w /\ SameRequest(x)
      BY <1>2 DEF Locking
    <2>2. Locking(x, side) /\ r \in want[x] /\ pc[x] \in Accepting
      BY <2>1 DEF Locking, SameRequest, Accepting
    <2>3. r \in Rows /\ rowOf[r] = AccountOf(onTrade[x], side)
          /\ \A y \in Requests : r \notin fresh[y]
      BY <1>1, <2>2 DEF Locks, WantedIsCommitted, TypeOK
    <2>4. rowOf'[r] = rowOf[r]
      BY <2>3
    <2> QED BY <1>2, <1>4, <2>1, <2>2, <2>3, <2>4 DEF SameRequest
  <1>10. ProducedIsCommitted'
    <2> SUFFICES ASSUME NEW x \in Requests, pc'[x] = "produce"
                 PROVE  /\ rowOf'[row'[x]["buyer"]] # NoAccount
                        /\ \A y \in Requests : row'[x]["buyer"] \notin fresh'[y]
      BY DEF ProducedIsCommitted
    <2>1. x # w /\ SameRequest(x) /\ pc[x] = "produce"
      BY <1>2 DEF SameRequest
    <2>2. row[x]["buyer"] \in Rows
      BY <2>1 DEF Shape, RequestShape, InHand
    <2> QED BY <1>2, <2>1, <2>2 DEF Locks, ProducedIsCommitted, SameRequest
  <1>11. LockedCopyIsCurrent'
    <2> SUFFICES ASSUME NEW x \in Requests, NEW side \in Sides,
                        pc'[x] \in Accepting, row'[x][side] # NoRow
                 PROVE  /\ lockedBy'[row'[x][side]] = x
                        /\ volume'[row'[x][side]] = seen'[x][side]
                        /\ rowOf'[row'[x][side]] = AccountOf(onTrade[x], side)'
      BY DEF LockedCopyIsCurrent
    <2>1. x # w /\ SameRequest(x) /\ pc[x] \in Accepting
      BY <1>2 DEF SameRequest, Accepting
    <2>2. row[x][side] \in Rows /\ row[x][side] = row'[x][side]
      BY <1>1, <2>1 DEF TypeOK, SameRequest
    <2>3. /\ lockedBy[row[x][side]] = x /\ volume[row[x][side]] = seen[x][side]
          /\ rowOf[row[x][side]] = AccountOf(onTrade[x], side)
      BY <2>1, <2>2 DEF Locks, LockedCopyIsCurrent
    <2> QED BY <1>3, <1>4, <2>1, <2>2, <2>3 DEF SameRequest
  <1> QED BY <1>5, <1>6, <1>7, <1>8, <1>9, <1>10, <1>11 DEF Locks

LEMMA RollbackLocks ==
  ASSUME Shape, Locks, NEW w \in Requests, Rollback(w)
  PROVE  Locks'
  <1>1. TypeOK /\ FreshIsLocked
    BY DEF Shape, Locks
  <1>2. rowOf' \in [Rows -> Accounts \cup {NoAccount}]
    BY <1>1 DEF Rollback, TypeOK
  <1>3. \A r \in Rows : lockedBy[r] # w => rowOf'[r] = rowOf[r] /\ volume'[r] = volume[r]
    BY <1>1 DEF Rollback, FreshIsLocked
  <1>4. \A r \in Rows : lockedBy[r] = w =>
          \/ rowOf'[r] = rowOf[r]
          \/ r \in fresh[w] /\ volume'[r] = 0
    BY <1>1 DEF Rollback, FreshIsLocked
  <1> QED BY <1>2, <1>3, <1>4, TermsKept, LeaveLocks DEF Rollback

LEMMA AcceptCommitLocks ==
  ASSUME Shape, Locks, NEW w \in Requests, AcceptCommit(w)
  PROVE  Locks'
  <1>1. TypeOK /\ RequestShape
    BY DEF Shape
  <1>2. pc[w] = "accept" /\ Leave(w) /\ rowOf' = rowOf
    BY DEF AcceptCommit
  <1>3. row[w]["buyer"] \in Rows /\ row[w]["seller"] \in Rows /\ onTrade[w] \in Trades
        /\ trade[onTrade[w]].status # "none"
    BY <1>1, <1>2 DEF RequestShape, InHand, Accepting
  <1>4. lockedBy[row[w]["buyer"]] = w /\ lockedBy[row[w]["seller"]] = w
    <2>1. row[w]["buyer"] # NoRow /\ row[w]["seller"] # NoRow
      BY <1>3, NullAssumption
    <2> QED BY <1>2, <2>1 DEF Locks, LockedCopyIsCurrent, Accepting, Sides
  <1>5. \A r \in Rows : lockedBy[r] # w => volume'[r] = volume[r]
    BY <1>1, <1>3, <1>4 DEF AcceptCommit, TypeOK
  <1>6. SameTerms
    <2>1. \E level \in 0..4 : Settle(onTrade[w], "accepted", level)
      <3>1. PurchaseLevels(AccountOf(onTrade[w], "seller")) \subseteq 0..4
        BY <1>1, <1>2, AcceptedAccounts DEF PurchaseLevels, TypeOK, TradeRecord, Accepting, Sides
      <3> QED BY <3>1, MinLevel DEF AcceptCommit, Incomplete
    <2> QED BY <1>3, <2>1, SettleShape DEF Outcomes
  <1> QED BY <1>1, <1>2, <1>5, <1>6, LeaveLocks DEF TypeOK

LEMMA LeaveUntouchedLocks ==
  ASSUME Shape, Locks, NEW w \in Requests, Leave(w), SameTerms, UNCHANGED <<rowOf, volume>>
  PROVE  Locks'
  BY LeaveLocks DEF Shape, TypeOK

LEMMA RejectResendTailLocks ==
  ASSUME Shape, Locks, NEW w \in Requests,
         RejectCommit(w) \/ ResendCommit(w)
           \/ \E recipient \in Users \cup {NoUser} : ProduceTail(w, recipient)
  PROVE  Locks'
  <1>1. Leave(w) /\ UNCHANGED <<rowOf, volume>>
    BY DEF RejectCommit, ResendCommit, ProduceTail
  <1>2. SameTerms
    <2>1. CASE RejectCommit(w)
      <3>1. /\ onTrade[w] \in Trades /\ trade[onTrade[w]].status # "none"
            /\ trade[onTrade[w]].level \in 0..4
        BY <2>1 DEF Shape, RequestShape, InHand, RejectCommit, TypeOK, TradeRecord
      <3> QED BY <2>1, <3>1, SettleShape DEF RejectCommit, Outcomes
    <2>2. CASE trade' = trade
      BY <2>2, TermsKept
    <2> QED BY <2>1, <2>2 DEF ResendCommit, ProduceTail
  <1> QED BY <1>1, <1>2, LeaveUntouchedLocks

LEMMA StartLocks ==
  ASSUME Shape, Locks, NEW w \in Requests, NEW t \in Trades,
         NEW next \in {"ask_buyer", "reject", "resend"}, Start(w, t, next)
  PROVE  Locks'
  <1>1. /\ pc[w] = "idle" /\ pc' = [pc EXCEPT ![w] = next]
        /\ onTrade' = [onTrade EXCEPT ![w] = t]
        /\ UNCHANGED <<trade, rowOf, volume, lockedBy, lot, want, fresh, row, seen>>
    BY DEF Start, tables
  <1>2. /\ TypeOK /\ OnlyAcceptHolds /\ FreshIsLocked /\ NoRowNoLock /\ NotYetLoaded
        /\ WantedIsCommitted /\ ProducedIsCommitted /\ LockedCopyIsCurrent
    BY DEF Shape, Locks
  <1>3. /\ pc'[w] = next /\ \A x \in Requests \ {w} : pc'[x] = pc[x] /\ onTrade'[x] = onTrade[x]
    BY <1>1, <1>2 DEF TypeOK
  <1>4. OnlyAcceptHolds' /\ FreshIsLocked' /\ NoRowNoLock' /\ NotYetLoaded'
    <2>1. OnlyAcceptHolds'
      BY <1>1, <1>2, <1>3 DEF OnlyAcceptHolds, Accepting
    <2>2. FreshIsLocked' /\ NoRowNoLock'
      BY <1>1, <1>2 DEF FreshIsLocked, NoRowNoLock
    <2>3. NotYetLoaded'
      BY <1>1, <1>2, <1>3 DEF NotYetLoaded
    <2> QED BY <2>1, <2>2, <2>3
  <1>5. WantedIsCommitted'
    <2> SUFFICES ASSUME NEW x \in Requests, NEW side \in Sides, Locking(x, side)'
                 PROVE  \A r \in want'[x] : /\ rowOf'[r] = AccountOf(onTrade[x], side)'
                                            /\ \A y \in Requests : r \notin fresh'[y]
      BY DEF WantedIsCommitted
    <2>1. x # w
      BY <1>3 DEF Locking
    <2>2. Locking(x, side) /\ AccountOf(onTrade[x], side)' = AccountOf(onTrade[x], side)
      BY <1>1, <1>3, <2>1 DEF Locking, AccountOf
    <2> QED BY <1>1, <1>2, <2>2 DEF WantedIsCommitted
  <1>6. ProducedIsCommitted'
    BY <1>1, <1>2, <1>3 DEF ProducedIsCommitted
  <1>7. LockedCopyIsCurrent'
    <2> SUFFICES ASSUME NEW x \in Requests, NEW side \in Sides,
                        pc'[x] \in Accepting, row'[x][side] # NoRow
                 PROVE  /\ lockedBy'[row'[x][side]] = x
                        /\ volume'[row'[x][side]] = seen'[x][side]
                        /\ rowOf'[row'[x][side]] = AccountOf(onTrade[x], side)'
      BY DEF LockedCopyIsCurrent
    <2>1. x # w
      BY <1>1, <1>2 DEF NotYetLoaded
    <2>2. pc[x] \in Accepting /\ AccountOf(onTrade[x], side)' = AccountOf(onTrade[x], side)
      BY <1>1, <1>3, <2>1 DEF AccountOf
    <2> QED BY <1>1, <1>2, <2>2 DEF LockedCopyIsCurrent
  <1> QED BY <1>4, <1>5, <1>6, <1>7 DEF Locks

LEMMA AskRowLocks ==
  ASSUME Shape, Locks, NEW w \in Requests, NEW side \in Sides, AskRow(w, side)
  PROVE  Locks'
  <1> DEFINE next == IF side = "buyer" THEN "lock_buyer" ELSE "lock_seller"
  <1>1. /\ pc[w] = (IF side = "buyer" THEN "ask_buyer" ELSE "ask_seller")
        /\ pc' = [pc EXCEPT ![w] = next]
        /\ want' = [want EXCEPT ![w] = Visible(AccountOf(onTrade[w], side))]
        /\ UNCHANGED <<trade, rowOf, volume, lockedBy, onTrade, lot, fresh, row, seen>>
    BY DEF AskRow, tables
  <1>2. /\ TypeOK /\ OnlyAcceptHolds /\ FreshIsLocked /\ NoRowNoLock /\ NotYetLoaded
        /\ WantedIsCommitted /\ ProducedIsCommitted /\ LockedCopyIsCurrent
    BY DEF Shape, Locks
  <1>3. /\ pc'[w] = next /\ \A x \in Requests \ {w} : pc'[x] = pc[x] /\ want'[x] = want[x]
        /\ want'[w] = Visible(AccountOf(onTrade[w], side))
    BY <1>1, <1>2 DEF TypeOK
  <1>4. OnlyAcceptHolds' /\ FreshIsLocked' /\ NoRowNoLock' /\ NotYetLoaded'
    <2>1. OnlyAcceptHolds'
      BY <1>1, <1>2, <1>3 DEF OnlyAcceptHolds, Accepting
    <2>2. FreshIsLocked' /\ NoRowNoLock'
      BY <1>1, <1>2 DEF FreshIsLocked, NoRowNoLock
    <2>3. NotYetLoaded'
      BY <1>1, <1>2, <1>3 DEF NotYetLoaded
    <2> QED BY <2>1, <2>2, <2>3
  <1>5. WantedIsCommitted'
    <2> SUFFICES ASSUME NEW x \in Requests, NEW s \in Sides, Locking(x, s)'
                 PROVE  \A r \in want'[x] : /\ rowOf'[r] = AccountOf(onTrade[x], s)'
                                            /\ \A y \in Requests : r \notin fresh'[y]
      BY DEF WantedIsCommitted
    <2>1. AccountOf(onTrade[x], s)' = AccountOf(onTrade[x], s)
      BY <1>1 DEF AccountOf
    <2>2. CASE x = w
      <3>1. s = side
        BY <1>3, <2>2 DEF Locking, Sides
      <3> QED BY <1>1, <1>3, <2>1, <2>2, <3>1 DEF Visible
    <2>3. CASE x # w
      <3>1. Locking(x, s)
        BY <1>3, <2>3 DEF Locking
      <3> QED BY <1>1, <1>2, <1>3, <2>1, <2>3, <3>1 DEF WantedIsCommitted
    <2> QED BY <2>2, <2>3
  <1>6. ProducedIsCommitted'
    BY <1>1, <1>2, <1>3 DEF ProducedIsCommitted
  <1>7. LockedCopyIsCurrent'
    <2>1. \A x \in Requests, s \in Sides : AccountOf(onTrade[x], s)' = AccountOf(onTrade[x], s)
      BY <1>1 DEF AccountOf
    <2>2. \A x \in Requests : pc'[x] \in Accepting => pc[x] \in Accepting
      BY <1>1, <1>3 DEF Accepting
    <2> QED BY <1>1, <1>2, <2>1, <2>2 DEF LockedCopyIsCurrent
  <1> QED BY <1>4, <1>5, <1>6, <1>7 DEF Locks

\* A balance object is loaded from row r, which no transaction holds: it is
\* either a committed row that was waited for or one inserted now.
LEMMA LoadLocks ==
  ASSUME Shape, Locks, NEW w \in Requests, NEW side \in Sides, NEW r \in Rows,
         Locking(w, side), Load(w, side, r, volume[r]), lockedBy[r] = NoRequest,
         rowOf' \in [Rows -> Accounts \cup {NoAccount}],
         fresh' \in [Requests -> SUBSET Rows],
         rowOf'[r] = AccountOf(onTrade[w], side),
         \A q \in Rows \ {r} : rowOf'[q] = rowOf[q],
         \/ fresh' = fresh /\ rowOf' = rowOf
         \/ fresh' = [fresh EXCEPT ![w] = @ \cup {r}] /\ rowOf[r] = NoAccount /\ volume[r] = 0
  PROVE  Locks'
  <1> DEFINE next == IF side = "buyer" THEN "ask_seller" ELSE "accept"
  <1>1. /\ TypeOK /\ OnlyAcceptHolds /\ FreshIsLocked /\ NoRowNoLock /\ NotYetLoaded
        /\ WantedIsCommitted /\ ProducedIsCommitted /\ LockedCopyIsCurrent
    BY DEF Shape, Locks
  <1>2. /\ pc' = [pc EXCEPT ![w] = next]
        /\ row' = [row EXCEPT ![w] = [row[w] EXCEPT ![side] = r]]
        /\ seen' = [seen EXCEPT ![w] = [seen[w] EXCEPT ![side] = volume[r]]]
        /\ want' = [want EXCEPT ![w] = {}]
        /\ lockedBy' = [lockedBy EXCEPT ![r] = w]
        /\ UNCHANGED <<trade, volume, onTrade>>
    BY DEF Load
  <1>3. /\ pc'[w] = next /\ lockedBy'[r] = w
        /\ \A x \in Requests \ {w} : /\ pc'[x] = pc[x] /\ row'[x] = row[x] /\ seen'[x] = seen[x]
                                      /\ want'[x] = want[x] /\ fresh'[x] = fresh[x]
        /\ \A q \in Rows \ {r} : lockedBy'[q] = lockedBy[q]
        /\ fresh'[w] \subseteq fresh[w] \cup {r}
    BY <1>1, <1>2 DEF TypeOK
  <1>4. /\ row'[w][side] = r /\ seen'[w][side] = volume[r]
        /\ \A s \in Sides \ {side} : row'[w][s] = row[w][s] /\ seen'[w][s] = seen[w][s]
    <2>1. row[w] \in [Sides -> Rows \cup {NoRow}] /\ seen[w] \in [Sides -> Int]
      BY <1>1 DEF TypeOK
    <2>2. row'[w] = [row[w] EXCEPT ![side] = r] /\ seen'[w] = [seen[w] EXCEPT ![side] = volume[r]]
      BY <1>1, <1>2 DEF TypeOK
    <2> QED BY <2>1, <2>2
  <1>5. w # NoRequest /\ pc[w] \in Accepting
    BY NullAssumption DEF Locking, Accepting
  <1>6. AccountOf(onTrade[w], side) # NoAccount
    BY <1>5, AcceptedAccounts
  <1>7. \A x \in Requests, s \in Sides : AccountOf(onTrade[x], s)' = AccountOf(onTrade[x], s)
    BY <1>2 DEF AccountOf
  <1>8. OnlyAcceptHolds'
    BY <1>1, <1>3, <1>5 DEF OnlyAcceptHolds, Accepting
  <1>9. FreshIsLocked'
    <2> SUFFICES ASSUME NEW x \in Requests, NEW q \in fresh'[x]
                 PROVE  lockedBy'[q] = x /\ volume'[q] = 0 /\ rowOf'[q] # NoAccount
      BY DEF FreshIsLocked
    <2>1. q \in fresh[x] \/ (x = w /\ q = r /\ volume[r] = 0)
      BY <1>1, <1>2, <1>3 DEF TypeOK
    <2>2. CASE q \in fresh[x]
      <3>1. q \in Rows /\ lockedBy[q] = x /\ volume[q] = 0 /\ rowOf[q] # NoAccount
        BY <1>1, <2>2 DEF FreshIsLocked, TypeOK
      <3>2. q # r
        BY <3>1, NullAssumption
      <3> QED BY <1>2, <1>3, <3>1, <3>2
    <2>3. CASE x = w /\ q = r /\ volume[r] = 0
      BY <1>2, <1>3, <1>6, <2>3
    <2> QED BY <2>1, <2>2, <2>3
  <1>10. NoRowNoLock'
    BY <1>1, <1>2, <1>3, <1>6 DEF NoRowNoLock
  <1>11. NotYetLoaded'
    BY <1>1, <1>3 DEF NotYetLoaded
  <1>12. \A q \in Rows : (\A y \in Requests : q \notin fresh[y]) /\ rowOf[q] # NoAccount =>
           rowOf'[q] = rowOf[q] /\ \A y \in Requests : q \notin fresh'[y]
    BY <1>1, <1>3 DEF TypeOK
  <1>13. WantedIsCommitted'
    <2> SUFFICES ASSUME NEW x \in Requests, NEW s \in Sides, Locking(x, s)', NEW q \in want'[x]
                 PROVE  /\ rowOf'[q] = AccountOf(onTrade[x], s)'
                        /\ \A y \in Requests : q \notin fresh'[y]
      BY DEF WantedIsCommitted
    <2>1. x # w
      BY <1>3 DEF Locking
    <2>2. Locking(x, s) /\ pc[x] \in Accepting /\ q \in want[x]
      BY <1>3, <2>1 DEF Locking, Accepting
    <2>3. q \in Rows /\ rowOf[q] = AccountOf(onTrade[x], s) /\ \A y \in Requests : q \notin fresh[y]
      BY <1>1, <2>2 DEF WantedIsCommitted, TypeOK
    <2>4. rowOf[q] # NoAccount
      BY <2>2, <2>3, AcceptedAccounts
    <2> QED BY <1>7, <1>12, <2>3, <2>4
  <1>14. ProducedIsCommitted'
    <2> SUFFICES ASSUME NEW x \in Requests, pc'[x] = "produce"
                 PROVE  /\ rowOf'[row'[x]["buyer"]] # NoAccount
                        /\ \A y \in Requests : row'[x]["buyer"] \notin fresh'[y]
      BY DEF ProducedIsCommitted
    <2>1. x # w /\ pc[x] = "produce"
      BY <1>3
    <2>2. row[x]["buyer"] \in Rows /\ row'[x] = row[x]
      BY <1>3, <2>1 DEF Shape, RequestShape, InHand
    <2> QED BY <1>1, <1>12, <2>1, <2>2 DEF ProducedIsCommitted
  <1>15. LockedCopyIsCurrent'
    <2> SUFFICES ASSUME NEW x \in Requests, NEW s \in Sides,
                        pc'[x] \in Accepting, row'[x][s] # NoRow
                 PROVE  /\ lockedBy'[row'[x][s]] = x
                        /\ volume'[row'[x][s]] = seen'[x][s]
                        /\ rowOf'[row'[x][s]] = AccountOf(onTrade[x], s)'
      BY DEF LockedCopyIsCurrent
    <2>1. CASE x = w /\ s = side
      BY <1>2, <1>3, <1>4, <1>7, <2>1
    <2>2. CASE ~(x = w /\ s = side)
      <3>1. row'[x][s] = row[x][s] /\ seen'[x][s] = seen[x][s] /\ pc[x] \in Accepting
        BY <1>3, <1>4, <1>5, <2>2
      <3>2. /\ lockedBy[row[x][s]] = x /\ volume[row[x][s]] = seen[x][s]
            /\ rowOf[row[x][s]] = AccountOf(onTrade[x], s)
        BY <1>1, <3>1 DEF LockedCopyIsCurrent
      <3>3. row[x][s] \in Rows /\ row[x][s] # r
        BY <1>1, <3>1, <3>2, NullAssumption DEF TypeOK
      <3> QED BY <1>2, <1>3, <1>7, <3>1, <3>2, <3>3
    <2> QED BY <2>1, <2>2
  <1> QED BY <1>8, <1>9, <1>10, <1>11, <1>13, <1>14, <1>15 DEF Locks

LEMMA LockOrInsertLocks ==
  ASSUME Shape, Locks, NEW w \in Requests, NEW side \in Sides,
         LockRow(w, side) \/ InsertRow(w, side)
  PROVE  Locks'
  <1>1. /\ TypeOK /\ NoRowNoLock /\ WantedIsCommitted
    BY DEF Shape, Locks
  <1>2. CASE LockRow(w, side)
    <2> PICK r \in Rows : want[w] = {r} /\ lockedBy[r] = NoRequest /\ Load(w, side, r, volume[r])
      BY <1>2 DEF LockRow
    <2>1. Locking(w, side) /\ UNCHANGED <<rowOf, fresh>>
      BY <1>2 DEF LockRow
    <2>2. rowOf[r] = AccountOf(onTrade[w], side)
      BY <1>1, <2>1 DEF WantedIsCommitted
    <2> QED BY <1>1, <2>1, <2>2, LoadLocks DEF TypeOK
  <1>3. CASE InsertRow(w, side)
    <2> PICK r \in Rows : /\ rowOf[r] = NoAccount
                          /\ rowOf' = [rowOf EXCEPT ![r] = AccountOf(onTrade[w], side)]
                          /\ fresh' = [fresh EXCEPT ![w] = @ \cup {r}]
                          /\ Load(w, side, r, 0)
      BY <1>3 DEF InsertRow
    <2>1. Locking(w, side) /\ pc[w] \in Accepting
      BY <1>3 DEF InsertRow, Locking, Accepting
    <2>2. volume[r] = 0 /\ lockedBy[r] = NoRequest
      BY <1>1 DEF NoRowNoLock
    <2>3. AccountOf(onTrade[w], side) \in Accounts
      BY <2>1, AcceptedAccounts
    <2>4. /\ rowOf' \in [Rows -> Accounts \cup {NoAccount}] /\ fresh' \in [Requests -> SUBSET Rows]
          /\ rowOf'[r] = AccountOf(onTrade[w], side)
          /\ \A q \in Rows \ {r} : rowOf'[q] = rowOf[q]
      BY <1>1, <2>3 DEF TypeOK
    <2>5. Load(w, side, r, volume[r])
      BY <2>2
    <2> QED BY <2>1, <2>2, <2>4, <2>5, LoadLocks
  <1> QED BY <1>2, <1>3

\* create_producer never waits for a lock with a row in hand: what it inserts or
\* writes is locked by nobody.
LEMMA ProducerStepLocks ==
  ASSUME Shape, Locks, NEW w \in Requests,
         pc[w] \in {"idle", "insert", "produce"}, pc'[w] \in {"insert", "produce", "deliver"},
         \A x \in Requests \ {w} : SameRequest(x),
         UNCHANGED <<trade, lockedBy, onTrade, want, fresh>>,
         \A q \in Rows : rowOf[q] # NoAccount => rowOf'[q] = rowOf[q],
         \A q \in Rows : lockedBy[q] # NoRequest \/ rowOf[q] = NoAccount => volume'[q] = volume[q],
         pc'[w] = "produce" => /\ rowOf'[row'[w]["buyer"]] # NoAccount
                               /\ \A x \in Requests : row'[w]["buyer"] \notin fresh[x]
  PROVE  Locks'
  <1>1. /\ TypeOK /\ OnlyAcceptHolds /\ FreshIsLocked /\ NoRowNoLock /\ NotYetLoaded
        /\ WantedIsCommitted /\ ProducedIsCommitted /\ LockedCopyIsCurrent
    BY DEF Shape, Locks
  <1>2. pc[w] \notin Accepting /\ pc'[w] \notin Accepting
    BY DEF Accepting
  <1>3. \A x \in Requests \ {w} : pc'[x] = pc[x] /\ row'[x] = row[x] /\ seen'[x] = seen[x]
    BY DEF SameRequest
  <1>4. \A x \in Requests, s \in Sides : AccountOf(onTrade[x], s)' = AccountOf(onTrade[x], s)
    BY DEF AccountOf
  <1>5. OnlyAcceptHolds'
    BY <1>1, <1>2, <1>3 DEF OnlyAcceptHolds
  <1>6. FreshIsLocked'
    <2> SUFFICES ASSUME NEW x \in Requests, NEW q \in fresh[x]
                 PROVE  lockedBy[q] = x /\ volume'[q] = 0 /\ rowOf'[q] # NoAccount
      BY DEF FreshIsLocked
    <2>1. q \in Rows /\ lockedBy[q] = x /\ volume[q] = 0 /\ rowOf[q] # NoAccount
      BY <1>1 DEF FreshIsLocked, TypeOK
    <2> QED BY <2>1, NullAssumption
  <1>7. NoRowNoLock'
    BY <1>1 DEF NoRowNoLock
  <1>8. NotYetLoaded'
    BY <1>1, <1>3 DEF NotYetLoaded
  <1>9. WantedIsCommitted'
    <2> SUFFICES ASSUME NEW x \in Requests, NEW s \in Sides, Locking(x, s)', NEW q \in want[x]
                 PROVE  /\ rowOf'[q] = AccountOf(onTrade[x], s)'
                        /\ \A y \in Requests : q \notin fresh[y]
      BY DEF WantedIsCommitted
    <2>1. x # w
      BY <1>2 DEF Locking, Accepting
    <2>2. Locking(x, s) /\ pc[x] \in Accepting
      BY <1>3, <2>1 DEF Locking, Accepting
    <2>3. q \in Rows /\ rowOf[q] = AccountOf(onTrade[x], s) /\ \A y \in Requests : q \notin fresh[y]
      BY <1>1, <2>2 DEF WantedIsCommitted, TypeOK
    <2>4. rowOf[q] # NoAccount
      BY <2>2, <2>3, AcceptedAccounts
    <2> QED BY <1>4, <2>3, <2>4
  <1>10. ProducedIsCommitted'
    <2> SUFFICES ASSUME NEW x \in Requests, x # w, pc'[x] = "produce"
                 PROVE  /\ rowOf'[row'[x]["buyer"]] # NoAccount
                        /\ \A y \in Requests : row'[x]["buyer"] \notin fresh[y]
      BY DEF ProducedIsCommitted
    <2>1. pc[x] = "produce" /\ row'[x] = row[x]
      BY <1>3
    <2>2. row[x]["buyer"] \in Rows
      BY <2>1 DEF Shape, RequestShape, InHand
    <2> QED BY <1>1, <2>1, <2>2 DEF ProducedIsCommitted
  <1>11. LockedCopyIsCurrent'
    <2> SUFFICES ASSUME NEW x \in Requests, NEW s \in Sides,
                        pc'[x] \in Accepting, row'[x][s] # NoRow
                 PROVE  /\ lockedBy[row'[x][s]] = x
                        /\ volume'[row'[x][s]] = seen'[x][s]
                        /\ rowOf'[row'[x][s]] = AccountOf(onTrade[x], s)'
      BY DEF LockedCopyIsCurrent
    <2>1. x # w
      BY <1>2
    <2>2. pc[x] \in Accepting /\ row'[x] = row[x] /\ seen'[x] = seen[x]
      BY <1>3, <2>1
    <2>3. /\ lockedBy[row[x][s]] = x /\ volume[row[x][s]] = seen[x][s]
          /\ rowOf[row[x][s]] = AccountOf(onTrade[x], s)
      BY <1>1, <2>2 DEF LockedCopyIsCurrent
    <2>4. row[x][s] \in Rows /\ rowOf[row[x][s]] # NoAccount /\ x # NoRequest
      BY <1>1, <2>2, <2>3, AcceptedAccounts, NullAssumption DEF TypeOK
    <2> QED BY <1>4, <2>2, <2>3, <2>4
  <1> QED BY <1>5, <1>6, <1>7, <1>8, <1>9, <1>10, <1>11 DEF Locks

LEMMA ProduceFindLocks ==
  ASSUME Shape, Locks, NEW w \in Requests, NEW u \in Users, NEW c \in Commodities,
         NEW v \in Volumes, NEW l \in Levels, ProduceFind(w, u, c, v, l)
  PROVE  Locks'
  <1>1. TypeOK
    BY DEF Shape
  <1>2. /\ pc[w] = "idle" /\ UNCHANGED <<trade, rowOf, volume, lockedBy, onTrade, want, fresh>>
        /\ \E new : lot' = [lot EXCEPT ![w] = new]
    BY DEF ProduceFind, tables
  <1>3. CASE pc' = [pc EXCEPT ![w] = "insert"] /\ UNCHANGED <<row, seen>>
    <2>1. pc'[w] = "insert" /\ \A x \in Requests \ {w} : SameRequest(x)
      BY <1>1, <1>2, <1>3 DEF TypeOK, SameRequest
    <2> QED BY <1>2, <2>1, ProducerStepLocks
  <1>4. ASSUME NEW r \in Rows, Visible(<<u, c>>) = {r}, pc' = [pc EXCEPT ![w] = "produce"],
               row' = [row EXCEPT ![w]["buyer"] = r],
               seen' = [seen EXCEPT ![w]["buyer"] = volume[r]]
        PROVE  Locks'
    <2>1. pc'[w] = "produce" /\ \A x \in Requests \ {w} : SameRequest(x)
      BY <1>1, <1>2, <1>4 DEF TypeOK, SameRequest
    <2>2. row'[w]["buyer"] = r
      BY <1>1, <1>4 DEF TypeOK, Sides
    <2>3. rowOf[r] # NoAccount /\ \A x \in Requests : r \notin fresh[x]
      <3>1. <<u, c>> # NoAccount
        BY NullAssumption
      <3>2. r \in Visible(<<u, c>>)
        BY <1>4
      <3> QED BY <3>1, <3>2 DEF Visible
    <2> QED BY <1>2, <2>1, <2>2, <2>3, ProducerStepLocks
  <1> QED BY <1>3, <1>4 DEF ProduceFind

LEMMA ProduceInsertLocks ==
  ASSUME Shape, Locks, NEW w \in Requests, ProduceInsert(w)
  PROVE  Locks'
  <1>1. TypeOK /\ FreshIsLocked
    BY DEF Shape, Locks
  <1> PICK r \in Rows : /\ rowOf[r] = NoAccount
                        /\ rowOf' = [rowOf EXCEPT ![r] = lot[w].account]
                        /\ row' = [row EXCEPT ![w]["buyer"] = r]
    BY DEF ProduceInsert
  <1>2. lot[w].account # NoAccount
    <2>1. lot[w].account \in Accounts
      BY DEF ProduceInsert, Shape, RequestShape, InHand, Producing
    <2> QED BY <2>1, NullAssumption DEF Accounts
  <1>3. /\ pc[w] = "insert" /\ pc' = [pc EXCEPT ![w] = "produce"]
        /\ UNCHANGED <<trade, volume, lockedBy, onTrade, lot, want, fresh, seen>>
    BY DEF ProduceInsert
  <1>4. pc'[w] = "produce" /\ \A x \in Requests \ {w} : SameRequest(x)
    BY <1>1, <1>3 DEF TypeOK, SameRequest
  <1>5. row'[w]["buyer"] = r /\ rowOf'[r] = lot[w].account
        /\ \A q \in Rows : rowOf[q] # NoAccount => rowOf'[q] = rowOf[q]
    BY <1>1 DEF TypeOK, Sides
  <1>6. \A x \in Requests : r \notin fresh[x]
    BY <1>1 DEF FreshIsLocked
  <1> QED BY <1>2, <1>3, <1>4, <1>5, <1>6, ProducerStepLocks

LEMMA ProduceCommitLocks ==
  ASSUME Shape, Locks, NEW w \in Requests, ProduceCommit(w)
  PROVE  Locks'
  <1>1. TypeOK /\ ProducedIsCommitted
    BY DEF Shape, Locks
  <1> DEFINE r == row[w]["buyer"]
  <1>2. /\ pc[w] = "produce" /\ lockedBy[r] = NoRequest /\ pc' = [pc EXCEPT ![w] = "deliver"]
        /\ volume' = [volume EXCEPT ![r] = seen[w]["buyer"] + lot[w].volume]
        /\ UNCHANGED <<trade, rowOf, lockedBy, onTrade, lot, want, fresh, row, seen>>
    BY DEF ProduceCommit
  <1>3. rowOf[r] # NoAccount
    BY <1>1, <1>2 DEF ProducedIsCommitted
  <1> HIDE DEF r
  <1>4. pc'[w] = "deliver" /\ \A x \in Requests \ {w} : SameRequest(x)
    BY <1>1, <1>2 DEF TypeOK, SameRequest
  <1>5. \A q \in Rows \ {r} : volume'[q] = volume[q]
    BY <1>1, <1>2 DEF TypeOK
  <1> QED BY <1>2, <1>3, <1>4, <1>5, ProducerStepLocks

LEMMA CreateTerms ==
  ASSUME Shape, Create
  PROVE  SameTerms /\ UNCHANGED <<rowOf, volume, lockedBy, locals>>
  BY DEF Shape, TypeOK, Create, CreateDownstream, Blank, SameTerms

LEMMA SweepTerms ==
  ASSUME Shape, NEW s \in Sweeps,
         SweepSelect(s) \/ SweepDies(s) \/ \E t \in Trades : SweepOne(s, t)
  PROVE  SameTerms /\ UNCHANGED <<rowOf, volume, lockedBy, locals>>
  <1>1. CASE SweepSelect(s) \/ SweepDies(s)
    BY <1>1, TermsKept DEF SweepSelect, SweepDies, tables
  <1>2. ASSUME NEW t \in Trades, SweepOne(s, t)
        PROVE  SameTerms /\ UNCHANGED <<rowOf, volume, lockedBy, locals>>
    <2>1. trade[t].status # "none" /\ trade[t].level \in 0..4
      BY <1>2 DEF Shape, BatchShape, SweepOne, TypeOK, TradeRecord
    <2> QED BY <1>2, <2>1, SettleShape DEF SweepOne, Outcomes
  <1> QED BY <1>1, <1>2

LEMMA NextLocks == Shape /\ Locks /\ [Next]_vars => Locks'
  <1> SUFFICES ASSUME Shape, Locks, [Next]_vars PROVE Locks'
    OBVIOUS
  <1>1. CASE Create
    BY <1>1, CreateTerms, OutsideLocks
  <1>2. ASSUME NEW t \in Trades, TimePasses(t) PROVE Locks'
    BY <1>2, TermsKept, OutsideLocks DEF TimePasses
  <1>3. ASSUME NEW w \in Requests, Begin(w) PROVE Locks'
    BY <1>3, StartLocks, ProduceFindLocks DEF Begin, AcceptRead, RejectRead, ResendRead
  <1>4. ASSUME NEW w \in Requests, Proceed(w) PROVE Locks'
    BY <1>4, AskRowLocks, LockOrInsertLocks, RollbackLocks, AcceptCommitLocks,
       RejectResendTailLocks, ProduceInsertLocks, ProduceCommitLocks DEF Proceed, TooManyRows
  <1>5. ASSUME NEW w \in Requests, DeadlockVictim(w) \/ WorkerDies(w) PROVE Locks'
    BY <1>5, RollbackLocks DEF DeadlockVictim, WorkerDies
  <1>6. ASSUME NEW s \in Sweeps,
               SweepSelect(s) \/ SweepDies(s) \/ \E t \in Trades : SweepOne(s, t)
        PROVE  Locks'
    BY <1>6, SweepTerms, OutsideLocks
  <1>7. CASE UNCHANGED vars
    <2>1. UNCHANGED <<trade, rowOf, volume, lockedBy, locals>>
      BY <1>7 DEF vars, tables
    <2> QED BY <2>1, TermsKept, OutsideLocks
  <1> QED BY <1>1, <1>2, <1>3, <1>4, <1>5, <1>6, <1>7 DEF Next

\* From the moment _accept has loaded a balance until it commits, nobody writes
\* the row: select_for_update does what it is there for, whatever overlaps.
THEOREM LockedCopies == Spec => []LockedCopyIsCurrent
  <1>1. Locks => LockedCopyIsCurrent
    BY DEF Locks
  <1> QED BY <1>1, InitShape, NextShape, InitLocks, NextLocks, PTL DEF Spec

-----------------------------------------------------------------------------
\* The rows, and the copies of them that requests hold.
CopiesNeverNegative == \A w \in Requests, side \in Sides : seen[w][side] >= 0

Balanced == BalancesNeverNegative /\ CopiesNeverNegative

LEMMA InitBalanced == Init => Balanced
  BY DEF Init, Balanced, BalancesNeverNegative, CopiesNeverNegative

LEMMA LeaveBalanced ==
  ASSUME Shape, Balanced, NEW w \in Requests, Leave(w), BalancesNeverNegative'
  PROVE  Balanced'
  BY DEF Leave, Balanced, CopiesNeverNegative, Shape, TypeOK

\* The automatic purchase brings the seller up to the volume it sells.
LEMMA AcceptCommitBalanced ==
  ASSUME Shape, Balanced, NEW w \in Requests, AcceptCommit(w)
  PROVE  Balanced'
  <1>1. TypeOK /\ pc[w] = "accept" /\ Leave(w)
    BY DEF Shape, AcceptCommit
  <1>2. onTrade[w] \in Trades
    BY <1>1 DEF Shape, RequestShape, InHand, Accepting
  <1> DEFINE v == trade[onTrade[w]].volume
             sold == seen[w]["seller"] + AutomaticVolume(w) - v
             bought == seen[w]["buyer"] + v
  <1>3. v \in Nat /\ seen[w]["seller"] \in Nat /\ seen[w]["buyer"] \in Nat
    BY <1>1, <1>2 DEF TypeOK, TradeRecord, Balanced, CopiesNeverNegative, Sides
  <1>4. sold >= 0 /\ bought >= 0
    BY <1>3 DEF AutomaticVolume
  <1>5. volume' = [volume EXCEPT ![row[w]["seller"]] = sold, ![row[w]["buyer"]] = bought]
    BY DEF AcceptCommit
  <1> HIDE DEF sold, bought
  <1>6. BalancesNeverNegative'
    BY <1>1, <1>4, <1>5 DEF Balanced, BalancesNeverNegative, TypeOK
  <1> QED BY <1>1, <1>6, LeaveBalanced

LEMMA LoadBalanced ==
  ASSUME Shape, Balanced, NEW w \in Requests, NEW side \in Sides, NEW r \in Rows, NEW v \in Nat,
         Load(w, side, r, v)
  PROVE  Balanced'
  <1> DEFINE copies == [seen[w] EXCEPT ![side] = v]
  <1>1. \A s \in Sides : copies[s] >= 0
    BY DEF Shape, TypeOK, Balanced, CopiesNeverNegative
  <1>2. seen' = [seen EXCEPT ![w] = copies] /\ volume' = volume
    BY DEF Load
  <1> HIDE DEF copies
  <1> QED BY <1>1, <1>2 DEF Shape, TypeOK, Balanced, CopiesNeverNegative, BalancesNeverNegative

LEMMA ProduceBalanced ==
  ASSUME Shape, Balanced, NEW w \in Requests,
         \/ ProduceInsert(w) \/ ProduceCommit(w)
         \/ \E u \in Users, c \in Commodities, v \in Volumes, l \in Levels : ProduceFind(w, u, c, v, l)
  PROVE  Balanced'
  <1>1. TypeOK /\ BalancesNeverNegative /\ CopiesNeverNegative
    BY DEF Shape, Balanced
  <1>2. CASE ProduceInsert(w)
    BY <1>1, <1>2 DEF ProduceInsert, Balanced, BalancesNeverNegative, CopiesNeverNegative
  <1>3. CASE ProduceCommit(w)
    <2> DEFINE v == seen[w]["buyer"] + lot[w].volume
    <2>1. v >= 0
      BY <1>1 DEF TypeOK, CopiesNeverNegative, Sides
    <2>2. volume' = [volume EXCEPT ![row[w]["buyer"]] = v] /\ seen' = seen
      BY <1>3 DEF ProduceCommit
    <2> HIDE DEF v
    <2> QED BY <1>1, <2>1, <2>2 DEF TypeOK, Balanced, BalancesNeverNegative, CopiesNeverNegative
  <1>4. ASSUME NEW u \in Users, NEW c \in Commodities, NEW v \in Volumes, NEW l \in Levels,
               ProduceFind(w, u, c, v, l)
        PROVE  Balanced'
    <2>1. volume' = volume
      BY <1>4 DEF ProduceFind, tables
    <2>2. CASE seen' = seen
      BY <1>1, <2>1, <2>2 DEF Balanced, BalancesNeverNegative, CopiesNeverNegative
    <2>3. ASSUME NEW r \in Rows, seen' = [seen EXCEPT ![w]["buyer"] = volume[r]]
          PROVE  Balanced'
      <3> DEFINE copies == [seen[w] EXCEPT !["buyer"] = volume[r]]
      <3>1. \A s \in Sides : copies[s] >= 0
        BY <1>1 DEF TypeOK, CopiesNeverNegative, BalancesNeverNegative
      <3>2. seen' = [seen EXCEPT ![w] = copies]
        BY <2>3
      <3> HIDE DEF copies
      <3> QED BY <1>1, <2>1, <3>1, <3>2
              DEF TypeOK, Balanced, BalancesNeverNegative, CopiesNeverNegative
    <2> QED BY <1>4, <2>2, <2>3 DEF ProduceFind
  <1> QED BY <1>2, <1>3, <1>4

LEMMA NextBalanced == Shape /\ Balanced /\ [Next]_vars => Balanced'
  <1> SUFFICES ASSUME Shape, Balanced, [Next]_vars PROVE Balanced'
    OBVIOUS
  <1>1. ASSUME UNCHANGED <<volume, seen>> PROVE Balanced'
    BY <1>1 DEF Balanced, BalancesNeverNegative, CopiesNeverNegative
  <1>2. ASSUME NEW w \in Requests, Leave(w), UNCHANGED volume PROVE Balanced'
    BY <1>2, LeaveBalanced DEF Balanced, BalancesNeverNegative
  <1>3. CASE Create
    BY <1>1, <1>3 DEF Create, CreateDownstream, locals
  <1>4. ASSUME NEW t \in Trades, TimePasses(t) PROVE Balanced'
    BY <1>1, <1>4 DEF TimePasses, locals
  <1>5. ASSUME NEW w \in Requests, Begin(w) PROVE Balanced'
    BY <1>1, <1>5, ProduceBalanced DEF Begin, AcceptRead, RejectRead, ResendRead, Start, tables
  <1>6. ASSUME NEW w \in Requests, Proceed(w) PROVE Balanced'
    <2>1. ASSUME NEW side \in Sides, AskRow(w, side) \/ LockRow(w, side) \/ InsertRow(w, side)
          PROVE  Balanced'
      <3>1. CASE AskRow(w, side)
        BY <1>1, <3>1 DEF AskRow, tables
      <3>2. \A r \in Rows : volume[r] \in Nat
        BY DEF Shape, TypeOK, Balanced, BalancesNeverNegative
      <3> QED BY <2>1, <3>1, <3>2, LoadBalanced DEF LockRow, InsertRow
    <2>2. CASE TooManyRows(w)
      BY <1>2, <2>2 DEF TooManyRows, Rollback
    <2>3. CASE RejectCommit(w) \/ ResendCommit(w)
      BY <1>2, <2>3 DEF RejectCommit, ResendCommit
    <2>4. CASE \E recipient \in Users \cup {NoUser} : ProduceTail(w, recipient)
      BY <1>2, <2>4 DEF ProduceTail
    <2> QED BY <1>6, <2>1, <2>2, <2>3, <2>4, AcceptCommitBalanced, ProduceBalanced DEF Proceed
  <1>7. ASSUME NEW w \in Requests, DeadlockVictim(w) \/ WorkerDies(w) PROVE Balanced'
    BY <1>2, <1>7 DEF DeadlockVictim, WorkerDies, Rollback
  <1>8. ASSUME NEW s \in Sweeps,
               SweepSelect(s) \/ SweepDies(s) \/ \E t \in Trades : SweepOne(s, t)
        PROVE  Balanced'
    BY <1>1, <1>8 DEF SweepSelect, SweepDies, SweepOne, tables, locals
  <1>9. CASE UNCHANGED vars
    BY <1>1, <1>9 DEF vars, tables, locals
  <1> QED BY <1>3, <1>4, <1>5, <1>6, <1>7, <1>8, <1>9 DEF Next

\* No interleaving brings a balance below zero, the stale writes of
\* create_producer included, as long as no client asks for a negative volume.
THEOREM NeverNegative == Spec => []BalancesNeverNegative
  <1>1. Balanced => BalancesNeverNegative
    BY DEF Balanced
  <1> QED BY <1>1, InitShape, NextShape, InitBalanced, NextBalanced, PTL DEF Spec

=============================================================================
