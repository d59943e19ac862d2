----------------------------- MODULE LedgerProofs -----------------------------
(***************************************************************************)
(* What the tables of Trading add up to: traceability is handed down, a      *)
(* balance is the sum of the transactions of its account, an account has one  *)
(* balance row.  Each theorem names the overlaps it has to rule out.          *)
(***************************************************************************)
EXTENDS TradeOutcomeProofs, SumTheorems, TradingRefinement

(* What steps leave alone. *)

\* One request moves at a time.
LEMMA OneMoves ==
  ASSUME Shape, NEW w \in Requests,
         Begin(w) \/ Proceed(w) \/ DeadlockVictim(w) \/ WorkerDies(w)
  PROVE  \A x \in Requests \ {w} : SameRequest(x)
  <1>1. TypeOK
    BY DEF Shape
  <1>2. ASSUME Leave(w) PROVE \A x \in Requests \ {w} : SameRequest(x)
    BY <1>1, <1>2, LeaveTypes
  <1>3. CASE Begin(w)
    <2>1. ASSUME NEW t \in Trades, NEW next, Start(w, t, next)
          PROVE  \A x \in Requests \ {w} : SameRequest(x)
      BY <1>1, <2>1 DEF Start, TypeOK, SameRequest
    <2>2. ASSUME NEW u \in Users, NEW c \in Commodities, NEW v \in Volumes, NEW l \in Levels,
                 ProduceFind(w, u, c, v, l)
          PROVE  \A x \in Requests \ {w} : SameRequest(x)
      <3>1. /\ \E new : lot' = [lot EXCEPT ![w] = new]
            /\ \E next : pc' = [pc EXCEPT ![w] = next]
            /\ UNCHANGED <<onTrade, want, fresh>>
        BY <2>2 DEF ProduceFind
      <3>2. \A x \in Requests \ {w} : row'[x] = row[x] /\ seen'[x] = seen[x]
        BY <1>1, <2>2 DEF ProduceFind, TypeOK
      <3> QED BY <1>1, <3>1, <3>2 DEF TypeOK, SameRequest
    <2> QED BY <1>3, <2>1, <2>2 DEF Begin, AcceptRead, RejectRead, ResendRead
  <1>4. CASE Proceed(w)
    <2>1. ASSUME NEW side \in Sides, AskRow(w, side)
          PROVE  \A x \in Requests \ {w} : SameRequest(x)
      BY <1>1, <2>1 DEF AskRow, TypeOK, SameRequest
    <2>2. ASSUME NEW side \in Sides, LockRow(w, side) \/ InsertRow(w, side)
          PROVE  \A x \in Requests \ {w} : SameRequest(x)
      <3>1. \E r, v : Load(w, side, r, v)
        BY <2>2 DEF LockRow, InsertRow
      <3>2. \A x \in Requests \ {w} : fresh'[x] = fresh[x]
        BY <1>1, <2>2 DEF LockRow, InsertRow, TypeOK
      <3> QED BY <1>1, <3>1, <3>2 DEF Load, TypeOK, SameRequest
    <2>3. CASE ProduceInsert(w) \/ ProduceCommit(w)
      BY <1>1, <2>3 DEF ProduceInsert, ProduceCommit, TypeOK, SameRequest
    <2> QED BY <1>2, <1>4, <2>1, <2>2, <2>3
            DEF Proceed, TooManyRows, Rollback, AcceptCommit, RejectCommit, ResendCommit, ProduceTail
  <1>5. CASE DeadlockVictim(w) \/ WorkerDies(w)
    BY <1>2, <1>5 DEF DeadlockVictim, WorkerDies, Rollback
  <1> QED BY <1>3, <1>4, <1>5

\* The volume of an account's sale and the levels it hands on are numbers.
LEMMA CommittedLevel ==
  ASSUME Shape, NEW w \in Requests, AcceptCommit(w)
  PROVE  \E level \in 0..4 : Settle(onTrade[w], "accepted", level)
  <1>1. pc[w] = "accept" /\ TypeOK
    BY DEF AcceptCommit, Shape
  <1>2. PurchaseLevels(AccountOf(onTrade[w], "seller")) \subseteq 0..4
    BY <1>1, AcceptedAccounts DEF PurchaseLevels, TypeOK, TradeRecord, Accepting, Sides
  <1> QED BY <1>2, MinLevel DEF AcceptCommit, Incomplete

\* No step changes what was agreed in a trade.
LEMMA NextTerms == Shape /\ [Next]_vars => SameTerms
  <1> SUFFICES ASSUME Shape, [Next]_vars PROVE SameTerms
    OBVIOUS
  <1>1. ASSUME UNCHANGED trade PROVE SameTerms
    BY <1>1, TermsKept
  <1>2. CASE Create
    BY <1>2, CreateTerms
  <1>3. ASSUME NEW t \in Trades, TimePasses(t) PROVE SameTerms
    BY <1>1, <1>3 DEF TimePasses
  <1>4. ASSUME NEW w \in Requests, Begin(w) PROVE SameTerms
    BY <1>1, <1>4 DEF Begin, AcceptRead, RejectRead, ResendRead, ProduceFind, Start, tables
  <1>5. ASSUME NEW w \in Requests, Proceed(w) PROVE SameTerms
    <2>1. CASE AcceptCommit(w)
      <3>1. onTrade[w] \in Trades /\ trade[onTrade[w]].status # "none"
        BY <2>1 DEF AcceptCommit, Shape, RequestShape, InHand, Accepting
      <3> QED BY <2>1, <3>1, CommittedLevel, SettleShape DEF Outcomes
    <2>2. CASE RejectCommit(w)
      <3>1. /\ onTrade[w] \in Trades /\ trade[onTrade[w]].status # "none"
            /\ trade[onTrade[w]].level \in 0..4
        BY <2>2 DEF Shape, RequestShape, InHand, RejectCommit, TypeOK, TradeRecord
      <3> QED BY <2>2, <3>1, SettleShape DEF RejectCommit, Outcomes
    <2> QED BY <1>1, <1>5, <2>1, <2>2
            DEF Proceed, AskRow, LockRow, InsertRow, Load, TooManyRows, Rollback, ResendCommit,
                ProduceInsert, ProduceCommit, ProduceTail, tables
  <1>6. ASSUME NEW w \in Requests, DeadlockVictim(w) \/ WorkerDies(w) PROVE SameTerms
    BY <1>1, <1>6 DEF DeadlockVictim, WorkerDies, Rollback
  <1>7. ASSUME NEW s \in Sweeps,
               SweepSelect(s) \/ SweepDies(s) \/ \E t \in Trades : SweepOne(s, t)
        PROVE  SameTerms
    BY <1>7, SweepTerms
  <1>8. CASE UNCHANGED vars
    BY <1>1, <1>8 DEF vars, tables
  <1> QED BY <1>2, <1>3, <1>4, <1>5, <1>6, <1>7, <1>8 DEF Next

\* All but two kinds of step leave the sums alone: they accept no trade, produce
\* nothing, and only add or remove balance rows without volume.
Quiet ==
  /\ UNCHANGED <<produced, sources>>
  /\ \A t \in Trades : trade'[t].status = "accepted" => trade'[t] = trade[t]
  /\ \A r \in Rows : \/ rowOf'[r] = rowOf[r] /\ volume'[r] = volume[r]
                     \/ volume[r] = 0 /\ volume'[r] = 0

LEMMA StepKinds ==
  ASSUME Shape, Locks, [Next]_vars
  PROVE  Quiet \/ \E w \in Requests : AcceptCommit(w) \/ ProduceCommit(w)
  <1>1. TypeOK /\ FreshIsLocked /\ NoRowNoLock
    BY DEF Shape, Locks
  <1>2. ASSUME UNCHANGED <<produced, sources, trade, rowOf, volume>> PROVE Quiet
    BY <1>2 DEF Quiet
  <1>3. ASSUME NEW t \in Trades, NEW status \in Outcomes, NEW level, status # "accepted",
               Settle(t, status, level), UNCHANGED <<produced, sources, rowOf, volume>>
        PROVE  Quiet
    <2>1. trade'[t].status = status /\ \A x \in Trades \ {t} : trade'[x] = trade[x]
      BY <1>1, <1>3 DEF Settle, TypeOK, TradeRecord
    <2> QED BY <1>3, <2>1 DEF Quiet
  <1>4. ASSUME NEW w \in Requests, Rollback(w) PROVE Quiet
    BY <1>1, <1>4 DEF Rollback, Quiet, FreshIsLocked, TypeOK
  <1>5. ASSUME NEW r \in Rows, rowOf[r] = NoAccount, NEW a, rowOf' = [rowOf EXCEPT ![r] = a],
               UNCHANGED <<produced, sources, trade, volume>>
        PROVE  Quiet
    BY <1>1, <1>5 DEF NoRowNoLock, Quiet, TypeOK
  <1>6. CASE Create
    <2>1. PICK u \in Users, recipient \in Users \cup {NoUser}, selling \in BOOLEAN,
               c \in Commodities, v \in Volumes, t \in Trades :
                 CreateDownstream(u, recipient, selling, c, v, t)
      BY <1>6 DEF Create
    <2>2. \A x \in Trades : trade'[x].status = "accepted" => trade'[x] = trade[x]
      BY <1>1, <2>1 DEF CreateDownstream, TypeOK
    <2> QED BY <2>1, <2>2 DEF CreateDownstream, Quiet
  <1>7. ASSUME NEW t \in Trades, TimePasses(t) PROVE Quiet
    BY <1>2, <1>7 DEF TimePasses
  <1>8. ASSUME NEW w \in Requests, Begin(w) PROVE Quiet
    BY <1>2, <1>8 DEF Begin, AcceptRead, RejectRead, ResendRead, ProduceFind, Start, tables
  <1>9. ASSUME NEW w \in Requests, Proceed(w), ~AcceptCommit(w), ~ProduceCommit(w) PROVE Quiet
    <2>1. ASSUME NEW side \in Sides, AskRow(w, side) \/ LockRow(w, side) PROVE Quiet
      BY <1>2, <2>1 DEF AskRow, LockRow, Load, tables
    <2>2. ASSUME NEW side \in Sides, InsertRow(w, side) PROVE Quiet
      BY <1>5, <2>2 DEF InsertRow, Load
    <2>3. CASE TooManyRows(w)
      BY <1>4, <2>3 DEF TooManyRows
    <2>4. CASE RejectCommit(w)
      <3>1. onTrade[w] \in Trades
        BY <2>4 DEF Shape, RequestShape, InHand, RejectCommit
      <3> QED BY <1>3, <2>4, <3>1 DEF RejectCommit, Outcomes
    <2>5. CASE ProduceInsert(w)
      BY <1>5, <2>5 DEF ProduceInsert
    <2> QED BY <1>2, <1>9, <2>1, <2>2, <2>3, <2>4, <2>5 DEF Proceed, ResendCommit, ProduceTail
  <1>10. ASSUME NEW w \in Requests, DeadlockVictim(w) \/ WorkerDies(w) PROVE Quiet
    BY <1>4, <1>10 DEF DeadlockVictim, WorkerDies
  <1>11. ASSUME NEW s \in Sweeps,
                SweepSelect(s) \/ SweepDies(s) \/ \E t \in Trades : SweepOne(s, t)
         PROVE  Quiet
    BY <1>2, <1>3, <1>11 DEF SweepSelect, SweepDies, SweepOne, tables, Outcomes
  <1>12. CASE UNCHANGED vars
    BY <1>2, <1>12 DEF vars, tables
  <1> QED BY <1>6, <1>7, <1>8, <1>9, <1>10, <1>11, <1>12 DEF Next

-----------------------------------------------------------------------------
(* Traceability. *)

LEMMA NextTraceability ==
  Shape /\ Locks /\ TraceabilityHasASource /\ [Next]_vars => TraceabilityHasASource'
  <1> SUFFICES ASSUME Shape, Locks, TraceabilityHasASource, [Next]_vars
               PROVE  TraceabilityHasASource'
    OBVIOUS
  <1>1. TypeOK /\ TradeShape
    BY DEF Shape
  <1>2. ASSUME NEW t \in Trades, trade'[t] = trade[t], trade[t].status = "accepted",
               \A a \in Accounts : sources[a] \subseteq sources'[a]
        PROVE  \/ trade'[t].level = Incomplete
               \/ \E u \in Users : trade'[t].level \in sources'[<<u, trade'[t].commodity>>]
    <2>1. \A u \in Users : <<u, trade[t].commodity>> \in Accounts
      BY <1>1, <1>2 DEF TradeShape, Accounts
    <2> QED BY <1>2, <2>1 DEF TraceabilityHasASource
  <1>3. CASE Quiet
    BY <1>2, <1>3 DEF Quiet, TraceabilityHasASource
  <1>4. ASSUME NEW w \in Requests, ProduceCommit(w) PROVE TraceabilityHasASource'
    <2>1. trade' = trade /\ \A a \in Accounts : sources[a] \subseteq sources'[a]
      BY <1>1, <1>4 DEF ProduceCommit, TypeOK
    <2> QED BY <1>2, <2>1 DEF TraceabilityHasASource
  <1>5. ASSUME NEW w \in Requests, AcceptCommit(w) PROVE TraceabilityHasASource'
    <2> DEFINE t == onTrade[w]
               seller == AccountOf(t, "seller")
               untraced == IF AutomaticVolume(w) > 0 THEN {Incomplete} ELSE {}
               level == DownstreamTraceability(PurchaseLevels(seller) \cup untraced)
    <2>1. pc[w] = "accept" /\ Settle(t, "accepted", level)
          /\ sources' = [sources EXCEPT ![seller] = @ \cup untraced]
      BY <1>5 DEF AcceptCommit
    <2>2. t \in Trades /\ seller \in Accounts /\ trade[t].status # "none"
          /\ seller = <<trade[t].seller, trade[t].commodity>> /\ trade[t].seller \in Users
      BY <1>1, <2>1, AcceptedAccounts DEF Shape, RequestShape, InHand, Accepting, AccountOf, Sides
    <2>3. /\ trade'[t].commodity = trade[t].commodity /\ trade'[t].level = level
          /\ \A x \in Trades \ {t} : trade'[x] = trade[x]
      BY <1>1, <2>1, <2>2 DEF Settle, TypeOK, TradeRecord
    <2>4. \A a \in Accounts : sources[a] \subseteq sources'[a]
      BY <1>1, <2>1 DEF TypeOK
    <2>5. level \in PurchaseLevels(seller) \cup untraced \cup {Incomplete}
      <3>1. PurchaseLevels(seller) \cup untraced \subseteq 0..4
        BY <1>1, <2>2 DEF PurchaseLevels, TypeOK, TradeRecord, Incomplete
      <3> QED BY <3>1, MinLevel
    <2> HIDE DEF t, seller, untraced, level
    <2>6. \/ level = Incomplete
          \/ \E u \in Users : level \in sources[<<u, trade[t].commodity>>]
      <3>1. CASE level \in sources[seller]
        BY <2>2, <3>1
      <3>2. CASE level \in {Incomplete} \cup untraced
        BY <3>2 DEF untraced
      <3>3. ASSUME NEW x \in Trades, trade[x].status = "accepted", level = trade[x].level,
                   AccountOf(x, "buyer") = seller
            PROVE  \/ level = Incomplete
                   \/ \E u \in Users : level \in sources[<<u, trade[t].commodity>>]
        <4>1. trade[x].commodity = trade[t].commodity
          BY <2>2, <3>3 DEF AccountOf
        <4> QED BY <3>3, <4>1 DEF TraceabilityHasASource
      <3> QED BY <2>5, <3>1, <3>2, <3>3 DEF PurchaseLevels
    <2>7. ASSUME NEW x \in Trades, trade'[x].status = "accepted"
          PROVE  \/ trade'[x].level = Incomplete
                 \/ \E u \in Users : trade'[x].level \in sources'[<<u, trade'[x].commodity>>]
      <3>1. CASE x = t
        <4>1. \A u \in Users : <<u, trade[t].commodity>> \in Accounts
          BY <1>1, <2>2 DEF TradeShape, Accounts
        <4> QED BY <2>3, <2>4, <2>6, <3>1, <4>1
      <3>2. CASE x # t
        BY <1>2, <2>3, <2>4, <2>7, <3>2
      <3> QED BY <3>1, <3>2
    <2> QED BY <2>7 DEF TraceabilityHasASource
  <1> QED BY <1>3, <1>4, <1>5, StepKinds

\* Whatever overlaps, every accepted trade carries a level that a producer
\* transaction of its commodity earned, or the lowest.
THEOREM TraceabilityIsInherited == Spec => []TraceabilityHasASource
  <1>1. Init => TraceabilityHasASource
    BY DEF Init, TraceabilityHasASource, Blank
  <1> QED BY <1>1, InitShape, NextShape, InitLocks, NextLocks, NextTraceability, PTL DEF Spec

-----------------------------------------------------------------------------
(* Without "producer" in Races, create_producer is alone on its account, and the *)
(* balance it read is the one it writes.                                      *)

ProducerAlone ==
  \A w, x \in Requests : w # x /\ pc[w] \in Producing => lot[w].account \notin Touches(x)

ProducerCopy ==
  \A w \in Requests :
    /\ pc[w] \in {"idle", "insert"} => seen[w]["buyer"] = 0
    /\ pc[w] = "produce" => /\ rowOf[row[w]["buyer"]] = lot[w].account
                            /\ volume[row[w]["buyer"]] = seen[w]["buyer"]

Producers == ProducerAlone /\ ProducerCopy

LEMMA InitProducers == Init => Producers
  BY DEF Init, Producers, ProducerAlone, ProducerCopy, Producing, Sides

\* A request that does not move works on the same accounts.
LEMMA TouchesKept ==
  ASSUME Shape, SameTerms, NEW x \in Requests, SameRequest(x)
  PROVE  Touches(x)' = Touches(x)
  <1>1. CASE pc[x] \in Accepting
    <2>1. onTrade[x] \in Trades /\ trade[onTrade[x]].status # "none"
      BY <1>1 DEF Shape, RequestShape, InHand
    <2>2. \A side \in Sides : AccountOf(onTrade[x], side)' = AccountOf(onTrade[x], side)
      BY <2>1 DEF AccountOf, SameTerms, SameRequest, Sides
    <2> QED BY <1>1, <2>2 DEF Touches, SameRequest
  <1>2. CASE pc[x] \notin Accepting
    BY <1>2 DEF Touches, SameRequest
  <1> QED BY <1>1, <1>2

\* A step of request w that begins no work on another account.
LEMMA AloneKept ==
  ASSUME Shape, SameTerms, ProducerAlone, NEW w \in Requests,
         \A x \in Requests \ {w} : SameRequest(x),
         Touches(w)' \subseteq Touches(w),
         pc'[w] \in Producing => pc[w] \in Producing /\ lot'[w] = lot[w]
  PROVE  ProducerAlone'
  <1> SUFFICES ASSUME NEW x \in Requests, NEW y \in Requests, x # y, pc'[x] \in Producing
               PROVE  lot'[x].account \notin Touches(y)'
    BY DEF ProducerAlone
  <1>1. Touches(y)' \subseteq Touches(y)
    BY TouchesKept
  <1>2. pc[x] \in Producing /\ lot'[x] = lot[x]
    BY DEF SameRequest
  <1> QED BY <1>1, <1>2 DEF ProducerAlone

\* The rows that producer requests have in hand are not written by others.
LEMMA CopyKept ==
  ASSUME Shape, Locks, ProducerCopy, NEW w \in Requests,
         \A x \in Requests \ {w} : SameRequest(x),
         \A x \in Requests \ {w} : pc[x] = "produce" =>
            rowOf'[row[x]["buyer"]] = rowOf[row[x]["buyer"]]
              /\ volume'[row[x]["buyer"]] = volume[row[x]["buyer"]],
         pc'[w] \in {"idle", "insert"} => seen'[w]["buyer"] = 0,
         pc'[w] = "produce" => /\ rowOf'[row'[w]["buyer"]] = lot'[w].account
                               /\ volume'[row'[w]["buyer"]] = seen'[w]["buyer"]
  PROVE  ProducerCopy'
  BY DEF ProducerCopy, SameRequest

\* The row of another producer is none that w has locked or is about to open.
LEMMA RowsApart ==
  ASSUME Shape, Locks, NEW x \in Requests, pc[x] = "produce"
  PROVE  /\ row[x]["buyer"] \in Rows /\ rowOf[row[x]["buyer"]] # NoAccount
         /\ \A w \in Requests : row[x]["buyer"] \notin fresh[w]
  BY DEF Shape, RequestShape, InHand, Locks, ProducedIsCommitted

LEMMA RollbackProducers ==
  ASSUME Shape, Locks, Producers, NEW w \in Requests, Leave(w), SameTerms, volume' = volume,
         \A r \in Rows : (\A x \in Requests : r \notin fresh[x]) => rowOf'[r] = rowOf[r]
  PROVE  Producers'
  <1>1. pc'[w] = "idle" /\ seen'[w]["buyer"] = 0 /\ \A x \in Requests \ {w} : SameRequest(x)
    BY LeaveTypes DEF Leave, Shape, TypeOK, Sides
  <1>2. Touches(w)' = {} /\ pc'[w] \notin Producing /\ pc'[w] # "produce"
    BY <1>1 DEF Touches, Accepting, Producing
  <1>3. ProducerAlone'
    BY <1>1, <1>2, AloneKept DEF Producers
  <1>4. ProducerCopy'
    BY <1>1, <1>2, RowsApart, CopyKept DEF Producers
  <1> QED BY <1>3, <1>4 DEF Producers

LEMMA AcceptStepProducers ==
  ASSUME Shape, Locks, Producers, NEW w \in Requests, NEW side \in Sides,
         AskRow(w, side) \/ LockRow(w, side) \/ InsertRow(w, side)
  PROVE  Producers'
  <1>1. TypeOK
    BY DEF Shape
  <1>2. pc[w] \in Accepting /\ UNCHANGED <<trade, volume, onTrade>>
    BY DEF AskRow, LockRow, InsertRow, Locking, Load, Accepting, tables
  <1>3. pc'[w] \in Accepting
    BY <1>1 DEF AskRow, LockRow, InsertRow, Load, TypeOK, Accepting
  <1>4. Touches(w)' = Touches(w)
    BY <1>2, <1>3 DEF Touches, AccountOf
  <1>5. pc'[w] \notin Producing /\ pc'[w] \notin {"idle", "insert", "produce"}
    BY <1>3 DEF Accepting, Producing
  <1>6. SameTerms /\ \A x \in Requests \ {w} : SameRequest(x)
    BY <1>2, TermsKept, OneMoves DEF Proceed
  <1>7. \A r \in Rows : rowOf[r] # NoAccount => rowOf'[r] = rowOf[r]
    BY <1>1 DEF AskRow, LockRow, InsertRow, TypeOK, tables
  <1>8. ProducerAlone'
    BY <1>4, <1>5, <1>6, AloneKept DEF Producers
  <1>9. ProducerCopy'
    BY <1>2, <1>5, <1>6, <1>7, RowsApart, CopyKept DEF Producers
  <1> QED BY <1>8, <1>9 DEF Producers

\* An account that w works on is not the one of another producer request.
LEMMA AcceptCommitProducers ==
  ASSUME Shape, Locks, Producers, NEW w \in Requests, AcceptCommit(w)
  PROVE  Producers'
  <1>1. TypeOK /\ pc[w] = "accept" /\ Leave(w) /\ rowOf' = rowOf
    BY DEF Shape, AcceptCommit
  <1>2. SameTerms /\ \A x \in Requests \ {w} : SameRequest(x)
    BY NextTerms, OneMoves DEF Next, Proceed
  <1>3. pc'[w] = "idle" /\ seen'[w]["buyer"] = 0
    BY <1>1 DEF Leave, TypeOK, Sides
  <1>4. Touches(w)' = {} /\ pc'[w] \notin Producing /\ pc'[w] # "produce"
    BY <1>3 DEF Touches, Accepting, Producing
  <1>5. ProducerAlone'
    BY <1>2, <1>4, AloneKept DEF Producers
  <1>6. ASSUME NEW x \in Requests \ {w}, pc[x] = "produce"
        PROVE  volume'[row[x]["buyer"]] = volume[row[x]["buyer"]]
    <2>1. \A side \in Sides : row[w][side] \in Rows /\ rowOf[row[w][side]] \in Touches(w)
      <3> SUFFICES ASSUME NEW side \in Sides
                   PROVE  row[w][side] \in Rows /\ rowOf[row[w][side]] \in Touches(w)
        OBVIOUS
      <3>1. row[w][side] \in Rows /\ row[w][side] # NoRow
        BY <1>1, NullAssumption DEF Shape, RequestShape, InHand, Sides
      <3>2. rowOf[row[w][side]] = AccountOf(onTrade[w], side)
        BY <1>1, <3>1 DEF Locks, LockedCopyIsCurrent, Accepting
      <3> QED BY <1>1, <3>1, <3>2 DEF Touches, Accepting
    <2>2. rowOf[row[x]["buyer"]] \notin Touches(w)
      BY <1>6 DEF Producers, ProducerAlone, ProducerCopy, Producing
    <2>3. row[x]["buyer"] \in Rows
      BY <1>6, RowsApart
    <2> QED BY <1>1, <2>1, <2>2, <2>3 DEF AcceptCommit, TypeOK, Sides
  <1>7. ProducerCopy'
    BY <1>1, <1>2, <1>3, <1>4, <1>6, CopyKept DEF Producers
  <1> QED BY <1>5, <1>7 DEF Producers

LEMMA ProduceStepProducers ==
  ASSUME Shape, Locks, Producers, NEW w \in Requests, ProduceInsert(w) \/ ProduceCommit(w)
  PROVE  Producers'
  <1>1. TypeOK /\ pc[w] \in Producing /\ UNCHANGED <<trade, onTrade, lot, seen>>
    BY DEF Shape, ProduceInsert, ProduceCommit, Producing
  <1>2. SameTerms /\ \A x \in Requests \ {w} : SameRequest(x)
    BY <1>1, TermsKept, OneMoves DEF Proceed
  <1>3. pc'[w] \in {"produce", "deliver"}
    BY <1>1 DEF ProduceInsert, ProduceCommit, TypeOK
  <1>4. Touches(w) = {lot[w].account} /\ Touches(w)' \subseteq {lot[w].account}
    BY <1>1, <1>3 DEF Touches, Accepting, Producing
  <1>5. ProducerAlone'
    BY <1>1, <1>2, <1>4, AloneKept DEF Producers
  <1>6. CASE ProduceInsert(w)
    <2>1. PICK r \in Rows : /\ rowOf[r] = NoAccount
                            /\ rowOf' = [rowOf EXCEPT ![r] = lot[w].account]
                            /\ row' = [row EXCEPT ![w]["buyer"] = r]
      BY <1>6 DEF ProduceInsert
    <2>2. row'[w]["buyer"] = r /\ rowOf'[r] = lot[w].account /\ volume' = volume /\ volume[r] = 0
      BY <1>1, <1>6, <2>1 DEF TypeOK, Sides, ProduceInsert, Locks, NoRowNoLock
    <2>3. seen[w]["buyer"] = 0
      BY <1>6 DEF ProduceInsert, Producers, ProducerCopy
    <2>4. \A q \in Rows : rowOf[q] # NoAccount => rowOf'[q] = rowOf[q]
      BY <1>1, <2>1 DEF TypeOK
    <2>5. ProducerCopy'
      BY <1>1, <1>2, <1>3, <2>2, <2>3, <2>4, RowsApart, CopyKept DEF Producers
    <2> QED BY <1>5, <2>5 DEF Producers
  <1>7. CASE ProduceCommit(w)
    <2>1. pc[w] = "produce" /\ pc'[w] = "deliver" /\ rowOf' = rowOf
      BY <1>1, <1>7 DEF ProduceCommit, TypeOK
    <2>2. \A q \in Rows \ {row[w]["buyer"]} : volume'[q] = volume[q]
      BY <1>1, <1>7 DEF ProduceCommit, TypeOK
    <2>3. ASSUME NEW x \in Requests \ {w}, pc[x] = "produce"
          PROVE  volume'[row[x]["buyer"]] = volume[row[x]["buyer"]]
      <3>1. rowOf[row[x]["buyer"]] # rowOf[row[w]["buyer"]]
        BY <1>4, <2>1, <2>3 DEF Producers, ProducerAlone, ProducerCopy, Producing
      <3> QED BY <2>2, <2>3, <3>1, RowsApart
    <2>4. ProducerCopy'
      BY <1>2, <2>1, <2>3, CopyKept DEF Producers
    <2> QED BY <1>5, <2>4 DEF Producers
  <1> QED BY <1>6, <1>7

\* A request that begins finds no producer on its accounts, and none on its own
\* if it is one.
LEMMA BeginProducers ==
  ASSUME "producer" \notin Races, Shape, Locks, Producers, NEW w \in Requests, Begin(w)
  PROVE  Producers'
  <1>1. TypeOK /\ UNCHANGED <<trade, rowOf, volume>>
    BY DEF Shape, Begin, AcceptRead, RejectRead, ResendRead, ProduceFind, Start, tables
  <1>2. SameTerms /\ \A x \in Requests \ {w} : SameRequest(x)
    BY <1>1, TermsKept, OneMoves
  <1>3. ASSUME NEW t \in Trades, NEW next \in {"ask_buyer", "reject", "resend"}, Start(w, t, next),
               next = "ask_buyer" => MayTouch({AccountOf(t, side) : side \in Sides}, FALSE)
        PROVE  Producers'
    <2>1. pc'[w] = next /\ onTrade'[w] = t /\ pc[w] = "idle"
      BY <1>1, <1>3 DEF Start, TypeOK
    <2>2. pc'[w] \notin Producing /\ pc'[w] \notin {"idle", "insert", "produce"}
      BY <2>1 DEF Producing
    <2>3. ASSUME NEW x \in Requests, x # w, pc[x] \in Producing
          PROVE  lot[x].account \notin Touches(w)'
      <3>1. CASE next = "ask_buyer"
        <4>1. Touches(w)' = {AccountOf(t, side) : side \in Sides}
          BY <1>1, <2>1, <3>1 DEF Touches, Accepting, AccountOf
        <4>2. Touches(x) = {lot[x].account}
          BY <2>3 DEF Touches, Producing, Accepting
        <4> QED BY <1>3, <2>3, <3>1, <4>1, <4>2 DEF MayTouch
      <3>2. CASE next # "ask_buyer"
        BY <2>1, <3>2 DEF Touches, Accepting, Producing
      <3> QED BY <3>1, <3>2
    <2>4. ProducerAlone'
      <3> SUFFICES ASSUME NEW x \in Requests, NEW y \in Requests, x # y, pc'[x] \in Producing
                   PROVE  lot'[x].account \notin Touches(y)'
        BY DEF ProducerAlone
      <3>1. x # w /\ pc[x] \in Producing /\ lot'[x] = lot[x]
        BY <1>2, <2>2 DEF SameRequest
      <3>2. CASE y = w
        BY <2>3, <3>1, <3>2
      <3>3. CASE y # w
        BY <1>2, <3>1, <3>3, TouchesKept DEF Producers, ProducerAlone
      <3> QED BY <3>2, <3>3
    <2>5. ProducerCopy'
      BY <1>1, <1>2, <2>2, CopyKept DEF Producers
    <2> QED BY <2>4, <2>5 DEF Producers
  <1>4. ASSUME NEW u \in Users, NEW c \in Commodities, NEW v \in Volumes, NEW l \in Levels,
               ProduceFind(w, u, c, v, l)
        PROVE  Producers'
    <2> DEFINE a == <<u, c>>
    <2>1. /\ pc[w] = "idle" /\ lot'[w].account = a
          /\ \A x \in Requests : a \notin Touches(x)
      <3>1. lot'[w] = [account |-> a, volume |-> v, level |-> l]
        BY <1>1, <1>4 DEF ProduceFind, TypeOK
      <3>2. \A x \in Requests : {a} \cap Touches(x) = {}
        BY <1>4 DEF ProduceFind, MayTouch
      <3> QED BY <1>4, <3>1, <3>2 DEF ProduceFind
    <2>2. \/ /\ pc'[w] = "insert" /\ seen' = seen
          \/ \E r \in Rows : /\ pc'[w] = "produce" /\ rowOf[r] = a
                             /\ row'[w]["buyer"] = r /\ seen'[w]["buyer"] = volume[r]
      <3>1. CASE pc' = [pc EXCEPT ![w] = "insert"] /\ UNCHANGED <<row, seen>>
        BY <1>1, <3>1 DEF TypeOK
      <3>2. ASSUME NEW r \in Rows, Visible(a) = {r}, pc' = [pc EXCEPT ![w] = "produce"],
                   row' = [row EXCEPT ![w]["buyer"] = r],
                   seen' = [seen EXCEPT ![w]["buyer"] = volume[r]]
            PROVE  /\ pc'[w] = "produce" /\ rowOf[r] = a
                   /\ row'[w]["buyer"] = r /\ seen'[w]["buyer"] = volume[r]
        <4>1. r \in Visible(a)
          BY <3>2
        <4> QED BY <1>1, <3>2, <4>1 DEF TypeOK, Sides, Visible
      <3> QED BY <1>4, <3>1, <3>2 DEF ProduceFind
    <2> HIDE DEF a
    <2>3. Touches(w)' \subseteq {a} /\ pc'[w] # "idle"
      BY <2>1, <2>2 DEF Touches, Accepting, Producing
    <2>4. ProducerAlone'
      <3> SUFFICES ASSUME NEW x \in Requests, NEW y \in Requests, x # y, pc'[x] \in Producing
                   PROVE  lot'[x].account \notin Touches(y)'
        BY DEF ProducerAlone
      <3>1. CASE x = w
        BY <1>2, <2>1, <3>1, TouchesKept
      <3>2. CASE x # w /\ y = w
        <4>1. lot'[x] = lot[x] /\ pc[x] \in Producing
          BY <1>2, <3>2 DEF SameRequest
        <4>2. Touches(x) = {lot[x].account}
          BY <4>1 DEF Touches, Producing, Accepting
        <4> QED BY <2>1, <2>3, <3>2, <4>1, <4>2
      <3>3. CASE x # w /\ y # w
        <4>1. lot'[x] = lot[x] /\ pc[x] \in Producing
          BY <1>2, <3>3 DEF SameRequest
        <4> QED BY <1>2, <3>3, <4>1, TouchesKept DEF Producers, ProducerAlone
      <3> QED BY <3>1, <3>2, <3>3
    <2>5. seen[w]["buyer"] = 0
      BY <2>1 DEF Producers, ProducerCopy
    <2>6. ProducerCopy'
      BY <1>1, <1>2, <2>1, <2>2, <2>3, <2>5, CopyKept DEF Producers
    <2> QED BY <2>4, <2>6 DEF Producers
  <1> QED BY <1>3, <1>4 DEF Begin, AcceptRead, RejectRead, ResendRead

\* A step outside the requests.
LEMMA OutsideProducers ==
  ASSUME Shape, Producers, SameTerms, UNCHANGED <<rowOf, volume, locals>>
  PROVE  Producers'
  <1>1. \A x \in Requests : SameRequest(x)
    BY DEF SameRequest, locals
  <1>2. \A x \in Requests : Touches(x)' = Touches(x)
    BY <1>1, TouchesKept
  <1> QED BY <1>1, <1>2 DEF Producers, ProducerAlone, ProducerCopy, SameRequest

LEMMA NextProducers ==
  ASSUME "producer" \notin Races
  PROVE  Shape /\ Locks /\ Producers /\ [Next]_vars => Producers'
  <1> SUFFICES ASSUME Shape, Locks, Producers, [Next]_vars PROVE Producers'
    OBVIOUS
  <1>1. SameTerms
    BY NextTerms
  <1>2. ASSUME NEW w \in Requests, Rollback(w) PROVE Producers'
    <2>1. TypeOK
      BY DEF Shape
    <2> QED BY <1>1, <1>2, <2>1, RollbackProducers DEF Rollback, TypeOK
  <1>3. ASSUME NEW w \in Requests, Leave(w), UNCHANGED <<rowOf, volume>> PROVE Producers'
    BY <1>1, <1>3, RollbackProducers
  <1>4. CASE Create
    BY <1>1, <1>4, CreateTerms, OutsideProducers
  <1>5. ASSUME NEW t \in Trades, TimePasses(t) PROVE Producers'
    BY <1>1, <1>5, OutsideProducers DEF TimePasses
  <1>6. ASSUME NEW w \in Requests, Begin(w) PROVE Producers'
    BY <1>6, BeginProducers
  <1>7. ASSUME NEW w \in Requests, Proceed(w) PROVE Producers'
    <2>1. CASE RejectCommit(w) \/ ResendCommit(w)
      BY <1>3, <2>1 DEF RejectCommit, ResendCommit
    <2>2. ASSUME NEW recipient \in Users \cup {NoUser}, ProduceTail(w, recipient) PROVE Producers'
      BY <1>3, <2>2 DEF ProduceTail
    <2> QED BY <1>2, <1>7, <2>1, <2>2, AcceptStepProducers, AcceptCommitProducers,
               ProduceStepProducers DEF Proceed, TooManyRows
  <1>8. ASSUME NEW w \in Requests, DeadlockVictim(w) \/ WorkerDies(w) PROVE Producers'
    BY <1>2, <1>8 DEF DeadlockVictim, WorkerDies
  <1>9. ASSUME NEW s \in Sweeps,
               SweepSelect(s) \/ SweepDies(s) \/ \E t \in Trades : SweepOne(s, t)
        PROVE  Producers'
    BY <1>9, SweepTerms, OutsideProducers
  <1>10. CASE UNCHANGED vars
    BY <1>1, <1>10, OutsideProducers DEF vars, tables
  <1> QED BY <1>4, <1>5, <1>6, <1>7, <1>8, <1>9, <1>10 DEF Next

-----------------------------------------------------------------------------
(* The sums of LedgerAgrees, taken over all rows and all trades: a row of        *)
(* another account and a trade of others count zero.  So do uncommitted rows.   *)

Worth(a) == [r \in Rows |-> IF rowOf[r] = a THEN volume[r] ELSE 0]

Dealt(a, side) ==
  [t \in Trades |-> IF trade[t].status = "accepted" /\ AccountOf(t, side) = a
                     THEN trade[t].volume ELSE 0]

Books ==
  \A a \in Accounts :
    SumFunctionOnSet(Worth(a), Rows) =
      produced[a] + SumFunctionOnSet(Dealt(a, "buyer"), Trades)
                  - SumFunctionOnSet(Dealt(a, "seller"), Trades)

\* What is summed are integers, and so are the sums.
LEMMA BooksInt ==
  ASSUME TypeOK, NEW a \in Accounts
  PROVE  /\ produced[a] \in Int
         /\ \A r \in Rows : Worth(a)[r] \in Int
         /\ SumFunctionOnSet(Worth(a), Rows) \in Int
         /\ \A side \in Sides : /\ \A t \in Trades : Dealt(a, side)[t] \in Int
                               /\ SumFunctionOnSet(Dealt(a, side), Trades) \in Int
  <1>1. \A r \in Rows : Worth(a)[r] \in Int
    BY DEF Worth, TypeOK
  <1>2. \A side \in Sides, t \in Trades : Dealt(a, side)[t] \in Int
    BY DEF Dealt, TypeOK, TradeRecord
  <1> QED BY <1>1, <1>2, FiniteAssumption, SumIsInteger DEF TypeOK

LEMMA InitBooks == Init => Books
  <1> SUFFICES ASSUME Init, NEW a \in Accounts
               PROVE  SumFunctionOnSet(Worth(a), Rows) =
                        produced[a] + SumFunctionOnSet(Dealt(a, "buyer"), Trades)
                                    - SumFunctionOnSet(Dealt(a, "seller"), Trades)
    BY DEF Books
  <1>1. ASSUME NEW S, IsFiniteSet(S), NEW f, \A x \in S : f[x] = 0
        PROVE  SumFunctionOnSet(f, S) = 0
    <2>1. \A x \in S : f[x] \in Int
      BY <1>1
    <2>2. SumFunctionOnSet(f, S) = SumFunctionOnSet(f, {})
      BY <1>1, <2>1, SumOverSubset
    <2> QED BY <2>2, SumOfNothing
  <1>2. \A r \in Rows : Worth(a)[r] = 0
    BY DEF Init, Worth
  <1>3. \A side \in Sides, t \in Trades : Dealt(a, side)[t] = 0
    BY DEF Init, Dealt, Blank
  <1>4. SumFunctionOnSet(Worth(a), Rows) = 0
    BY <1>1, <1>2, FiniteAssumption
  <1>5. \A side \in Sides : SumFunctionOnSet(Dealt(a, side), Trades) = 0
    BY <1>1, <1>3, FiniteAssumption
  <1> QED BY <1>4, <1>5 DEF Init, Sides

LEMMA BooksGiveLedger ==
  ASSUME Shape, Locks, Books
  PROVE  LedgerAgrees
  <1> SUFFICES ASSUME NEW a \in Accounts
               PROVE  Balance(a) = produced[a] + Traded(a, "buyer") - Traded(a, "seller")
    BY DEF LedgerAgrees
  <1>1. TypeOK /\ FreshIsLocked
    BY DEF Shape, Locks
  <1>2. Balance(a) = SumFunctionOnSet(Worth(a), Rows)
    <2>1. Visible(a) \in SUBSET Rows /\ \A r \in Visible(a) : Worth(a)[r] = volume[r]
      BY DEF Visible, Worth
    <2>2. \A r \in Rows \ Visible(a) : Worth(a)[r] = 0
      BY <1>1 DEF Visible, Worth, FreshIsLocked
    <2> QED BY <1>1, <2>1, <2>2, FiniteAssumption, BooksInt, SumOverSubset DEF Balance
  <1>3. ASSUME NEW side \in Sides
        PROVE  Traded(a, side) = SumFunctionOnSet(Dealt(a, side), Trades)
    <2> DEFINE own == {t \in Trades : trade[t].status = "accepted" /\ AccountOf(t, side) = a}
               amount == [t \in Trades |-> trade[t].volume]
    <2>1. own \in SUBSET Trades /\ \A t \in own : Dealt(a, side)[t] = amount[t]
      BY DEF Dealt
    <2>2. \A t \in Trades \ own : Dealt(a, side)[t] = 0
      BY DEF Dealt
    <2>3. Traded(a, side) = SumFunctionOnSet(amount, own)
      BY DEF Traded
    <2> HIDE DEF own, amount
    <2> QED BY <1>1, <2>1, <2>2, <2>3, FiniteAssumption, BooksInt, SumOverSubset
  <1> QED BY <1>2, <1>3 DEF Books, Sides

\* Steps that accept nothing and produce nothing.
LEMMA QuietBooks ==
  ASSUME Shape, Books, Quiet, Keeps
  PROVE  Books'
  <1> SUFFICES ASSUME NEW a \in Accounts
               PROVE  SumFunctionOnSet(Worth(a)', Rows) =
                        produced'[a] + SumFunctionOnSet(Dealt(a, "buyer")', Trades)
                                     - SumFunctionOnSet(Dealt(a, "seller")', Trades)
    BY DEF Books
  <1>1. \A r \in Rows : Worth(a)[r] = Worth(a)'[r]
    BY DEF Worth, Quiet
  <1>2. ASSUME NEW side \in Sides, NEW t \in Trades
        PROVE  Dealt(a, side)[t] = Dealt(a, side)'[t]
    BY DEF Dealt, Quiet, Keeps, Outcomes, AccountOf
  <1>3. SumFunctionOnSet(Worth(a), Rows) = SumFunctionOnSet(Worth(a)', Rows)
    BY <1>1, FiniteAssumption, SumOfSame
  <1>4. \A side \in Sides :
          SumFunctionOnSet(Dealt(a, side), Trades) = SumFunctionOnSet(Dealt(a, side)', Trades)
    BY <1>2, FiniteAssumption, SumOfSame
  <1> QED BY <1>3, <1>4 DEF Books, Quiet, Sides

\* One producer request adds its volume to the row and to the transactions.
LEMMA ProduceBooks ==
  ASSUME Shape, Shape', Producers, Books, NEW w \in Requests, ProduceCommit(w)
  PROVE  Books'
  <1> SUFFICES ASSUME NEW a \in Accounts
               PROVE  SumFunctionOnSet(Worth(a)', Rows) =
                        produced'[a] + SumFunctionOnSet(Dealt(a, "buyer")', Trades)
                                     - SumFunctionOnSet(Dealt(a, "seller")', Trades)
    BY DEF Books
  <1> DEFINE r == row[w]["buyer"]
             v == lot[w].volume
  <1>1. TypeOK /\ TypeOK'
    BY DEF Shape
  <1>2. /\ r \in Rows /\ v \in Int /\ rowOf[r] = lot[w].account /\ volume[r] = seen[w]["buyer"]
        /\ lot[w].account \in Accounts /\ volume[r] \in Int
    BY <1>1 DEF ProduceCommit, Producers, ProducerCopy, Shape, RequestShape, InHand, Producing, TypeOK
  <1>3. /\ volume' = [volume EXCEPT ![r] = volume[r] + v]
        /\ produced' = [produced EXCEPT ![lot[w].account] = @ + v]
        /\ UNCHANGED <<trade, rowOf>>
    BY <1>2 DEF ProduceCommit
  <1> HIDE DEF r, v
  <1>4. \A side \in Sides : Dealt(a, side)' = Dealt(a, side)
    BY <1>3 DEF Dealt, AccountOf
  <1>5. /\ \A q \in Rows : Worth(a)[q] \in Int /\ Worth(a)'[q] \in Int
        /\ SumFunctionOnSet(Worth(a), Rows) \in Int /\ produced[a] \in Int
        /\ SumFunctionOnSet(Dealt(a, "buyer"), Trades) \in Int
        /\ SumFunctionOnSet(Dealt(a, "seller"), Trades) \in Int
    <2>1. \A q \in Rows : Worth(a)'[q] \in Int
      BY <1>1 DEF Worth, TypeOK
    <2> QED BY <1>1, <2>1, BooksInt DEF Sides
  <1>6. CASE a = lot[w].account
    <2>1. /\ Worth(a)'[r] = Worth(a)[r] + v /\ produced'[a] = produced[a] + v
          /\ \A q \in Rows \ {r} : Worth(a)[q] = Worth(a)'[q]
      BY <1>1, <1>2, <1>3, <1>6 DEF Worth, TypeOK
    <2>2. SumFunctionOnSet(Worth(a)', Rows)
            = SumFunctionOnSet(Worth(a), Rows) + Worth(a)'[r] - Worth(a)[r]
      BY <1>2, <1>5, <2>1, FiniteAssumption, SumFollowsChange
    <2>3. SumFunctionOnSet(Worth(a)', Rows) = SumFunctionOnSet(Worth(a), Rows) + v
      BY <1>2, <1>5, <2>1, <2>2
    <2> QED BY <1>2, <1>4, <1>5, <2>1, <2>3 DEF Books, Sides
  <1>7. CASE a # lot[w].account
    <2>1. \A q \in Rows : Worth(a)[q] = Worth(a)'[q]
      BY <1>1, <1>2, <1>3, <1>7 DEF Worth, TypeOK
    <2>2. SumFunctionOnSet(Worth(a), Rows) = SumFunctionOnSet(Worth(a)', Rows)
      BY <2>1, FiniteAssumption, SumOfSame
    <2>3. produced'[a] = produced[a]
      BY <1>1, <1>3, <1>7 DEF TypeOK
    <2> QED BY <1>4, <2>2, <2>3 DEF Books, Sides
  <1> QED BY <1>6, <1>7

\* Accepting a trade moves its volume between two rows, after the automatic
\* purchase has been added to one of them and to the transactions.
LEMMA AcceptBooks ==
  ASSUME Shape, Shape', Locks, Exclusive, Books, NEW w \in Requests, AcceptCommit(w)
  PROVE  Books'
  <1>1. TypeOK /\ TypeOK' /\ TradeShape /\ pc[w] = "accept"
    BY DEF Shape, AcceptCommit
  <1>0. PICK t \in Trades : t = onTrade[w] /\ trade[t].status = "pending"
    BY <1>1 DEF Shape, RequestShape, InHand, Accepting, Exclusive, PendingInHand, Deciding
  <1>3. PICK v \in Int, bought \in Int : v = trade[t].volume /\ bought = AutomaticVolume(w)
    BY <1>0, <1>1 DEF AutomaticVolume, TypeOK, TradeRecord, Sides
  <1> DEFINE accountOn(side) == AccountOf(t, side)
             change(side) == IF side = "buyer" THEN v ELSE bought - v
  <1>2. /\ trade[t].status = "pending"
        /\ accountOn("buyer") # accountOn("seller")
        /\ accountOn("buyer") \in Accounts /\ accountOn("seller") \in Accounts
    <2>1. trade[t].buyer # trade[t].seller
      BY <1>0, <1>1 DEF TradeShape
    <2> QED BY <1>0, <1>1, <2>1, AcceptedAccounts DEF AccountOf, Accepting, Sides
  <1>4. ASSUME NEW side \in Sides
        PROVE  /\ row[w][side] \in Rows /\ rowOf[row[w][side]] = accountOn(side)
               /\ volume[row[w][side]] = seen[w][side] /\ seen[w][side] \in Int
    <2>1. row[w][side] \in Rows /\ row[w][side] # NoRow
      BY <1>1, NullAssumption DEF Shape, RequestShape, InHand, Sides
    <2> QED BY <1>0, <1>1, <2>1 DEF Locks, LockedCopyIsCurrent, Accepting, TypeOK
  <1>5. row[w]["buyer"] # row[w]["seller"]
    BY <1>2, <1>4 DEF Sides
  <1>6. /\ rowOf' = rowOf
        /\ produced' = [produced EXCEPT ![accountOn("seller")] = @ + bought]
        /\ \A side \in Sides : volume'[row[w][side]] = volume[row[w][side]] + change(side)
        /\ \A r \in Rows : (\A side \in Sides : r # row[w][side]) => volume'[r] = volume[r]
    <2>1. volume' = [volume EXCEPT
             ![row[w]["seller"]] = seen[w]["seller"] + bought - v,
             ![row[w]["buyer"]] = seen[w]["buyer"] + v]
      BY <1>0, <1>3 DEF AcceptCommit
    <2>2. /\ volume'[row[w]["buyer"]] = seen[w]["buyer"] + v
          /\ volume'[row[w]["seller"]] = seen[w]["seller"] + bought - v
          /\ \A r \in Rows \ {row[w]["buyer"], row[w]["seller"]} : volume'[r] = volume[r]
      <3> QED BY <1>1, <1>4, <1>5, <2>1 DEF TypeOK, Sides
    <2>3. seen[w]["seller"] + bought - v = seen[w]["seller"] + (bought - v)
      BY <1>3, <1>4 DEF Sides
    <2> QED BY <1>0, <1>3, <1>4, <2>2, <2>3 DEF AcceptCommit, Sides
  <1>7. /\ trade'[t].status = "accepted" /\ \A x \in Trades \ {t} : trade'[x] = trade[x]
        /\ \A side \in Sides : AccountOf(t, side)' = AccountOf(t, side)
        /\ trade'[t].volume = v
    <2>1. \E level : Settle(t, "accepted", level)
      BY <1>0 DEF AcceptCommit
    <2> QED BY <1>1, <1>2, <1>3, <2>1 DEF Settle, TypeOK, TradeRecord, AccountOf, Sides
  <1> HIDE DEF accountOn
  <1> SUFFICES ASSUME NEW a \in Accounts
               PROVE  SumFunctionOnSet(Worth(a)', Rows) =
                        produced'[a] + SumFunctionOnSet(Dealt(a, "buyer")', Trades)
                                     - SumFunctionOnSet(Dealt(a, "seller")', Trades)
    BY DEF Books
  <1>8. /\ produced[a] \in Int
        /\ \A r \in Rows : Worth(a)[r] \in Int /\ Worth(a)'[r] \in Int
        /\ SumFunctionOnSet(Worth(a), Rows) \in Int
        /\ \A side \in Sides : SumFunctionOnSet(Dealt(a, side), Trades) \in Int
        /\ \A side \in Sides : \A x \in Trades : Dealt(a, side)[x] \in Int /\ Dealt(a, side)'[x] \in Int
    <2>1. \A r \in Rows : Worth(a)'[r] \in Int
      BY <1>1 DEF Worth, TypeOK
    <2>2. \A side \in Sides : \A x \in Trades : Dealt(a, side)'[x] \in Int
      BY <1>1 DEF Dealt, TypeOK, TradeRecord
    <2> QED BY <1>1, <2>1, <2>2, BooksInt
  <1>9. ASSUME NEW side \in Sides, a = accountOn(side)
        PROVE  SumFunctionOnSet(Worth(a)', Rows) = SumFunctionOnSet(Worth(a), Rows) + change(side)
    <2> DEFINE r == row[w][side]
    <2>1. r \in Rows /\ change(side) \in Int
      BY <1>3, <1>4
    <2>2. Worth(a)'[r] = Worth(a)[r] + change(side)
      BY <1>4, <1>6, <1>9 DEF Worth
    <2>3. ASSUME NEW q \in Rows \ {r} PROVE Worth(a)[q] = Worth(a)'[q]
      <3>1. CASE \A s \in Sides : q # row[w][s]
        BY <1>6, <3>1 DEF Worth
      <3>2. ASSUME NEW s \in Sides, q = row[w][s] PROVE Worth(a)[q] = Worth(a)'[q]
        <4>1. rowOf[q] # a
          BY <1>2, <1>4, <1>9, <3>2 DEF Sides
        <4> QED BY <1>6, <4>1 DEF Worth
      <3> QED BY <3>1, <3>2
    <2> HIDE DEF r, change
    <2>4. SumFunctionOnSet(Worth(a)', Rows)
            = SumFunctionOnSet(Worth(a), Rows) + Worth(a)'[r] - Worth(a)[r]
      BY <1>8, <2>1, <2>3, FiniteAssumption, SumFollowsChange
    <2> QED BY <1>8, <2>1, <2>2, <2>4
  <1>10. ASSUME \A side \in Sides : a # accountOn(side)
         PROVE  SumFunctionOnSet(Worth(a)', Rows) = SumFunctionOnSet(Worth(a), Rows)
    <2>1. ASSUME NEW q \in Rows PROVE Worth(a)'[q] = Worth(a)[q]
      <3>1. CASE \A s \in Sides : q # row[w][s]
        BY <1>6, <3>1 DEF Worth
      <3>2. ASSUME NEW s \in Sides, q = row[w][s] PROVE Worth(a)'[q] = Worth(a)[q]
        BY <1>4, <1>6, <1>10, <3>2 DEF Worth
      <3> QED BY <3>1, <3>2
    <2> QED BY <2>1, FiniteAssumption, SumOfSame
  <1>11. ASSUME NEW side \in Sides, a = accountOn(side)
         PROVE  SumFunctionOnSet(Dealt(a, side)', Trades)
                  = SumFunctionOnSet(Dealt(a, side), Trades) + v
    <2>1. Dealt(a, side)[t] = 0 /\ Dealt(a, side)'[t] = v
      BY <1>2, <1>7, <1>11 DEF Dealt, accountOn
    <2>2. \A x \in Trades \ {t} : Dealt(a, side)[x] = Dealt(a, side)'[x]
      BY <1>7 DEF Dealt, AccountOf
    <2>3. SumFunctionOnSet(Dealt(a, side)', Trades)
            = SumFunctionOnSet(Dealt(a, side), Trades) + Dealt(a, side)'[t] - Dealt(a, side)[t]
      BY <1>2, <1>8, <2>2, FiniteAssumption, SumFollowsChange
    <2> QED BY <1>3, <1>8, <2>1, <2>3
  <1>12. ASSUME NEW side \in Sides, a # accountOn(side)
         PROVE  SumFunctionOnSet(Dealt(a, side)', Trades) = SumFunctionOnSet(Dealt(a, side), Trades)
    <2>1. Dealt(a, side)[t] = 0 /\ Dealt(a, side)'[t] = 0
      BY <1>2, <1>7, <1>12 DEF Dealt, accountOn
    <2>2. \A x \in Trades : Dealt(a, side)'[x] = Dealt(a, side)[x]
      BY <1>7, <2>1 DEF Dealt, AccountOf
    <2> QED BY <2>2, FiniteAssumption, SumOfSame
  <1>13. SumFunctionOnSet(Worth(a), Rows) =
           produced[a] + SumFunctionOnSet(Dealt(a, "buyer"), Trades)
                       - SumFunctionOnSet(Dealt(a, "seller"), Trades)
    BY DEF Books
  <1>14. CASE a = accountOn("buyer")
    <2>1. produced'[a] = produced[a]
      BY <1>1, <1>2, <1>6, <1>14 DEF TypeOK
    <2>2. /\ SumFunctionOnSet(Worth(a)', Rows) = SumFunctionOnSet(Worth(a), Rows) + v
          /\ SumFunctionOnSet(Dealt(a, "buyer")', Trades)
               = SumFunctionOnSet(Dealt(a, "buyer"), Trades) + v
          /\ SumFunctionOnSet(Dealt(a, "seller")', Trades)
               = SumFunctionOnSet(Dealt(a, "seller"), Trades)
      BY <1>2, <1>9, <1>11, <1>12, <1>14 DEF Sides
    <2> QED BY <1>3, <1>8, <1>13, <2>1, <2>2 DEF Sides
  <1>15. CASE a = accountOn("seller")
    <2>1. produced'[a] = produced[a] + bought
      BY <1>1, <1>2, <1>6, <1>15 DEF TypeOK
    <2>2. /\ SumFunctionOnSet(Worth(a)', Rows) = SumFunctionOnSet(Worth(a), Rows) + (bought - v)
          /\ SumFunctionOnSet(Dealt(a, "buyer")', Trades)
               = SumFunctionOnSet(Dealt(a, "buyer"), Trades)
          /\ SumFunctionOnSet(Dealt(a, "seller")', Trades)
               = SumFunctionOnSet(Dealt(a, "seller"), Trades) + v
      BY <1>2, <1>9, <1>11, <1>12, <1>15 DEF Sides
    <2> QED BY <1>3, <1>8, <1>13, <2>1, <2>2 DEF Sides
  <1>16. CASE \A side \in Sides : a # accountOn(side)
    <2>1. produced'[a] = produced[a]
      BY <1>1, <1>2, <1>6, <1>16 DEF TypeOK, Sides
    <2> QED BY <1>10, <1>12, <1>13, <1>16, <2>1 DEF Sides
  <1> QED BY <1>14, <1>15, <1>16 DEF Sides

LEMMA NextBooks ==
  ASSUME "trade" \notin Races
  PROVE  Shape /\ Shape' /\ Locks /\ Exclusive /\ OneNoticePerOutcome /\ Producers /\ Books
           /\ [Next]_vars => Books'
  <1> SUFFICES ASSUME Shape, Shape', Locks, Exclusive, OneNoticePerOutcome, Producers, Books,
                      [Next]_vars
               PROVE  Books'
    OBVIOUS
  <1>1. Keeps
    BY NextExclusive
  <1> QED BY <1>1, StepKinds, QuietBooks, AcceptBooks, ProduceBooks

\* A balance is what the transactions of its account add up to, for any number of
\* requests that share accounts and rows or open an account twice, as long as no
\* two operations on one trade overlap, nor a producer request with another on its account.
THEOREM BalancesAddUp ==
  ASSUME "trade" \notin Races, "producer" \notin Races
  PROVE  Spec => []LedgerAgrees
  <1>1. Shape /\ Locks /\ Books => LedgerAgrees
    BY BooksGiveLedger
  <1> QED BY <1>1, InitShape, NextShape, InitLocks, NextLocks, InitExclusive, NextExclusive,
             InitProducers, NextProducers, InitBooks, NextBooks, PTL DEF Spec

-----------------------------------------------------------------------------
(* Without "opening" in Races, nobody else works on an account without a row. *)

Sole ==
  \A w, x \in Requests : \A a \in Touches(w) \cap Touches(x) : w = x \/ Visible(a) # {}

\* Rows a request has inserted belong to its accounts, the buyer's first.
OwnFresh(w) ==
  \A r \in fresh[w] : /\ rowOf[r] \in Touches(w) /\ pc[w] \notin {"ask_buyer", "lock_buyer"}
                      /\ pc[w] # "accept" => rowOf[r] = AccountOf(onTrade[w], "buyer")

\* A request that found no row, and is about to insert one, is still right.
NoneYet(w) ==
  /\ \A side \in Sides : Locking(w, side) /\ want[w] = {} =>
       \A r \in Rows : rowOf[r] # AccountOf(onTrade[w], side)
  /\ pc[w] = "insert" => \A r \in Rows : rowOf[r] # lot[w].account

RowsDiffer == \A r, q \in Rows : rowOf[r] = rowOf[q] /\ rowOf[r] # NoAccount => r = q

Opened == Sole /\ (\A w \in Requests : OwnFresh(w) /\ NoneYet(w)) /\ RowsDiffer

LEMMA InitOpened == Init => Opened
  BY DEF Init, Opened, Sole, Touches, Accepting, Producing, OwnFresh, NoneYet, Locking,
         RowsDiffer, Sides

\* Request w undoes rows it inserted, or inserts some for its accounts.
RowsOf(w) ==
  /\ \A r \in Rows : \/ rowOf'[r] = rowOf[r]
                     \/ r \in fresh[w] /\ rowOf'[r] = NoAccount
                     \/ rowOf[r] = NoAccount /\ rowOf'[r] \in Touches(w)
  /\ \A r \in fresh'[w] \ fresh[w] : rowOf[r] = NoAccount

\* A committed row stays where everyone sees it.
LEMMA VisibleGrows ==
  ASSUME NEW w \in Requests, RowsOf(w), \A x \in Requests \ {w} : SameRequest(x),
         NEW a \in Accounts
  PROVE  Visible(a) \subseteq Visible(a)'
  <1> SUFFICES ASSUME NEW r \in Rows, rowOf[r] = a, \A x \in Requests : r \notin fresh[x]
               PROVE  rowOf'[r] = a /\ \A x \in Requests : r \notin fresh'[x]
    BY DEF Visible
  <1>1. rowOf[r] # NoAccount
    BY NullAssumption DEF Accounts
  <1> QED BY <1>1 DEF RowsOf, SameRequest

LEMMA TouchesAreAccounts ==
  ASSUME Shape, NEW w \in Requests
  PROVE  Touches(w) \subseteq Accounts
  BY AcceptedAccounts DEF Touches, Shape, RequestShape, InHand

LEMMA SoleKept ==
  ASSUME Shape, SameTerms, Sole, NEW w \in Requests, RowsOf(w),
         \A x \in Requests \ {w} : SameRequest(x), Touches(w)' \subseteq Touches(w)
  PROVE  Sole'
  <1> SUFFICES ASSUME NEW x \in Requests, NEW y \in Requests, x # y,
                      NEW a \in Touches(x)' \cap Touches(y)'
               PROVE  Visible(a)' # {}
    BY DEF Sole
  <1>1. a \in Touches(x) \cap Touches(y)
    BY TouchesKept
  <1>2. a \in Accounts /\ Visible(a) # {}
    BY <1>1, TouchesAreAccounts DEF Sole
  <1> QED BY <1>2, VisibleGrows

\* What a request does with rows disturbs no other request.
LEMMA OthersOpened ==
  ASSUME Shape, Locks, Opened, SameTerms, NEW w \in Requests, RowsOf(w),
         NEW x \in Requests \ {w}, SameRequest(x)
  PROVE  OwnFresh(x)' /\ NoneYet(x)'
  <1>1. Touches(x)' = Touches(x) /\ Touches(x) \subseteq Accounts
    BY TouchesKept, TouchesAreAccounts
  <1>2. ASSUME pc[x] \in Accepting, NEW side \in Sides
        PROVE  /\ AccountOf(onTrade[x], side)' = AccountOf(onTrade[x], side)
               /\ AccountOf(onTrade[x], side) \in Touches(x)
    <2>1. onTrade[x] \in Trades /\ trade[onTrade[x]].status # "none"
      BY <1>2 DEF Shape, RequestShape, InHand
    <2> QED BY <1>2, <2>1 DEF AccountOf, SameTerms, SameRequest, Sides, Touches
  <1>3. OwnFresh(x)'
    <2> SUFFICES ASSUME NEW r \in fresh[x]
                 PROVE  /\ rowOf'[r] = rowOf[r] /\ pc[x] \in Accepting /\ "buyer" \in Sides
      BY <1>1, <1>2 DEF OwnFresh, SameRequest, Opened
    <2>1. r \in Rows /\ rowOf[r] # NoAccount /\ lockedBy[r] = x /\ pc[x] \in Accepting
      BY DEF Shape, TypeOK, Locks, FreshIsLocked, OnlyAcceptHolds
    <2>2. r \notin fresh[w]
      BY <2>1 DEF Locks, FreshIsLocked
    <2> QED BY <2>1, <2>2 DEF RowsOf, Sides
  <1>4. ASSUME NEW a \in Touches(x), \A r \in Rows : rowOf[r] # a, NEW r \in Rows
        PROVE  rowOf'[r] # a
    <2>1. Visible(a) = {} /\ a # NoAccount
      BY <1>1, <1>4, NullAssumption DEF Visible, Accounts
    <2>2. a \notin Touches(w)
      BY <2>1 DEF Opened, Sole
    <2> QED BY <1>4, <2>1, <2>2 DEF RowsOf
  <1>5. ASSUME NEW side \in Sides, Locking(x, side), want[x] = {}, NEW r \in Rows
        PROVE  rowOf'[r] # AccountOf(onTrade[x], side)'
    <2>1. pc[x] \in Accepting
      BY <1>5 DEF Locking, Accepting
    <2> QED BY <1>2, <1>4, <1>5, <2>1 DEF Opened, NoneYet
  <1>6. ASSUME pc[x] = "insert", NEW r \in Rows
        PROVE  rowOf'[r] # lot[x].account
    <2>1. lot[x].account \in Touches(x)
      BY <1>6 DEF Touches, Producing, Accepting
    <2> QED BY <1>4, <1>6, <2>1 DEF Opened, NoneYet
  <1>7. NoneYet(x)'
    BY <1>5, <1>6 DEF NoneYet, Locking, SameRequest
  <1> QED BY <1>3, <1>7

\* A step of request w that opens no account.
LEMMA StepOpened ==
  ASSUME Shape, Locks, Opened, SameTerms, NEW w \in Requests, RowsOf(w),
         \A x \in Requests \ {w} : SameRequest(x),
         Touches(w)' \subseteq Touches(w), OwnFresh(w)', NoneYet(w)', RowsDiffer'
  PROVE  Opened'
  BY SoleKept, OthersOpened DEF Opened

\* Removing rows leaves the others different.
LEMMA DifferKept ==
  ASSUME RowsDiffer, \A r \in Rows : rowOf'[r] = rowOf[r] \/ rowOf'[r] = NoAccount
  PROVE  RowsDiffer'
  BY DEF RowsDiffer

LEMMA LeaveOpened ==
  ASSUME Shape, Locks, Opened, SameTerms, NEW w \in Requests, Leave(w),
         \/ rowOf' = rowOf
         \/ rowOf' = [r \in Rows |-> IF r \in fresh[w] THEN NoAccount ELSE rowOf[r]]
  PROVE  Opened'
  <1>1. pc'[w] = "idle" /\ fresh'[w] = {} /\ \A x \in Requests \ {w} : SameRequest(x)
    BY LeaveTypes DEF Leave, Shape, TypeOK
  <1>2. Touches(w)' = {} /\ OwnFresh(w)' /\ NoneYet(w)'
    BY <1>1 DEF Touches, Accepting, Producing, OwnFresh, NoneYet, Locking
  <1>3. RowsOf(w) /\ \A r \in Rows : rowOf'[r] = rowOf[r] \/ rowOf'[r] = NoAccount
    BY <1>1 DEF RowsOf
  <1> QED BY <1>1, <1>2, <1>3, DifferKept, StepOpened DEF Opened

\* A row is inserted for an account that has none.
LEMMA InsertDiffers ==
  ASSUME TypeOK, RowsDiffer, NEW r \in Rows, NEW a, rowOf' = [rowOf EXCEPT ![r] = a],
         \A q \in Rows : rowOf[q] # a
  PROVE  RowsDiffer'
  BY DEF TypeOK, RowsDiffer

LEMMA AskRowOpened ==
  ASSUME Shape, Locks, Opened, NEW w \in Requests, NEW side \in Sides, AskRow(w, side)
  PROVE  Opened'
  <1> DEFINE a == AccountOf(onTrade[w], side)
  <1>1. /\ TypeOK /\ UNCHANGED <<trade, rowOf, onTrade, fresh>> /\ pc[w] \in Accepting
        /\ pc[w] = (IF side = "buyer" THEN "ask_buyer" ELSE "ask_seller")
        /\ pc'[w] = (IF side = "buyer" THEN "lock_buyer" ELSE "lock_seller")
        /\ want'[w] = Visible(a)
    BY DEF Shape, AskRow, TypeOK, tables, Accepting
  <1>2. SameTerms /\ \A x \in Requests \ {w} : SameRequest(x)
    BY <1>1, TermsKept, OneMoves DEF Proceed
  <1>3. Touches(w)' = Touches(w) /\ a \in Touches(w) /\ RowsOf(w)
    BY <1>1 DEF Touches, Accepting, AccountOf, RowsOf, Sides
  <1>4. OwnFresh(w)'
    BY <1>1, <1>3 DEF OwnFresh, Opened, AccountOf
  <1>5. ASSUME Visible(a) = {}, NEW r \in Rows, rowOf[r] = a
        PROVE  FALSE
    <2>1. PICK x \in Requests : r \in fresh[x]
      BY <1>5 DEF Visible
    <2>2. a \in Touches(x) /\ (pc[x] # "accept" => a = AccountOf(onTrade[x], "buyer"))
          /\ pc[x] \notin {"ask_buyer", "lock_buyer"}
      BY <1>5, <2>1 DEF Opened, OwnFresh
    <2>3. x = w
      BY <1>3, <1>5, <2>2 DEF Opened, Sole
    <2>4. side = "seller" /\ a = AccountOf(onTrade[w], "buyer")
      BY <1>1, <2>2, <2>3 DEF Sides
    <2>5. trade[onTrade[w]].buyer # trade[onTrade[w]].seller
      BY <1>1, AcceptedAccounts DEF Shape, TradeShape
    <2> QED BY <2>4, <2>5 DEF AccountOf
  <1>6. NoneYet(w)'
    <2>1. \A s \in Sides : Locking(w, s)' => s = side
      BY <1>1 DEF Locking, Sides
    <2>2. pc'[w] # "insert" /\ AccountOf(onTrade[w], side)' = a
      BY <1>1 DEF AccountOf
    <2> HIDE DEF a
    <2> QED BY <1>1, <1>5, <2>1, <2>2 DEF NoneYet
  <1>7. RowsDiffer'
    BY <1>1, DifferKept DEF Opened
  <1> QED BY <1>2, <1>3, <1>4, <1>6, <1>7, StepOpened

LEMMA LockRowOpened ==
  ASSUME Shape, Locks, Opened, NEW w \in Requests, NEW side \in Sides, LockRow(w, side)
  PROVE  Opened'
  <1>1. /\ TypeOK /\ UNCHANGED <<trade, rowOf, onTrade, fresh>> /\ pc[w] \in Accepting
        /\ Locking(w, side) /\ pc'[w] = (IF side = "buyer" THEN "ask_seller" ELSE "accept")
    BY DEF Shape, LockRow, Locking, Load, TypeOK, Accepting
  <1>2. SameTerms /\ \A x \in Requests \ {w} : SameRequest(x)
    BY <1>1, TermsKept, OneMoves DEF Proceed
  <1>3. Touches(w)' = Touches(w) /\ RowsOf(w)
    BY <1>1 DEF Touches, Accepting, AccountOf, RowsOf
  <1>4. OwnFresh(w)'
    BY <1>1, <1>3 DEF OwnFresh, Opened, AccountOf, Locking
  <1>5. NoneYet(w)'
    BY <1>1 DEF NoneYet, Locking, Sides
  <1>6. RowsDiffer'
    BY <1>1, DifferKept DEF Opened
  <1> QED BY <1>2, <1>3, <1>4, <1>5, <1>6, StepOpened

LEMMA InsertRowOpened ==
  ASSUME Shape, Locks, Opened, NEW w \in Requests, NEW side \in Sides, InsertRow(w, side)
  PROVE  Opened'
  <1> DEFINE a == AccountOf(onTrade[w], side)
  <1>1. PICK r \in Rows : /\ rowOf[r] = NoAccount /\ rowOf' = [rowOf EXCEPT ![r] = a]
                          /\ fresh' = [fresh EXCEPT ![w] = @ \cup {r}]
                          /\ Load(w, side, r, 0)
    BY DEF InsertRow
  <1>2. /\ TypeOK /\ UNCHANGED <<trade, onTrade>> /\ pc[w] \in Accepting
        /\ Locking(w, side) /\ want[w] = {}
        /\ pc'[w] = (IF side = "buyer" THEN "ask_seller" ELSE "accept")
    BY <1>1 DEF Shape, InsertRow, Locking, Load, TypeOK, Accepting
  <1>3. SameTerms /\ \A x \in Requests \ {w} : SameRequest(x)
    BY <1>2, TermsKept, OneMoves DEF Proceed
  <1>4. Touches(w)' = Touches(w) /\ a \in Touches(w) /\ a' = a
    BY <1>2 DEF Touches, Accepting, AccountOf, Sides
  <1>5. /\ rowOf'[r] = a /\ fresh'[w] = fresh[w] \cup {r}
        /\ \A q \in Rows \ {r} : rowOf'[q] = rowOf[q]
        /\ fresh[w] \subseteq Rows \ {r}
    BY <1>1, <1>2 DEF TypeOK, Locks, FreshIsLocked
  <1>6. RowsOf(w)
    BY <1>1, <1>4, <1>5 DEF RowsOf
  <1>7. OwnFresh(w)'
    <2>1. ASSUME NEW q \in fresh[w]
          PROVE  rowOf'[q] = rowOf[q] /\ rowOf[q] \in Touches(w) /\ pc[w] = "lock_seller"
      BY <1>2, <1>5 DEF Opened, OwnFresh, Locking
    <2>2. fresh[w] # {} => side = "seller" /\ pc'[w] = "accept"
      BY <1>2, <2>1 DEF Locking, Sides
    <2>3. side = "seller" => pc'[w] = "accept"
      BY <1>2
    <2>4. side = "buyer" => a = AccountOf(onTrade[w], "buyer")'
      BY <1>2 DEF AccountOf
    <2>5. pc'[w] \notin {"ask_buyer", "lock_buyer"}
      BY <1>2
    <2> HIDE DEF a
    <2> QED BY <1>4, <1>5, <2>1, <2>2, <2>3, <2>4, <2>5 DEF OwnFresh, Sides
  <1>8. NoneYet(w)'
    BY <1>2 DEF NoneYet, Locking, Sides
  <1>9. RowsDiffer'
    <2>1. \A q \in Rows : rowOf[q] # a
      BY <1>2 DEF Opened, NoneYet
    <2> HIDE DEF a
    <2> QED BY <1>1, <1>2, <2>1, InsertDiffers DEF Opened
  <1> QED BY <1>3, <1>4, <1>6, <1>7, <1>8, <1>9, StepOpened

LEMMA ProduceStepOpened ==
  ASSUME Shape, Locks, Opened, NEW w \in Requests, ProduceInsert(w) \/ ProduceCommit(w)
  PROVE  Opened'
  <1>1. /\ TypeOK /\ pc[w] \in Producing /\ UNCHANGED <<trade, onTrade, lot, fresh>>
        /\ fresh[w] = {}
    BY DEF Shape, ProduceInsert, ProduceCommit, Producing, Accepting, Locks, OnlyAcceptHolds
  <1>2. SameTerms /\ \A x \in Requests \ {w} : SameRequest(x)
    BY <1>1, TermsKept, OneMoves DEF Proceed
  <1>3. pc'[w] \in {"produce", "deliver"}
    BY <1>1 DEF ProduceInsert, ProduceCommit, TypeOK
  <1>4. Touches(w) = {lot[w].account} /\ Touches(w)' \subseteq Touches(w)
    BY <1>1, <1>3 DEF Touches, Accepting, Producing
  <1>5. OwnFresh(w)' /\ NoneYet(w)'
    BY <1>1, <1>3 DEF OwnFresh, NoneYet, Locking
  <1>6. RowsOf(w) /\ RowsDiffer'
    <2>1. CASE ProduceInsert(w)
      <3>1. PICK r \in Rows : /\ rowOf[r] = NoAccount
                              /\ rowOf' = [rowOf EXCEPT ![r] = lot[w].account]
        BY <2>1 DEF ProduceInsert
      <3>2. \A q \in Rows : rowOf[q] # lot[w].account
        BY <2>1 DEF Opened, NoneYet, ProduceInsert
      <3>3. RowsOf(w)
        BY <1>1, <1>4, <3>1 DEF RowsOf, TypeOK
      <3> QED BY <1>1, <3>1, <3>2, <3>3, InsertDiffers DEF Opened
    <2>2. CASE ProduceCommit(w)
      <3>1. rowOf' = rowOf
        BY <2>2 DEF ProduceCommit
      <3> QED BY <1>1, <3>1, DifferKept DEF RowsOf, Opened
    <2> QED BY <2>1, <2>2
  <1> QED BY <1>2, <1>4, <1>5, <1>6, StepOpened

\* The one place where the assumption is needed: a request begins.
LEMMA BeginOpened ==
  ASSUME "opening" \notin Races, Shape, Locks, Opened, NEW w \in Requests, Begin(w)
  PROVE  Opened'
  <1>1. /\ TypeOK /\ UNCHANGED <<trade, rowOf, fresh>> /\ pc[w] = "idle" /\ fresh[w] = {}
    <2>1. TypeOK /\ UNCHANGED <<trade, rowOf, fresh>> /\ pc[w] = "idle"
      BY DEF Shape, Begin, AcceptRead, RejectRead, ResendRead, ProduceFind, Start, tables
    <2> QED BY <2>1 DEF Locks, OnlyAcceptHolds, Accepting
  <1>2. SameTerms /\ \A x \in Requests \ {w} : SameRequest(x)
    BY <1>1, TermsKept, OneMoves
  <1>3. RowsOf(w) /\ OwnFresh(w)' /\ RowsDiffer'
    BY <1>1, DifferKept DEF RowsOf, OwnFresh, Opened
  <1>4. \A x \in Requests \ {w} : OwnFresh(x)' /\ NoneYet(x)'
    BY <1>2, <1>3, OthersOpened
  <1>5. ASSUME \A x \in Requests : \A a \in Touches(w)' \cap Touches(x) : Visible(a) # {}
        PROVE  Sole'
    <2> SUFFICES ASSUME NEW x \in Requests, NEW y \in Requests, x # y,
                        NEW a \in Touches(x)' \cap Touches(y)'
                 PROVE  Visible(a)' # {}
      BY DEF Sole
    <2>1. \A z \in Requests \ {w} : Touches(z)' = Touches(z)
      BY <1>2, TouchesKept
    <2>2. Visible(a) # {}
      BY <1>5, <2>1 DEF Opened, Sole
    <2>3. a \in Accounts
      BY <2>1, TouchesAreAccounts
    <2> QED BY <1>2, <1>3, <2>2, <2>3, VisibleGrows
  <1>6. ASSUME NEW t \in Trades, NEW next \in {"ask_buyer", "reject", "resend"}, Start(w, t, next),
               next = "ask_buyer" => MayTouch({AccountOf(t, side) : side \in Sides}, FALSE)
        PROVE  Opened'
    <2>1. pc'[w] = next /\ onTrade'[w] = t
      BY <1>1, <1>6 DEF Start, TypeOK
    <2>2. Touches(w)' = IF next = "ask_buyer" THEN {AccountOf(t, side) : side \in Sides} ELSE {}
      BY <1>1, <2>1 DEF Touches, Accepting, Producing, AccountOf
    <2>3. Sole'
      BY <1>5, <1>6, <2>2 DEF MayTouch
    <2>4. NoneYet(w)'
      BY <2>1 DEF NoneYet, Locking
    <2> QED BY <1>3, <1>4, <2>3, <2>4 DEF Opened
  <1>7. ASSUME NEW u \in Users, NEW c \in Commodities, NEW v \in Volumes, NEW l \in Levels,
               ProduceFind(w, u, c, v, l)
        PROVE  Opened'
    <2> DEFINE a == <<u, c>>
    <2>1. lot'[w].account = a /\ pc'[w] \in {"insert", "produce"}
          /\ (pc'[w] = "insert" => Visible(a) = {})
      <3>1. lot'[w] = [account |-> a, volume |-> v, level |-> l]
        BY <1>1, <1>7 DEF ProduceFind, TypeOK
      <3>2. \/ pc' = [pc EXCEPT ![w] = "insert"] /\ Visible(a) = {}
            \/ pc' = [pc EXCEPT ![w] = "produce"]
        BY <1>7 DEF ProduceFind
      <3> HIDE DEF a
      <3>3. lot'[w].account = a
        BY <3>1
      <3>4. pc'[w] \in {"insert", "produce"} /\ (pc'[w] = "insert" => Visible(a) = {})
        BY <1>1, <3>2 DEF TypeOK
      <3> QED BY <3>3, <3>4
    <2>2. \A x \in Requests : a \in Touches(x) => Visible(a) # {}
      BY <1>7 DEF ProduceFind, MayTouch
    <2> HIDE DEF a
    <2>3. Touches(w)' = {a}
      BY <2>1 DEF Touches, Accepting, Producing
    <2>4. Sole'
      BY <1>5, <2>2, <2>3
    <2>5. ASSUME pc'[w] = "insert", NEW r \in Rows, rowOf[r] = a
          PROVE  FALSE
      <3>1. PICK x \in Requests : r \in fresh[x]
        BY <2>1, <2>5 DEF Visible
      <3>2. a \in Touches(x)
        BY <2>5, <3>1 DEF Opened, OwnFresh
      <3> QED BY <2>1, <2>2, <2>5, <3>2
    <2>6. NoneYet(w)'
      BY <1>1, <2>1, <2>5 DEF NoneYet, Locking
    <2> QED BY <1>3, <1>4, <2>4, <2>6 DEF Opened
  <1> QED BY <1>6, <1>7 DEF Begin, AcceptRead, RejectRead, ResendRead

LEMMA OutsideOpened ==
  ASSUME Shape, Locks, Opened, SameTerms, UNCHANGED <<rowOf, locals>>
  PROVE  Opened'
  <1>1. \A x \in Requests : SameRequest(x) /\ Touches(x)' = Touches(x)
    BY TouchesKept DEF SameRequest, locals
  <1>2. \A a : Visible(a)' = Visible(a)
    BY DEF Visible, locals
  <1>3. ASSUME NEW x \in Requests, pc[x] \in Accepting, NEW side \in Sides
        PROVE  AccountOf(onTrade[x], side)' = AccountOf(onTrade[x], side)
    BY <1>1, <1>3 DEF Shape, RequestShape, InHand, AccountOf, SameTerms, SameRequest, Sides
  <1>4. ASSUME NEW x \in Requests PROVE OwnFresh(x)' /\ NoneYet(x)'
    <2>1. CASE pc[x] \in Accepting
      BY <1>1, <1>3, <2>1 DEF Opened, OwnFresh, NoneYet, Locking, SameRequest, Sides
    <2>2. CASE pc[x] \notin Accepting
      <3>1. \A side \in Sides : ~Locking(x, side) /\ ~Locking(x, side)'
        BY <1>1, <2>2 DEF Locking, Accepting, Sides, SameRequest
      <3>2. \A r \in fresh[x] : FALSE
        BY <2>2 DEF Locks, OnlyAcceptHolds
      <3> QED BY <1>1, <3>1, <3>2 DEF Opened, OwnFresh, NoneYet, SameRequest
    <2> QED BY <2>1, <2>2
  <1>5. Sole' /\ RowsDiffer'
    BY <1>1, <1>2 DEF Opened, Sole, RowsDiffer
  <1> QED BY <1>4, <1>5 DEF Opened

LEMMA NextOpened ==
  ASSUME "opening" \notin Races
  PROVE  Shape /\ Locks /\ Opened /\ [Next]_vars => Opened'
  <1> SUFFICES ASSUME Shape, Locks, Opened, [Next]_vars PROVE Opened'
    OBVIOUS
  <1>1. SameTerms
    BY NextTerms
  <1>2. ASSUME NEW w \in Requests, Rollback(w) PROVE Opened'
    BY <1>1, <1>2, LeaveOpened DEF Rollback
  <1>3. CASE Create
    BY <1>1, <1>3, CreateTerms, OutsideOpened
  <1>4. ASSUME NEW t \in Trades, TimePasses(t) PROVE Opened'
    BY <1>1, <1>4, OutsideOpened DEF TimePasses
  <1>5. ASSUME NEW w \in Requests, Begin(w) PROVE Opened'
    BY <1>5, BeginOpened
  <1>6. ASSUME NEW w \in Requests, Proceed(w) PROVE Opened'
    <2>1. ASSUME Leave(w), rowOf' = rowOf PROVE Opened'
      BY <1>1, <2>1, LeaveOpened
    <2>2. CASE AcceptCommit(w) \/ RejectCommit(w) \/ ResendCommit(w)
      BY <2>1, <2>2 DEF AcceptCommit, RejectCommit, ResendCommit
    <2>3. ASSUME NEW recipient \in Users \cup {NoUser}, ProduceTail(w, recipient) PROVE Opened'
      BY <2>1, <2>3 DEF ProduceTail
    <2> QED BY <1>2, <1>6, <2>2, <2>3, AskRowOpened, LockRowOpened, InsertRowOpened,
               ProduceStepOpened DEF Proceed, TooManyRows
  <1>7. ASSUME NEW w \in Requests, DeadlockVictim(w) \/ WorkerDies(w) PROVE Opened'
    BY <1>2, <1>7 DEF DeadlockVictim, WorkerDies
  <1>8. ASSUME NEW s \in Sweeps,
               SweepSelect(s) \/ SweepDies(s) \/ \E t \in Trades : SweepOne(s, t)
        PROVE  Opened'
    BY <1>8, SweepTerms, OutsideOpened
  <1>9. CASE UNCHANGED vars
    BY <1>1, <1>9, OutsideOpened DEF vars, tables
  <1> QED BY <1>3, <1>4, <1>5, <1>6, <1>7, <1>8, <1>9 DEF Next

\* get_or_create never leaves an account with two rows, for any number of requests
\* that settle and produce on it, as long as no two of them work on an account
\* that has no row yet.
THEOREM OneRowEach ==
  ASSUME "opening" \notin Races
  PROVE  Spec => []OneRowPerAccount
  <1>1. Opened => OneRowPerAccount
    <2> SUFFICES ASSUME Opened, NEW a \in Accounts PROVE Cardinality(Visible(a)) <= 1
      BY DEF OneRowPerAccount
    <2>1. CASE Visible(a) = {}
      BY <2>1, FS_EmptySet
    <2>2. ASSUME NEW r \in Visible(a) PROVE Visible(a) = {r}
      BY NullAssumption DEF Visible, Opened, RowsDiffer, Accounts
    <2> QED BY <2>1, <2>2, FS_Singleton
  <1> QED BY <1>1, InitShape, NextShape, InitLocks, NextLocks, InitOpened, NextOpened, PTL DEF Spec

-----------------------------------------------------------------------------
(* Reminders. *)

\* Without overlapping operations on one trade, resend_notification reminds nobody
\* of a trade that is settled.
THEOREM RemindersAreTimely ==
  ASSUME "trade" \notin Races
  PROVE  Spec => NoLateReminder
  <1> DEFINE Timely == \A t \in Trades : notices'[t]["pending"] > notices[t]["pending"] =>
                                           trade[t].status \in {"none", "pending"}
  <1>1. ASSUME Shape, Exclusive, Next PROVE Timely
    <2>1. TypeOK /\ RequestShape
      BY <1>1 DEF Shape
    <2>2. ASSUME \A t \in Trades : notices'[t]["pending"] = notices[t]["pending"] PROVE Timely
      <3>1. \A t \in Trades : notices[t]["pending"] \in Nat
        BY <2>1 DEF TypeOK, Notices
      <3> QED BY <2>2, <3>1
    <2>3. ASSUME NEW t \in Trades, NEW status \in Outcomes, NEW level, Settle(t, status, level)
          PROVE  Timely
      BY <2>1, <2>2, <2>3 DEF Settle, TypeOK, Notices, Outcomes
    <2>4. ASSUME NEW t \in Trades, notices' = notices \/ notices' = [notices EXCEPT ![t]["pending"] = @ + 1],
                 trade[t].status \in {"none", "pending"}
          PROVE  Timely
      <3>1. \A x \in Trades : notices[x]["pending"] \in Nat
        BY <2>1 DEF TypeOK, Notices
      <3>2. \A x \in Trades \ {t} : notices'[x] = notices[x]
        BY <2>1, <2>4 DEF TypeOK
      <3> QED BY <2>4, <3>1, <3>2
    <2>5. CASE Create
      BY <2>4, <2>5 DEF Create, CreateDownstream, Blank
    <2>6. ASSUME UNCHANGED notices PROVE Timely
      BY <2>2, <2>6
    <2>7. ASSUME NEW w \in Requests, Proceed(w) PROVE Timely
      <3>1. CASE ResendCommit(w)
        <4>1. onTrade[w] \in Trades /\ trade[onTrade[w]].status = "pending"
          BY <1>1, <2>1, <3>1 DEF ResendCommit, RequestShape, InHand, Exclusive, PendingInHand, Deciding
        <4> QED BY <2>4, <3>1, <4>1 DEF ResendCommit
      <3>2. CASE AcceptCommit(w) \/ RejectCommit(w)
        <4>1. onTrade[w] \in Trades
          BY <2>1, <3>2 DEF AcceptCommit, RejectCommit, RequestShape, InHand, Accepting
        <4> QED BY <2>3, <3>2, <4>1 DEF AcceptCommit, RejectCommit, Outcomes
      <3> QED BY <2>6, <2>7, <3>1, <3>2
              DEF Proceed, AskRow, LockRow, InsertRow, Load, TooManyRows, Rollback,
                  ProduceInsert, ProduceCommit, ProduceTail, tables
    <2>8. ASSUME NEW w \in Requests, Begin(w) \/ DeadlockVictim(w) \/ WorkerDies(w) PROVE Timely
      BY <2>6, <2>8 DEF Begin, AcceptRead, RejectRead, ResendRead, ProduceFind, Start, tables,
                        DeadlockVictim, WorkerDies, Rollback
    <2>9. ASSUME NEW s \in Sweeps,
                 SweepSelect(s) \/ SweepDies(s) \/ \E t \in Trades : SweepOne(s, t)
          PROVE  Timely
      BY <2>3, <2>6, <2>9 DEF SweepSelect, SweepDies, SweepOne, tables, Outcomes
    <2>10. ASSUME NEW t \in Trades, TimePasses(t) PROVE Timely
      BY <2>6, <2>10 DEF TimePasses
    <2> QED BY <1>1, <2>5, <2>7, <2>8, <2>9, <2>10 DEF Next
  <1>2. Shape /\ Exclusive /\ [Next]_vars => [Timely]_vars
    BY <1>1
  <1> HIDE DEF Timely
  <1>3. [][Timely]_vars => NoLateReminder
    BY DEF Timely, NoLateReminder
  <1> QED BY <1>2, <1>3, InitShape, NextShape, InitExclusive, NextExclusive, PTL DEF Spec

-----------------------------------------------------------------------------
(* Trading implements TradeLedger. *)

\* What a producer request works with is what its client asked for.
AskedFor ==
  \A w \in Requests : pc[w] \in Producing => lot[w].volume \in Volumes /\ lot[w].level \in Levels

LEMMA InitAskedFor == Init => AskedFor
  BY DEF Init, AskedFor, Producing

LEMMA NextAskedFor == Shape /\ AskedFor /\ [Next]_vars => AskedFor'
  <1> SUFFICES ASSUME Shape, AskedFor, [Next]_vars PROVE AskedFor'
    OBVIOUS
  <1>1. TypeOK
    BY DEF Shape
  <1>2. ASSUME NEW w \in Requests, Begin(w) \/ Proceed(w) \/ DeadlockVictim(w) \/ WorkerDies(w),
               pc'[w] \in Producing => lot'[w].volume \in Volumes /\ lot'[w].level \in Levels
        PROVE  AskedFor'
    BY <1>2, OneMoves DEF AskedFor, SameRequest
  <1>3. ASSUME NEW w \in Requests, Leave(w) PROVE pc'[w] \notin Producing
    BY <1>1, <1>3 DEF Leave, TypeOK, Producing
  <1>4. ASSUME NEW w \in Requests, Begin(w) PROVE AskedFor'
    <2>1. ASSUME NEW t \in Trades, NEW next \in {"ask_buyer", "reject", "resend"}, Start(w, t, next)
          PROVE  pc'[w] \notin Producing
      BY <1>1, <2>1 DEF Start, TypeOK, Producing
    <2>2. ASSUME NEW u \in Users, NEW c \in Commodities, NEW v \in Volumes, NEW l \in Levels,
                 ProduceFind(w, u, c, v, l)
          PROVE  lot'[w].volume \in Volumes /\ lot'[w].level \in Levels
      <3>1. lot'[w] = [account |-> <<u, c>>, volume |-> v, level |-> l]
        BY <1>1, <2>2 DEF ProduceFind, TypeOK
      <3> QED BY <3>1
    <2> QED BY <1>2, <1>4, <2>1, <2>2 DEF Begin, AcceptRead, RejectRead, ResendRead
  <1>5. ASSUME NEW w \in Requests, Proceed(w) PROVE AskedFor'
    <2>1. ASSUME NEW side \in Sides, AskRow(w, side) \/ LockRow(w, side) \/ InsertRow(w, side)
          PROVE  pc'[w] \notin Producing
      BY <1>1, <2>1 DEF AskRow, LockRow, InsertRow, Load, TypeOK, Producing
    <2>2. CASE ProduceInsert(w) \/ ProduceCommit(w)
      BY <1>2, <1>5, <2>2 DEF ProduceInsert, ProduceCommit, AskedFor, Producing
    <2> QED BY <1>2, <1>3, <1>5, <2>1, <2>2
            DEF Proceed, TooManyRows, Rollback, AcceptCommit, RejectCommit, ResendCommit, ProduceTail
  <1>6. ASSUME NEW w \in Requests, DeadlockVictim(w) \/ WorkerDies(w) PROVE AskedFor'
    BY <1>2, <1>3, <1>6 DEF DeadlockVictim, WorkerDies, Rollback
  <1>7. ASSUME UNCHANGED locals PROVE AskedFor'
    BY <1>7 DEF AskedFor, locals
  <1>8. ASSUME NEW s \in Sweeps,
               SweepSelect(s) \/ SweepDies(s) \/ \E t \in Trades : SweepOne(s, t)
        PROVE  AskedFor'
    BY <1>7, <1>8, SweepTerms
  <1> QED BY <1>4, <1>5, <1>6, <1>7, <1>8, CreateTerms DEF Next, TimePasses, vars

\* Every step of a request keeps the committed rows in sight.
LEMMA RowsMove ==
  ASSUME Shape, Locks, NEW w \in Requests,
         Begin(w) \/ Proceed(w) \/ DeadlockVictim(w) \/ WorkerDies(w)
  PROVE  RowsOf(w)
  <1>1. TypeOK
    BY DEF Shape
  <1>2. ASSUME UNCHANGED rowOf, fresh'[w] \subseteq fresh[w] PROVE RowsOf(w)
    BY <1>2 DEF RowsOf
  <1>3. ASSUME Leave(w) PROVE fresh'[w] \subseteq fresh[w]
    BY <1>1, <1>3 DEF Leave, TypeOK
  <1>4. ASSUME Rollback(w) PROVE RowsOf(w)
    BY <1>1, <1>3, <1>4 DEF Rollback, RowsOf
  <1>5. CASE Begin(w)
    BY <1>2, <1>5 DEF Begin, AcceptRead, RejectRead, ResendRead, ProduceFind, Start, tables
  <1>6. CASE Proceed(w)
    <2>1. ASSUME NEW side \in Sides, InsertRow(w, side) PROVE RowsOf(w)
      <3>1. PICK r \in Rows : /\ rowOf[r] = NoAccount
                              /\ rowOf' = [rowOf EXCEPT ![r] = AccountOf(onTrade[w], side)]
                              /\ fresh' = [fresh EXCEPT ![w] = @ \cup {r}]
        BY <2>1 DEF InsertRow
      <3>2. AccountOf(onTrade[w], side) \in Touches(w)
        BY <2>1 DEF InsertRow, Locking, Touches, Accepting
      <3> QED BY <1>1, <3>1, <3>2 DEF RowsOf, TypeOK
    <2>2. CASE ProduceInsert(w)
      <3>1. lot[w].account \in Touches(w)
        BY <2>2 DEF ProduceInsert, Touches, Producing, Accepting
      <3> QED BY <1>1, <2>2, <3>1 DEF ProduceInsert, RowsOf, TypeOK
    <2> QED BY <1>2, <1>3, <1>4, <1>6, <2>1, <2>2
            DEF Proceed, AskRow, LockRow, Load, TooManyRows, AcceptCommit, RejectCommit,
                ResendCommit, ProduceCommit, ProduceTail, tables
  <1> QED BY <1>4, <1>5, <1>6 DEF DeadlockVictim, WorkerDies

LEMMA NextVisible ==
  ASSUME Shape, Locks, [Next]_vars, NEW a \in Accounts
  PROVE  Visible(a) \subseteq Visible(a)'
  <1>1. ASSUME UNCHANGED <<rowOf, locals>> PROVE Visible(a) \subseteq Visible(a)'
    BY <1>1 DEF Visible, locals
  <1>2. ASSUME NEW w \in Requests, Begin(w) \/ Proceed(w) \/ DeadlockVictim(w) \/ WorkerDies(w)
        PROVE  Visible(a) \subseteq Visible(a)'
    BY <1>2, OneMoves, RowsMove, VisibleGrows
  <1> QED BY <1>1, <1>2, CreateTerms, SweepTerms DEF Next, TimePasses, vars, tables

\* With one row per account, an account shows the volume of that row.
LEMMA ShownRow ==
  ASSUME RowsDiffer, NEW a \in Accounts, NEW r \in Visible(a)
  PROVE  Shown(a) = volume[r]
  <1>1. Visible(a) = {r} /\ r \in Rows
    BY NullAssumption DEF Visible, RowsDiffer, Accounts
  <1>2. (CHOOSE q \in Rows : Visible(a) = {q}) = r
    BY <1>1
  <1> QED BY <1>1, <1>2 DEF Shown

LEMMA ShownRowAfter ==
  ASSUME RowsDiffer', NEW a \in Accounts, NEW r \in Visible(a)'
  PROVE  Shown(a)' = volume'[r]
  <1>1. Visible(a)' = {r} /\ r \in Rows
    BY NullAssumption DEF Visible, RowsDiffer, Accounts
  <1>2. (CHOOSE q \in Rows : Visible(a)' = {q}) = r
    BY <1>1
  <1> QED BY <1>1, <1>2 DEF Shown

\* An account shows the same when its visible rows keep their volume and those
\* that appear are empty.
LEMMA ShownKept ==
  ASSUME RowsDiffer, RowsDiffer', NEW a \in Accounts,
         \A r \in Visible(a) : r \in Visible(a)' /\ volume'[r] = volume[r],
         \A r \in Visible(a)' : r \in Visible(a) \/ volume'[r] = 0
  PROVE  Shown(a)' = Shown(a)
  <1>1. ASSUME NEW r \in Visible(a)' PROVE Shown(a)' = volume'[r]
    BY ShownRowAfter
  <1>2. CASE Visible(a) = {}
    <2>1. Shown(a) = 0
      BY <1>2 DEF Shown
    <2>2. CASE Visible(a)' = {}
      BY <2>1, <2>2 DEF Shown
    <2>3. ASSUME NEW r \in Visible(a)' PROVE Shown(a)' = 0
      BY <1>1, <1>2
    <2> QED BY <2>1, <2>2, <2>3
  <1>3. ASSUME NEW r \in Visible(a) PROVE Shown(a)' = Shown(a)
    BY <1>1, ShownRow
  <1> QED BY <1>2, <1>3

LEMMA QuietShown ==
  ASSUME Shape, Locks, Opened, Opened', [Next]_vars, Quiet
  PROVE  \A a \in Accounts : Shown(a)' = Shown(a)
  <1> SUFFICES ASSUME NEW a \in Accounts PROVE Shown(a)' = Shown(a)
    OBVIOUS
  <1>1. \A r \in Visible(a) : r \in Visible(a)' /\ volume'[r] = volume[r]
    BY NextVisible DEF Quiet, Visible
  <1>2. ASSUME NEW r \in Visible(a)', r \notin Visible(a) PROVE volume'[r] = 0
    <2>1. r \in Rows /\ rowOf'[r] = a
      BY DEF Visible
    <2>2. CASE rowOf[r] # a
      BY <2>1, <2>2 DEF Quiet
    <2>3. ASSUME NEW x \in Requests, r \in fresh[x] PROVE volume'[r] = 0
      BY <2>1, <2>3 DEF Quiet, Locks, FreshIsLocked
    <2> QED BY <1>2, <2>1, <2>2, <2>3 DEF Visible
  <1> QED BY <1>1, <1>2, ShownKept DEF Opened

\* The Balance objects of a commit hold what the two accounts show.
LEMMA LoadedIsShown ==
  ASSUME Shape, Locks, Opened, NEW w \in Requests, pc[w] = "accept", NEW side \in Sides
  PROVE  /\ row[w][side] \in Rows /\ rowOf[row[w][side]] = AccountOf(onTrade[w], side)
         /\ Shown(AccountOf(onTrade[w], side)) = seen[w][side]
  <1> DEFINE r == row[w][side]
             a == AccountOf(onTrade[w], side)
  <1>1. r \in Rows /\ r # NoRow
    BY NullAssumption DEF Shape, RequestShape, InHand, Sides
  <1>2. lockedBy[r] = w /\ volume[r] = seen[w][side] /\ rowOf[r] = a
    BY <1>1 DEF Locks, LockedCopyIsCurrent, Accepting
  <1>3. a \in Accounts
    BY AcceptedAccounts DEF Accepting
  <1>4. \A x \in Requests \ {w} : r \notin fresh[x]
    BY <1>2 DEF Locks, FreshIsLocked
  <1> HIDE DEF r, a
  <1>5. CASE r \in fresh[w]
    <2>1. volume[r] = 0
      BY <1>5 DEF Locks, FreshIsLocked
    <2>2. Visible(a) = {}
      BY <1>1, <1>2, <1>3, <1>5, NullAssumption DEF Visible, Opened, RowsDiffer, Accounts
    <2> QED BY <1>1, <1>2, <2>1, <2>2 DEF Shown, r, a
  <1>6. CASE r \notin fresh[w]
    <2>1. r \in Visible(a)
      BY <1>1, <1>2, <1>4, <1>6 DEF Visible
    <2> QED BY <1>1, <1>2, <1>3, <2>1, ShownRow DEF Opened, r, a
  <1> QED BY <1>5, <1>6

\* What an accepted trade does to what the accounts show.
LEMMA AcceptShown ==
  ASSUME Shape, Locks, Opened, Opened', NEW w \in Requests, AcceptCommit(w),
         NEW t \in Trades, t = onTrade[w],
         NEW buyer \in Accounts, buyer = AccountOf(t, "buyer"),
         NEW seller \in Accounts, seller = AccountOf(t, "seller"), buyer # seller,
         NEW v \in Int, v = trade[t].volume, NEW bought \in Int, bought = AutomaticVolume(w)
  PROVE  /\ Shown(seller) = seen[w]["seller"]
         /\ Shown(seller)' = Shown(seller) + bought - v
         /\ Shown(buyer)' = Shown(buyer) + v
         /\ \A a \in Accounts \ {buyer, seller} : Shown(a)' = Shown(a)
  <1>1. TypeOK /\ pc[w] = "accept" /\ rowOf' = rowOf /\ fresh'[w] = {}
        /\ \A x \in Requests \ {w} : SameRequest(x)
    BY OneMoves DEF Shape, AcceptCommit, Leave, TypeOK, Proceed
  <1> DEFINE b == row[w]["buyer"]
             s == row[w]["seller"]
  <1>2. /\ b \in Rows /\ rowOf[b] = buyer /\ Shown(buyer) = seen[w]["buyer"]
        /\ s \in Rows /\ rowOf[s] = seller /\ Shown(seller) = seen[w]["seller"]
    BY <1>1, LoadedIsShown DEF Sides
  <1>3. /\ volume'[b] = seen[w]["buyer"] + v /\ volume'[s] = seen[w]["seller"] + bought - v
        /\ \A q \in Rows \ {b, s} : volume'[q] = volume[q]
    <2>1. volume' = [volume EXCEPT ![s] = seen[w]["seller"] + bought - v, ![b] = seen[w]["buyer"] + v]
      BY DEF AcceptCommit
    <2>2. PICK q \in Rows, z \in Rows : q = b /\ z = s /\ q # z
      BY <1>2
    <2>3. PICK x, y : x = seen[w]["seller"] + bought - v /\ y = seen[w]["buyer"] + v
      OBVIOUS
    <2>4. volume' = [volume EXCEPT ![z] = x, ![q] = y]
      BY <2>1, <2>2, <2>3
    <2>5. volume'[q] = y /\ volume'[z] = x /\ \A p \in Rows \ {q, z} : volume'[p] = volume[p]
      BY <1>1, <2>2, <2>4 DEF TypeOK
    <2>6. volume'[b] = seen[w]["buyer"] + v
      BY <2>2, <2>3, <2>5
    <2>7. volume'[s] = seen[w]["seller"] + bought - v
      BY <2>2, <2>3, <2>5
    <2>8. \A p \in Rows \ {b, s} : volume'[p] = volume[p]
      BY <2>2, <2>5
    <2> QED BY <2>6, <2>7, <2>8
  <1>4. /\ b \in Visible(buyer)' /\ s \in Visible(seller)'
    <2>1. lockedBy[b] = w /\ lockedBy[s] = w
      <3>1. b # NoRow /\ s # NoRow
        BY <1>2, NullAssumption
      <3> QED BY <1>1, <3>1 DEF Locks, LockedCopyIsCurrent, Accepting, Sides
    <2>2. \A x \in Requests : b \notin fresh'[x] /\ s \notin fresh'[x]
      BY <1>1, <2>1 DEF Locks, FreshIsLocked, SameRequest
    <2> QED BY <1>1, <1>2, <2>2 DEF Visible
  <1>5. Shown(buyer)' = volume'[row[w]["buyer"]] /\ Shown(seller)' = volume'[row[w]["seller"]]
    <2>1. PICK q \in Rows, z \in Rows : q = b /\ z = s
      BY <1>2
    <2> HIDE DEF b, s
    <2>2. Shown(buyer)' = volume'[q] /\ Shown(seller)' = volume'[z]
      BY <1>4, <2>1, ShownRowAfter DEF Opened, b, s
    <2> QED BY <2>1, <2>2 DEF b, s
  <1>6. ASSUME NEW a \in Accounts \ {buyer, seller}
        PROVE  Shown(a)' = Shown(a)
    <2>1. Visible(a)' = Visible(a)
      <3>1. \A r \in fresh[w] : rowOf[r] \in {buyer, seller}
        <4>1. \A x \in Touches(w) : x \in {buyer, seller}
          BY <1>1 DEF Touches, Accepting, Sides
        <4> QED BY <4>1 DEF Opened, OwnFresh
      <3> QED BY <1>1, <3>1 DEF Visible, SameRequest
    <2>2. \A r \in Visible(a) : volume'[r] = volume[r]
      BY <1>2, <1>3 DEF Visible
    <2> QED BY <2>1, <2>2, ShownKept DEF Opened
  <1> QED BY <1>2, <1>3, <1>5, <1>6

LEMMA ProduceShown ==
  ASSUME Shape, Locks, Producers, Opened, Opened', NEW w \in Requests, ProduceCommit(w),
         NEW a \in Accounts, a = lot[w].account
  PROVE  /\ Shown(a)' = Shown(a) + lot[w].volume
         /\ \A c \in Accounts \ {a} : Shown(c)' = Shown(c)
  <1>1. TypeOK /\ pc[w] = "produce" /\ UNCHANGED <<rowOf, fresh>>
    BY DEF Shape, ProduceCommit
  <1>2. PICK r \in Rows : r = row[w]["buyer"]
    BY <1>1 DEF Shape, RequestShape, InHand
  <1>3. rowOf[r] = a /\ volume[r] = seen[w]["buyer"] /\ r \in Visible(a)
    BY <1>1, <1>2 DEF Producers, ProducerCopy, Locks, ProducedIsCommitted, Visible
  <1>4. /\ volume'[r] = seen[w]["buyer"] + lot[w].volume
        /\ \A q \in Rows \ {r} : volume'[q] = volume[q]
    BY <1>1, <1>2 DEF ProduceCommit, TypeOK
  <1>5. \A c \in Accounts : Visible(c)' = Visible(c)
    BY <1>1 DEF Visible
  <1>6. Shown(a)' = volume'[r] /\ Shown(a) = volume[r]
    BY <1>3, <1>5, ShownRow, ShownRowAfter DEF Opened
  <1>7. ASSUME NEW c \in Accounts \ {a} PROVE Shown(c)' = Shown(c)
    <2>1. \A q \in Visible(c) : volume'[q] = volume[q]
      BY <1>3, <1>4 DEF Visible
    <2> QED BY <1>5, <2>1, ShownKept DEF Opened
  <1> QED BY <1>3, <1>4, <1>6, <1>7

\* A step that leaves the deals alone, and what the accounts show.
LEMMA StutterMaps ==
  ASSUME \A t \in Trades : Deal(t)' = Deal(t), \A a \in Accounts : Shown(a)' = Shown(a),
         UNCHANGED <<produced, sources>>
  PROVE  UNCHANGED Ledger!vars
  BY DEF Ledger!vars

\* What settling does to the deals.
DealRecord ==
  [status : {"none", "pending"} \cup Outcomes, seller : Users \cup {NoUser},
   buyer : Users \cup {NoUser}, commodity : Commodities \cup {NoCommodity},
   volume : Nat, level : 0..4]

LEMMA DealTypes ==
  ASSUME TypeOK
  PROVE  [x \in Trades |-> Deal(x)] \in [Trades -> DealRecord]
  BY DEF Deal, DealRecord, TypeOK, TradeRecord

LEMMA SettledDeals ==
  ASSUME TypeOK, NEW t \in Trades, NEW status \in Outcomes, NEW level \in 0..4,
         Settle(t, status, level)
  PROVE  [x \in Trades |-> Deal(x)]' =
           [[x \in Trades |-> Deal(x)] EXCEPT ![t].status = status, ![t].level = level]
  <1> DEFINE deals == [x \in Trades |-> Deal(x)]
  <1>1. /\ trade'[t].status = status /\ trade'[t].level = level
        /\ trade'[t].seller = trade[t].seller /\ trade'[t].buyer = trade[t].buyer
        /\ trade'[t].commodity = trade[t].commodity /\ trade'[t].volume = trade[t].volume
        /\ \A x \in Trades \ {t} : trade'[x] = trade[x]
    BY DEF Settle, TypeOK, TradeRecord
  <1>2. PICK d \in DealRecord, e \in DealRecord : d = Deal(t) /\ e = Deal(t)'
    BY <1>1 DEF Deal, DealRecord, TypeOK, TradeRecord
  <1>3. e = [d EXCEPT !.status = status, !.level = level]
    <2>1. /\ e.status = status /\ e.level = level
          /\ e.seller = d.seller /\ e.buyer = d.buyer
          /\ e.commodity = d.commodity /\ e.volume = d.volume
      BY <1>1, <1>2 DEF Deal
    <2> QED BY <2>1 DEF DealRecord
  <1>4. \A x \in Trades \ {t} : Deal(x)' = Deal(x)
    BY <1>1 DEF Deal
  <1>5. PICK f \in [Trades -> DealRecord] : f = deals
    BY DealTypes
  <1>6. f[t] = d /\ \A x \in Trades : f[x] = Deal(x)
    BY <1>2, <1>5
  <1>7. [f EXCEPT ![t].status = status, ![t].level = level] = [f EXCEPT ![t] = e]
    BY <1>3, <1>6
  <1>8. deals' = [f EXCEPT ![t] = e]
    BY <1>2, <1>4, <1>6
  <1> QED BY <1>5, <1>7, <1>8

\* A trade is closed without a transfer.
LEMMA CloseMaps ==
  ASSUME Shape, NEW t \in Trades, trade[t].status = "pending",
         NEW status \in {"rejected", "no_response"}, Settle(t, status, trade[t].level),
         \A a \in Accounts : Shown(a)' = Shown(a), UNCHANGED <<produced, sources>>
  PROVE  Ledger!Next
  <1>1. TypeOK
    BY DEF Shape
  <1> DEFINE deals == [x \in Trades |-> Deal(x)]
  <1>2. PICK level \in 0..4 : level = trade[t].level
    BY <1>1 DEF TypeOK, TradeRecord
  <1>3. PICK f \in [Trades -> DealRecord] : f = deals
    BY <1>1, DealTypes
  <1>4. deals' = [deals EXCEPT ![t].status = status]
    <2>1. f[t].level = level
      BY <1>2, <1>3 DEF Deal
    <2>2. [f EXCEPT ![t].status = status, ![t].level = level] = [f EXCEPT ![t].status = status]
      BY <2>1 DEF DealRecord
    <2>3. deals' = [deals EXCEPT ![t].status = status, ![t].level = level]
      <3>1. Settle(t, status, level)
        BY <1>2 DEF Settle
      <3>2. status \in Outcomes
        BY DEF Outcomes
      <3> HIDE DEF deals
      <3>3. \A st \in Outcomes, lv \in 0..4 : Settle(t, st, lv) =>
              deals' = [deals EXCEPT ![t].status = st, ![t].level = lv]
        BY <1>1, SettledDeals DEF deals
      <3> QED BY <3>1, <3>2, <3>3
    <2> HIDE DEF deals
    <2> QED BY <1>3, <2>2, <2>3
  <1>5. [x \in Trades |-> Deal(x)][t].status = "pending"
    BY DEF Deal
  <1>6. [a \in Accounts |-> Shown(a)]' = [a \in Accounts |-> Shown(a)]
    OBVIOUS
  <1>7. Ledger!Close(t, status)
    BY <1>4, <1>5, <1>6 DEF Ledger!Close
  <1> QED BY <1>7 DEF Ledger!Next

LEMMA ProposeMaps ==
  ASSUME Shape, Create, \A a \in Accounts : Shown(a)' = Shown(a)
  PROVE  Ledger!Next
  <1>1. TypeOK
    BY DEF Shape
  <1>2. PICK u \in Users, recipient \in Users \cup {NoUser}, selling \in BOOLEAN,
             c \in Commodities, v \in Volumes, t \in Trades :
               CreateDownstream(u, recipient, selling, c, v, t)
    BY DEF Create
  <1>3. PICK s \in Users \cup {NoUser}, b \in Users \cup {NoUser} :
          /\ s = IF selling THEN u ELSE recipient
          /\ b = IF selling THEN recipient ELSE u
    OBVIOUS
  <1>4. /\ s # b /\ trade[t] = Blank /\ UNCHANGED <<produced, sources>>
        /\ trade'[t] = [status |-> "pending", creator |-> u, commodity |-> c, volume |-> v,
                        seller |-> s, buyer |-> b, expires |-> TRUE, level |-> 0]
        /\ \A x \in Trades \ {t} : trade'[x] = trade[x]
    BY <1>1, <1>2, <1>3 DEF CreateDownstream, TypeOK
  <1>5. /\ Deal(t) = Ledger!NoDeal
        /\ Deal(t)' = [status |-> "pending", seller |-> s, buyer |-> b,
                       commodity |-> c, volume |-> v, level |-> 0]
        /\ \A x \in Trades \ {t} : Deal(x)' = Deal(x)
    BY <1>4 DEF Deal, Blank, Ledger!NoDeal
  <1>6. [x \in Trades |-> Deal(x)]' = [[x \in Trades |-> Deal(x)] EXCEPT ![t] =
                      [status |-> "pending", seller |-> s, buyer |-> b,
                       commodity |-> c, volume |-> v, level |-> 0]]
    BY <1>5
  <1>7. [a \in Accounts |-> Shown(a)]' = [a \in Accounts |-> Shown(a)]
    OBVIOUS
  <1>8. Ledger!Propose(t, s, b, c, v)
    BY <1>4, <1>5, <1>6, <1>7 DEF Ledger!Propose
  <1> QED BY <1>8 DEF Ledger!Next

LEMMA ProduceMaps ==
  ASSUME Shape, Locks, Producers, Opened, Opened', AskedFor, NEW w \in Requests, ProduceCommit(w)
  PROVE  Ledger!Next
  <1>1. pc[w] = "produce" /\ UNCHANGED trade
    BY DEF ProduceCommit
  <1>2. PICK a \in Accounts, v \in Volumes, l \in Levels :
          a = lot[w].account /\ v = lot[w].volume /\ l = lot[w].level
    BY <1>1 DEF Shape, RequestShape, InHand, AskedFor, Producing
  <1>3. Shown(a)' = Shown(a) + v /\ \A c \in Accounts \ {a} : Shown(c)' = Shown(c)
    BY <1>2, ProduceShown
  <1>4. [c \in Accounts |-> Shown(c)]' = [[c \in Accounts |-> Shown(c)] EXCEPT ![a] = @ + v]
    BY <1>3
  <1>5. /\ produced' = [produced EXCEPT ![a] = @ + v]
        /\ sources' = [sources EXCEPT ![a] = @ \cup {l}]
    BY <1>2 DEF ProduceCommit
  <1>6. [x \in Trades |-> Deal(x)]' = [x \in Trades |-> Deal(x)]
    BY <1>1 DEF Deal
  <1>7. Ledger!Produce(a, v, l)
    BY <1>4, <1>5, <1>6 DEF Ledger!Produce
  <1> QED BY <1>7 DEF Ledger!Next, Ledger!Accounts, Accounts

LEMMA AcceptMaps ==
  ASSUME Shape, Locks, Exclusive, Opened, Opened', NEW w \in Requests, AcceptCommit(w)
  PROVE  Ledger!Next
  <1>1. TypeOK /\ pc[w] = "accept"
    BY DEF Shape, AcceptCommit
  <1>2. PICK t \in Trades : t = onTrade[w] /\ trade[t].status = "pending"
    BY <1>1 DEF Shape, RequestShape, InHand, Accepting, Exclusive, PendingInHand, Deciding
  <1>3. PICK buyer \in Accounts, seller \in Accounts :
          buyer = AccountOf(t, "buyer") /\ seller = AccountOf(t, "seller")
    BY <1>1, <1>2, AcceptedAccounts DEF Accepting, Sides
  <1>4. buyer # seller
    <2>1. trade[t].buyer # trade[t].seller
      BY <1>2 DEF Shape, TradeShape
    <2> QED BY <1>3, <2>1 DEF AccountOf
  <1>5. PICK v \in Int, bought \in Int : v = trade[t].volume /\ bought = AutomaticVolume(w)
    BY <1>1, <1>2 DEF AutomaticVolume, TypeOK, TradeRecord, Sides
  <1>6. /\ Shown(seller) = seen[w]["seller"] /\ Shown(seller) \in Int
        /\ Shown(seller)' = Shown(seller) + bought - v
        /\ Shown(buyer)' = Shown(buyer) + v
        /\ \A a \in Accounts \ {buyer, seller} : Shown(a)' = Shown(a)
    <2>1. seen[w]["seller"] \in Int
      BY <1>1 DEF TypeOK, Sides
    <2> QED BY <1>2, <1>3, <1>4, <1>5, <2>1, AcceptShown
  <1> DEFINE short == v - Shown(seller)
             untraced == IF short > 0 THEN {Incomplete} ELSE {}
             levels == PurchaseLevels(seller) \cup untraced
             level == IF levels = {} THEN Incomplete ELSE Min(levels)
  <1>7. bought = (IF short > 0 THEN short ELSE 0)
    BY <1>2, <1>5, <1>6 DEF AutomaticVolume
  <1>8. /\ produced' = [produced EXCEPT ![seller] = @ + bought]
        /\ sources' = [sources EXCEPT ![seller] = @ \cup untraced]
        /\ Settle(t, "accepted", level)
    <2>1. untraced = (IF bought > 0 THEN {Incomplete} ELSE {})
      BY <1>6, <1>7
    <2> HIDE DEF untraced
    <2> QED BY <1>2, <1>3, <1>5, <2>1 DEF AcceptCommit, DownstreamTraceability
  <1> HIDE DEF level
  <1> DEFINE deals == [x \in Trades |-> Deal(x)]
             balances == [a \in Accounts |-> Shown(a)]
  <1>9. deals' = [deals EXCEPT ![t].status = "accepted", ![t].level = level]
    <2>1. PurchaseLevels(seller) \cup untraced \subseteq 0..4
      BY <1>1 DEF PurchaseLevels, TypeOK, TradeRecord, Incomplete
    <2>2. level \in 0..4
      BY <2>1, MinLevel DEF level, DownstreamTraceability
    <2> QED BY <1>1, <1>8, <2>2, SettledDeals DEF Outcomes
  <1>10. balances' = [balances EXCEPT ![seller] = @ + bought - v, ![buyer] = @ + v]
    BY <1>4, <1>6
  <1>11. Ledger!Side(t, "seller") = seller /\ Ledger!Side(t, "buyer") = buyer
         /\ deals[t].volume = v /\ deals[t].status = "pending" /\ balances[seller] = Shown(seller)
    BY <1>2, <1>3, <1>5 DEF Ledger!Side, AccountOf, Deal
  <1>12. Ledger!Purchases(seller) = PurchaseLevels(seller)
    <2>1. \A x \in Trades : /\ deals[x].status = trade[x].status /\ deals[x].level = trade[x].level
                            /\ Ledger!Side(x, "buyer") = AccountOf(x, "buyer")
      BY DEF Ledger!Side, AccountOf, Deal
    <2> DEFINE bought1 == {x \in Trades : deals[x].status = "accepted" /\ Ledger!Side(x, "buyer") = seller}
               bought2 == {x \in Trades : trade[x].status = "accepted" /\ AccountOf(x, "buyer") = seller}
    <2> HIDE DEF deals
    <2>2. bought1 = bought2
      BY <2>1
    <2>3. {deals[x].level : x \in bought1} = {trade[x].level : x \in bought2}
      BY <2>1, <2>2
    <2> QED BY <2>3 DEF Ledger!Purchases, PurchaseLevels, deals
  <1>13. level = (IF levels = {} THEN Incomplete ELSE Ledger!Min(levels))
    BY DEF level, Min, Ledger!Min
  <1>14. sources' = [sources EXCEPT ![seller] = IF short > 0 THEN @ \cup {Incomplete} ELSE @]
    <2>1. sources[seller] \cup untraced = (IF short > 0 THEN sources[seller] \cup {Incomplete}
                                           ELSE sources[seller])
      OBVIOUS
    <2> HIDE DEF untraced
    <2> QED BY <1>8, <2>1
  <1>15. Ledger!Accept(t)
    <2>1. {seller, buyer} \subseteq Ledger!Accounts
      BY DEF Ledger!Accounts, Accounts
    <2> QED BY <1>7, <1>8, <1>9, <1>10, <1>11, <1>12, <1>13, <1>14, <2>1
            DEF Ledger!Accept, Ledger!Incomplete, Incomplete
  <1> QED BY <1>15 DEF Ledger!Next

\* Every step of a request, of a task or of the clock is one step of the ledger or none.
LEMMA NextMaps ==
  ASSUME "trade" \notin Races, Shape, Locks, Exclusive, OneNoticePerOutcome, Producers, AskedFor,
         Opened, Opened', [Next]_vars
  PROVE  Ledger!Next \/ UNCHANGED Ledger!vars
  <1>1. ASSUME NEW w \in Requests, AcceptCommit(w) \/ ProduceCommit(w)
        PROVE  Ledger!Next
    BY <1>1, AcceptMaps, ProduceMaps
  <1>2. CASE Quiet
    <2>1. \A a \in Accounts : Shown(a)' = Shown(a)
      BY <1>2, QuietShown
    <2>2. UNCHANGED <<produced, sources>>
      BY <1>2 DEF Quiet
    <2>3. ASSUME UNCHANGED trade PROVE UNCHANGED Ledger!vars
      BY <2>1, <2>2, <2>3, StutterMaps DEF Deal
    <2>4. ASSUME NEW w \in Requests, Proceed(w) PROVE Ledger!Next \/ UNCHANGED Ledger!vars
      <3>1. CASE RejectCommit(w)
        <4>1. onTrade[w] \in Trades /\ trade[onTrade[w]].status = "pending"
          BY <3>1 DEF RejectCommit, Shape, RequestShape, InHand, Exclusive, PendingInHand, Deciding
        <4> QED BY <2>1, <2>2, <3>1, <4>1, CloseMaps DEF RejectCommit
      <3> QED BY <1>1, <2>3, <2>4, <3>1
              DEF Proceed, AskRow, LockRow, InsertRow, Load, TooManyRows, Rollback, ResendCommit,
                  ProduceInsert, ProduceTail, tables
    <2>5. ASSUME NEW w \in Requests, Begin(w) \/ DeadlockVictim(w) \/ WorkerDies(w)
          PROVE  UNCHANGED Ledger!vars
      BY <2>3, <2>5 DEF Begin, AcceptRead, RejectRead, ResendRead, ProduceFind, Start, tables,
                        DeadlockVictim, WorkerDies, Rollback
    <2>6. ASSUME NEW s \in Sweeps, NEW t \in Trades, SweepOne(s, t) PROVE Ledger!Next
      <3>1. trade[t].status = "pending"
        BY <2>6 DEF SweepOne, Exclusive, PendingInHand
      <3> QED BY <2>1, <2>2, <2>6, <3>1, CloseMaps DEF SweepOne
    <2>7. ASSUME NEW s \in Sweeps, SweepSelect(s) \/ SweepDies(s) PROVE UNCHANGED Ledger!vars
      BY <2>3, <2>7 DEF SweepSelect, SweepDies, tables
    <2>8. CASE Create
      BY <2>1, <2>8, ProposeMaps
    <2> QED BY <2>3, <2>4, <2>5, <2>6, <2>7, <2>8 DEF Next, TimePasses, vars, tables
  <1> QED BY <1>1, <1>2, StepKinds

LEMMA InitMaps == Init => Ledger!Init
  <1> SUFFICES ASSUME Init PROVE Ledger!Init
    OBVIOUS
  <1>1. \A t \in Trades : Deal(t) = Ledger!NoDeal
    BY DEF Init, Deal, Blank, Ledger!NoDeal
  <1>2. \A a \in Accounts : Shown(a) = 0
    BY NullAssumption DEF Init, Shown, Visible, Accounts
  <1> QED BY <1>1, <1>2 DEF Init, Ledger!Init, Ledger!Accounts, Accounts

\* Without the three kinds of overlap, the endpoints, with their locks, rows, retries
\* and dying workers, do what the ledger does: propose, accept, close, produce,
\* each at once.
THEOREM TradingImplementsLedger ==
  ASSUME "trade" \notin Races, "producer" \notin Races, "opening" \notin Races
  PROVE  Spec => ImplementsLedger
  <1>1. Shape /\ Locks /\ Exclusive /\ OneNoticePerOutcome /\ Producers /\ AskedFor
          /\ Opened /\ Opened' /\ [Next]_vars => [Ledger!Next]_(Ledger!vars)
    BY NextMaps
  <1> QED BY <1>1, InitMaps, InitShape, NextShape, InitLocks, NextLocks, InitExclusive, NextExclusive,
             InitProducers, NextProducers, InitAskedFor, NextAskedFor, InitOpened, NextOpened,
             PTL DEF Spec, ImplementsLedger, Ledger!Spec

=============================================================================
