-------------------------- MODULE TradeOutcomeProofs --------------------------
(***************************************************************************)
(* A trade has one outcome, once and for all, provided no two operations    *)
(* on it overlap.  That proviso is the assumption of both theorems; without  *)
(* it Trading violates them (run trading_double_settlement).                 *)
(***************************************************************************)
EXTENDS TradingProofs

\* The operations under way: one per trade, each on a trade still pending.
OneRequestPerTrade ==
  \A w, x \in Requests : w # x /\ onTrade[w] \in Trades => onTrade[w] # onTrade[x]

NoRequestOnBatch == \A w \in Requests, s \in Sweeps : onTrade[w] \notin batch[s]

OneTaskPerTrade == \A s, z \in Sweeps : s # z => batch[s] \cap batch[z] = {}

Deciding == Accepting \cup {"reject", "resend"}

PendingInHand ==
  /\ \A w \in Requests : pc[w] \in Deciding => trade[onTrade[w]].status = "pending"
  /\ \A s \in Sweeps : \A t \in batch[s] : trade[t].status = "pending"

Exclusive == OneRequestPerTrade /\ NoRequestOnBatch /\ OneTaskPerTrade /\ PendingInHand

\* What a step does to trades already settled, and to the notices about them.
Keeps == \A t \in Trades : trade[t].status \in Outcomes => trade'[t] = trade[t]

LEMMA InitExclusive == Init => Exclusive /\ OneNoticePerOutcome
  <1> SUFFICES ASSUME Init PROVE Exclusive /\ OneNoticePerOutcome
    OBVIOUS
  <1>1. Exclusive
    BY NullAssumption DEF Init, Exclusive, OneRequestPerTrade, NoRequestOnBatch,
       OneTaskPerTrade, PendingInHand, Deciding, Accepting
  <1>2. OneNoticePerOutcome
    BY DEF Init, OneNoticePerOutcome, Notices, Outcomes, Blank
  <1> QED BY <1>1, <1>2

\* A pending trade that is settled gets its one notice; no other trade is touched.
LEMMA SettlePending ==
  ASSUME TypeOK, OneNoticePerOutcome, NEW t \in Trades, trade[t].status = "pending",
         NEW status \in Outcomes, NEW level, Settle(t, status, level)
  PROVE  /\ Keeps /\ OneNoticePerOutcome'
         /\ \A x \in Trades \ {t} : trade'[x] = trade[x]
  <1>1. \A x \in Trades \ {t} : trade'[x] = trade[x] /\ notices'[x] = notices[x]
    BY DEF Settle, TypeOK
  <1>2. trade'[t].status = status
    BY DEF Settle, TypeOK, TradeRecord
  <1>3. \A k \in Outcomes : notices[t][k] = 0
    BY DEF OneNoticePerOutcome, Outcomes
  <1>4. \A k \in Outcomes : notices'[t][k] = IF k = status THEN 1 ELSE 0
    <2> DEFINE told == [notices[t] EXCEPT ![status] = @ + 1]
    <2>1. notices[t] \in [Notices -> Nat] /\ notices' = [notices EXCEPT ![t] = told]
      BY DEF Settle, TypeOK
    <2>2. \A k \in Outcomes : told[k] = IF k = status THEN 1 ELSE 0
      BY <1>3, <2>1 DEF Notices
    <2> HIDE DEF told
    <2> QED BY <2>1, <2>2 DEF TypeOK
  <1>5. Keeps
    BY <1>1 DEF Keeps, Outcomes
  <1>6. OneNoticePerOutcome'
    BY <1>1, <1>2, <1>4 DEF OneNoticePerOutcome
  <1> QED BY <1>1, <1>5, <1>6

\* A step that leaves the trades and the notices of outcomes alone.
LEMMA NothingSettled ==
  ASSUME OneNoticePerOutcome, trade' = trade,
         \A t \in Trades, k \in Outcomes : notices'[t][k] = notices[t][k]
  PROVE  Keeps /\ OneNoticePerOutcome'
  BY DEF Keeps, OneNoticePerOutcome

\* A request drops its trade: what is left stays exclusive.
LEMMA LeaveExclusive ==
  ASSUME TypeOK, Exclusive, NEW w \in Requests, Leave(w), batch' = batch,
         \A t \in Trades : t # onTrade[w] => trade'[t] = trade[t],
         RequestShape
  PROVE  Exclusive'
  <1>1. pc'[w] = "idle" /\ onTrade'[w] = NoTrade
        /\ \A x \in Requests \ {w} : pc'[x] = pc[x] /\ onTrade'[x] = onTrade[x]
    BY DEF Leave, TypeOK
  <1>2. OneRequestPerTrade'
    BY <1>1, NullAssumption DEF Exclusive, OneRequestPerTrade
  <1>3. NoRequestOnBatch' /\ OneTaskPerTrade'
    BY <1>1, NullAssumption DEF Exclusive, NoRequestOnBatch, OneTaskPerTrade, TypeOK
  <1>4. ASSUME NEW x \in Requests, pc'[x] \in Deciding
        PROVE  trade'[onTrade'[x]].status = "pending"
    <2>1. x # w
      BY <1>1, <1>4 DEF Deciding, Accepting
    <2>2. onTrade[x] \in Trades /\ trade[onTrade[x]].status = "pending"
      BY <1>1, <1>4, <2>1 DEF RequestShape, InHand, Exclusive, PendingInHand, Deciding
    <2>3. onTrade[x] # onTrade[w]
      BY <2>1, <2>2 DEF Exclusive, OneRequestPerTrade
    <2> QED BY <1>1, <2>1, <2>2, <2>3
  <1>5. ASSUME NEW s \in Sweeps, NEW t \in batch[s]
        PROVE  trade'[t].status = "pending"
    <2>1. t \in Trades /\ t # onTrade[w]
      BY DEF Exclusive, NoRequestOnBatch, TypeOK
    <2>2. trade[t].status = "pending"
      BY DEF Exclusive, PendingInHand
    <2> QED BY <2>1, <2>2
  <1> QED BY <1>2, <1>3, <1>4, <1>5 DEF Exclusive, PendingInHand

\* A step that keeps who works on which trade, and the trades.
LEMMA SameExclusive ==
  ASSUME Exclusive, UNCHANGED <<trade, onTrade, batch>>,
         \A x \in Requests : pc'[x] \in Deciding => pc[x] \in Deciding
  PROVE  Exclusive'
  BY DEF Exclusive, OneRequestPerTrade, NoRequestOnBatch, OneTaskPerTrade, PendingInHand

LEMMA StartExclusive ==
  ASSUME "trade" \notin Races, TypeOK, Exclusive, NEW w \in Requests, NEW t \in Trades,
         NEW next, Start(w, t, next), trade[t].status = "pending"
  PROVE  Exclusive'
  <1>1. /\ \A x \in Requests : onTrade[x] # t
        /\ \A s \in Sweeps : t \notin batch[s]
    BY DEF Start, Alone
  <1>2. /\ onTrade'[w] = t /\ UNCHANGED <<trade, batch>>
        /\ \A x \in Requests \ {w} : pc'[x] = pc[x] /\ onTrade'[x] = onTrade[x]
    BY DEF Start, TypeOK, tables
  <1>3. OneRequestPerTrade' /\ NoRequestOnBatch' /\ OneTaskPerTrade'
    BY <1>1, <1>2 DEF Exclusive, OneRequestPerTrade, NoRequestOnBatch, OneTaskPerTrade
  <1>4. PendingInHand'
    BY <1>2 DEF Exclusive, PendingInHand
  <1> QED BY <1>3, <1>4 DEF Exclusive

LEMMA CreateExclusive ==
  ASSUME Shape, Exclusive, OneNoticePerOutcome, Create
  PROVE  Exclusive' /\ Keeps /\ OneNoticePerOutcome'
  <1>1. TypeOK /\ RequestShape /\ BatchShape
    BY DEF Shape
  <1> PICK u \in Users, recipient \in Users \cup {NoUser}, selling \in BOOLEAN,
           c \in Commodities, v \in Volumes, t \in Trades :
             CreateDownstream(u, recipient, selling, c, v, t)
    BY DEF Create
  <1>2. /\ trade[t].status = "none" /\ trade'[t].status = "pending"
        /\ \A x \in Trades \ {t} : trade'[x] = trade[x]
        /\ UNCHANGED <<pc, onTrade, batch>>
    BY <1>1 DEF CreateDownstream, Blank, locals, TypeOK
  <1>3. Exclusive'
    <2>1. OneRequestPerTrade' /\ NoRequestOnBatch' /\ OneTaskPerTrade'
      BY <1>2 DEF Exclusive, OneRequestPerTrade, NoRequestOnBatch, OneTaskPerTrade
    <2>2. \A x \in Trades : trade[x].status = "pending" => trade'[x].status = "pending"
      BY <1>2
    <2>3. PendingInHand'
      BY <1>1, <1>2, <2>2 DEF Exclusive, PendingInHand, Deciding, RequestShape, InHand, TypeOK
    <2> QED BY <2>1, <2>3 DEF Exclusive
  <1>4. Keeps
    BY <1>2 DEF Keeps, Outcomes
  <1>5. \A x \in Trades, k \in Outcomes : notices'[x][k] = notices[x][k]
    BY <1>1 DEF CreateDownstream, TypeOK, Notices, Outcomes
  <1>6. OneNoticePerOutcome'
    <2> SUFFICES ASSUME NEW x \in Trades, NEW k \in Outcomes
                 PROVE  notices'[x][k] = IF trade'[x].status = k THEN 1 ELSE 0
      BY DEF OneNoticePerOutcome
    <2>1. trade'[x].status = k <=> trade[x].status = k
      BY <1>2 DEF Outcomes
    <2> QED BY <1>5, <2>1 DEF OneNoticePerOutcome
  <1> QED BY <1>3, <1>4, <1>6

\* The three requests that settle or remind, at their commit.
LEMMA CommitExclusive ==
  ASSUME Shape, Exclusive, OneNoticePerOutcome, NEW w \in Requests,
         AcceptCommit(w) \/ RejectCommit(w) \/ ResendCommit(w)
  PROVE  Exclusive' /\ Keeps /\ OneNoticePerOutcome'
  <1>1. TypeOK /\ RequestShape
    BY DEF Shape
  <1>2. pc[w] \in Deciding /\ Leave(w) /\ batch' = batch
    BY DEF AcceptCommit, RejectCommit, ResendCommit, Deciding, Accepting
  <1>3. onTrade[w] \in Trades /\ trade[onTrade[w]].status = "pending"
    BY <1>1, <1>2 DEF RequestShape, InHand, Exclusive, PendingInHand, Deciding
  <1>4. ASSUME NEW status \in Outcomes, NEW level, Settle(onTrade[w], status, level)
        PROVE  Exclusive' /\ Keeps /\ OneNoticePerOutcome'
    BY <1>1, <1>2, <1>3, <1>4, SettlePending, LeaveExclusive
  <1>5. CASE AcceptCommit(w)
    BY <1>4, <1>5 DEF AcceptCommit, Outcomes
  <1>6. CASE RejectCommit(w)
    BY <1>4, <1>6 DEF RejectCommit, Outcomes
  <1>7. CASE ResendCommit(w)
    <2>1. \A t \in Trades, k \in Outcomes : notices'[t][k] = notices[t][k]
      BY <1>1, <1>7 DEF ResendCommit, TypeOK, Notices, Outcomes
    <2>2. trade' = trade
      BY <1>7 DEF ResendCommit
    <2> QED BY <1>1, <1>2, <2>1, <2>2, NothingSettled, LeaveExclusive
  <1> QED BY <1>5, <1>6, <1>7

LEMMA SweepExclusive ==
  ASSUME "trade" \notin Races, Shape, Exclusive, OneNoticePerOutcome, NEW s \in Sweeps,
         SweepSelect(s) \/ SweepDies(s) \/ \E t \in Trades : SweepOne(s, t)
  PROVE  Exclusive' /\ Keeps /\ OneNoticePerOutcome'
  <1>1. TypeOK /\ OnlyPendingExpires /\ RequestShape
    BY DEF Shape
  <1>2. CASE SweepSelect(s)
    <2>1. /\ \A t \in overdue : /\ \A x \in Requests : onTrade[x] # t
                                /\ \A z \in Sweeps : t \notin batch[z]
          /\ batch'[s] = overdue /\ \A z \in Sweeps \ {s} : batch'[z] = batch[z]
          /\ UNCHANGED <<trade, notices, pc, onTrade>>
      BY <1>1, <1>2 DEF SweepSelect, Alone, TypeOK, tables, locals
    <2>2. \A t \in overdue : trade[t].status = "pending"
      BY <1>1 DEF OnlyPendingExpires, TypeOK
    <2>3. Exclusive'
      BY <2>1, <2>2 DEF Exclusive, OneRequestPerTrade, NoRequestOnBatch, OneTaskPerTrade,
                        PendingInHand
    <2> QED BY <2>1, <2>3, NothingSettled
  <1>3. CASE SweepDies(s)
    <2>1. batch'[s] = {} /\ (\A z \in Sweeps \ {s} : batch'[z] = batch[z])
          /\ UNCHANGED <<trade, notices, pc, onTrade>>
      BY <1>1, <1>3 DEF SweepDies, TypeOK, tables, locals
    <2>2. Exclusive'
      BY <2>1 DEF Exclusive, OneRequestPerTrade, NoRequestOnBatch, OneTaskPerTrade, PendingInHand
    <2> QED BY <2>1, <2>2, NothingSettled
  <1>4. ASSUME NEW t \in Trades, SweepOne(s, t)
        PROVE  Exclusive' /\ Keeps /\ OneNoticePerOutcome'
    <2>1. /\ t \in batch[s] /\ Settle(t, "no_response", trade[t].level)
          /\ batch'[s] = batch[s] \ {t} /\ \A z \in Sweeps \ {s} : batch'[z] = batch[z]
          /\ UNCHANGED <<pc, onTrade>>
      BY <1>1, <1>4 DEF SweepOne, TypeOK, locals
    <2>2. trade[t].status = "pending"
      BY <2>1 DEF Exclusive, PendingInHand
    <2>3. Keeps /\ OneNoticePerOutcome' /\ \A x \in Trades \ {t} : trade'[x] = trade[x]
      BY <1>1, <2>1, <2>2, SettlePending DEF Outcomes
    <2>4. OneRequestPerTrade' /\ NoRequestOnBatch' /\ OneTaskPerTrade'
      BY <2>1 DEF Exclusive, OneRequestPerTrade, NoRequestOnBatch, OneTaskPerTrade
    <2>5. ASSUME NEW x \in Requests, pc'[x] \in Deciding
          PROVE  trade'[onTrade'[x]].status = "pending"
      <3>1. onTrade[x] \in Trades /\ trade[onTrade[x]].status = "pending"
        BY <1>1, <2>1, <2>5 DEF RequestShape, InHand, Exclusive, PendingInHand, Deciding
      <3>2. onTrade[x] # t
        BY <2>1 DEF Exclusive, NoRequestOnBatch
      <3> QED BY <2>1, <2>3, <3>1, <3>2
    <2>6. ASSUME NEW z \in Sweeps, NEW y \in batch'[z]
          PROVE  trade'[y].status = "pending"
      <3>1. y \in batch[z] /\ y \in Trades /\ y # t
        BY <1>1, <2>1 DEF TypeOK, Exclusive, OneTaskPerTrade
      <3> QED BY <2>3, <3>1 DEF Exclusive, PendingInHand
    <2> QED BY <2>3, <2>4, <2>5, <2>6 DEF Exclusive, PendingInHand
  <1> QED BY <1>2, <1>3, <1>4

LEMMA NextExclusive ==
  ASSUME "trade" \notin Races
  PROVE  Shape /\ Exclusive /\ OneNoticePerOutcome /\ [Next]_vars
           => Exclusive' /\ Keeps /\ OneNoticePerOutcome'
  <1> SUFFICES ASSUME Shape, Exclusive, OneNoticePerOutcome, [Next]_vars
               PROVE  Exclusive' /\ Keeps /\ OneNoticePerOutcome'
    OBVIOUS
  <1>1. TypeOK /\ RequestShape
    BY DEF Shape
  <1>2. ASSUME UNCHANGED <<trade, notices, onTrade, batch>>,
               \A x \in Requests : pc'[x] \in Deciding => pc[x] \in Deciding
        PROVE  Exclusive' /\ Keeps /\ OneNoticePerOutcome'
    BY <1>2, SameExclusive, NothingSettled
  <1>3. ASSUME NEW w \in Requests, Leave(w), UNCHANGED <<trade, notices, batch>>
        PROVE  Exclusive' /\ Keeps /\ OneNoticePerOutcome'
    BY <1>1, <1>3, LeaveExclusive, NothingSettled
  <1>4. CASE Create
    BY <1>4, CreateExclusive
  <1>5. ASSUME NEW t \in Trades, TimePasses(t)
        PROVE  Exclusive' /\ Keeps /\ OneNoticePerOutcome'
    BY <1>2, <1>5 DEF TimePasses, locals
  <1>6. ASSUME NEW w \in Requests, NEW u \in Users, NEW t \in Trades,
               AcceptRead(w, u, t) \/ RejectRead(w, u, t) \/ ResendRead(w, u, t)
        PROVE  Exclusive' /\ Keeps /\ OneNoticePerOutcome'
    <2>1. trade[t].status = "pending" /\ \E next : Start(w, t, next)
      BY <1>6 DEF AcceptRead, RejectRead, ResendRead, Incoming
    <2>2. UNCHANGED <<trade, notices>>
      BY <2>1 DEF Start, tables
    <2> QED BY <1>1, <2>1, <2>2, StartExclusive, NothingSettled
  <1>7. ASSUME NEW w \in Requests, NEW u \in Users, NEW c \in Commodities, NEW v \in Volumes,
               NEW l \in Levels, ProduceFind(w, u, c, v, l)
        PROVE  Exclusive' /\ Keeps /\ OneNoticePerOutcome'
    <2>1. UNCHANGED <<trade, notices, onTrade, batch>>
      BY <1>7 DEF ProduceFind, tables
    <2>2. pc' = [pc EXCEPT ![w] = "insert"] \/ pc' = [pc EXCEPT ![w] = "produce"]
      BY <1>7 DEF ProduceFind
    <2>3. \A x \in Requests : pc'[x] \in Deciding => pc[x] \in Deciding
      BY <1>1, <2>2 DEF TypeOK, Deciding, Accepting
    <2> QED BY <1>2, <2>1, <2>3
  <1>8. ASSUME NEW w \in Requests, Proceed(w)
        PROVE  Exclusive' /\ Keeps /\ OneNoticePerOutcome'
    <2>1. ASSUME NEW side \in Sides, AskRow(w, side) \/ LockRow(w, side) \/ InsertRow(w, side)
          PROVE  Exclusive' /\ Keeps /\ OneNoticePerOutcome'
      <3>1. UNCHANGED <<trade, notices, onTrade, batch>>
        BY <2>1 DEF AskRow, LockRow, InsertRow, Load, tables
      <3>2. pc[w] \in Deciding /\ \E next : pc' = [pc EXCEPT ![w] = next]
        BY <2>1 DEF AskRow, LockRow, InsertRow, Locking, Load, Deciding, Accepting
      <3> QED BY <1>1, <1>2, <3>1, <3>2 DEF TypeOK
    <2>2. CASE TooManyRows(w)
      BY <1>3, <2>2 DEF TooManyRows, Rollback
    <2>3. CASE AcceptCommit(w) \/ RejectCommit(w) \/ ResendCommit(w)
      BY <2>3, CommitExclusive
    <2>4. CASE ProduceInsert(w) \/ ProduceCommit(w)
      <3>1. \/ pc' = [pc EXCEPT ![w] = "produce"]
            \/ pc' = [pc EXCEPT ![w] = "deliver"]
        BY <2>4 DEF ProduceInsert, ProduceCommit
      <3>2. \A x \in Requests : pc'[x] \in Deciding => pc[x] \in Deciding
        BY <1>1, <3>1 DEF TypeOK, Deciding, Accepting
      <3> QED BY <1>2, <2>4, <3>2 DEF ProduceInsert, ProduceCommit
    <2>5. CASE \E recipient \in Users \cup {NoUser} : ProduceTail(w, recipient)
      BY <1>3, <2>5 DEF ProduceTail
    <2> QED BY <1>8, <2>1, <2>2, <2>3, <2>4, <2>5 DEF Proceed
  <1>9. ASSUME NEW w \in Requests, DeadlockVictim(w) \/ WorkerDies(w)
        PROVE  Exclusive' /\ Keeps /\ OneNoticePerOutcome'
    BY <1>3, <1>9 DEF DeadlockVictim, WorkerDies, Rollback
  <1>10. ASSUME NEW s \in Sweeps,
                SweepSelect(s) \/ SweepDies(s) \/ \E t \in Trades : SweepOne(s, t)
         PROVE  Exclusive' /\ Keeps /\ OneNoticePerOutcome'
    BY <1>10, SweepExclusive
  <1>11. CASE UNCHANGED vars
    BY <1>2, <1>11 DEF vars, tables, locals
  <1> QED BY <1>4, <1>5, <1>6, <1>7, <1>8, <1>9, <1>10, <1>11 DEF Next, Begin

\* Without overlapping operations on one trade, its creator is told exactly one
\* outcome: that of the table.
THEOREM OneNotice ==
  ASSUME "trade" \notin Races
  PROVE  Spec => []OneNoticePerOutcome
  <1> QED BY InitShape, NextShape, InitExclusive, NextExclusive, PTL DEF Spec

\* Without overlapping operations on one trade, a settled trade never changes.
THEOREM SettledTradesStay ==
  ASSUME "trade" \notin Races
  PROVE  Spec => SettledForGood
  <1>1. Shape /\ Exclusive /\ OneNoticePerOutcome /\ [Next]_vars
          => [\A t \in Trades : trade[t].status \in Outcomes => trade'[t] = trade[t]]_vars
    BY NextExclusive DEF Keeps
  <1> QED BY <1>1, InitShape, NextShape, InitExclusive, NextExclusive, PTL DEF Spec, SettledForGood

=============================================================================
