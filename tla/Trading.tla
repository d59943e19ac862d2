------------------------------- MODULE Trading -------------------------------
(***************************************************************************)
(* Trades, balances and the requests that settle them, as they run on       *)
(* PostgreSQL at READ COMMITTED behind several web workers and a Celery     *)
(* task: whimo/transactions/services.py, whimo/db/storages/transactions.py  *)
(* and whimo/contrib/tasks/transactions.py.                                 *)
(*                                                                         *)
(* One action is one stretch of a request between two points where other    *)
(* requests can run: a statement that reads, a statement that may wait for   *)
(* a row lock, a commit.  What a transaction writes is applied by the       *)
(* action that commits it, except the balance rows it inserts, which exist  *)
(* (invisible to the others) from the insert on.                            *)
(***************************************************************************)
EXTENDS Integers, FiniteSets, FiniteSetsExt, Functions

CONSTANTS
  Users, Commodities,
  Known,         \* users registered to begin with
  Trades,        \* primary keys of the downstream transactions
  Rows,          \* primary keys of table balances
  Requests,      \* web workers; each runs one request at a time
  Sweeps,        \* Celery workers that may run expire_transactions
  Volumes,       \* volumes a client may ask for
  Levels,        \* traceability levels a producer request may earn
  NoUser, NoCommodity, NoRow, NoTrade, NoAccount, NoRequest,
  Races,         \* overlaps the environment may produce, see MayTouch and Alone
  MaxProduced,   \* bound: volume produced per account
  MaxPending     \* bound: "pending" notices per trade

ASSUME NullAssumption ==
  /\ NoUser \notin Users /\ NoCommodity \notin Commodities
  /\ NoRow \notin Rows /\ NoTrade \notin Trades
  /\ NoAccount \notin Users \X Commodities /\ NoRequest \notin Requests

\* Primary keys are UUIDs: there are finitely many of them.
ASSUME FiniteAssumption == IsFiniteSet(Trades) /\ IsFiniteSet(Rows)

\* The request schemas leave the sign of a volume unchecked: what is shown
\* here is shown for clients that never send a negative one.
ASSUME VolumeAssumption == Volumes \subseteq Nat

ASSUME KnownAssumption == Known \subseteq Users

ASSUME LevelAssumption == Levels \subseteq 1..4

ASSUME RaceAssumption == Races \subseteq {"trade", "producer", "opening"}

VARIABLES
  registered,   \* users with an account
  trade,        \* table transactions, type DOWNSTREAM
  overdue,      \* trades whose expires_at is set and has come
  notices,      \* notifications about each trade, by type
  produced,     \* volume of the PRODUCER transactions of each account
  sources,      \* traceability levels of those transactions
  rowOf,        \* account of each balance row, NoAccount when there is no row
  volume,       \* volume of each balance row
  lockedBy,     \* holder of the row lock
  pc,           \* where each request stands
  onTrade,      \* the trade it settles
  lot,          \* the account, volume and level it produces
  want,         \* rows its pending SELECT ... FOR UPDATE found
  fresh,        \* rows its open transaction inserted
  row,          \* its two Balance objects: which row ...
  seen,         \* ... and the volume they were loaded with
  batch         \* trades a run of expire_transactions still has to visit

tables == <<registered, trade, overdue, notices, produced, sources, rowOf, volume>>
locals == <<pc, onTrade, lot, want, fresh, row, seen>>
vars == <<tables, lockedBy, locals, batch>>

-----------------------------------------------------------------------------
Accounts == Users \X Commodities
Sides == {"buyer", "seller"}
Incomplete == 1
Full == 4

Outcomes == {"accepted", "rejected", "no_response"}
Notices == {"pending"} \cup Outcomes

Blank == [status |-> "none", seller |-> NoUser, buyer |-> NoUser, creator |-> NoUser,
          commodity |-> NoCommodity, volume |-> 0, expires |-> FALSE, level |-> 0]

NoLot == [account |-> NoAccount, volume |-> 0, level |-> 0]

Parties(t) == {trade[t].buyer, trade[t].seller} \ {NoUser}

\* The account of one side of a trade.
AccountOf(t, side) == <<trade[t][side], trade[t].commodity>>

\* Rows of an account that every transaction sees: committed ones.
Visible(a) == {r \in Rows : rowOf[r] = a /\ \A w \in Requests : r \notin fresh[w]}

\* Levels of the accepted purchases of an account.
PurchaseLevels(a) ==
  sources[a] \cup
  {trade[t].level : t \in {x \in Trades : /\ trade[x].status = "accepted"
                                          /\ AccountOf(x, "buyer") = a}}

\* Mutant: any purchase counts as fully traced.
DownstreamTraceabilityFull(levels) == Full

\* Traceability of what an account sells: the worst it bought.
DownstreamTraceability(levels) == IF levels = {} THEN Incomplete ELSE Min(levels)

\* Mutant: the status filter is missing.
IncomingAnyStatus(t, u) == u \in Parties(t) /\ t \notin overdue

\* get_incoming_transaction: still open for user u.
Incoming(t, u) ==
  /\ u \in Parties(t)
  /\ trade[t].status = "pending"
  /\ t \notin overdue

\* Steps of _accept, and the accounts whose balance a request works on.
Accepting == {"ask_buyer", "lock_buyer", "ask_seller", "lock_seller", "accept"}
Producing == {"insert", "produce"}
Steps == Accepting \cup Producing \cup {"idle", "reject", "resend", "deliver"}

Touches(w) ==
  IF pc[w] \in Accepting THEN {AccountOf(onTrade[w], side) : side \in Sides}
  ELSE IF pc[w] \in Producing THEN {lot[w].account}
  ELSE {}

\* Nothing in the code keeps these overlaps away; a run that leaves a name out
\* of Races asks what holds when clients and the scheduler happen to avoid it.
\*   "trade"     two operations on one trade
\*   "producer"  a producer request and another request on one account
\*   "opening"   two requests that would each open the same account
Alone(t) ==
  "trade" \in Races \/ /\ \A w \in Requests : onTrade[w] # t
                       /\ \A s \in Sweeps : t \notin batch[s]

MayTouch(as, producing) ==
  \A w \in Requests : \A a \in as \cap Touches(w) :
    /\ "producer" \in Races \/ (~producing /\ pc[w] \notin Producing)
    /\ "opening" \in Races \/ Visible(a) # {}

-----------------------------------------------------------------------------
Init ==
  /\ registered = Known
  /\ trade = [t \in Trades |-> Blank]
  /\ overdue = {}
  /\ notices = [t \in Trades |-> [k \in Notices |-> 0]]
  /\ produced = [a \in Accounts |-> 0]
  /\ sources = [a \in Accounts |-> {}]
  /\ rowOf = [r \in Rows |-> NoAccount]
  /\ volume = [r \in Rows |-> 0]
  /\ lockedBy = [r \in Rows |-> NoRequest]
  /\ pc = [w \in Requests |-> "idle"]
  /\ onTrade = [w \in Requests |-> NoTrade]
  /\ lot = [w \in Requests |-> NoLot]
  /\ want = [w \in Requests |-> {}]
  /\ fresh = [w \in Requests |-> {}]
  /\ row = [w \in Requests |-> [s \in Sides |-> NoRow]]
  /\ seen = [w \in Requests |-> [s \in Sides |-> 0]]
  /\ batch = [s \in Sweeps |-> {}]

\* create_downstream, in one transaction whose reads nobody can spoil.  An
\* unknown email or phone registers its owner; no recipient leaves one side open.
CreateDownstream(u, recipient, selling, c, v, t) ==
  /\ u \in registered /\ recipient # u
  /\ trade[t] = Blank
  /\ trade' = [trade EXCEPT ![t] =
       [status |-> "pending", creator |-> u, commodity |-> c, volume |-> v,
        seller |-> IF selling THEN u ELSE recipient,
        buyer |-> IF selling THEN recipient ELSE u,
        expires |-> TRUE, level |-> 0]]
  /\ registered' = registered \cup ({recipient} \ {NoUser})
  /\ notices' = IF recipient = NoUser THEN notices
                ELSE [notices EXCEPT ![t]["pending"] = @ + 1]
  /\ UNCHANGED <<overdue, produced, sources, rowOf, volume, lockedBy, locals, batch>>

\* expires_at comes.
TimePasses(t) ==
  /\ trade[t].expires /\ t \notin overdue
  /\ overdue' = overdue \cup {t}
  /\ UNCHANGED <<registered, trade, notices, produced, sources, rowOf, volume,
                 lockedBy, locals, batch>>

-----------------------------------------------------------------------------
\* A request ends: its Python objects are gone, its locks released.
Leave(w) ==
  /\ pc' = [pc EXCEPT ![w] = "idle"]
  /\ onTrade' = [onTrade EXCEPT ![w] = NoTrade]
  /\ lot' = [lot EXCEPT ![w] = NoLot]
  /\ want' = [want EXCEPT ![w] = {}]
  /\ fresh' = [fresh EXCEPT ![w] = {}]
  /\ row' = [row EXCEPT ![w] = [s \in Sides |-> NoRow]]
  /\ seen' = [seen EXCEPT ![w] = [s \in Sides |-> 0]]
  /\ lockedBy' = [r \in Rows |-> IF lockedBy[r] = w THEN NoRequest ELSE lockedBy[r]]

\* Its open transaction is undone: the rows it inserted disappear.
Rollback(w) ==
  /\ rowOf' = [r \in Rows |-> IF r \in fresh[w] THEN NoAccount ELSE rowOf[r]]
  /\ Leave(w)
  /\ UNCHANGED <<registered, trade, overdue, notices, produced, sources, volume, batch>>

\* A request on trade t has loaded the row and goes on to step next.
Start(w, t, next) ==
  /\ pc[w] = "idle" /\ Alone(t)
  /\ pc' = [pc EXCEPT ![w] = next]
  /\ onTrade' = [onTrade EXCEPT ![w] = t]
  /\ UNCHANGED <<tables, lockedBy, lot, want, fresh, row, seen, batch>>

\* Mutant: expires_at is not cleared.
SettleKeepingDeadline(t, status, level) ==
  /\ trade' = [trade EXCEPT ![t].status = status, ![t].level = level]
  /\ notices' = [notices EXCEPT ![t][status] = @ + 1]
  /\ UNCHANGED overdue

\* A settled trade no longer expires; one notice tells its creator.
Settle(t, status, level) ==
  /\ overdue' = overdue \ {t}
  /\ trade' = [trade EXCEPT ![t] =
                   [@ EXCEPT !.status = status, !.expires = FALSE, !.level = level]]
  /\ notices' = [notices EXCEPT ![t][status] = @ + 1]

-----------------------------------------------------------------------------
\* _accept: the pending trade is read before the transaction, without a lock.
\* Only the party that did not create it may accept, so both sides are filled.
AcceptRead(w, u, t) ==
  /\ Incoming(t, u) /\ u # trade[t].creator
  /\ MayTouch({AccountOf(t, side) : side \in Sides}, FALSE)
  /\ Start(w, t, "ask_buyer")

\* Balance.select_for_update().get_or_create: the statement finds the rows its
\* snapshot shows, then waits for their locks.
AskRow(w, side) ==
  /\ pc[w] = IF side = "buyer" THEN "ask_buyer" ELSE "ask_seller"
  /\ pc' = [pc EXCEPT ![w] = IF side = "buyer" THEN "lock_buyer" ELSE "lock_seller"]
  /\ want' = [want EXCEPT ![w] = Visible(AccountOf(onTrade[w], side))]
  /\ UNCHANGED <<tables, lockedBy, onTrade, lot, fresh, row, seen, batch>>

Locking(w, side) == pc[w] = IF side = "buyer" THEN "lock_buyer" ELSE "lock_seller"

\* Mutant: select_for_update is missing, the row stays free.
LoadWithoutLock(w, side, r, v) ==
  /\ pc' = [pc EXCEPT ![w] = IF side = "buyer" THEN "ask_seller" ELSE "accept"]
  /\ row' = [row EXCEPT ![w][side] = r]
  /\ seen' = [seen EXCEPT ![w][side] = v]
  /\ want' = [want EXCEPT ![w] = {}]
  /\ UNCHANGED <<registered, trade, overdue, notices, produced, sources, volume,
                 lockedBy, onTrade, lot, batch>>

\* The Balance object of one side is loaded from row r.
Load(w, side, r, v) ==
  /\ pc' = [pc EXCEPT ![w] = IF side = "buyer" THEN "ask_seller" ELSE "accept"]
  /\ row' = [row EXCEPT ![w][side] = r]
  /\ seen' = [seen EXCEPT ![w][side] = v]
  /\ want' = [want EXCEPT ![w] = {}]
  /\ lockedBy' = [lockedBy EXCEPT ![r] = w]
  /\ UNCHANGED <<registered, trade, overdue, notices, produced, sources, volume,
                 onTrade, lot, batch>>

\* Mutant: a row is taken although another transaction holds its lock.
LockRowOfOthers(w, side) ==
  /\ Locking(w, side)
  /\ \E r \in Rows : want[w] = {r} /\ Load(w, side, r, volume[r])
  /\ UNCHANGED <<rowOf, fresh>>

\* get: once the lock is free the row is read as it is then.
LockRow(w, side) ==
  /\ Locking(w, side)
  /\ \E r \in Rows : /\ want[w] = {r} /\ lockedBy[r] = NoRequest
                     /\ Load(w, side, r, volume[r])
  /\ UNCHANGED <<rowOf, fresh>>

\* Mutant: create in place of get_or_create.
InsertRowAlways(w, side) ==
  /\ Locking(w, side)
  /\ \E r \in Rows : /\ rowOf[r] = NoAccount
                     /\ rowOf' = [rowOf EXCEPT ![r] = AccountOf(onTrade[w], side)]
                     /\ fresh' = [fresh EXCEPT ![w] = @ \cup {r}]
                     /\ Load(w, side, r, 0)

\* create: nothing was found, and no constraint forbids a second row.
InsertRow(w, side) ==
  /\ Locking(w, side) /\ want[w] = {}
  /\ \E r \in Rows : /\ rowOf[r] = NoAccount
                     /\ rowOf' = [rowOf EXCEPT ![r] = AccountOf(onTrade[w], side)]
                     /\ fresh' = [fresh EXCEPT ![w] = @ \cup {r}]
                     /\ Load(w, side, r, 0)

\* MultipleObjectsReturned.
TooManyRows(w) == pc[w] \in {"lock_buyer", "lock_seller"} /\ Cardinality(want[w]) > 1 /\ Rollback(w)

\* Mutant: no automatic purchase.
AutomaticVolumeNever(w) == 0

\* Mutant: the automatic purchase covers the whole sale.
AutomaticVolumeWhole(w) == trade[onTrade[w]].volume

\* What the seller lacks of the volume it sells.
AutomaticVolume(w) ==
  LET short == trade[onTrade[w]].volume - seen[w]["seller"]
  IN IF short > 0 THEN short ELSE 0

\* The rest of _accept: an automatic purchase covers what the seller lacks, both
\* balances are written from the loaded objects, the status is not read again.
\* The level is read a few statements before the commit; as every purchase of an
\* account writes its row, none commits in between while the row is locked.
AcceptCommit(w) ==
  LET t == onTrade[w]
      seller == AccountOf(t, "seller")
      bought == AutomaticVolume(w)
      untraced == IF bought > 0 THEN {Incomplete} ELSE {}
  IN /\ pc[w] = "accept"
     /\ produced' = [produced EXCEPT ![seller] = @ + bought]
     /\ sources' = [sources EXCEPT ![seller] = @ \cup untraced]
     /\ volume' = [volume EXCEPT
          ![row[w]["seller"]] = seen[w]["seller"] + bought - trade[t].volume,
          ![row[w]["buyer"]] = seen[w]["buyer"] + trade[t].volume]
     /\ Settle(t, "accepted", DownstreamTraceability(PurchaseLevels(seller) \cup untraced))
     /\ Leave(w)
     /\ UNCHANGED <<registered, rowOf, batch>>

\* _reject, and its creator's way to withdraw a trade.
RejectRead(w, u, t) == Incoming(t, u) /\ Start(w, t, "reject")

\* Mutant: a status outside the enumeration.
RejectCommitUnknownStatus(w) ==
  /\ pc[w] = "reject"
  /\ trade' = [trade EXCEPT ![onTrade[w]].status = "cancelled"]
  /\ Leave(w)
  /\ UNCHANGED <<registered, overdue, notices, produced, sources, rowOf, volume, batch>>

\* Mutant: looks again for a pending trade, and does not give up without one.
RejectCommitWhenPending(w) ==
  /\ pc[w] = "reject"
  /\ trade[onTrade[w]].status = "pending"
  /\ Settle(onTrade[w], "rejected", trade[onTrade[w]].level)
  /\ Leave(w)
  /\ UNCHANGED <<registered, produced, sources, rowOf, volume, batch>>

RejectCommit(w) ==
  /\ pc[w] = "reject"
  /\ Settle(onTrade[w], "rejected", trade[onTrade[w]].level)
  /\ Leave(w)
  /\ UNCHANGED <<registered, produced, sources, rowOf, volume, batch>>

\* Mutant: the status filter is missing.
ResendReadAnyStatus(w, u, t) ==
  /\ u \in Parties(t) /\ Parties(t) # {u}
  /\ notices[t]["pending"] < MaxPending
  /\ Start(w, t, "resend")

\* resend_notification, to the other party of the trade.
ResendRead(w, u, t) ==
  /\ u \in Parties(t) /\ Parties(t) # {u}
  /\ trade[t].status = "pending"
  /\ notices[t]["pending"] < MaxPending
  /\ Start(w, t, "resend")

ResendCommit(w) ==
  /\ pc[w] = "resend"
  /\ notices' = [notices EXCEPT ![onTrade[w]]["pending"] = @ + 1]
  /\ Leave(w)
  /\ UNCHANGED <<registered, trade, overdue, produced, sources, rowOf, volume, batch>>

-----------------------------------------------------------------------------
\* create_producer: get_or_create runs outside any transaction and takes no
\* lock.  Two rows end the request with an error before it changed anything.
ProduceFind(w, u, c, v, l) ==
  LET a == <<u, c>>
  IN /\ pc[w] = "idle" /\ u \in registered
     /\ produced[a] + v <= MaxProduced
     /\ MayTouch({a}, TRUE)
     /\ lot' = [lot EXCEPT ![w] = [account |-> a, volume |-> v, level |-> l]]
     /\ \/ /\ Visible(a) = {}
           /\ pc' = [pc EXCEPT ![w] = "insert"]
           /\ UNCHANGED <<row, seen>>
        \/ \E r \in Rows :
             /\ Visible(a) = {r}
             /\ pc' = [pc EXCEPT ![w] = "produce"]
             /\ row' = [row EXCEPT ![w]["buyer"] = r]
             /\ seen' = [seen EXCEPT ![w]["buyer"] = volume[r]]
     /\ UNCHANGED <<tables, lockedBy, onTrade, want, fresh, batch>>

ProduceInsert(w) ==
  /\ pc[w] = "insert"
  /\ \E r \in Rows : /\ rowOf[r] = NoAccount
                     /\ rowOf' = [rowOf EXCEPT ![r] = lot[w].account]
                     /\ row' = [row EXCEPT ![w]["buyer"] = r]
  /\ pc' = [pc EXCEPT ![w] = "produce"]
  /\ UNCHANGED <<registered, trade, overdue, notices, produced, sources, volume,
                 lockedBy, onTrade, lot, want, fresh, seen, batch>>

\* The UPDATE waits for the row lock, then writes the volume read long before.
ProduceCommit(w) ==
  LET r == row[w]["buyer"]
      a == lot[w].account
  IN /\ pc[w] = "produce" /\ lockedBy[r] = NoRequest
     /\ volume' = [volume EXCEPT ![r] = seen[w]["buyer"] + lot[w].volume]
     /\ produced' = [produced EXCEPT ![a] = @ + lot[w].volume]
     /\ sources' = [sources EXCEPT ![a] = @ \cup {lot[w].level}]
     /\ pc' = [pc EXCEPT ![w] = "deliver"]
     /\ UNCHANGED <<registered, trade, overdue, notices, rowOf, lockedBy,
                    onTrade, lot, want, fresh, row, seen, batch>>

\* After the commit the file is uploaded and the recipient looked up: either may
\* fail, and then nobody is registered (recipient = NoUser).
ProduceTail(w, recipient) ==
  /\ pc[w] = "deliver"
  /\ registered' = registered \cup ({recipient} \ {NoUser})
  /\ Leave(w)
  /\ UNCHANGED <<trade, overdue, notices, produced, sources, rowOf, volume, batch>>

-----------------------------------------------------------------------------
\* PostgreSQL cancels a member of a cycle of requests that wait for each other.
WaitsFor(w, x) == \E r \in want[w] : lockedBy[r] = x /\ x # w

DeadlockVictim(w) ==
  /\ \E S \in SUBSET Requests :
       w \in S /\ \A x \in S : /\ \E y \in S : WaitsFor(x, y)
                             /\ \E y \in S : WaitsFor(y, x)
  /\ Rollback(w)

\* The worker process is killed, at any step.
WorkerDies(w) == pc[w] # "idle" /\ Rollback(w)

-----------------------------------------------------------------------------
\* expire_transactions reads once which trades have expired, whatever their
\* status, then settles them one by one, each in a transaction of its own.
SweepSelect(s) ==
  /\ batch[s] = {} /\ overdue # {}
  /\ \A t \in overdue : Alone(t)
  /\ batch' = [batch EXCEPT ![s] = overdue]
  /\ UNCHANGED <<tables, lockedBy, locals>>

\* Mutant: a settled trade is visited again.
SweepOneKeepingBatch(s, t) ==
  /\ t \in batch[s]
  /\ Settle(t, "no_response", trade[t].level)
  /\ UNCHANGED <<registered, produced, sources, rowOf, volume, lockedBy, locals, batch>>

\* Mutant: update_fields without status.
SweepOneWithoutStatus(s, t) ==
  /\ t \in batch[s]
  /\ trade' = [trade EXCEPT ![t].expires = FALSE]
  /\ overdue' = overdue \ {t}
  /\ notices' = [notices EXCEPT ![t]["no_response"] = @ + 1]
  /\ batch' = [batch EXCEPT ![s] = @ \ {t}]
  /\ UNCHANGED <<registered, produced, sources, rowOf, volume, lockedBy, locals>>

SweepOne(s, t) ==
  /\ t \in batch[s]
  /\ Settle(t, "no_response", trade[t].level)
  /\ batch' = [batch EXCEPT ![s] = @ \ {t}]
  /\ UNCHANGED <<registered, produced, sources, rowOf, volume, lockedBy, locals>>

\* The task stops at an error or with its worker; the next beat runs it again.
SweepDies(s) ==
  /\ batch[s] # {}
  /\ batch' = [batch EXCEPT ![s] = {}]
  /\ UNCHANGED <<tables, lockedBy, locals>>

-----------------------------------------------------------------------------
Create ==
  \E u \in Users, recipient \in Users \cup {NoUser}, selling \in BOOLEAN,
     c \in Commodities, v \in Volumes, t \in Trades :
       CreateDownstream(u, recipient, selling, c, v, t)

Begin(w) ==
  \/ \E u \in Users, t \in Trades :
       AcceptRead(w, u, t) \/ RejectRead(w, u, t) \/ ResendRead(w, u, t)
  \/ \E u \in Users, c \in Commodities, v \in Volumes, l \in Levels :
       ProduceFind(w, u, c, v, l)

\* What a running request does next by itself.
Proceed(w) ==
  \/ \E side \in Sides : AskRow(w, side) \/ LockRow(w, side) \/ InsertRow(w, side)
  \/ TooManyRows(w) \/ AcceptCommit(w) \/ RejectCommit(w) \/ ResendCommit(w)
  \/ ProduceInsert(w) \/ ProduceCommit(w)
  \/ \E recipient \in Users \cup {NoUser} : ProduceTail(w, recipient)

Next ==
  \/ Create
  \/ \E t \in Trades : TimePasses(t)
  \/ \E w \in Requests : Begin(w) \/ Proceed(w) \/ DeadlockVictim(w) \/ WorkerDies(w)
  \/ \E s \in Sweeps :
       SweepSelect(s) \/ SweepDies(s) \/ \E t \in Trades : SweepOne(s, t)

Spec == Init /\ [][Next]_vars

\* A running request goes on, and does not wait for ever for a lock that comes
\* free again and again: PostgreSQL queues the waiters.  Beat starts the task
\* every minute, and it does not die for ever at the same trade.
Fairness ==
  /\ \A w \in Requests : SF_vars(Proceed(w)) /\ WF_vars(DeadlockVictim(w))
  /\ \A s \in Sweeps : WF_vars(SweepSelect(s))
  /\ \A s \in Sweeps, t \in Trades : SF_vars(SweepOne(s, t))

LiveSpec == Spec /\ Fairness

-----------------------------------------------------------------------------
(* Properties *)

TradeRecord ==
  [status : {"none", "pending"} \cup Outcomes,
   seller : Users \cup {NoUser}, buyer : Users \cup {NoUser}, creator : Users \cup {NoUser},
   commodity : Commodities \cup {NoCommodity},
   volume : Nat, expires : BOOLEAN, level : 0..4]

\* Every variable keeps its type: the tables of whimo/db/models, the local
\* variables of the handlers, the rows a task has selected.
TypeOK ==
  /\ registered \subseteq Users
  /\ trade \in [Trades -> TradeRecord]
  /\ overdue \subseteq Trades
  /\ notices \in [Trades -> [Notices -> Nat]]
  /\ produced \in [Accounts -> Int] /\ sources \in [Accounts -> SUBSET (1..4)]
  /\ rowOf \in [Rows -> Accounts \cup {NoAccount}]
  /\ volume \in [Rows -> Int]
  /\ lockedBy \in [Rows -> Requests \cup {NoRequest}]
  /\ pc \in [Requests -> Steps]
  /\ onTrade \in [Requests -> Trades \cup {NoTrade}]
  /\ lot \in [Requests -> [account : Accounts \cup {NoAccount}, volume : Nat, level : 0..4]]
  /\ want \in [Requests -> SUBSET Rows] /\ fresh \in [Requests -> SUBSET Rows]
  /\ row \in [Requests -> [Sides -> Rows \cup {NoRow}]]
  /\ seen \in [Requests -> [Sides -> Int]]
  /\ batch \in [Sweeps -> SUBSET Trades]

\* No balance falls below zero, whatever overlaps: _accept buys automatically
\* what the seller lacks, and create_producer only ever adds.
BalancesNeverNegative == \A r \in Rows : volume[r] >= 0

\* What select_for_update promises _accept: from the moment a balance is loaded
\* until the commit, the object and the row agree, no matter who else writes.
LockedCopyIsCurrent ==
  \A w \in Requests, side \in Sides :
    pc[w] \in Accepting /\ row[w][side] # NoRow =>
      LET r == row[w][side]
      IN lockedBy[r] = w /\ volume[r] = seen[w][side] /\ rowOf[r] = AccountOf(onTrade[w], side)

\* expire_transactions selects by expires_at alone; that is sound because every
\* handler that settles a trade clears the column, and nothing else does.
OnlyPendingExpires ==
  \A t \in Trades : /\ trade[t].expires <=> trade[t].status = "pending"
                    /\ t \in overdue => trade[t].expires

\* "Updates the status of a pending transaction (accept or reject)": once a
\* trade is accepted, rejected or expired no handler changes it any more.
SettledForGood ==
  [][\A t \in Trades : trade[t].status \in Outcomes => trade'[t] = trade[t]]_vars

\* The creator is told one outcome of a trade, the one the table holds.
OneNoticePerOutcome ==
  \A t \in Trades, k \in Outcomes : notices[t][k] = IF trade[t].status = k THEN 1 ELSE 0

\* resend_notification asks nobody to answer a trade that is settled.
NoLateReminder ==
  [][\A t \in Trades : notices'[t]["pending"] > notices[t]["pending"] =>
                         trade[t].status \in {"none", "pending"}]_vars

\* Traceability is handed down, never made up: the level of an accepted trade is
\* one that some producer transaction of the commodity earned, or the lowest.
TraceabilityHasASource ==
  \A t \in Trades : trade[t].status = "accepted" =>
    \/ trade[t].level = Incomplete
    \/ \E u \in Users : trade[t].level \in sources[<<u, trade[t].commodity>>]

\* Volume of the accepted trades that have the account on one side.
Traded(a, side) ==
  SumFunctionOnSet([t \in Trades |-> trade[t].volume],
                   {t \in Trades : trade[t].status = "accepted" /\ AccountOf(t, side) = a})

\* An account's balance: the committed rows that carry its user and commodity.
Balance(a) == SumFunctionOnSet(volume, Visible(a))

\* The balance an account shows is what its transactions add up to: produced
\* plus bought minus sold.  create_producer, _accept and the automatic purchase
\* each write both; no interleaving of them may drop one of the two.
LedgerAgrees ==
  \A a \in Accounts : Balance(a) = produced[a] + Traded(a, "buyer") - Traded(a, "seller")

\* get_or_create opens one balance row per account, although no constraint of
\* table balances asks for it.
OneRowPerAccount == \A a \in Accounts : Cardinality(Visible(a)) <= 1

\* No request hangs: locks are released, and PostgreSQL breaks the cycles that
\* "buyer first, then seller" leaves possible between opposite trades.
RequestsFinish == \A w \in Requests : pc[w] # "idle" ~> pc[w] = "idle"

\* A trade whose time is up does not stay pending, although tasks die, runs of
\* the task overlap and requests on the trade are under way.
OverdueIsResolved ==
  \A t \in Trades :
    t \in overdue /\ trade[t].status = "pending" ~> trade[t].status # "pending"


=============================================================================
