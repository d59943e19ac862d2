---------------------------- MODULE TradeRequests ----------------------------
(***************************************************************************)
(* Requests and tasks that write transactions (whimo/transactions/services.py, *)
(* whimo/contrib/tasks/transactions.py), several at a time.                 *)
(*                                                                         *)
(* A request reads a row before its database transaction and saves it later, *)
(* from the copy in its memory: the columns in update_fields go to the table, *)
(* the whole copy goes to the history.  Volumes are left to Trading.         *)
(***************************************************************************)
EXTENDS Schema

CONSTANT Workers    \* of the web server and of the task that expires trades: numbers

ASSUME WorkersAssumption == Workers \subseteq Nat

VARIABLES
  work,      \* what each worker has in memory: where it is and its copy of a row
  stale,     \* transactions last saved from a copy that an earlier save had overtaken
  undone     \* accepted trades that have been given another end

handlers == <<work, stale, undone>>
catalogue == <<commodity, group, season, participant, recipe, input, output>>

\* met: somebody else has saved the row since it was read.
NoWork == [at |-> "free", key |-> 0, row |-> NoTransaction, met |-> FALSE]

HandlersTypeOK ==
  /\ work \in [Workers -> [at : {"free", "accept", "reject", "upload", "save", "file"}, key : Keys \cup {0},
                           row : TransactionRow \cup {NoTransaction}, met : BOOLEAN]]
  /\ stale \subseteq Keys /\ undone \subseteq Keys

Request ==
  {r \in [type : {"producer", "downstream"}, commodity : Commodities, seller : Users \cup {None},
          buyer : Users \cup {None}, creator : Users, location : {"none", "manual", "file", "qr"},
          plot : Plots \cup {None}] :
     IF r.type = "producer" THEN r.seller = None /\ r.buyer = r.creator
     ELSE r.location = "none" /\ r.plot = None}

\* A request to trade, and the row it becomes.  Purchases from producers are
\* accepted at once.
RowOf(request, at) ==
  [type |-> request.type, status |-> IF request.type = "producer" THEN "accepted" ELSE "pending",
   commodity |-> request.commodity, seller |-> request.seller, buyer |-> request.buyer,
   creator |-> request.creator, batch |-> 0, location |-> request.location, plot |-> request.plot,
   created |-> at, season |-> None]

\* The first that is free takes what comes: it makes no difference which one does.
Free(w) == work[w] = NoWork /\ \A v \in Workers : v < w => work[v] # NoWork

Now == Cardinality(Written) + 1

Pending(k) == k \in Written /\ trx[k].type = "downstream" /\ trx[k].status = "pending"

\* The history of saving instances, which need not be what is in the table.
Saved(instances) ==
  history' = [o \in Objects |-> IF o[1] = "transaction" /\ o[2] \in DOMAIN instances
                                THEN InHistory(instances[o[2]]) ELSE history[o]]

-----------------------------------------------------------------------------
\* create_producer and create_downstream.  Only a purchase opens a balance, and its
\* file is uploaded after the commit.
Trade(w, request, k) ==
  LET row == RowOf(request, Now) IN
  /\ Free(w) /\ trx[k] = NoTransaction
  /\ commodity[request.commodity] # None
  /\ trx' = [trx EXCEPT ![k] = row]
  /\ balance' = IF request.type = "producer"
                THEN balance \cup {<<request.buyer, request.commodity>>} ELSE balance
  /\ Recorded({<<"transaction", k>>})
  /\ work' = IF request.location \in {"file", "qr"}
             THEN [work EXCEPT ![w] = [at |-> "file", key |-> k, row |-> row, met |-> FALSE]] ELSE work
  /\ UNCHANGED <<catalogue, file, stale, undone>>

\* A file with a QR code is one that was validated; of the others any will do.
UploadNew(w, content) ==
  /\ work[w].at = "file"
  /\ work[w].row.location = "qr" => content = "valid"
  /\ file' = [file EXCEPT ![work[w].key] = content]
  /\ work' = [work EXCEPT ![w] = NoWork]
  /\ UNCHANGED <<catalogue, balance, trx, history, stale, undone>>

-----------------------------------------------------------------------------
Read(w, at, k) ==
  /\ Free(w)
  /\ work' = [work EXCEPT ![w] = [at |-> at, key |-> k, row |-> trx[k], met |-> FALSE]]
  /\ UNCHANGED <<tables, stale, undone>>

\* get_incoming_transaction, of the party that did not propose ...
AcceptRead(w, k) == Pending(k) /\ None \notin {trx[k].seller, trx[k].buyer} /\ Read(w, "accept", k)

\* ... and of either party, or the query of the expiry task: a worker for each row it read.
RejectRead(w, k) == Pending(k) /\ Read(w, "reject", k)

\* update_geodata, of any transaction of the user.
UpdateRead(w, k) == k \in Written /\ {trx[k].seller, trx[k].buyer} # {None} /\ Read(w, "upload", k)

\* A save of the row that worker w has read makes the other copies of it old.
Finish(w) ==
  LET k == work[w].key IN
  /\ work' = [v \in Workers |-> IF v = w THEN NoWork
                               ELSE IF work[v].key = k THEN [work[v] EXCEPT !.met = TRUE] ELSE work[v]]
  /\ stale' = IF work[w].met THEN stale \cup {k} ELSE stale \ {k}

\* The purchase that makes up what a seller lacks.
Automatic(row, at) ==
  RowOf([type |-> "producer", commodity |-> row.commodity, seller |-> None, buyer |-> row.seller,
         creator |-> row.seller, location |-> "none", plot |-> None], at)

\* Mutant: the status is set with a query, which sends no signal.
AcceptByQuery(w, auto) ==
  LET k == work[w].key
      row == work[w].row IN
  /\ work[w].at = "accept"
  /\ trx' = [trx EXCEPT ![k].status = "accepted"]
  /\ balance' = balance \cup ({row.seller, row.buyer} \X {row.commodity})
  /\ Finish(w)
  /\ UNCHANGED <<catalogue, history, file, undone>>

\* _accept opens the balances of both.  Whether the seller's suffices is open: auto is
\* the key of an automatic purchase, if there is one.
Accept(w, auto) ==
  LET k == work[w].key
      row == work[w].row
      accepted == [row EXCEPT !.status = "accepted"] IN
  /\ work[w].at = "accept"
  /\ auto = {} \/ \E a \in Keys \ Written : auto = {a}
  /\ trx' = [j \in Keys |-> IF j = k THEN [trx[k] EXCEPT !.status = "accepted"]
                            ELSE IF j \in auto THEN Automatic(row, Now) ELSE trx[j]]
  /\ balance' = balance \cup ({row.seller, row.buyer} \X {row.commodity})
  /\ Saved([j \in {k} \cup auto |-> IF j = k THEN accepted ELSE Automatic(row, Now)])
  /\ Finish(w)
  /\ UNCHANGED <<catalogue, file, undone>>

\* _reject, and the expiry task: "rejected" stands for both ends.
Reject(w) ==
  LET k == work[w].key IN
  /\ work[w].at = "reject"
  /\ trx' = [trx EXCEPT ![k].status = "rejected"]
  /\ Saved([j \in {k} |-> [work[w].row EXCEPT !.status = "rejected"]])
  /\ Finish(w)
  /\ undone' = IF trx[k].status = "accepted" THEN undone \cup {k} ELSE undone
  /\ UNCHANGED <<catalogue, balance, file>>

\* The new file replaces an older one; nobody looks into it.
Upload(w, location, content) ==
  /\ work[w].at = "upload"
  /\ file' = [file EXCEPT ![work[w].key] = content]
  /\ work' = [work EXCEPT ![w] = [at |-> "save", key |-> work[w].key, met |-> work[w].met,
                                  row |-> [work[w].row EXCEPT !.location = location]]]
  /\ UNCHANGED <<catalogue, balance, trx, history, stale, undone>>

SaveLocation(w) ==
  LET k == work[w].key IN
  /\ work[w].at = "save"
  /\ trx' = [trx EXCEPT ![k].location = work[w].row.location]
  /\ Saved([j \in {k} |-> work[w].row])
  /\ Finish(w)
  /\ UNCHANGED <<catalogue, balance, file, undone>>

\* Object storage does not answer, or the worker is killed.
Abandon(w) ==
  /\ work[w] # NoWork
  /\ work' = [work EXCEPT ![w] = NoWork]
  /\ UNCHANGED <<tables, stale, undone>>
=============================================================================
