--------------------------- MODULE GeodataRequests ---------------------------
(***************************************************************************)
(* The requests of whimo/transactions/services.py that notify people:        *)
(* asking for missing geodata, supplying it, proposing a trade to somebody   *)
(* (who may have to be invited) and reminding of it.  Each action is one     *)
(* stretch of a handler between two statements; a request that is in its     *)
(* transaction keeps its rows to itself until it commits.                   *)
(***************************************************************************)
EXTENDS Notifications

CONSTANTS
  Workers,     \* web workers
  First,       \* the first transactions of the chain behind each trade
  Parties,     \* sellers and buyers of each trade that have one
  Buyer,       \* the buyer of each trade, or NoUser
  MaxRequests  \* bound: requests of one behaviour

ASSUME GeodataAssumption ==
  /\ First \in [Trades -> SUBSET Trades]
  /\ Parties \in [Trades -> SUBSET Users]
  /\ Buyer \in [Trades -> Users \cup {NoUser}]
  /\ \A t \in Trades : Buyer[t] \in Parties[t] \cup {NoUser}
  /\ MaxRequests \in Nat

VARIABLES
  member,     \* users that have an account
  location,   \* column location of each trade
  file,       \* what object storage holds for each trade
  req,        \* what each web worker is doing
  lost,       \* notifications whose transaction was rolled back
  tangled,    \* trades on which two requests met, or an update stopped half-way
  requests    \* requests that have begun

vars == <<queueVars, notice, member, location, file, req, lost, tangled, requests>>
tables == <<notice, member, location, file>>

Sources == {"qr", "file"}      \* locations that come with a file
NoRows == [n \in {} |-> NoRow]
Idle == [step |-> "idle", user |-> NoUser, trade |-> NoTrade, left |-> {}, source |-> "qr",
         rows |-> NoRows]

-----------------------------------------------------------------------------
\* Trades whose state a request has looked at and still relies on.
Concerns(r) == ({r.trade} \cup r.left) \ {NoTrade}

\* Nothing in the code keeps two requests on one trade apart.
Continue(w, r) ==
  /\ req' = [req EXCEPT ![w] = r]
  /\ tangled' = tangled \cup
       (Concerns(r) \cap UNION {Concerns(req[v]) : v \in Workers \ {w}})

Done(w) == req' = [req EXCEPT ![w] = Idle] /\ UNCHANGED tangled

\* Keys are random: none comes back, not even after a rollback.
Unused == {n \in Notices : /\ n \notin Stored \cup lost
                           /\ \A w \in Workers : n \notin DOMAIN req[w].rows}

\* The key of the next row: which one it is makes no difference.
NewKey == CHOOSE n \in Unused : TRUE
NewRow(row) == [n \in {NewKey} |-> row]

\* The table with rows inserted.
With(rows) == [n \in Notices |-> IF n \in DOMAIN rows THEN rows[n] ELSE notice[n]]

\* A request of user u begins.
Begins(w, u) ==
  /\ req[w] = Idle
  /\ u \in member
  /\ requests < MaxRequests
  /\ requests' = requests + 1

-----------------------------------------------------------------------------
\* request_missing_geodata: the walk and the list of what has no location.
AskRead(w, u, t) ==
  /\ Begins(w, u)
  /\ u \in Parties[t]
  /\ LET wanted == {f \in First[t] : location[f] = "none" /\ Buyer[f] # NoUser} IN
       IF wanted = {} THEN Done(w)
       ELSE Continue(w, [Idle EXCEPT !.step = "ask", !.user = u, !.left = wanted])
  /\ UNCHANGED <<queueVars, tables, lost>>

\* create_from_transaction: look for an open request of the same thing.
AskCheck(w) ==
  /\ req[w].step = "ask"
  /\ \E t \in req[w].left :
       LET found == Duplicate(t, Buyer[t])
           now == [req[w] EXCEPT !.trade = t, !.left = @ \ {t}] IN
       \/ \E n \in found :
            Continue(w, [now EXCEPT !.step = "push", !.rows = [x \in {n} |-> notice[x]]])
       \/ /\ found = {}
          /\ Unused # {}
          /\ Continue(w, [now EXCEPT !.step = "insert", !.rows =
               NewRow(FromTransaction("geodata_missing", t, Buyer[t], req[w].user))])
  /\ UNCHANGED <<queueVars, tables, lost, requests>>

\* resend_notification: a reminder to the other party of a pending trade.
ResendRead(w, u, t) ==
  /\ Begins(w, u)
  /\ u \in Parties[t]
  /\ Unused # {}
  /\ \E v \in Parties[t] \ {u} :
       Continue(w, [Idle EXCEPT !.step = "insert", !.user = u, !.rows =
         NewRow(FromTransaction("transaction_pending", t, v, u))])
  /\ UNCHANGED <<queueVars, tables, lost>>

\* Mutant: the notification is built and not saved.
InsertNothing(w) ==
  /\ req[w].step = "insert"
  /\ Continue(w, [req[w] EXCEPT !.step = "push"])
  /\ UNCHANGED <<queueVars, tables, lost, requests>>

\* notification.save(), which commits by itself.
InsertNotice(w) ==
  /\ req[w].step = "insert"
  /\ notice' = With(req[w].rows)
  /\ Continue(w, [req[w] EXCEPT !.step = "push"])
  /\ UNCHANGED <<queueVars, member, location, file, lost, requests>>

\* send_push; the loop goes on with the next trade.
PushNotice(w) ==
  /\ req[w].step = "push"
  /\ SendPush(req[w].rows)
  /\ IF req[w].left = {} THEN Done(w)
     ELSE Continue(w, [req[w] EXCEPT !.step = "ask", !.trade = NoTrade, !.rows = NoRows])
  /\ UNCHANGED <<owner, enabled, delivered, faults, tables, lost, requests>>

-----------------------------------------------------------------------------
\* update_geodata: the trade is read ...
UpdateRead(w, u, t, source) ==
  /\ Begins(w, u)
  /\ u \in Parties[t]
  /\ Continue(w, [Idle EXCEPT !.step = "upload", !.user = u, !.trade = t, !.source = source])
  /\ UNCHANGED <<queueVars, tables, lost>>

\* ... the file replaces an older one under the same name ...
UpdateUpload(w) ==
  /\ req[w].step = "upload"
  /\ file' = [file EXCEPT ![req[w].trade] = req[w].source]
  /\ Continue(w, [req[w] EXCEPT !.step = "notify"])
  /\ UNCHANGED <<queueVars, notice, member, location, lost, requests>>

\* Mutant: the answer goes to whom the request was sent.
AskedOf(n) == notice[n].receiver

\* create_geodata_updated: a request, read or not, is answered to its creator.
Answered(t) == {n \in Missing(t) : notice[n].creator # NoUser}
AskerOf(n) == notice[n].creator

\* ... then a transaction answers each request and pushes the answers ...
UpdateNotify(w) ==
  /\ req[w].step = "notify"
  /\ LET t == req[w].trade IN
       /\ Cardinality(Answered(t)) <= Cardinality(Unused)
       /\ LET key == CHOOSE f \in Injection(Answered(t), Unused) : TRUE
              rows == [n \in {key[a] : a \in Answered(t)} |->
                        FromTransaction("geodata_updated", t,
                          AskerOf(CHOOSE a \in Answered(t) : key[a] = n), req[w].user)]
         IN /\ SendPush(rows)
            /\ Continue(w, [req[w] EXCEPT !.step = "commit", !.rows = rows])
  /\ UNCHANGED <<owner, enabled, delivered, faults, tables, lost, requests>>

\* Mutant: the location is set and not saved.
CommitRowsOnly(w) ==
  /\ req[w].step = "commit"
  /\ notice' = With(req[w].rows)
  /\ member' = member \cup {req[w].rows[n].receiver : n \in DOMAIN req[w].rows}
  /\ Done(w)
  /\ UNCHANGED <<queueVars, location, file, lost, requests>>

\* ... and writes the location.  A proposal commits its rows the same way, and
\* with them the account of whom it invited.
Commit(w) ==
  /\ req[w].step = "commit"
  /\ notice' = With(req[w].rows)
  /\ location' = [t \in Trades |-> IF t = req[w].trade THEN req[w].source ELSE location[t]]
  /\ member' = member \cup {req[w].rows[n].receiver : n \in DOMAIN req[w].rows}
  /\ Done(w)
  /\ UNCHANGED <<queueVars, file, lost, requests>>

\* create_downstream: inside its transaction the recipient is registered and
\* invited if need be, a new trade and its notification are inserted and pushed.
\* The new trade is none of Trades, and nobody asks for its geodata here.  A
\* second registration of one recipient waits at the unique index, then fails.
Propose(w, u, v) ==
  /\ Begins(w, u)
  /\ u # v
  /\ v \in member \/ \A x \in Workers : \A n \in DOMAIN req[x].rows : req[x].rows[n].receiver # v
  /\ Unused # {}
  /\ LET n == NewKey
         rows == NewRow(FromTransaction("transaction_pending", NoTrade, v, u))
         pushes == {"gcm", "apns"} \X Pushed(rows)
         invitation == IF v \in member THEN {} ELSE {<<"mail", n>>} IN
       /\ Enqueue(invitation \cup pushes, rows)
       /\ Continue(w, [Idle EXCEPT !.step = "commit", !.user = u, !.rows = rows])
  /\ UNCHANGED <<owner, enabled, delivered, faults, tables, lost>>

\* A worker is killed, object storage or the broker does not answer, or the
\* commit fails: what was not committed is rolled back, tasks and files are not.
RequestFails(w) ==
  /\ req[w].step # "idle"
  /\ req' = [req EXCEPT ![w] = Idle]
  /\ lost' = IF req[w].step = "push" THEN lost ELSE lost \cup DOMAIN req[w].rows
  /\ tangled' = IF req[w].step \in {"notify", "commit"}
                THEN tangled \cup Concerns(req[w]) ELSE tangled
  /\ Fault
  /\ UNCHANGED <<owner, enabled, task, delivered, attempts, tables, requests>>

=============================================================================
