---------------------------- MODULE Notifications ----------------------------
(***************************************************************************)
(* Table notifications and whimo/notifications/services: creating a          *)
(* notification from a transaction, pushing it, reading it.                 *)
(***************************************************************************)
EXTENDS TaskQueue

VARIABLE notice   \* committed rows, NoRow where there is none

NoRow == [type |-> "transaction_pending", status |-> "read", trade |-> NoTrade,
          receiver |-> NoUser, creator |-> NoUser]

Stored == {n \in Notices : notice[n] # NoRow}

\* NotificationsMapper.from_transaction.
FromTransaction(type, t, receiver, creator) ==
  [type |-> type, status |-> "pending", trade |-> t, receiver |-> receiver, creator |-> creator]

Missing(t) == {n \in Stored : notice[n].type = "geodata_missing" /\ notice[n].trade = t}

\* Mutant: one request per asker.
DuplicateOfAsker(t, receiver) ==
  {n \in Missing(t) : notice[n].status = "pending" /\ notice[n].receiver # receiver}

\* The query by which create_from_transaction finds an open request.
Duplicate(t, receiver) ==
  {n \in Missing(t) : notice[n].status = "pending" /\ notice[n].receiver = receiver}

\* send_push of the notifications that rowOf describes: one GCM and one APNS
\* task for each whose receiver wants its type and did not cause it.
Pushed(rowOf) ==
  {n \in DOMAIN rowOf : /\ <<rowOf[n].receiver, rowOf[n].type>> \in enabled
                        /\ rowOf[n].creator # rowOf[n].receiver}

SendPush(rowOf) == Enqueue({"gcm", "apns"} \X Pushed(rowOf), rowOf)

\* update_status: a pending notification of the user becomes read.  Its check
\* and its save are two statements, but nothing makes a row unread again.
UpdateStatus(u, n) ==
  /\ n \in Stored
  /\ notice[n].receiver = u
  /\ notice[n].status = "pending"
  /\ notice' = [notice EXCEPT ![n].status = "read"]
  /\ UNCHANGED queueVars

Row == [type : Types, status : {"pending", "read"}, trade : Trades \cup {NoTrade},
        receiver : Users, creator : Users]

NoticesTypeOK ==
  /\ QueueTypeOK
  /\ notice \in [Notices -> Row \cup {NoRow}]
=============================================================================
