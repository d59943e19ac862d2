------------------------------ MODULE Messaging ------------------------------
(***************************************************************************)
(* Web requests that create notifications, and the Celery workers that bring *)
(* them to phones and mailboxes.                                            *)
(***************************************************************************)
EXTENDS GeodataRequests

Init ==
  /\ QueueInit
  /\ notice = [n \in Notices |-> NoRow]
  /\ member \in SUBSET Users
  /\ \A t \in Trades : Parties[t] \subseteq member
  /\ \A d \in Devices : owner[d] \in member \cup {NoUser}
  /\ location = [t \in Trades |-> "none"]
  /\ file = location
  /\ req = [w \in Workers |-> Idle]
  /\ lost = {}
  /\ tangled = {}
  /\ requests = 0

Request(w) ==
  \/ \E u \in Users, t \in Trades :
       \/ AskRead(w, u, t)
       \/ ResendRead(w, u, t)
       \/ \E source \in Sources : UpdateRead(w, u, t, source)
  \/ \E u, v \in Users : Propose(w, u, v)
  \/ AskCheck(w)
  \/ InsertNotice(w)
  \/ PushNotice(w)
  \/ UpdateUpload(w)
  \/ UpdateNotify(w)
  \/ Commit(w)
  \/ RequestFails(w)

\* Requests of one statement.
UserStep ==
  /\ requests < MaxRequests
  /\ requests' = requests + 1
  /\ \/ /\ \/ \E u \in member, type \in Types : \E on, off \in {{}, {type}} :
                on \cup off # {} /\ UpdateSettings(u, on, off)
           \/ \E u \in member, d \in Devices : AddDevice(u, d)
        /\ UNCHANGED notice
     \/ \E u \in member, n \in Notices : UpdateStatus(u, n)
  /\ UNCHANGED <<member, location, file, req, lost, tangled>>

QueueStep(s) == TaskStep(s) /\ UNCHANGED <<tables, req, lost, tangled, requests>>

Next ==
  \/ \E w \in Workers : Request(w)
  \/ UserStep
  \/ \E s \in Slots : QueueStep(s)

\* Celery workers keep working on some task.
Spec == Init /\ [][Next]_vars /\ WF_vars(\E s \in Slots : QueueStep(s))

-----------------------------------------------------------------------------
\* Types of all variables.
TypeOK ==
  /\ NoticesTypeOK
  /\ member \subseteq Users
  /\ location \in [Trades -> Sources \cup {"none"}]
  /\ file \in [Trades -> Sources \cup {"none"}]
  /\ \A w \in Workers :
       /\ req[w] \in [step : {"idle", "ask", "insert", "push", "upload", "notify", "commit"},
                      user : Users \cup {NoUser}, trade : Trades \cup {NoTrade},
                      left : SUBSET Trades, source : Sources, rows : {req[w].rows}]
       /\ DOMAIN req[w].rows \subseteq Notices
       /\ \A n \in DOMAIN req[w].rows : req[w].rows[n] \in Row
  /\ lost \subseteq Notices
  /\ tangled \subseteq Trades
  /\ requests \in 0 .. MaxRequests

\* Nobody is asked twice for the same geodata while the first request is unread,
\* whoever asks: the query before the insert sees to it, unless two requests on
\* the trade overlap (notifications.py:57).
OneOpenRequest ==
  \A t \in Trades \ tangled, u \in Users : Cardinality(Duplicate(t, u)) <= 1

\* Once a trade has its geodata, everyone whose request for it is in the table
\* has been told, read or not, by a notification of the commit that brought it.
AskersHear ==
  \A n \in Stored :
    LET t == notice[n].trade IN
    notice[n].type = "geodata_missing" /\ t \notin tangled /\ location[t] # "none" =>
      \E m \in Stored : /\ notice[m].type = "geodata_updated"
                        /\ notice[m].trade = t
                        /\ notice[m].receiver = notice[n].creator

\* Between requests object storage holds the file that column location
\* announces; an update that stops after its upload leaves the two apart
\* (services.py:177).
FileMatchesLocation ==
  \A t \in Trades \ tangled :
    \/ file[t] = location[t]
    \/ \E w \in Workers : req[w].trade = t /\ req[w].step \in {"notify", "commit"}

\* Nobody gets a push or an invitation that no row stands behind, except while
\* the transaction that sent it is open, or after it was rolled back
\* (services.py:153, :182).
MessagesAreFounded ==
  \A n \in Notices :
    \/ /\ \A s \in Slots : task[s].notice # n
       /\ \A d \in Devices \cup Users : delivered[<<n, d>>] = 0
    \/ n \in Stored /\ notice[n].receiver \in member
    \/ n \in lost
    \/ \E w \in Workers : req[w].step = "commit" /\ n \in DOMAIN req[w].rows

\* A device gets a notification at most once per attempt; a repeat means that a
\* task failed, as it is run again from its first device, or that somebody asked
\* again.
OneMessagePerAttempt ==
  \A n \in Notices :
    /\ \A d \in Phones : delivered[<<n, d>>] <= attempts[<<"gcm", n>>]
    /\ \A d \in Tablets : delivered[<<n, d>>] <= attempts[<<"apns", n>>]
    /\ \A u \in Users : delivered[<<n, u>>] <= attempts[<<"mail", n>>]

\* The queue empties again and again: each task is sent, given up after its
\* retries, or lost, and none is retried for ever (max_retries).
QueueDrains == []<>(\A s \in Slots : task[s].state = "free")
=============================================================================
