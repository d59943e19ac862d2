--------------------------- MODULE MessagingProofs ---------------------------
(***************************************************************************)
(* What Messaging guarantees for any number of users, devices, trades,        *)
(* notifications, tasks and workers, however requests and tasks overlap, fail *)
(* and are retried.                                                         *)
(***************************************************************************)
EXTENDS Messaging, FunctionTheorems, FiniteSetTheorems, TLAPS

\* Rows that a request is about to write, or has written.
RowTables == UNION {[S -> Row] : S \in SUBSET Notices}

\* What a web worker may be doing.
ReqSteps == {"idle", "ask", "insert", "push", "upload", "notify", "commit"}

Doings ==
  [step : ReqSteps, user : Users \cup {NoUser}, trade : Trades \cup {NoTrade},
   left : SUBSET Trades, source : Sources, rows : RowTables]

Sensible(r) ==
  /\ r.step = "idle" => r = Idle
  /\ r.step # "idle" => r.user \in Users
  /\ r.step \in {"ask", "upload", "notify"} => DOMAIN r.rows = {}
  /\ r.step \in {"upload", "notify"} => r.trade \in Trades
  /\ \A t \in r.left : Buyer[t] \in Users /\ Buyer[t] \in Parties[t]

Tasks ==
  {NoTask} \cup
  [kind : Kinds, state : {"queued", "running"}, notice : Notices, type : Types,
   receiver : Users, tries : 0 .. MaxRetries, left : SUBSET (Devices \cup Users)]

Typed ==
  /\ NoticesTypeOK
  /\ member \subseteq Users
  /\ location \in [Trades -> Sources \cup {"none"}]
  /\ file \in [Trades -> Sources \cup {"none"}]
  /\ req \in [Workers -> {r \in Doings : Sensible(r)}]
  /\ lost \subseteq Notices
  /\ tangled \subseteq Trades
  /\ requests \in 0 .. MaxRequests

-----------------------------------------------------------------------------
(* Sets of rows and of keys. *)

LEMMA RowTable ==
  ASSUME NEW S \in SUBSET Notices, NEW f \in [S -> Row]
  PROVE  f \in RowTables
  BY DEF RowTables

LEMMA TableRows ==
  ASSUME NEW f \in RowTables
  PROVE  /\ DOMAIN f \subseteq Notices
         /\ f \in [DOMAIN f -> Row]
         /\ \A n \in DOMAIN f : f[n] \in Row
  <1>1. PICK S \in SUBSET Notices : f \in [S -> Row]
    BY DEF RowTables
  <1> QED BY <1>1

LEMMA NoRowsTable == NoRows \in RowTables /\ DOMAIN NoRows = {}
  <1>1. NoRows \in [{} -> Row]
    BY DEF NoRows
  <1> QED BY <1>1, RowTable

LEMMA RowIsNoNoRow == NoRow \notin Row
  BY QueueAssumption DEF NoRow, Row

LEMMA TypedTypeOK == Typed => TypeOK
  <1> SUFFICES ASSUME Typed PROVE TypeOK
    OBVIOUS
  <1>1. ASSUME NEW w \in Workers
        PROVE  /\ req[w] \in [step : {"idle", "ask", "insert", "push", "upload", "notify", "commit"},
                      user : Users \cup {NoUser}, trade : Trades \cup {NoTrade},
                      left : SUBSET Trades, source : Sources, rows : {req[w].rows}]
               /\ DOMAIN req[w].rows \subseteq Notices
               /\ \A n \in DOMAIN req[w].rows : req[w].rows[n] \in Row
    <2>1. req[w] \in Doings
      BY DEF Typed
    <2>2. req[w].rows \in RowTables
      BY <2>1 DEF Doings
    <2> QED BY <2>1, <2>2, TableRows DEF Doings, ReqSteps
  <1> QED BY <1>1 DEF Typed, TypeOK

\* One set fits into another that is not smaller.
LEMMA InjectionFits ==
  ASSUME NEW S, IsFiniteSet(S), NEW T, IsFiniteSet(T), Cardinality(S) <= Cardinality(T)
  PROVE  (CHOOSE f \in Injection(S, T) : TRUE) \in Injection(S, T)
  <1>1. PICK m \in Nat : m = Cardinality(S) /\ ExistsBijection(1..m, S)
    BY FS_CardinalityType
  <1>2. PICK n \in Nat : n = Cardinality(T) /\ ExistsBijection(1..n, T)
    BY FS_CardinalityType
  <1>3. ExistsBijection(S, 1..m)
    BY <1>1, Fun_ExistsBijSymmetric
  <1>4. PICK f : f \in Bijection(S, 1..m)
    BY <1>3 DEF ExistsBijection
  <1>5. PICK g : g \in Bijection(1..n, T)
    BY <1>2 DEF ExistsBijection
  <1>6. 1..m \subseteq 1..n
    BY <1>1, <1>2
  <1> DEFINE h == [x \in S |-> g[f[x]]]
  <1>7. h \in Injection(S, T)
    <2>1. f \in [S -> 1..m] /\ g \in [1..n -> T]
      BY <1>4, <1>5 DEF Bijection, Injection
    <2>2. h \in [S -> T]
      BY <1>6, <2>1
    <2>3. ASSUME NEW x \in S, NEW y \in S, h[x] = h[y]
          PROVE  x = y
      <3>1. f[x] \in 1..n /\ f[y] \in 1..n /\ g[f[x]] = g[f[y]]
        BY <1>6, <2>1, <2>3
      <3>2. f[x] = f[y]
        BY <1>5, <2>1, <3>1 DEF Bijection, Injection, IsInjective
      <3> QED BY <1>4, <2>1, <3>2 DEF Bijection, Injection, IsInjective
    <2> QED BY <2>2, <2>3 DEF Injection, IsInjective
  <1> HIDE DEF h
  <1> QED BY <1>7

-----------------------------------------------------------------------------
(* Putting tasks into the broker. *)

LEMMA FreeSlots == IsFiniteSet(Free)
  BY QueueAssumption, FS_Subset DEF Free

LEMMA EnqueueEffect ==
  ASSUME QueueTypeOK, NEW messages \in SUBSET (Kinds \X Notices), IsFiniteSet(messages), NEW rowOf,
         \A m \in messages : rowOf[m[2]].type \in Types /\ rowOf[m[2]].receiver \in Users,
         Enqueue(messages, rowOf)
  PROVE  /\ task' \in [Slots -> Tasks] /\ attempts' \in [Kinds \X Notices -> Nat]
         /\ \A a \in Kinds \X Notices :
              attempts'[a] = attempts[a] + (IF a \in messages THEN 1 ELSE 0)
         /\ \A s \in Slots :
              \/ task'[s] = task[s]
              \/ task[s].state = "free" /\ \E m \in messages : task'[s] = Fresh(m[1], m[2], rowOf[m[2]])
         /\ \A m \in messages : \E s \in Slots : \A x \in Slots \ {s} :
              \/ task'[x] = task[x]
              \/ \E k \in messages : k # m /\ task'[x] = Fresh(k[1], k[2], rowOf[k[2]])
  <1> DEFINE slot == CHOOSE f \in Injection(messages, Free) : TRUE
             taken(s, m) == slot[m] = s
             owner_(s) == CHOOSE k \in messages : slot[k] = s
  <1>1. slot \in Injection(messages, Free)
    BY FreeSlots, InjectionFits DEF Enqueue
  <1>2. slot \in [messages -> Free] /\ \A k, m \in messages : slot[k] = slot[m] => k = m
    BY <1>1 DEF Injection, IsInjective
  <1>3. task' = [s \in Slots |->
                  IF \E m \in messages : slot[m] = s
                  THEN Fresh(owner_(s)[1], owner_(s)[2], rowOf[owner_(s)[2]])
                  ELSE task[s]]
    BY DEF Enqueue
  <1>4. attempts' = [a \in DOMAIN attempts |-> attempts[a] + (IF a \in messages THEN 1 ELSE 0)]
    BY DEF Enqueue
  <1>5. Free \subseteq Slots /\ \A s \in Free : task[s].state = "free"
    BY DEF Free
  <1> HIDE DEF slot
  <1>6. ASSUME NEW m \in messages
        PROVE  /\ slot[m] \in Free /\ task'[slot[m]] = Fresh(m[1], m[2], rowOf[m[2]])
    <2>1. slot[m] \in Free
      BY <1>2
    <2>2. owner_(slot[m]) = m
      BY <1>2
    <2> HIDE DEF owner_
    <2> QED BY <1>3, <1>5, <2>1, <2>2
  <1>7. \A s \in Slots : (\A m \in messages : slot[m] # s) => task'[s] = task[s]
    BY <1>3
  <1>8. \A m \in messages : Fresh(m[1], m[2], rowOf[m[2]]) \in Tasks
    BY QueueAssumption DEF Fresh, Tasks
  <1>9. \A s \in Slots : task'[s] \in Tasks
    BY <1>6, <1>7, <1>8 DEF QueueTypeOK, Tasks
  <1>10. task' \in [Slots -> Tasks]
    BY <1>3, <1>9
  <1>11. \A a \in Kinds \X Notices :
           attempts'[a] = attempts[a] + (IF a \in messages THEN 1 ELSE 0)
    BY <1>4 DEF QueueTypeOK
  <1>12. attempts' \in [Kinds \X Notices -> Nat]
    BY <1>4, <1>11 DEF QueueTypeOK
  <1>13. ASSUME NEW m \in messages
         PROVE  \E s \in Slots : \A x \in Slots \ {s} :
                  \/ task'[x] = task[x]
                  \/ \E k \in messages : k # m /\ task'[x] = Fresh(k[1], k[2], rowOf[k[2]])
    <2>1. slot[m] \in Slots
      BY <1>5, <1>6
    <2>2. ASSUME NEW x \in Slots \ {slot[m]}
          PROVE  \/ task'[x] = task[x]
                 \/ \E k \in messages : k # m /\ task'[x] = Fresh(k[1], k[2], rowOf[k[2]])
      BY <1>6, <1>7
    <2> QED BY <2>1, <2>2
  <1> QED BY <1>5, <1>6, <1>7, <1>10, <1>11, <1>12, <1>13

\* What send_push puts into the broker.
LEMMA Pushes ==
  ASSUME NEW rows \in RowTables
  PROVE  LET messages == {"gcm", "apns"} \X Pushed(rows)
         IN /\ messages \in SUBSET (Kinds \X Notices) /\ IsFiniteSet(messages)
            /\ \A m \in messages : /\ m[2] \in DOMAIN rows
                                   /\ rows[m[2]].type \in Types /\ rows[m[2]].receiver \in Users
  <1>1. Pushed(rows) \subseteq DOMAIN rows /\ DOMAIN rows \subseteq Notices
        /\ \A n \in DOMAIN rows : rows[n] \in Row
    BY TableRows DEF Pushed
  <1>2. IsFiniteSet({"gcm", "apns"} \X Pushed(rows))
    <2>1. IsFiniteSet(Pushed(rows))
      BY <1>1, QueueAssumption, FS_Subset
    <2>2. IsFiniteSet({"gcm"} \cup {"apns"}) /\ {"gcm", "apns"} = {"gcm"} \cup {"apns"}
      BY FS_Singleton, FS_AddElement
    <2>3. IsFiniteSet({"gcm", "apns"})
      BY <2>2
    <2> QED BY <2>1, <2>3, FS_Product
  <1> QED BY <1>1, <1>2 DEF Kinds, Row

-----------------------------------------------------------------------------
(* Every variable keeps its type. *)

LEMMA IdleIsSensible == Idle \in Doings /\ Sensible(Idle)
  BY NoRowsTable DEF Idle, Doings, ReqSteps, Sources, Sensible

\* The one row of a new key.
LEMMA NewRowTable ==
  ASSUME Unused # {}, NEW row \in Row
  PROVE  /\ NewKey \in Unused /\ NewKey \in Notices
         /\ NewRow(row) \in RowTables /\ DOMAIN NewRow(row) = {NewKey}
         /\ NewRow(row)[NewKey] = row
  <1>1. NewKey \in Unused
    BY DEF NewKey
  <1>2. NewKey \in Notices
    BY <1>1 DEF Unused
  <1>3. NewRow(row) \in [{NewKey} -> Row]
    BY DEF NewRow
  <1>4. NewRow(row) \in RowTables
    BY <1>2, <1>3, RowTable
  <1> QED BY <1>1, <1>2, <1>4 DEF NewRow

LEMMA WithTyped ==
  ASSUME notice \in [Notices -> Row \cup {NoRow}], NEW rows \in RowTables
  PROVE  /\ With(rows) \in [Notices -> Row \cup {NoRow}]
         /\ \A n \in Notices : With(rows)[n] = IF n \in DOMAIN rows THEN rows[n] ELSE notice[n]
  BY TableRows DEF With

LEMMA FromTransactionIsRow ==
  ASSUME NEW type \in Types, NEW t \in Trades \cup {NoTrade}, NEW u \in Users, NEW v \in Users
  PROVE  FromTransaction(type, t, u, v) \in Row
  BY DEF FromTransaction, Row

LEMMA ConcernsTrades == ASSUME NEW r \in Doings PROVE Concerns(r) \subseteq Trades
  BY DEF Concerns, Doings

\* What a request does next is again something a request does.
LEMMA Moves ==
  ASSUME Typed, NEW w \in Workers, NEW r \in Doings, req' = [req EXCEPT ![w] = r]
  PROVE  /\ Sensible(r) => req' \in [Workers -> {s \in Doings : Sensible(s)}]
         /\ req'[w] = r /\ \A v \in Workers \ {w} : req'[v] = req[v]
  BY DEF Typed

LEMMA ContinueTyped ==
  ASSUME Typed, NEW w \in Workers, NEW r \in Doings, Sensible(r), Continue(w, r)
  PROVE  /\ req' \in [Workers -> {s \in Doings : Sensible(s)}]
         /\ tangled' \subseteq Trades
  <1>1. req' \in [Workers -> {s \in Doings : Sensible(s)}]
    BY Moves DEF Continue
  <1>2. tangled' \subseteq Trades
    BY ConcernsTrades DEF Continue, Typed
  <1> QED BY <1>1, <1>2

LEMMA DoneTyped ==
  ASSUME Typed, NEW w \in Workers, Done(w)
  PROVE  /\ req' \in [Workers -> {s \in Doings : Sensible(s)}]
         /\ tangled' \subseteq Trades
  BY Moves, IdleIsSensible DEF Done, Typed

LEMMA EnqueueTyped ==
  ASSUME QueueTypeOK, NEW messages \in SUBSET (Kinds \X Notices), IsFiniteSet(messages), NEW rowOf,
         \A m \in messages : rowOf[m[2]].type \in Types /\ rowOf[m[2]].receiver \in Users,
         Enqueue(messages, rowOf), UNCHANGED <<owner, enabled, delivered, faults>>
  PROVE  QueueTypeOK'
  <1>1. task' \in [Slots -> Tasks] /\ attempts' \in [Kinds \X Notices -> Nat]
    BY EnqueueEffect
  <1> QED BY <1>1 DEF QueueTypeOK, Tasks

LEMMA SendPushTyped ==
  ASSUME QueueTypeOK, NEW rows \in RowTables, SendPush(rows),
         UNCHANGED <<owner, enabled, delivered, faults>>
  PROVE  QueueTypeOK'
  <1>1. LET messages == {"gcm", "apns"} \X Pushed(rows)
        IN /\ messages \in SUBSET (Kinds \X Notices) /\ IsFiniteSet(messages)
           /\ \A m \in messages : rows[m[2]].type \in Types /\ rows[m[2]].receiver \in Users
    BY Pushes
  <1> QED BY <1>1, EnqueueTyped DEF SendPush

\* The fields of a request that goes on.
LEMMA Fields ==
  ASSUME Typed, NEW w \in Workers
  PROVE  /\ req[w] \in Doings /\ Sensible(req[w])
         /\ req[w].step \in ReqSteps /\ req[w].user \in Users \cup {NoUser}
         /\ req[w].trade \in Trades \cup {NoTrade} /\ req[w].left \subseteq Trades
         /\ req[w].source \in Sources /\ req[w].rows \in RowTables
  BY DEF Typed, Doings

\* What AskRead leaves for the request to do.
LEMMA AskReadCases ==
  ASSUME Typed, NEW w \in Workers, NEW u \in Users, NEW t \in Trades, AskRead(w, u, t)
  PROVE  \/ Done(w)
         \/ \E r \in Doings :
              /\ Sensible(r) /\ Continue(w, r)
              /\ r.step = "ask" /\ r.trade = NoTrade
              /\ \A f \in r.left : location[f] = "none"
  <1> DEFINE wanted == {f \in First[t] : location[f] = "none" /\ Buyer[f] # NoUser}
             r == [Idle EXCEPT !.step = "ask", !.user = u, !.left = wanted]
  <1>1. wanted \subseteq Trades /\ \A f \in wanted : Buyer[f] \in Users /\ Buyer[f] \in Parties[f]
    BY GeodataAssumption
  <1>2. \A f \in wanted : location[f] = "none"
    OBVIOUS
  <1>3. Done(w) \/ Continue(w, r)
    BY DEF AskRead
  <1> HIDE DEF wanted
  <1>4. /\ r \in Doings
        /\ r.step = "ask" /\ r.user = u /\ r.trade = NoTrade /\ r.left = wanted /\ r.rows = NoRows
    BY <1>1, NoRowsTable DEF Idle, Doings, ReqSteps, Sources
  <1> HIDE DEF r
  <1>5. Sensible(r)
    BY <1>1, <1>4, NoRowsTable DEF Sensible
  <1> QED BY <1>2, <1>3, <1>4, <1>5

LEMMA AskReadTyped ==
  ASSUME Typed, NEW w \in Workers, NEW u \in Users, NEW t \in Trades, AskRead(w, u, t)
  PROVE  Typed'
  <1>1. /\ req' \in [Workers -> {s \in Doings : Sensible(s)}]
        /\ tangled' \subseteq Trades
    BY AskReadCases, DoneTyped, ContinueTyped
  <1> QED BY <1>1, GeodataAssumption DEF AskRead, Begins, Typed, queueVars, tables, NoticesTypeOK, QueueTypeOK

LEMMA ResendReadCases ==
  ASSUME Typed, NEW w \in Workers, NEW u \in Users, NEW t \in Trades, ResendRead(w, u, t)
  PROVE  \E v \in Parties[t] \ {u}, r \in Doings :
           /\ v \in Users
           /\ Sensible(r) /\ Continue(w, r)
           /\ r.step = "insert" /\ r.trade = NoTrade /\ r.left = {}
           /\ r.rows = NewRow(FromTransaction("transaction_pending", t, v, u))
  <1>1. PICK v \in Parties[t] \ {u} :
          Continue(w, [Idle EXCEPT !.step = "insert", !.user = u,
                       !.rows = NewRow(FromTransaction("transaction_pending", t, v, u))])
    BY DEF ResendRead
  <1>2. v \in Users
    BY GeodataAssumption
  <1>3. PICK rows \in RowTables : rows = NewRow(FromTransaction("transaction_pending", t, v, u))
    BY <1>2, NewRowTable, FromTransactionIsRow DEF ResendRead, Types
  <1> DEFINE r == [Idle EXCEPT !.step = "insert", !.user = u, !.rows = rows]
  <1>4. Continue(w, r)
    BY <1>1, <1>3
  <1>5. /\ r \in Doings
        /\ r.step = "insert" /\ r.user = u /\ r.trade = NoTrade /\ r.left = {} /\ r.rows = rows
    BY DEF Idle, Doings, ReqSteps, Sources
  <1> HIDE DEF r
  <1>6. Sensible(r)
    BY <1>5 DEF Sensible
  <1> QED BY <1>2, <1>3, <1>4, <1>5, <1>6

LEMMA ResendReadTyped ==
  ASSUME Typed, NEW w \in Workers, NEW u \in Users, NEW t \in Trades, ResendRead(w, u, t)
  PROVE  Typed'
  <1>1. req' \in [Workers -> {s \in Doings : Sensible(s)}] /\ tangled' \subseteq Trades
    BY ResendReadCases, ContinueTyped
  <1> QED BY <1>1, GeodataAssumption DEF ResendRead, Begins, Typed, queueVars, tables, NoticesTypeOK, QueueTypeOK

LEMMA UpdateReadCases ==
  ASSUME Typed, NEW w \in Workers, NEW u \in Users, NEW t \in Trades, NEW source \in Sources,
         UpdateRead(w, u, t, source)
  PROVE  \E r \in Doings :
           /\ Sensible(r) /\ Continue(w, r)
           /\ r.step = "upload" /\ r.trade = t /\ r.left = {} /\ r.rows = NoRows
  <1> DEFINE r == [Idle EXCEPT !.step = "upload", !.user = u, !.trade = t, !.source = source]
  <1>1. Continue(w, r)
    BY DEF UpdateRead
  <1>2. /\ r \in Doings
        /\ r.step = "upload" /\ r.user = u /\ r.trade = t /\ r.left = {} /\ r.rows = NoRows
    BY NoRowsTable DEF Idle, Doings, ReqSteps
  <1> HIDE DEF r
  <1>3. Sensible(r)
    BY <1>2, NoRowsTable DEF Sensible
  <1> QED BY <1>1, <1>2, <1>3

LEMMA UpdateReadTyped ==
  ASSUME Typed, NEW w \in Workers, NEW u \in Users, NEW t \in Trades, NEW source \in Sources,
         UpdateRead(w, u, t, source)
  PROVE  Typed'
  <1>1. req' \in [Workers -> {s \in Doings : Sensible(s)}] /\ tangled' \subseteq Trades
    BY UpdateReadCases, ContinueTyped
  <1> QED BY <1>1, GeodataAssumption DEF UpdateRead, Begins, Typed, queueVars, tables, NoticesTypeOK, QueueTypeOK

\* The two ways in which a request looks for a duplicate.
LEMMA AskCheckCases ==
  ASSUME Typed, NEW w \in Workers, AskCheck(w)
  PROVE  \E t \in req[w].left, r \in Doings :
           /\ t \in Trades /\ Buyer[t] \in Users /\ Buyer[t] \in Parties[t]
           /\ req[w].step = "ask" /\ req[w].user \in Users
           /\ Sensible(r) /\ Continue(w, r)
           /\ r.trade = t /\ r.left = req[w].left \ {t}
           /\ \/ /\ r.step = "push"
                 /\ \E n \in Duplicate(t, Buyer[t]) :
                      n \in Stored /\ DOMAIN r.rows = {n} /\ r.rows[n] = notice[n]
              \/ /\ r.step = "insert"
                 /\ Duplicate(t, Buyer[t]) = {} /\ Unused # {}
                 /\ r.rows = NewRow(FromTransaction("geodata_missing", t, Buyer[t], req[w].user))
  <1> DEFINE now(t) == [req[w] EXCEPT !.trade = t, !.left = @ \ {t}]
  <1>1. PICK t \in req[w].left :
          \/ \E n \in Duplicate(t, Buyer[t]) :
               Continue(w, [now(t) EXCEPT !.step = "push", !.rows = [x \in {n} |-> notice[x]]])
          \/ /\ Duplicate(t, Buyer[t]) = {} /\ Unused # {}
             /\ Continue(w, [now(t) EXCEPT !.step = "insert",
                  !.rows = NewRow(FromTransaction("geodata_missing", t, Buyer[t], req[w].user))])
    BY DEF AskCheck
  <1>2. /\ t \in Trades /\ Buyer[t] \in Users /\ Buyer[t] \in Parties[t]
        /\ req[w].step = "ask" /\ req[w].user \in Users
    BY Fields DEF AskCheck, Sensible
  <1>3. ASSUME NEW st \in {"push", "insert"}, NEW rows \in RowTables
        PROVE  LET r == [now(t) EXCEPT !.step = st, !.rows = rows]
               IN /\ r \in Doings /\ Sensible(r)
                  /\ r.step = st /\ r.trade = t /\ r.left = req[w].left \ {t} /\ r.rows = rows
    <2> DEFINE r == [now(t) EXCEPT !.step = st, !.rows = rows]
    <2>1. PICK d \in Doings : d = req[w]
      BY Fields
    <2>2. /\ r \in Doings
          /\ r.step = st /\ r.user = d.user /\ r.trade = t /\ r.left = d.left \ {t} /\ r.rows = rows
      BY <1>2, <2>1 DEF Doings, ReqSteps
    <2> HIDE DEF r
    <2>3. Sensible(r)
      BY <1>2, <2>1, <2>2, Fields DEF Sensible
    <2>4. r.left = req[w].left \ {t}
      BY <2>1, <2>2
    <2> QED BY <2>2, <2>3, <2>4 DEF r
  <1>4. ASSUME NEW n \in Duplicate(t, Buyer[t]),
               Continue(w, [now(t) EXCEPT !.step = "push", !.rows = [x \in {n} |-> notice[x]]])
        PROVE  \E r \in Doings :
                 /\ Sensible(r) /\ Continue(w, r)
                 /\ r.step = "push" /\ r.trade = t /\ r.left = req[w].left \ {t}
                 /\ n \in Stored /\ DOMAIN r.rows = {n} /\ r.rows[n] = notice[n]
    <2>1. n \in Stored /\ n \in Notices /\ notice[n] \in Row
      BY DEF Duplicate, Missing, Stored, Typed, NoticesTypeOK
    <2>2. [x \in {n} |-> notice[x]] \in [{n} -> Row]
      BY <2>1
    <2>3. PICK rows \in RowTables : rows = [x \in {n} |-> notice[x]]
      BY <2>1, <2>2, RowTable
    <2>4. DOMAIN rows = {n} /\ rows[n] = notice[n]
      BY <2>3
    <2> DEFINE r == [now(t) EXCEPT !.step = "push", !.rows = rows]
    <2>5. Continue(w, r)
      BY <1>4, <2>3
    <2>6. /\ r \in Doings /\ Sensible(r)
          /\ r.step = "push" /\ r.trade = t /\ r.left = req[w].left \ {t} /\ r.rows = rows
      BY <1>3
    <2> HIDE DEF r
    <2> QED BY <2>1, <2>4, <2>5, <2>6
  <1>5. ASSUME Unused # {},
               Continue(w, [now(t) EXCEPT !.step = "insert",
                  !.rows = NewRow(FromTransaction("geodata_missing", t, Buyer[t], req[w].user))])
        PROVE  \E r \in Doings :
                 /\ Sensible(r) /\ Continue(w, r)
                 /\ r.step = "insert" /\ r.trade = t /\ r.left = req[w].left \ {t}
                 /\ r.rows = NewRow(FromTransaction("geodata_missing", t, Buyer[t], req[w].user))
    <2>1. PICK rows \in RowTables :
            rows = NewRow(FromTransaction("geodata_missing", t, Buyer[t], req[w].user))
      BY <1>2, <1>5, NewRowTable, FromTransactionIsRow DEF Types
    <2>2. Continue(w, [now(t) EXCEPT !.step = "insert", !.rows = rows])
      BY <1>5, <2>1
    <2> QED BY <1>3, <2>1, <2>2
  <1>6. CASE \E n \in Duplicate(t, Buyer[t]) :
               Continue(w, [now(t) EXCEPT !.step = "push", !.rows = [x \in {n} |-> notice[x]]])
    <2>1. PICK n \in Duplicate(t, Buyer[t]) :
               Continue(w, [now(t) EXCEPT !.step = "push", !.rows = [x \in {n} |-> notice[x]]])
      BY <1>6
    <2>2. PICK r \in Doings :
                 /\ Sensible(r) /\ Continue(w, r)
                 /\ r.step = "push" /\ r.trade = t /\ r.left = req[w].left \ {t}
                 /\ n \in Stored /\ DOMAIN r.rows = {n} /\ r.rows[n] = notice[n]
      BY <1>4, <2>1
    <2> HIDE DEF now
    <2> QED BY <1>2, <2>2
  <1>7. CASE /\ Duplicate(t, Buyer[t]) = {} /\ Unused # {}
             /\ Continue(w, [now(t) EXCEPT !.step = "insert",
                  !.rows = NewRow(FromTransaction("geodata_missing", t, Buyer[t], req[w].user))])
    <2>1. PICK r \in Doings :
                 /\ Sensible(r) /\ Continue(w, r)
                 /\ r.step = "insert" /\ r.trade = t /\ r.left = req[w].left \ {t}
                 /\ r.rows = NewRow(FromTransaction("geodata_missing", t, Buyer[t], req[w].user))
      BY <1>5, <1>7
    <2> HIDE DEF now
    <2> QED BY <1>2, <1>7, <2>1
  <1> QED BY <1>1, <1>6, <1>7

LEMMA AskCheckTyped ==
  ASSUME Typed, NEW w \in Workers, AskCheck(w)
  PROVE  Typed'
  <1>1. req' \in [Workers -> {s \in Doings : Sensible(s)}] /\ tangled' \subseteq Trades
    BY AskCheckCases, ContinueTyped
  <1> QED BY <1>1 DEF AskCheck, Typed, queueVars, tables, NoticesTypeOK, QueueTypeOK

LEMMA InsertNoticeCases ==
  ASSUME Typed, NEW w \in Workers, InsertNotice(w)
  PROVE  \E r \in Doings :
           /\ Sensible(r) /\ Continue(w, r)
           /\ r.step = "push" /\ r.trade = req[w].trade /\ r.left = req[w].left
           /\ r.rows = req[w].rows
  <1>1. PICK d \in Doings : d = req[w]
    BY Fields
  <1> DEFINE r == [d EXCEPT !.step = "push"]
  <1>2. /\ r \in Doings
        /\ r.step = "push" /\ r.user = d.user /\ r.trade = d.trade /\ r.left = d.left
        /\ r.rows = d.rows
    BY DEF Doings, ReqSteps
  <1>3. Continue(w, r)
    BY <1>1 DEF InsertNotice
  <1> HIDE DEF r
  <1>4. Sensible(d) /\ d.step = "insert"
    BY <1>1, Fields DEF InsertNotice
  <1>5. Sensible(r)
    BY <1>2, <1>4 DEF Sensible
  <1> QED BY <1>1, <1>2, <1>3, <1>5

LEMMA InsertNoticeTyped ==
  ASSUME Typed, NEW w \in Workers, InsertNotice(w)
  PROVE  Typed'
  <1>1. req' \in [Workers -> {s \in Doings : Sensible(s)}] /\ tangled' \subseteq Trades
    BY InsertNoticeCases, ContinueTyped
  <1>2. notice' \in [Notices -> Row \cup {NoRow}]
    BY WithTyped, Fields DEF InsertNotice, Typed, NoticesTypeOK
  <1> QED BY <1>1, <1>2 DEF InsertNotice, Typed, queueVars, NoticesTypeOK, QueueTypeOK

LEMMA PushNoticeCases ==
  ASSUME Typed, NEW w \in Workers, PushNotice(w)
  PROVE  \/ Done(w)
         \/ \E r \in Doings :
              /\ Sensible(r) /\ Continue(w, r)
              /\ r.step = "ask" /\ r.trade = NoTrade /\ r.left = req[w].left
  <1>1. PICK d \in Doings : d = req[w]
    BY Fields
  <1> DEFINE r == [d EXCEPT !.step = "ask", !.trade = NoTrade, !.rows = NoRows]
  <1>2. /\ r \in Doings
        /\ r.step = "ask" /\ r.user = d.user /\ r.trade = NoTrade /\ r.left = d.left
        /\ r.rows = NoRows
    BY NoRowsTable DEF Doings, ReqSteps
  <1>3. Done(w) \/ Continue(w, r)
    BY <1>1 DEF PushNotice
  <1> HIDE DEF r
  <1>4. Sensible(d) /\ d.step = "push"
    BY <1>1, Fields DEF PushNotice
  <1>5. Sensible(r)
    BY <1>2, <1>4, NoRowsTable DEF Sensible
  <1> QED BY <1>1, <1>2, <1>3, <1>5

LEMMA PushNoticeTyped ==
  ASSUME Typed, NEW w \in Workers, PushNotice(w)
  PROVE  Typed'
  <1>1. req' \in [Workers -> {s \in Doings : Sensible(s)}] /\ tangled' \subseteq Trades
    BY PushNoticeCases, ContinueTyped, DoneTyped
  <1>2. QueueTypeOK'
    <2>1. QueueTypeOK /\ req[w].rows \in RowTables
      BY Fields DEF Typed, NoticesTypeOK
    <2> QED BY <2>1, SendPushTyped DEF PushNotice
  <1> QED BY <1>1, <1>2 DEF PushNotice, Typed, tables, NoticesTypeOK

LEMMA UpdateUploadCases ==
  ASSUME Typed, NEW w \in Workers, UpdateUpload(w)
  PROVE  \E r \in Doings :
           /\ req[w].trade \in Trades
           /\ Sensible(r) /\ Continue(w, r)
           /\ r.step = "notify" /\ r.trade = req[w].trade /\ r.left = req[w].left
           /\ r.source = req[w].source /\ r.rows = req[w].rows
  <1>1. PICK d \in Doings : d = req[w]
    BY Fields
  <1> DEFINE r == [d EXCEPT !.step = "notify"]
  <1>2. /\ r \in Doings
        /\ r.step = "notify" /\ r.user = d.user /\ r.trade = d.trade /\ r.left = d.left
        /\ r.source = d.source /\ r.rows = d.rows
    BY DEF Doings, ReqSteps
  <1>3. Continue(w, r)
    BY <1>1 DEF UpdateUpload
  <1> HIDE DEF r
  <1>4. Sensible(d) /\ d.step = "upload"
    BY <1>1, Fields DEF UpdateUpload
  <1>5. Sensible(r) /\ d.trade \in Trades
    BY <1>2, <1>4 DEF Sensible
  <1> QED BY <1>1, <1>2, <1>3, <1>5

LEMMA UpdateUploadTyped ==
  ASSUME Typed, NEW w \in Workers, UpdateUpload(w)
  PROVE  Typed'
  <1>1. req' \in [Workers -> {s \in Doings : Sensible(s)}] /\ tangled' \subseteq Trades
    BY UpdateUploadCases, ContinueTyped
  <1>2. file' \in [Trades -> Sources \cup {"none"}]
    BY Fields DEF UpdateUpload, Typed
  <1> QED BY <1>1, <1>2 DEF UpdateUpload, Typed, queueVars, NoticesTypeOK, QueueTypeOK

\* Every request in the table is answered: a stored row has its creator.
LEMMA AnsweredRows ==
  ASSUME Typed, NEW t
  PROVE  /\ Answered(t) = Missing(t) /\ IsFiniteSet(Answered(t)) /\ IsFiniteSet(Unused)
         /\ Answered(t) \subseteq Notices /\ Unused \subseteq Notices
         /\ \A a \in Answered(t) : notice[a] \in Row /\ AskerOf(a) \in Users
  <1>1. \A a \in Stored : a \in Notices /\ notice[a] \in Row
    BY DEF Stored, Typed, NoticesTypeOK
  <1>2. \A a \in Missing(t) : a \in Notices /\ notice[a] \in Row /\ notice[a].creator \in Users
    BY <1>1 DEF Missing, Row
  <1>3. Answered(t) = Missing(t)
    BY <1>2, QueueAssumption DEF Answered
  <1>4. Answered(t) \subseteq Notices /\ Unused \subseteq Notices
    BY <1>2, <1>3 DEF Unused
  <1>5. IsFiniteSet(Answered(t)) /\ IsFiniteSet(Unused)
    BY <1>4, QueueAssumption, FS_Subset
  <1> QED BY <1>2, <1>3, <1>4, <1>5 DEF AskerOf

\* An update answers each request under a new key, and pushes the answers.
LEMMA UpdateNotifyCases ==
  ASSUME Typed, NEW w \in Workers, UpdateNotify(w)
  PROVE  \E r \in Doings :
           /\ req[w].trade \in Trades /\ req[w].user \in Users
           /\ Sensible(r) /\ Continue(w, r) /\ SendPush(r.rows)
           /\ r.step = "commit" /\ r.trade = req[w].trade /\ r.left = req[w].left
           /\ r.source = req[w].source
           /\ DOMAIN r.rows \subseteq Unused
           /\ \A n \in DOMAIN r.rows : r.rows[n].type = "geodata_updated"
           /\ \A a \in Missing(req[w].trade) : \E n \in DOMAIN r.rows :
                /\ r.rows[n].trade = req[w].trade
                /\ r.rows[n].receiver = notice[a].creator
  <1>1. PICK d \in Doings : d = req[w]
    BY Fields
  <1>2. PICK t \in Trades : t = d.trade
    BY <1>1, Fields DEF UpdateNotify, Sensible
  <1>3. PICK u \in Users : u = d.user
    BY <1>1, Fields DEF UpdateNotify, Sensible
  <1> DEFINE A == Answered(t)
             key == CHOOSE f \in Injection(A, Unused) : TRUE
             rows == [n \in {key[a] : a \in A} |->
                       FromTransaction("geodata_updated", t,
                         AskerOf(CHOOSE a \in A : key[a] = n), u)]
             r == [d EXCEPT !.step = "commit", !.rows = rows]
  <1>4. /\ Cardinality(A) <= Cardinality(Unused)
        /\ SendPush(rows) /\ Continue(w, r)
    BY <1>1, <1>2, <1>3 DEF UpdateNotify
  <1>5. /\ A = Missing(t) /\ IsFiniteSet(A) /\ IsFiniteSet(Unused) /\ Unused \subseteq Notices
        /\ \A a \in A : AskerOf(a) \in Users
    BY AnsweredRows
  <1> HIDE DEF A
  <1>6. key \in Injection(A, Unused)
    BY <1>4, <1>5, InjectionFits
  <1>7. key \in [A -> Unused] /\ \A a, b \in A : key[a] = key[b] => a = b
    BY <1>6 DEF Injection, IsInjective
  <1> HIDE DEF key
  <1>8. \A a \in A : (CHOOSE b \in A : key[b] = key[a]) = a
    BY <1>7
  <1>9. DOMAIN rows = {key[a] : a \in A} /\ DOMAIN rows \subseteq Unused
    BY <1>7
  <1>10. \A a \in A : rows[key[a]] = FromTransaction("geodata_updated", t, AskerOf(a), u)
    BY <1>8
  <1>11. \A a \in A : FromTransaction("geodata_updated", t, AskerOf(a), u) \in Row
    BY <1>5, FromTransactionIsRow DEF Types
  <1>12. rows \in [{key[a] : a \in A} -> Row]
    BY <1>10, <1>11
  <1>13. rows \in RowTables
    BY <1>5, <1>9, <1>12, RowTable
  <1> HIDE DEF rows
  <1>14. /\ r \in Doings
         /\ r.step = "commit" /\ r.user = u /\ r.trade = t /\ r.left = d.left
         /\ r.source = d.source /\ r.rows = rows
    BY <1>2, <1>3, <1>13 DEF Doings, ReqSteps
  <1> HIDE DEF r
  <1>15. Sensible(r)
    BY <1>1, <1>14, Fields DEF Sensible
  <1>16. ASSUME NEW a \in A
         PROVE  /\ key[a] \in DOMAIN rows /\ rows[key[a]].type = "geodata_updated"
                /\ rows[key[a]].trade = t /\ rows[key[a]].receiver = notice[a].creator
    <2>1. rows[key[a]] = FromTransaction("geodata_updated", t, AskerOf(a), u)
      BY <1>10
    <2>2. key[a] \in DOMAIN rows
      BY <1>9
    <2> QED BY <2>1, <2>2 DEF FromTransaction, AskerOf
  <1>17. \A n \in DOMAIN rows : rows[n].type = "geodata_updated"
    <2>1. \A n \in DOMAIN rows : \E a \in A : n = key[a]
      BY <1>9
    <2> QED BY <1>16, <2>1
  <1>18. \A a \in Missing(t) : /\ key[a] \in DOMAIN rows /\ rows[key[a]].trade = t
                               /\ rows[key[a]].receiver = notice[a].creator
    BY <1>5, <1>16
  <1> QED BY <1>1, <1>2, <1>3, <1>4, <1>9, <1>14, <1>15, <1>17, <1>18

LEMMA UpdateNotifyTyped ==
  ASSUME Typed, NEW w \in Workers, UpdateNotify(w)
  PROVE  Typed'
  <1>1. PICK r \in Doings : Sensible(r) /\ Continue(w, r) /\ SendPush(r.rows)
    BY UpdateNotifyCases
  <1>2. req' \in [Workers -> {s \in Doings : Sensible(s)}] /\ tangled' \subseteq Trades
    BY <1>1, ContinueTyped
  <1>3. QueueTypeOK'
    <2>1. QueueTypeOK /\ r.rows \in RowTables
      BY DEF Typed, NoticesTypeOK, Doings
    <2> QED BY <1>1, <2>1, SendPushTyped DEF UpdateNotify
  <1> QED BY <1>2, <1>3 DEF UpdateNotify, Typed, tables, NoticesTypeOK

LEMMA CommitTyped ==
  ASSUME Typed, NEW w \in Workers, Commit(w)
  PROVE  Typed'
  <1>1. req' \in [Workers -> {s \in Doings : Sensible(s)}] /\ tangled' \subseteq Trades
    BY DoneTyped DEF Commit
  <1>2. notice' \in [Notices -> Row \cup {NoRow}]
    BY WithTyped, Fields DEF Commit, Typed, NoticesTypeOK
  <1>3. \A n \in DOMAIN req[w].rows : req[w].rows[n].receiver \in Users
    BY Fields, TableRows DEF Row
  <1>4. member' \subseteq Users
    BY <1>3 DEF Commit, Typed
  <1>5. location' \in [Trades -> Sources \cup {"none"}]
    BY Fields DEF Commit, Typed
  <1> QED BY <1>1, <1>2, <1>4, <1>5 DEF Commit, Typed, queueVars, NoticesTypeOK, QueueTypeOK

\* What a proposal keeps to itself and sends: its messages are about its own row.
LEMMA ProposeCases ==
  ASSUME Typed, NEW w \in Workers, NEW u \in Users, NEW v \in Users, Propose(w, u, v)
  PROVE  \E r \in Doings, messages \in SUBSET (Kinds \X Notices) :
           /\ Sensible(r) /\ Continue(w, r)
           /\ Unused # {}
           /\ r.step = "commit" /\ r.trade = NoTrade /\ r.left = {}
           /\ r.rows = NewRow(FromTransaction("transaction_pending", NoTrade, v, u))
           /\ IsFiniteSet(messages) /\ Enqueue(messages, r.rows)
           /\ \A m \in messages : /\ m[2] \in DOMAIN r.rows
                                  /\ r.rows[m[2]].type \in Types /\ r.rows[m[2]].receiver \in Users
  <1>1. Unused # {}
    BY DEF Propose
  <1>2. FromTransaction("transaction_pending", NoTrade, v, u) \in Row
    BY FromTransactionIsRow DEF Types
  <1>3. PICK rows \in RowTables :
          /\ rows = NewRow(FromTransaction("transaction_pending", NoTrade, v, u))
          /\ DOMAIN rows = {NewKey}
    BY <1>1, <1>2, NewRowTable
  <1>4. PICK n \in Notices : n = NewKey
    BY <1>1, <1>2, NewRowTable
  <1> DEFINE pushes == {"gcm", "apns"} \X Pushed(rows)
             invitation == IF v \in member THEN {} ELSE {<<"mail", n>>}
             r == [Idle EXCEPT !.step = "commit", !.user = u, !.rows = rows]
             messages == invitation \cup pushes
  <1>5. Enqueue(messages, rows) /\ Continue(w, r)
    BY <1>3, <1>4 DEF Propose
  <1>6. /\ pushes \in SUBSET (Kinds \X Notices) /\ IsFiniteSet(pushes)
        /\ \A m \in pushes : /\ m[2] \in DOMAIN rows
                             /\ rows[m[2]].type \in Types /\ rows[m[2]].receiver \in Users
    BY Pushes
  <1>7. rows[n] \in Row /\ n \in DOMAIN rows
    BY <1>3, <1>4, TableRows
  <1>8. /\ invitation \in SUBSET (Kinds \X Notices) /\ IsFiniteSet(invitation)
        /\ \A m \in invitation : /\ m[2] \in DOMAIN rows
                                 /\ rows[m[2]].type \in Types /\ rows[m[2]].receiver \in Users
    <2>1. CASE v \in member
      BY <2>1, FS_EmptySet
    <2>2. CASE v \notin member
      <3>1. invitation = {<<"mail", n>>} /\ IsFiniteSet({<<"mail", n>>})
        BY <2>2, FS_Singleton
      <3>2. <<"mail", n>> \in Kinds \X Notices
        BY DEF Kinds
      <3>3. rows[n].type \in Types /\ rows[n].receiver \in Users
        BY <1>7 DEF Row
      <3> HIDE DEF invitation
      <3> QED BY <1>7, <3>1, <3>2, <3>3
    <2> QED BY <2>1, <2>2
  <1> HIDE DEF pushes, invitation
  <1>9. /\ messages \in SUBSET (Kinds \X Notices) /\ IsFiniteSet(messages)
        /\ \A m \in messages : /\ m[2] \in DOMAIN rows
                               /\ rows[m[2]].type \in Types /\ rows[m[2]].receiver \in Users
    BY <1>6, <1>8, FS_Union
  <1>10. /\ r \in Doings
         /\ r.step = "commit" /\ r.user = u /\ r.trade = NoTrade /\ r.left = {} /\ r.rows = rows
    BY DEF Idle, Doings, ReqSteps, Sources
  <1> HIDE DEF r, messages
  <1>11. Sensible(r)
    BY <1>10 DEF Sensible
  <1> QED BY <1>1, <1>3, <1>5, <1>9, <1>10, <1>11

LEMMA ProposeTyped ==
  ASSUME Typed, NEW w \in Workers, NEW u \in Users, NEW v \in Users, Propose(w, u, v)
  PROVE  Typed'
  <1>1. PICK r \in Doings, messages \in SUBSET (Kinds \X Notices) :
           /\ Sensible(r) /\ Continue(w, r)
           /\ IsFiniteSet(messages) /\ Enqueue(messages, r.rows)
           /\ \A m \in messages : r.rows[m[2]].type \in Types /\ r.rows[m[2]].receiver \in Users
    BY ProposeCases
  <1>2. req' \in [Workers -> {s \in Doings : Sensible(s)}] /\ tangled' \subseteq Trades
    BY <1>1, ContinueTyped
  <1>3. QueueTypeOK'
    BY <1>1, EnqueueTyped DEF Propose, Typed, NoticesTypeOK
  <1> QED BY <1>2, <1>3, GeodataAssumption DEF Propose, Begins, Typed, tables, NoticesTypeOK

LEMMA RequestFailsTyped ==
  ASSUME Typed, NEW w \in Workers, RequestFails(w)
  PROVE  Typed'
  <1>1. req' \in [Workers -> {s \in Doings : Sensible(s)}]
    BY Moves, IdleIsSensible DEF RequestFails
  <1>2. lost' \subseteq Notices
    BY Fields, TableRows DEF RequestFails, Typed
  <1>3. tangled' \subseteq Trades
    BY Fields, ConcernsTrades DEF RequestFails, Typed
  <1>4. faults' \in 0 .. MaxFaults
    BY QueueAssumption DEF RequestFails, Fault, Typed, NoticesTypeOK, QueueTypeOK
  <1> QED BY <1>1, <1>2, <1>3, <1>4 DEF RequestFails, Typed, tables, NoticesTypeOK, QueueTypeOK

LEMMA UserStepTyped ==
  ASSUME Typed, UserStep
  PROVE  Typed'
  <1>1. requests' \in 0 .. MaxRequests
    BY GeodataAssumption DEF UserStep, Typed
  <1>2. CASE \E u \in member, type \in Types : \E on, off \in {{}, {type}} :
                on \cup off # {} /\ UpdateSettings(u, on, off) /\ UNCHANGED notice
    <2>1. enabled' \in SettingsTable
      BY <1>2 DEF UpdateSettings, SettingsTable, Typed, NoticesTypeOK, QueueTypeOK
    <2> QED BY <1>1, <1>2, <2>1 DEF UserStep, UpdateSettings, Typed, NoticesTypeOK, QueueTypeOK
  <1>3. CASE \E u \in member, d \in Devices : AddDevice(u, d) /\ UNCHANGED notice
    BY <1>1, <1>3 DEF UserStep, AddDevice, Typed, NoticesTypeOK, QueueTypeOK
  <1>4. CASE \E u \in member, n \in Notices : UpdateStatus(u, n)
    <2>1. PICK n \in Notices : /\ notice[n] \in Row
                               /\ notice' = [notice EXCEPT ![n].status = "read"] /\ UNCHANGED queueVars
      BY <1>4 DEF UpdateStatus, Stored, Typed, NoticesTypeOK
    <2>2. [notice[n] EXCEPT !.status = "read"] \in Row
      BY <2>1 DEF Row
    <2>3. notice' \in [Notices -> Row \cup {NoRow}]
      BY <2>1, <2>2 DEF Typed, NoticesTypeOK
    <2> QED BY <1>1, <2>1, <2>3 DEF UserStep, queueVars, Typed, NoticesTypeOK, QueueTypeOK
  <1> QED BY <1>2, <1>3, <1>4 DEF UserStep

\* A task that runs, as a record, and what becomes of it.
LEMMA TaskRecords ==
  ASSUME QueueTypeOK, NEW s \in Slots, task[s].state # "free"
  PROVE  /\ task[s] \in [kind : Kinds, state : {"queued", "running"}, notice : Notices, type : Types,
                         receiver : Users, tries : 0 .. MaxRetries, left : SUBSET (Devices \cup Users)]
         /\ task[s].kind \in Kinds /\ task[s].notice \in Notices
         /\ task[s].left \subseteq Devices \cup Users /\ task[s].receiver \in Users
         /\ task[s].tries \in 0 .. MaxRetries
  BY DEF QueueTypeOK, NoTask

LEMMA TargetsTyped ==
  ASSUME QueueTypeOK, NEW s \in Slots, task[s].state # "free"
  PROVE  Targets(task[s]) \subseteq Devices \cup Users
  BY TaskRecords DEF Targets, Kinds, Devices

LEMMA TaskBeginTyped ==
  ASSUME QueueTypeOK, NEW s \in Slots, TaskBegin(s)
  PROVE  QueueTypeOK'
  <1>1. PICK k \in Tasks : k = task[s]
    BY DEF QueueTypeOK, Tasks
  <1>2. task[s].state = "queued" /\ k \in Tasks \ {NoTask}
    BY <1>1 DEF TaskBegin, NoTask
  <1>3. Targets(k) \subseteq Devices \cup Users
    BY <1>1, <1>2, TargetsTyped
  <1>4. [k EXCEPT !.state = "running", !.left = Targets(k)] \in Tasks
    BY <1>2, <1>3 DEF Tasks
  <1>5. \E e \in Tasks : task' = [task EXCEPT ![s] = e]
    <2>1. NoTask \in Tasks
      BY DEF Tasks
    <2> QED BY <1>1, <1>4, <2>1 DEF TaskBegin
  <1> QED BY <1>5 DEF TaskBegin, QueueTypeOK, Tasks

LEMMA DeliveredTyped ==
  ASSUME QueueTypeOK, NEW s \in Slots, NEW d, task[s].state = "running", d \in task[s].left, Delivered(s, d)
  PROVE  /\ delivered' \in [Notices \X (Devices \cup Users) -> Nat]
         /\ <<task[s].notice, d>> \in Notices \X (Devices \cup Users)
  BY TaskRecords DEF Delivered, QueueTypeOK

LEMMA TaskSendsTyped ==
  ASSUME QueueTypeOK, NEW s \in Slots, NEW d, TaskSends(s, d)
  PROVE  QueueTypeOK'
  <1>1. PICK k \in Tasks : k = task[s]
    BY DEF QueueTypeOK, Tasks
  <1>2. task[s].state = "running" /\ k \in Tasks \ {NoTask}
    BY <1>1 DEF TaskSends, NoTask
  <1>3. [k EXCEPT !.left = k.left \ {d}] \in Tasks
    BY <1>2 DEF Tasks
  <1>4. \E e \in Tasks : task' = [task EXCEPT ![s] = e]
    <2>1. NoTask \in Tasks
      BY DEF Tasks
    <2>2. CASE k.left = {d}
      BY <1>1, <2>1, <2>2 DEF TaskSends
    <2>3. CASE k.left # {d}
      BY <1>1, <1>3, <2>3 DEF TaskSends
    <2> QED BY <2>2, <2>3
  <1>5. delivered' \in [Notices \X (Devices \cup Users) -> Nat]
    BY DeliveredTyped DEF TaskSends
  <1> QED BY <1>4, <1>5 DEF TaskSends, QueueTypeOK, Tasks

LEMMA RetriedTyped ==
  ASSUME QueueTypeOK, NEW s \in Slots, task[s].state = "running", Retried(s)
  PROVE  /\ task' \in [Slots -> Tasks]
         /\ attempts' \in [Kinds \X Notices -> Nat]
         /\ <<task[s].kind, task[s].notice>> \in Kinds \X Notices
  <1>1. PICK k \in Tasks : k = task[s]
    BY DEF QueueTypeOK, Tasks
  <1>2. k \in Tasks \ {NoTask}
    BY <1>1 DEF NoTask
  <1>3. <<task[s].kind, task[s].notice>> \in Kinds \X Notices
    BY TaskRecords
  <1>4. CASE task[s].tries < MaxRetries
    <2>1. k.tries \in 0 .. MaxRetries /\ k.tries < MaxRetries /\ MaxRetries \in Nat
      BY <1>1, <1>4, TaskRecords, QueueAssumption
    <2>2. k.tries + 1 \in 0 .. MaxRetries
      BY <2>1
    <2>3. [k EXCEPT !.state = "queued", !.left = {}, !.tries = k.tries + 1] \in Tasks
      BY <1>2, <2>2 DEF Tasks
    <2>4. \E e \in Tasks : task' = [task EXCEPT ![s] = e]
      BY <1>1, <1>4, <2>3 DEF Retried, QueueTypeOK
    <2>5. attempts' \in [Kinds \X Notices -> Nat]
      <3>1. PICK p \in Kinds \X Notices : p = <<task[s].kind, task[s].notice>>
        BY <1>3
      <3>2. attempts' = [attempts EXCEPT ![p] = @ + 1]
        BY <1>4, <3>1 DEF Retried
      <3> QED BY <3>2 DEF QueueTypeOK
    <2> QED BY <1>3, <2>4, <2>5 DEF QueueTypeOK, Tasks
  <1>5. CASE ~(task[s].tries < MaxRetries)
    BY <1>3, <1>5 DEF Retried, QueueTypeOK, Tasks
  <1> QED BY <1>4, <1>5

LEMMA TaskFailsTyped ==
  ASSUME QueueTypeOK, NEW s \in Slots, NEW d, TaskFails(s, d)
  PROVE  QueueTypeOK'
  <1>1. task' \in [Slots -> Tasks] /\ attempts' \in [Kinds \X Notices -> Nat]
    BY RetriedTyped DEF TaskFails
  <1>2. delivered' \in [Notices \X (Devices \cup Users) -> Nat]
    BY DeliveredTyped DEF TaskFails, QueueTypeOK
  <1>3. faults' \in 0 .. MaxFaults
    BY QueueAssumption DEF TaskFails, Fault, QueueTypeOK
  <1> QED BY <1>1, <1>2, <1>3 DEF TaskFails, QueueTypeOK, Tasks

LEMMA TaskLostTyped ==
  ASSUME QueueTypeOK, NEW s \in Slots, TaskLost(s)
  PROVE  QueueTypeOK'
  <1>1. task' \in [Slots -> Tasks]
    BY DEF TaskLost, QueueTypeOK, Tasks
  <1>2. faults' \in 0 .. MaxFaults
    BY QueueAssumption DEF TaskLost, Fault, QueueTypeOK
  <1> QED BY <1>1, <1>2 DEF TaskLost, QueueTypeOK, Tasks

LEMMA QueueStepTyped ==
  ASSUME Typed, NEW s \in Slots, QueueStep(s)
  PROVE  Typed'
  <1>1. QueueTypeOK'
    BY TaskBeginTyped, TaskSendsTyped, TaskFailsTyped, TaskLostTyped
    DEF QueueStep, TaskStep, Typed, NoticesTypeOK
  <1> QED BY <1>1 DEF QueueStep, tables, Typed, NoticesTypeOK

LEMMA InitTyped == Init => Typed
  <1> SUFFICES ASSUME Init PROVE Typed
    OBVIOUS
  <1>1. QueueTypeOK
    <2>1. task \in [Slots -> {NoTask}]
      BY DEF Init, QueueInit
    <2>2. delivered \in [Notices \X (Devices \cup Users) -> Nat] /\ attempts \in [Kinds \X Notices -> Nat]
      BY DEF Init, QueueInit
    <2>3. faults \in 0 .. MaxFaults
      BY QueueAssumption DEF Init, QueueInit
    <2> QED BY <2>1, <2>2, <2>3 DEF Init, QueueInit, QueueTypeOK, SettingsTable
  <1>2. requests \in 0 .. MaxRequests
    BY GeodataAssumption DEF Init
  <1> QED BY <1>1, <1>2, IdleIsSensible DEF Init, Typed, NoticesTypeOK

LEMMA NextTyped == Typed /\ [Next]_vars => Typed'
  <1> SUFFICES ASSUME Typed, [Next]_vars PROVE Typed'
    OBVIOUS
  <1>1. ASSUME NEW w \in Workers, Request(w) PROVE Typed'
    BY <1>1, AskReadTyped, ResendReadTyped, UpdateReadTyped, ProposeTyped, AskCheckTyped,
       InsertNoticeTyped, PushNoticeTyped, UpdateUploadTyped, UpdateNotifyTyped, CommitTyped,
       RequestFailsTyped
    DEF Request
  <1>2. CASE UNCHANGED vars
    BY <1>2 DEF vars, queueVars, Typed, NoticesTypeOK, QueueTypeOK
  <1> QED BY <1>1, <1>2, UserStepTyped, QueueStepTyped DEF Next

-----------------------------------------------------------------------------
\* Every variable keeps its type: a request that is in its transaction holds
\* well-formed rows, and what is in the broker is a task (TypeOK).
THEOREM MessagingTypes == Spec => []TypeOK
  <1>1. Spec => []Typed
    BY InitTyped, NextTyped, PTL DEF Spec
  <1> QED BY <1>1, TypedTypeOK, PTL

-----------------------------------------------------------------------------
(* The file and the location of a trade. *)

\* Two requests that rely on one trade have been noticed.
Apart ==
  \A w \in Workers : \A v \in Workers \ {w} :
    Concerns(req[w]) \cap Concerns(req[v]) \subseteq tangled

Supplies(r) == r.step \in {"notify", "commit"}

\* What an update has uploaded is still there.
Uploaded ==
  \A w \in Workers : Supplies(req[w]) /\ req[w].trade \in Trades \ tangled =>
    file[req[w].trade] = req[w].source

Kept == Apart /\ Uploaded /\ FileMatchesLocation

LEMMA ContinueApart ==
  ASSUME Typed, Apart, NEW w \in Workers, NEW r \in Doings, Continue(w, r)
  PROVE  /\ Apart' /\ tangled \subseteq tangled'
         /\ req'[w] = r /\ \A v \in Workers \ {w} : req'[v] = req[v]
  <1>1. req'[w] = r /\ \A v \in Workers \ {w} : req'[v] = req[v]
    BY Moves DEF Continue
  <1>2. tangled' = tangled \cup
          (Concerns(r) \cap UNION {Concerns(req[v]) : v \in Workers \ {w}})
    BY DEF Continue
  <1>3. tangled \subseteq tangled'
    BY <1>2
  <1>4. ASSUME NEW v \in Workers \ {w}
        PROVE  Concerns(r) \cap Concerns(req[v]) \subseteq tangled'
    BY <1>2
  <1>5. \A v \in Workers : Concerns(req[v])' = Concerns(req'[v])
    BY DEF Concerns
  <1>6. ASSUME NEW x \in Workers, NEW v \in Workers \ {x}
        PROVE  Concerns(req'[x]) \cap Concerns(req'[v]) \subseteq tangled'
    <2>1. CASE x = w
      BY <1>1, <1>4, <2>1
    <2>2. CASE v = w
      BY <1>1, <1>4, <2>2
    <2>3. CASE x # w /\ v # w
      BY <1>1, <1>3, <2>3 DEF Apart
    <2> QED BY <2>1, <2>2, <2>3
  <1> QED BY <1>1, <1>3, <1>5, <1>6 DEF Apart

LEMMA IdleConcerns == Concerns(Idle) = {} /\ ~Supplies(Idle) /\ Idle.trade = NoTrade
  BY DEF Concerns, Idle, Supplies

LEMMA LeavesApart ==
  ASSUME Typed, Apart, NEW w \in Workers, req' = [req EXCEPT ![w] = Idle], tangled \subseteq tangled'
  PROVE  /\ Apart'
         /\ req'[w] = Idle /\ \A v \in Workers \ {w} : req'[v] = req[v]
  <1>1. req'[w] = Idle /\ \A v \in Workers \ {w} : req'[v] = req[v]
    BY Moves, IdleIsSensible
  <1>2. \A v \in Workers : Concerns(req[v])' = Concerns(req'[v])
    BY DEF Concerns
  <1>3. ASSUME NEW x \in Workers, NEW v \in Workers \ {x}
        PROVE  Concerns(req'[x]) \cap Concerns(req'[v]) \subseteq tangled'
    <2>1. CASE x = w \/ v = w
      BY <1>1, <2>1, IdleConcerns
    <2>2. CASE x # w /\ v # w
      BY <1>1, <2>2 DEF Apart
    <2> QED BY <2>1, <2>2
  <1> QED BY <1>1, <1>2, <1>3 DEF Apart

\* A step of a request that supplies nothing, before or after it.
LEMMA KeptQuietly ==
  ASSUME Typed, Kept, Apart', NEW w \in Workers, tangled \subseteq tangled',
         \A v \in Workers \ {w} : req'[v] = req[v],
         ~Supplies(req[w]), Supplies(req'[w]) => req'[w].trade = NoTrade,
         UNCHANGED <<file, location>>
  PROVE  Kept'
  <1>1. Uploaded'
    BY QueueAssumption DEF Kept, Uploaded, Supplies
  <1>2. FileMatchesLocation'
    <2> SUFFICES ASSUME NEW t \in Trades \ tangled'
                 PROVE  \/ file[t] = location[t]
                        \/ \E v \in Workers : req'[v].trade = t /\ req'[v].step \in {"notify", "commit"}
      BY DEF FileMatchesLocation
    <2> QED BY DEF Kept, FileMatchesLocation, Supplies
  <1> QED BY <1>1, <1>2 DEF Kept

LEMMA KeptUnchanged ==
  ASSUME Kept, UNCHANGED <<req, tangled, file, location>>
  PROVE  Kept'
  BY DEF Kept, Apart, Concerns, Uploaded, Supplies, FileMatchesLocation

LEMMA KeptByStart ==
  ASSUME Typed, Kept, NEW w \in Workers, ~Supplies(req[w]), UNCHANGED <<file, location>>,
         \/ Done(w)
         \/ \E r \in Doings : Continue(w, r) /\ (Supplies(r) => r.trade = NoTrade)
  PROVE  Kept'
  <1>1. CASE Done(w)
    <2>1. /\ Apart' /\ tangled' = tangled
          /\ req'[w] = Idle /\ \A v \in Workers \ {w} : req'[v] = req[v]
      BY <1>1, LeavesApart DEF Done, Kept
    <2> QED BY <2>1, IdleConcerns, KeptQuietly
  <1>2. ASSUME NEW r \in Doings, Continue(w, r), Supplies(r) => r.trade = NoTrade
        PROVE  Kept'
    <2>1. /\ Apart' /\ tangled \subseteq tangled'
          /\ req'[w] = r /\ \A v \in Workers \ {w} : req'[v] = req[v]
      BY <1>2, ContinueApart DEF Kept
    <2> QED BY <1>2, <2>1, KeptQuietly
  <1> QED BY <1>1, <1>2

LEMMA KeptByUpload ==
  ASSUME Typed, Kept, NEW w \in Workers, UpdateUpload(w)
  PROVE  Kept'
  <1>1. PICK r \in Doings :
           /\ req[w].trade \in Trades /\ Continue(w, r)
           /\ r.step = "notify" /\ r.trade = req[w].trade /\ r.source = req[w].source
    BY UpdateUploadCases
  <1>2. /\ Apart' /\ tangled \subseteq tangled'
        /\ req'[w] = r /\ \A v \in Workers \ {w} : req'[v] = req[v]
    BY <1>1, ContinueApart DEF Kept
  <1>3. /\ file' = [file EXCEPT ![req[w].trade] = req[w].source] /\ UNCHANGED location
        /\ req[w].step = "upload"
    BY DEF UpdateUpload
  <1>4. PICK t \in Trades : t = req[w].trade
    BY <1>1
  <1>5. file'[t] = r.source /\ \A x \in Trades \ {t} : file'[x] = file[x]
    BY <1>1, <1>3, <1>4 DEF Typed
  <1>6. \A v \in Workers \ {w} : req[v].trade = t => t \in tangled'
    <2>1. \A v \in Workers : req[v].trade = t => t \in Concerns(req[v])
      BY QueueAssumption DEF Concerns
    <2> QED BY <1>2, <1>4, <2>1 DEF Kept, Apart
  <1>7. Uploaded'
    <2> SUFFICES ASSUME NEW v \in Workers, Supplies(req'[v]), req'[v].trade \in Trades \ tangled'
                 PROVE  file'[req'[v].trade] = req'[v].source
      BY DEF Uploaded, Supplies
    <2>1. CASE v = w
      BY <1>1, <1>2, <1>4, <1>5, <2>1
    <2>2. CASE v # w
      <3>1. req'[v] = req[v] /\ req[v].trade # t /\ req[v].trade \in Trades \ tangled
        BY <1>2, <1>6, <2>2
      <3> QED BY <1>5, <3>1 DEF Kept, Uploaded
    <2> QED BY <2>1, <2>2
  <1>8. FileMatchesLocation'
    <2> SUFFICES ASSUME NEW x \in Trades \ tangled'
                 PROVE  \/ file'[x] = location[x]
                        \/ \E v \in Workers : req'[v].trade = x /\ req'[v].step \in {"notify", "commit"}
      BY <1>3 DEF FileMatchesLocation
    <2>1. CASE x = t
      BY <1>1, <1>2, <1>4, <2>1
    <2>2. CASE x # t
      BY <1>2, <1>3, <1>5, <2>2 DEF Kept, FileMatchesLocation
    <2> QED BY <2>1, <2>2
  <1> QED BY <1>2, <1>7, <1>8 DEF Kept

LEMMA KeptByNotify ==
  ASSUME Typed, Kept, NEW w \in Workers, UpdateNotify(w)
  PROVE  Kept'
  <1>1. PICK r \in Doings :
           /\ req[w].trade \in Trades /\ Continue(w, r)
           /\ r.step = "commit" /\ r.trade = req[w].trade /\ r.source = req[w].source
    BY UpdateNotifyCases
  <1>2. /\ Apart' /\ tangled \subseteq tangled'
        /\ req'[w] = r /\ \A v \in Workers \ {w} : req'[v] = req[v]
    BY <1>1, ContinueApart DEF Kept
  <1>3. UNCHANGED <<file, location>> /\ req[w].step = "notify"
    BY DEF UpdateNotify, tables
  <1>4. \A v \in Workers : req'[v].trade = req[v].trade /\ req'[v].source = req[v].source
                           /\ (Supplies(req[v]) <=> Supplies(req'[v]))
    BY <1>1, <1>2, <1>3 DEF Supplies
  <1>5. Uploaded'
    BY <1>2, <1>3, <1>4 DEF Kept, Uploaded, Supplies
  <1>6. FileMatchesLocation'
    BY <1>2, <1>3, <1>4 DEF Kept, FileMatchesLocation, Supplies
  <1> QED BY <1>2, <1>5, <1>6 DEF Kept

LEMMA KeptByCommit ==
  ASSUME Typed, Kept, NEW w \in Workers, Commit(w)
  PROVE  Kept'
  <1>1. /\ Apart' /\ tangled' = tangled
        /\ req'[w] = Idle /\ \A v \in Workers \ {w} : req'[v] = req[v]
    BY LeavesApart DEF Commit, Done, Kept
  <1>2. /\ Supplies(req[w]) /\ UNCHANGED file
        /\ location' = [t \in Trades |-> IF t = req[w].trade THEN req[w].source ELSE location[t]]
    BY DEF Commit, Supplies
  <1>3. Uploaded'
    BY <1>1, <1>2, IdleConcerns DEF Kept, Uploaded, Supplies
  <1>4. FileMatchesLocation'
    <2> SUFFICES ASSUME NEW t \in Trades \ tangled
                 PROVE  \/ file[t] = location'[t]
                        \/ \E v \in Workers : req'[v].trade = t /\ req'[v].step \in {"notify", "commit"}
      BY <1>1, <1>2 DEF FileMatchesLocation
    <2>1. CASE t = req[w].trade
      BY <1>2, <2>1 DEF Kept, Uploaded
    <2>2. CASE t # req[w].trade
      BY <1>1, <1>2, <2>2 DEF Kept, FileMatchesLocation
    <2> QED BY <2>1, <2>2
  <1> QED BY <1>1, <1>3, <1>4 DEF Kept

LEMMA KeptByFailure ==
  ASSUME Typed, Kept, NEW w \in Workers, RequestFails(w)
  PROVE  Kept'
  <1>1. /\ UNCHANGED <<file, location>> /\ tangled \subseteq tangled'
        /\ Supplies(req[w]) => Concerns(req[w]) \subseteq tangled'
    BY DEF RequestFails, tables, Supplies
  <1>2. /\ Apart' /\ req'[w] = Idle /\ \A v \in Workers \ {w} : req'[v] = req[v]
    BY <1>1, LeavesApart DEF RequestFails, Kept
  <1>3. Uploaded'
    BY <1>1, <1>2, IdleConcerns DEF Kept, Uploaded, Supplies
  <1>4. FileMatchesLocation'
    <2> SUFFICES ASSUME NEW t \in Trades \ tangled'
                 PROVE  \/ file[t] = location[t]
                        \/ \E v \in Workers : req'[v].trade = t /\ req'[v].step \in {"notify", "commit"}
      BY <1>1 DEF FileMatchesLocation
    <2>1. req[w].trade = t => t \in Concerns(req[w])
      BY QueueAssumption DEF Concerns
    <2> QED BY <1>1, <1>2, <2>1 DEF Kept, FileMatchesLocation, Supplies
  <1> QED BY <1>2, <1>3, <1>4 DEF Kept

LEMMA InitKept == Init => Kept
  BY IdleConcerns DEF Init, Kept, Apart, Uploaded, FileMatchesLocation

LEMMA NextKept == Typed /\ Kept /\ [Next]_vars => Kept'
  <1> SUFFICES ASSUME Typed, Kept, [Next]_vars PROVE Kept'
    OBVIOUS
  <1>1. ASSUME NEW w \in Workers, NEW u \in Users, NEW t \in Trades,
               AskRead(w, u, t) \/ ResendRead(w, u, t) \/ \E source \in Sources : UpdateRead(w, u, t, source)
        PROVE  Kept'
    <2>1. ~Supplies(req[w]) /\ UNCHANGED <<file, location>>
      BY <1>1, IdleConcerns DEF AskRead, ResendRead, UpdateRead, Begins, tables
    <2>2. Done(w) \/ \E r \in Doings : Continue(w, r) /\ (Supplies(r) => r.trade = NoTrade)
      BY <1>1, AskReadCases, ResendReadCases, UpdateReadCases DEF Supplies
    <2> QED BY <2>1, <2>2, KeptByStart
  <1>2. ASSUME NEW w \in Workers, NEW u \in Users, NEW v \in Users, Propose(w, u, v)
        PROVE  Kept'
    <2>1. ~Supplies(req[w]) /\ UNCHANGED <<file, location>>
      BY <1>2, IdleConcerns DEF Propose, Begins, tables
    <2>2. \E r \in Doings : Continue(w, r) /\ (Supplies(r) => r.trade = NoTrade)
      BY <1>2, ProposeCases
    <2> QED BY <2>1, <2>2, KeptByStart
  <1>3. ASSUME NEW w \in Workers, AskCheck(w) \/ InsertNotice(w) \/ PushNotice(w)
        PROVE  Kept'
    <2>1. ~Supplies(req[w]) /\ UNCHANGED <<file, location>>
      BY <1>3 DEF AskCheck, InsertNotice, PushNotice, tables, Supplies
    <2>2. Done(w) \/ \E r \in Doings : Continue(w, r) /\ (Supplies(r) => r.trade = NoTrade)
      BY <1>3, AskCheckCases, InsertNoticeCases, PushNoticeCases DEF Supplies
    <2> QED BY <2>1, <2>2, KeptByStart
  <1>4. ASSUME UserStep \/ (\E s \in Slots : QueueStep(s)) \/ UNCHANGED vars
        PROVE  Kept'
    BY <1>4, KeptUnchanged DEF UserStep, QueueStep, tables, vars
  <1> QED BY <1>1, <1>2, <1>3, <1>4, KeptByUpload, KeptByNotify, KeptByCommit, KeptByFailure
      DEF Next, Request

\* Between requests object storage holds the file that column location announces,
\* unless requests on the trade overlapped or one stopped half-way
\* (FileMatchesLocation; services.py:177).
THEOREM FilesMatchLocations == Spec => []FileMatchesLocation
  <1>1. Spec => [](Typed /\ Kept)
    <2>1. Init => Typed /\ Kept
      BY InitTyped, InitKept
    <2>2. Typed /\ Kept /\ [Next]_vars => (Typed /\ Kept)'
      BY NextTyped, NextKept
    <2> QED BY <2>1, <2>2, PTL DEF Spec
  <1>2. Kept => FileMatchesLocation
    BY DEF Kept
  <1> QED BY <1>1, <1>2, PTL

-----------------------------------------------------------------------------
(* What stands behind a message. *)

Backed(r) ==
  /\ r.step = "insert" => \A n \in DOMAIN r.rows : r.rows[n].receiver \in member
  /\ r.step = "push" => DOMAIN r.rows \subseteq Stored

Founded ==
  /\ \A t \in Trades : Parties[t] \subseteq member
  /\ \A n \in Stored : notice[n].receiver \in member
  /\ \A w \in Workers : Backed(req[w])

\* A task is about notification n, or a device has had it.
Known(n) ==
  \/ \E s \in Slots : task[s].notice = n
  \/ \E d \in Devices \cup Users : delivered[<<n, d>>] # 0

\* Row n is in the table, in an open transaction, or was rolled back.
Backing(n) ==
  \/ n \in Stored
  \/ n \in lost
  \/ \E w \in Workers : req[w].step = "commit" /\ n \in DOMAIN req[w].rows

Grounded == \A n \in Notices : Known(n) => Backing(n)

LEMMA GroundedMessages == Founded /\ Grounded => MessagesAreFounded
  BY DEF Founded, Grounded, Known, Backing, MessagesAreFounded

LEMMA StoredWith ==
  ASSUME Typed, NEW rows \in RowTables, notice' = With(rows)
  PROVE  /\ Stored' = Stored \cup DOMAIN rows
         /\ \A n \in Notices : notice'[n] = IF n \in DOMAIN rows THEN rows[n] ELSE notice[n]
  <1>1. \A n \in Notices : notice'[n] = IF n \in DOMAIN rows THEN rows[n] ELSE notice[n]
    BY DEF With
  <1>2. DOMAIN rows \subseteq Notices /\ \A n \in DOMAIN rows : rows[n] # NoRow
    BY TableRows, RowIsNoNoRow
  <1> QED BY <1>1, <1>2 DEF Stored

LEMMA FoundedQuietly ==
  ASSUME Founded, NEW w \in Workers, UNCHANGED <<notice, member>>,
         \A v \in Workers \ {w} : req'[v] = req[v], Backed(req'[w])
  PROVE  Founded'
  <1>1. Stored' = Stored
    BY DEF Stored
  <1>2. \A v \in Workers : Backed(req'[v])
    BY DEF Founded
  <1> QED BY <1>1, <1>2 DEF Founded, Backed

LEMMA FoundedMoves ==
  ASSUME Typed, Founded, NEW w \in Workers, UNCHANGED <<notice, member>>,
         \/ Done(w)
         \/ \E r \in Doings : Continue(w, r) /\ Backed(r)
  PROVE  Founded'
  <1>1. CASE Done(w)
    <2>1. Backed(Idle)
      BY DEF Backed, Idle
    <2> QED BY <1>1, <2>1, Moves, IdleIsSensible, FoundedQuietly DEF Done
  <1>2. ASSUME NEW r \in Doings, Continue(w, r), Backed(r) PROVE Founded'
    BY <1>2, Moves, FoundedQuietly DEF Continue
  <1> QED BY <1>1, <1>2

LEMMA FoundedByStart ==
  ASSUME Typed, Founded, NEW w \in Workers, NEW u \in Users, NEW t \in Trades,
         AskRead(w, u, t) \/ ResendRead(w, u, t) \/ \E source \in Sources : UpdateRead(w, u, t, source)
  PROVE  Founded'
  <1>1. UNCHANGED <<notice, member>>
    BY DEF AskRead, ResendRead, UpdateRead, tables
  <1>2. CASE AskRead(w, u, t)
    BY <1>1, <1>2, AskReadCases, FoundedMoves DEF Backed
  <1>3. CASE ResendRead(w, u, t)
    <2>1. PICK v \in Parties[t] \ {u}, r \in Doings :
            /\ v \in Users /\ Continue(w, r) /\ r.step = "insert"
            /\ r.rows = NewRow(FromTransaction("transaction_pending", t, v, u))
      BY <1>3, ResendReadCases
    <2>2. PICK row \in Row : row = FromTransaction("transaction_pending", t, v, u)
      BY <2>1, FromTransactionIsRow DEF Types
    <2>3. Unused # {}
      BY <1>3 DEF ResendRead
    <2>4. DOMAIN r.rows = {NewKey} /\ r.rows[NewKey] = row
      BY <2>1, <2>2, <2>3, NewRowTable
    <2>5. row.receiver = v /\ v \in member
      BY <2>1, <2>2 DEF FromTransaction, Founded
    <2>6. Backed(r)
      BY <2>1, <2>4, <2>5 DEF Backed
    <2> QED BY <1>1, <2>1, <2>6, FoundedMoves
  <1>4. ASSUME NEW source \in Sources, UpdateRead(w, u, t, source)
        PROVE  Founded'
    BY <1>1, <1>4, UpdateReadCases, FoundedMoves DEF Backed
  <1> QED BY <1>2, <1>3, <1>4

LEMMA FoundedByCheck ==
  ASSUME Typed, Founded, NEW w \in Workers, AskCheck(w)
  PROVE  Founded'
  <1>1. UNCHANGED <<notice, member>>
    BY DEF AskCheck, tables
  <1>2. PICK t \in req[w].left, r \in Doings :
           /\ t \in Trades /\ Buyer[t] \in Users /\ Buyer[t] \in Parties[t]
           /\ req[w].user \in Users /\ Continue(w, r)
           /\ \/ /\ r.step = "push"
                 /\ \E n \in Duplicate(t, Buyer[t]) :
                      n \in Stored /\ DOMAIN r.rows = {n} /\ r.rows[n] = notice[n]
              \/ /\ r.step = "insert"
                 /\ Duplicate(t, Buyer[t]) = {} /\ Unused # {}
                 /\ r.rows = NewRow(FromTransaction("geodata_missing", t, Buyer[t], req[w].user))
    BY AskCheckCases
  <1>3. CASE r.step = "push"
    BY <1>1, <1>2, <1>3, FoundedMoves DEF Backed
  <1>4. CASE r.step = "insert"
    <2>1. PICK row \in Row : row = FromTransaction("geodata_missing", t, Buyer[t], req[w].user)
      BY <1>2, FromTransactionIsRow DEF Types
    <2>2. DOMAIN r.rows = {NewKey} /\ r.rows[NewKey] = row
      BY <1>2, <1>4, <2>1, NewRowTable
    <2>3. row.receiver = Buyer[t] /\ Buyer[t] \in member
      BY <1>2, <2>1 DEF FromTransaction, Founded
    <2>4. Backed(r)
      BY <1>4, <2>2, <2>3 DEF Backed
    <2> QED BY <1>1, <1>2, <2>4, FoundedMoves
  <1> QED BY <1>2, <1>3, <1>4

LEMMA FoundedByInsert ==
  ASSUME Typed, Founded, NEW w \in Workers, InsertNotice(w)
  PROVE  Founded'
  <1>1. PICK r \in Doings : Continue(w, r) /\ r.step = "push" /\ r.rows = req[w].rows
    BY InsertNoticeCases
  <1>2. req'[w] = r /\ \A v \in Workers \ {w} : req'[v] = req[v]
    BY <1>1, Moves DEF Continue
  <1>3. PICK rows \in RowTables : rows = req[w].rows
    BY Fields
  <1>4. /\ Stored' = Stored \cup DOMAIN rows
        /\ \A n \in Notices : notice'[n] = IF n \in DOMAIN rows THEN rows[n] ELSE notice[n]
    BY <1>3, StoredWith DEF InsertNotice
  <1>5. \A n \in DOMAIN rows : n \in Notices /\ rows[n].receiver \in member
    BY <1>3, TableRows DEF InsertNotice, Founded, Backed
  <1>6. \A n \in Stored' : notice'[n].receiver \in member
    BY <1>4, <1>5 DEF Founded, Stored
  <1>7. member' = member
    BY DEF InsertNotice
  <1>8. \A v \in Workers : /\ req'[v].step = "insert" =>
                                \A n \in DOMAIN req'[v].rows : req'[v].rows[n].receiver \in member
                           /\ req'[v].step = "push" => DOMAIN req'[v].rows \subseteq Stored'
    BY <1>1, <1>2, <1>3, <1>4 DEF Founded, Backed
  <1> QED BY <1>6, <1>7, <1>8 DEF Founded, Backed

LEMMA FoundedByCommit ==
  ASSUME Typed, Founded, NEW w \in Workers, Commit(w)
  PROVE  Founded'
  <1>1. req'[w] = Idle /\ \A v \in Workers \ {w} : req'[v] = req[v]
    BY Moves, IdleIsSensible DEF Commit, Done
  <1>2. PICK rows \in RowTables : rows = req[w].rows
    BY Fields
  <1>3. /\ Stored' = Stored \cup DOMAIN rows
        /\ \A n \in Notices : notice'[n] = IF n \in DOMAIN rows THEN rows[n] ELSE notice[n]
    BY <1>2, StoredWith DEF Commit
  <1>4. member' = member \cup {rows[n].receiver : n \in DOMAIN rows}
    BY <1>2 DEF Commit
  <1>5. \A n \in DOMAIN rows : n \in Notices /\ rows[n].receiver \in member'
    BY <1>4, TableRows
  <1>6. \A n \in Stored' : notice'[n].receiver \in member'
    BY <1>3, <1>4, <1>5 DEF Founded, Stored
  <1>7. Idle.step = "idle"
    BY DEF Idle
  <1>8. \A v \in Workers : /\ req'[v].step = "insert" =>
                                \A n \in DOMAIN req'[v].rows : req'[v].rows[n].receiver \in member'
                           /\ req'[v].step = "push" => DOMAIN req'[v].rows \subseteq Stored'
    BY <1>1, <1>3, <1>4, <1>7 DEF Founded, Backed
  <1>9. \A t \in Trades : Parties[t] \subseteq member'
    BY <1>4 DEF Founded
  <1> QED BY <1>6, <1>8, <1>9 DEF Founded, Backed

\* Reading a notification changes neither its key nor its receiver.
LEMMA ReadRows ==
  ASSUME Typed, NEW u, NEW n \in Notices, UpdateStatus(u, n)
  PROVE  /\ n \in Stored /\ notice[n] \in Row /\ Stored' = Stored /\ UNCHANGED queueVars
         /\ notice'[n].type = notice[n].type /\ notice'[n].trade = notice[n].trade
         /\ notice'[n].receiver = notice[n].receiver /\ notice'[n].creator = notice[n].creator
         /\ notice'[n].status = "read"
         /\ \A m \in Notices \ {n} : notice'[m] = notice[m]
  <1>1. PICK row \in Row : row = notice[n]
    BY DEF UpdateStatus, Stored, Typed, NoticesTypeOK
  <1>2. PICK new \in Row : new = [row EXCEPT !.status = "read"]
    <2>1. [row EXCEPT !.status = "read"] \in Row
      BY DEF Row
    <2> QED BY <2>1
  <1>3. /\ new.type = row.type /\ new.trade = row.trade /\ new.status = "read"
        /\ new.receiver = row.receiver /\ new.creator = row.creator
    BY <1>2 DEF Row
  <1>4. notice' = [notice EXCEPT ![n] = new]
    BY <1>1, <1>2 DEF UpdateStatus
  <1>5. notice'[n] = new /\ \A m \in Notices \ {n} : notice'[m] = notice[m]
    BY <1>4 DEF Typed, NoticesTypeOK
  <1>6. n \in Stored
    BY DEF UpdateStatus
  <1>7. Stored' = Stored
    BY <1>1, <1>5, <1>6, RowIsNoNoRow DEF Stored
  <1> QED BY <1>1, <1>3, <1>5, <1>6, <1>7 DEF UpdateStatus

LEMMA FoundedByUser ==
  ASSUME Typed, Founded, UserStep
  PROVE  Founded'
  <1>1. member' = member /\ req' = req
    BY DEF UserStep
  <1>2. CASE UNCHANGED notice
    <2>1. Stored' = Stored
      BY <1>2 DEF Stored
    <2> QED BY <1>1, <1>2, <2>1 DEF Founded, Backed
  <1>3. ASSUME NEW u \in member, NEW n \in Notices, UpdateStatus(u, n)
        PROVE  Founded'
    <2>1. /\ Stored' = Stored
          /\ \A m \in Notices : notice'[m].receiver = notice[m].receiver
      BY <1>3, ReadRows
    <2>2. Stored \subseteq Notices
      BY DEF Stored
    <2> QED BY <1>1, <2>1, <2>2 DEF Founded, Backed
  <1> QED BY <1>2, <1>3 DEF UserStep

LEMMA InitFounded == Init => Founded
  <1> SUFFICES ASSUME Init PROVE Founded
    OBVIOUS
  <1>1. Stored = {}
    BY DEF Init, Stored
  <1> QED BY <1>1 DEF Init, Founded, Backed, Idle

LEMMA NextFounded == Typed /\ Founded /\ [Next]_vars => Founded'
  <1> SUFFICES ASSUME Typed, Founded, [Next]_vars PROVE Founded'
    OBVIOUS
  <1>1. ASSUME NEW w \in Workers, NEW u \in Users, NEW v \in Users, Propose(w, u, v)
        PROVE  Founded'
    <2>1. UNCHANGED <<notice, member>>
      BY <1>1 DEF Propose, tables
    <2> QED BY <1>1, <2>1, ProposeCases, FoundedMoves DEF Backed
  <1>2. ASSUME NEW w \in Workers, PushNotice(w) \/ UpdateUpload(w) \/ UpdateNotify(w)
        PROVE  Founded'
    <2>1. UNCHANGED <<notice, member>>
      BY <1>2 DEF PushNotice, UpdateUpload, UpdateNotify, tables
    <2>2. \/ Done(w)
          \/ \E r \in Doings : Continue(w, r) /\ Backed(r)
      BY <1>2, PushNoticeCases, UpdateUploadCases, UpdateNotifyCases DEF Backed
    <2> QED BY <2>1, <2>2, FoundedMoves
  <1>3. ASSUME NEW w \in Workers, RequestFails(w)
        PROVE  Founded'
    <2>1. UNCHANGED <<notice, member>>
      BY <1>3 DEF RequestFails, tables
    <2>2. Backed(Idle)
      BY DEF Backed, Idle
    <2>3. req'[w] = Idle /\ \A v \in Workers \ {w} : req'[v] = req[v]
      BY <1>3, Moves, IdleIsSensible DEF RequestFails
    <2> QED BY <2>1, <2>2, <2>3, FoundedQuietly
  <1>4. CASE (\E s \in Slots : QueueStep(s)) \/ UNCHANGED vars
    <2>1. UNCHANGED <<notice, member, req>>
      BY <1>4 DEF QueueStep, tables, vars
    <2>2. Stored' = Stored
      BY <2>1 DEF Stored
    <2> QED BY <2>1, <2>2 DEF Founded, Backed
  <1> QED BY <1>1, <1>2, <1>3, <1>4, FoundedByStart, FoundedByCheck, FoundedByInsert,
             FoundedByCommit, FoundedByUser DEF Next, Request

\* What stood behind a message still does after a step.
LEMMA BackingStays ==
  ASSUME Stored \subseteq Stored', lost \subseteq lost',
         \A v \in Workers : req[v].step = "commit" =>
           req'[v] = req[v] \/ DOMAIN req[v].rows \subseteq Stored' \cup lost'
  PROVE  \A n \in Notices : Backing(n) => Backing(n)'
  BY DEF Backing

LEMMA KnownByEnqueue ==
  ASSUME QueueTypeOK, NEW messages \in SUBSET (Kinds \X Notices), IsFiniteSet(messages), NEW rowOf,
         \A m \in messages : rowOf[m[2]].type \in Types /\ rowOf[m[2]].receiver \in Users,
         Enqueue(messages, rowOf), UNCHANGED delivered
  PROVE  \A n \in Notices : Known(n)' => Known(n) \/ \E m \in messages : n = m[2]
  <1>1. \A s \in Slots : \/ task'[s] = task[s]
                         \/ \E m \in messages : task'[s] = Fresh(m[1], m[2], rowOf[m[2]])
    BY EnqueueEffect
  <1>2. \A s \in Slots : \/ task'[s].notice = task[s].notice
                         \/ \E m \in messages : task'[s].notice = m[2]
    <2>1. \A m \in messages : Fresh(m[1], m[2], rowOf[m[2]]).notice = m[2]
      BY DEF Fresh
    <2> QED BY <1>1, <2>1
  <1> QED BY <1>2 DEF Known

LEMMA KnownByPush ==
  ASSUME QueueTypeOK, NEW rows \in RowTables, SendPush(rows), UNCHANGED delivered
  PROVE  \A n \in Notices : Known(n)' => Known(n) \/ n \in DOMAIN rows
  <1>1. PICK messages \in SUBSET (Kinds \X Notices) : messages = {"gcm", "apns"} \X Pushed(rows)
    BY Pushes
  <1>2. /\ IsFiniteSet(messages)
        /\ \A m \in messages : /\ m[2] \in DOMAIN rows
                               /\ rows[m[2]].type \in Types /\ rows[m[2]].receiver \in Users
    BY <1>1, Pushes
  <1>3. Enqueue(messages, rows)
    BY <1>1 DEF SendPush
  <1> QED BY <1>2, <1>3, KnownByEnqueue

\* Tasks make nothing known that was not.
LEMMA KnownByTask ==
  ASSUME QueueTypeOK, NEW s \in Slots, TaskStep(s)
  PROVE  \A n \in Notices : Known(n)' => Known(n)
  <1> DEFINE Still == \A x \in Slots : task'[x].notice = task[x].notice \/ task'[x].notice = NoNotice
             Arrived == \A n \in Notices : \A d \in Devices \cup Users :
                          delivered'[<<n, d>>] = delivered[<<n, d>>] \/ n = task[s].notice
  <1>1. NoTask.notice = NoNotice
    BY DEF NoTask
  <1>2. PICK k \in Tasks : k = task[s]
    BY DEF QueueTypeOK, Tasks
  <1>3. CASE TaskBegin(s)
    <2>1. PICK new : /\ new = [k EXCEPT !.state = "running", !.left = Targets(k)]
      OBVIOUS
    <2>2. new.notice = k.notice
      <3>1. task[s].state = "queued" /\ k \in Tasks \ {NoTask}
        BY <1>2, <1>3 DEF TaskBegin, NoTask
      <3> QED BY <2>1, <3>1 DEF Tasks
    <2>3. task' = [task EXCEPT ![s] = new] \/ task' = [task EXCEPT ![s] = NoTask]
      BY <1>2, <1>3, <2>1 DEF TaskBegin
    <2>4. Still
      BY <1>1, <1>2, <2>2, <2>3 DEF QueueTypeOK
    <2>5. delivered' = delivered
      BY <1>3 DEF TaskBegin
    <2> QED BY <2>4, <2>5, QueueAssumption DEF Known
  <1>4. ASSUME NEW d \in Devices \cup Users, TaskSends(s, d) \/ TaskFails(s, d)
        PROVE  \A n \in Notices : Known(n)' => Known(n)
    <2>1. task[s].state = "running" /\ d \in task[s].left
      BY <1>4 DEF TaskSends, TaskFails
    <2>2. k \in Tasks \ {NoTask}
      BY <1>2, <2>1 DEF NoTask
    <2>3. Arrived
      <3>1. CASE Delivered(s, d)
        <4>1. PICK p \in Notices \X (Devices \cup Users) : p = <<task[s].notice, d>>
          BY <2>1, <3>1, DeliveredTyped
        <4>2. delivered' = [delivered EXCEPT ![p] = @ + 1]
          BY <3>1, <4>1 DEF Delivered
        <4> QED BY <4>1, <4>2 DEF QueueTypeOK
      <3>2. CASE UNCHANGED delivered
        BY <3>2
      <3> QED BY <1>4, <3>1, <3>2 DEF TaskSends, TaskFails
    <2>4. Still
      <3>1. PICK sent : sent = [k EXCEPT !.left = k.left \ {d}]
        OBVIOUS
      <3>2. PICK again : again = [k EXCEPT !.state = "queued", !.left = {}, !.tries = k.tries + 1]
        OBVIOUS
      <3>3. sent.notice = k.notice /\ again.notice = k.notice
        BY <2>2, <3>1, <3>2 DEF Tasks
      <3>4. \/ task' = [task EXCEPT ![s] = sent]
            \/ task' = [task EXCEPT ![s] = again]
            \/ task' = [task EXCEPT ![s] = NoTask]
        <4>1. CASE TaskSends(s, d)
          BY <1>2, <3>1, <4>1 DEF TaskSends
        <4>2. CASE TaskFails(s, d)
          BY <1>2, <3>2, <4>2 DEF TaskFails, Retried, QueueTypeOK
        <4> QED BY <1>4, <4>1, <4>2
      <3> QED BY <1>1, <1>2, <3>3, <3>4 DEF QueueTypeOK
    <2> QED BY <2>3, <2>4, QueueAssumption DEF Known
  <1>5. CASE TaskLost(s)
    <2>1. Still
      BY <1>1, <1>5 DEF TaskLost, QueueTypeOK
    <2>2. delivered' = delivered
      BY <1>5 DEF TaskLost
    <2> QED BY <2>1, <2>2, QueueAssumption DEF Known
  <1> QED BY <1>3, <1>4, <1>5 DEF TaskStep

\* A request sends nothing in this step.
LEMMA GroundedQuietly ==
  ASSUME Grounded, UNCHANGED <<task, delivered>>,
         Stored \subseteq Stored', lost \subseteq lost',
         \A v \in Workers : req[v].step = "commit" =>
           req'[v] = req[v] \/ DOMAIN req[v].rows \subseteq Stored' \cup lost'
  PROVE  Grounded'
  <1>1. \A n \in Notices : Known(n)' => Known(n)
    BY DEF Known
  <1>2. \A n \in Notices : Backing(n) => Backing(n)'
    BY BackingStays
  <1> QED BY <1>1, <1>2 DEF Grounded

LEMMA GroundedByRequest ==
  ASSUME Typed, Founded, Grounded, NEW w \in Workers, Request(w)
  PROVE  Grounded'
  <1>1. ASSUME NEW u \in Users, NEW t \in Trades,
               AskRead(w, u, t) \/ ResendRead(w, u, t) \/ \E source \in Sources : UpdateRead(w, u, t, source)
        PROVE  Grounded'
    <2>1. UNCHANGED <<task, delivered, notice, lost>> /\ req[w].step # "commit"
      <3>1. UNCHANGED <<queueVars, tables, lost>> /\ req[w] = Idle
        BY <1>1 DEF AskRead, ResendRead, UpdateRead, Begins
      <3> QED BY <3>1 DEF Idle, queueVars, tables
    <2>2. \A v \in Workers \ {w} : req'[v] = req[v]
      BY <1>1 DEF AskRead, ResendRead, UpdateRead, Continue, Done, Typed
    <2>3. Stored' = Stored
      BY <2>1 DEF Stored
    <2> QED BY <2>1, <2>2, <2>3, GroundedQuietly
  <1>2. ASSUME NEW u \in Users, NEW v \in Users, Propose(w, u, v)
        PROVE  Grounded'
    <2>1. PICK r \in Doings, messages \in SUBSET (Kinds \X Notices) :
             /\ Continue(w, r) /\ r.step = "commit"
             /\ IsFiniteSet(messages) /\ Enqueue(messages, r.rows)
             /\ \A m \in messages : /\ m[2] \in DOMAIN r.rows
                                    /\ r.rows[m[2]].type \in Types /\ r.rows[m[2]].receiver \in Users
      BY <1>2, ProposeCases
    <2>2. UNCHANGED <<delivered, notice, lost>> /\ req[w].step # "commit"
      BY <1>2 DEF Propose, Begins, Idle, tables
    <2>3. req'[w] = r /\ \A x \in Workers \ {w} : req'[x] = req[x]
      BY <2>1, Moves DEF Continue
    <2>4. Stored' = Stored
      BY <2>2 DEF Stored
    <2>5. \A n \in Notices : Backing(n) => Backing(n)'
      BY <2>2, <2>3, <2>4, BackingStays
    <2>6. \A n \in Notices : Known(n)' => Known(n) \/ \E m \in messages : n = m[2]
      BY <2>1, <2>2, KnownByEnqueue DEF Typed, NoticesTypeOK
    <2>7. \A n \in DOMAIN r.rows : Backing(n)'
      BY <2>1, <2>3 DEF Backing
    <2> QED BY <2>1, <2>5, <2>6, <2>7 DEF Grounded
  <1>3. CASE AskCheck(w) \/ UpdateUpload(w)
    <2>1. UNCHANGED <<task, delivered, notice, lost>> /\ req[w].step # "commit"
      BY <1>3 DEF AskCheck, UpdateUpload, queueVars, tables
    <2>2. \A v \in Workers \ {w} : req'[v] = req[v]
      BY <1>3, AskCheckCases, UpdateUploadCases, Moves DEF Continue
    <2>3. Stored' = Stored
      BY <2>1 DEF Stored
    <2> QED BY <2>1, <2>2, <2>3, GroundedQuietly
  <1>4. CASE InsertNotice(w) \/ Commit(w)
    <2>1. UNCHANGED <<task, delivered, lost>>
      BY <1>4 DEF InsertNotice, Commit, queueVars
    <2>2. \A v \in Workers \ {w} : req'[v] = req[v]
      BY <1>4 DEF InsertNotice, Commit, Continue, Done, Typed
    <2>3. Stored' = Stored \cup DOMAIN req[w].rows
      BY <1>4, Fields, StoredWith DEF InsertNotice, Commit
    <2> QED BY <2>1, <2>2, <2>3, GroundedQuietly
  <1>5. CASE PushNotice(w)
    <2>1. PICK rows \in RowTables : rows = req[w].rows
      BY Fields
    <2>2. UNCHANGED <<delivered, notice, lost>> /\ SendPush(rows) /\ req[w].step = "push"
      BY <1>5, <2>1 DEF PushNotice, tables
    <2>3. DOMAIN rows \subseteq Stored
      BY <2>1, <2>2 DEF Founded, Backed
    <2>4. \A v \in Workers \ {w} : req'[v] = req[v]
      BY <1>5 DEF PushNotice, Continue, Done, Typed
    <2>5. Stored' = Stored
      BY <2>2 DEF Stored
    <2>6. \A n \in Notices : Backing(n) => Backing(n)'
      BY <2>2, <2>4, <2>5, BackingStays
    <2>7. \A n \in Notices : Known(n)' => Known(n) \/ n \in DOMAIN rows
      BY <2>2, KnownByPush DEF Typed, NoticesTypeOK
    <2>8. \A n \in DOMAIN rows : Backing(n)
      BY <2>3 DEF Backing
    <2> QED BY <2>6, <2>7, <2>8 DEF Grounded
  <1>6. CASE UpdateNotify(w)
    <2>1. PICK r \in Doings : Continue(w, r) /\ SendPush(r.rows) /\ r.step = "commit"
      BY <1>6, UpdateNotifyCases
    <2>2. UNCHANGED <<delivered, notice, lost>> /\ req[w].step # "commit"
      BY <1>6 DEF UpdateNotify, tables
    <2>3. req'[w] = r /\ \A x \in Workers \ {w} : req'[x] = req[x]
      BY <2>1, Moves DEF Continue
    <2>4. Stored' = Stored
      BY <2>2 DEF Stored
    <2>5. \A n \in Notices : Backing(n) => Backing(n)'
      BY <2>2, <2>3, <2>4, BackingStays
    <2>6. PICK rows \in RowTables : rows = r.rows
      BY DEF Doings
    <2>7. \A n \in Notices : Known(n)' => Known(n) \/ n \in DOMAIN rows
      BY <2>1, <2>2, <2>6, KnownByPush DEF Typed, NoticesTypeOK
    <2>8. \A n \in DOMAIN r.rows : Backing(n)'
      BY <2>1, <2>3 DEF Backing
    <2> QED BY <2>5, <2>6, <2>7, <2>8 DEF Grounded
  <1>7. CASE RequestFails(w)
    <2>1. UNCHANGED <<task, delivered, notice>> /\ lost \subseteq lost'
          /\ (req[w].step = "commit" => DOMAIN req[w].rows \subseteq lost')
      BY <1>7 DEF RequestFails, tables
    <2>2. \A v \in Workers \ {w} : req'[v] = req[v]
      BY <1>7 DEF RequestFails, Typed
    <2>3. Stored' = Stored
      BY <2>1 DEF Stored
    <2> QED BY <2>1, <2>2, <2>3, GroundedQuietly
  <1> QED BY <1>1, <1>2, <1>3, <1>4, <1>5, <1>6, <1>7 DEF Request

LEMMA InitGrounded == Init => Grounded
  <1> SUFFICES ASSUME Init PROVE Grounded
    OBVIOUS
  <1>1. \A s \in Slots : task[s].notice = NoNotice
    BY DEF Init, QueueInit, NoTask
  <1>2. \A n \in Notices : \A d \in Devices \cup Users : delivered[<<n, d>>] = 0
    BY DEF Init, QueueInit
  <1> QED BY <1>1, <1>2, QueueAssumption DEF Grounded, Known

LEMMA NextGrounded == Typed /\ Founded /\ Grounded /\ [Next]_vars => Grounded'
  <1> SUFFICES ASSUME Typed, Founded, Grounded, [Next]_vars PROVE Grounded'
    OBVIOUS
  <1>1. CASE UserStep
    <2>1. UNCHANGED <<task, delivered, lost, req>>
      BY <1>1 DEF UserStep, UpdateSettings, AddDevice, UpdateStatus, queueVars
    <2>2. Stored' = Stored
      <3>1. CASE UNCHANGED notice
        BY <3>1 DEF Stored
      <3>2. ASSUME NEW u \in member, NEW n \in Notices, UpdateStatus(u, n) PROVE Stored' = Stored
        BY <3>2, ReadRows
      <3> QED BY <1>1, <3>1, <3>2 DEF UserStep
    <2> QED BY <2>1, <2>2, GroundedQuietly
  <1>2. ASSUME NEW s \in Slots, QueueStep(s)
        PROVE  Grounded'
    <2>1. \A n \in Notices : Known(n)' => Known(n)
      BY <1>2, KnownByTask DEF QueueStep, Typed, NoticesTypeOK
    <2>2. UNCHANGED <<notice, lost, req>>
      BY <1>2 DEF QueueStep, tables
    <2>3. Stored' = Stored
      BY <2>2 DEF Stored
    <2>4. \A n \in Notices : Backing(n) => Backing(n)'
      BY <2>2, <2>3, BackingStays
    <2> QED BY <2>1, <2>4 DEF Grounded
  <1>3. CASE UNCHANGED vars
    BY <1>3 DEF vars, queueVars, Grounded, Known, Backing, Stored
  <1> QED BY <1>1, <1>2, <1>3, GroundedByRequest DEF Next

\* Nobody gets a push or an invitation that no row stands behind, except while the
\* transaction that sent it is open or after it was rolled back; and who gets it
\* has an account (MessagesAreFounded; services.py:153, :182).
THEOREM NoMessageFromNothing == Spec => []MessagesAreFounded
  <1>1. Spec => [](Typed /\ Founded /\ Grounded)
    <2>1. Init => Typed /\ Founded /\ Grounded
      BY InitTyped, InitFounded, InitGrounded
    <2>2. Typed /\ Founded /\ Grounded /\ [Next]_vars => (Typed /\ Founded /\ Grounded)'
      BY NextTyped, NextFounded, NextGrounded
    <2> QED BY <2>1, <2>2, PTL DEF Spec
  <1> QED BY <1>1, GroundedMessages, PTL

-----------------------------------------------------------------------------
(* Attempts and deliveries. *)

\* Where tasks of each kind send to.
Boxes(k) ==
  CASE k = "gcm" -> Phones
    [] k = "apns" -> Tablets
    [] k = "mail" -> Users

\* Tasks that may still send notification n to d.
Due(k, n, d) ==
  {s \in Slots : /\ task[s].kind = k /\ task[s].notice = n
                 /\ \/ task[s].state = "queued"
                    \/ task[s].state = "running" /\ d \in task[s].left}

Owed(k, n, d) == delivered[<<n, d>>] + Cardinality(Due(k, n, d)) <= attempts[<<k, n>>]

Paid ==
  /\ \A s \in Slots : task[s].left \subseteq Boxes(task[s].kind)
  /\ \A k \in Kinds, n \in Notices : \A d \in Boxes(k) : Owed(k, n, d)

LEMMA BoxesApart ==
  /\ \A k \in Kinds : Boxes(k) \subseteq Devices \cup Users
  /\ \A k, l \in Kinds : Boxes(k) \cap Boxes(l) # {} => k = l
  BY QueueAssumption, DeviceAssumption DEF Kinds, Boxes, Devices

LEMMA DueCounts ==
  ASSUME NEW D \in SUBSET Slots, NEW E \in SUBSET Slots, NEW s
  PROVE  /\ Cardinality(D) \in Nat /\ Cardinality(E) \in Nat
         /\ E \subseteq D => Cardinality(E) <= Cardinality(D)
         /\ E \subseteq D \cup {s} => Cardinality(E) <= Cardinality(D) + 1
         /\ s \in D /\ E \subseteq D \ {s} => Cardinality(E) + 1 <= Cardinality(D)
  <1>1. IsFiniteSet(D) /\ IsFiniteSet(E)
    BY QueueAssumption, FS_Subset
  <1>2. Cardinality(D) \in Nat /\ Cardinality(E) \in Nat
    BY <1>1, FS_CardinalityType
  <1>3. ASSUME E \subseteq D PROVE Cardinality(E) <= Cardinality(D)
    BY <1>1, <1>3, FS_Subset
  <1>4. ASSUME E \subseteq D \cup {s} PROVE Cardinality(E) <= Cardinality(D) + 1
    <2>1. IsFiniteSet(D \cup {s})
          /\ (Cardinality(D \cup {s}) = Cardinality(D) \/ Cardinality(D \cup {s}) = Cardinality(D) + 1)
      BY <1>1, FS_AddElement
    <2>2. Cardinality(E) <= Cardinality(D \cup {s})
      BY <1>4, <2>1, FS_Subset
    <2> QED BY <1>2, <2>1, <2>2
  <1>5. ASSUME s \in D, E \subseteq D \ {s} PROVE Cardinality(E) + 1 <= Cardinality(D)
    <2>1. IsFiniteSet(D \ {s}) /\ Cardinality(D \ {s}) = Cardinality(D) - 1
      BY <1>1, <1>5, FS_RemoveElement
    <2>2. Cardinality(E) <= Cardinality(D \ {s})
      BY <1>5, <2>1, FS_Subset
    <2> QED BY <1>2, <2>1, <2>2
  <1> QED BY <1>2, <1>3, <1>4, <1>5

\* The numbers of Owed before and after a step.
LEMMA OwedNumbers ==
  ASSUME QueueTypeOK, NEW k \in Kinds, NEW n \in Notices, NEW d \in Boxes(k)
  PROVE  /\ delivered[<<n, d>>] \in Nat /\ attempts[<<k, n>>] \in Nat
         /\ Due(k, n, d) \subseteq Slots
  BY BoxesApart DEF QueueTypeOK, Due

LEMMA OwedStep ==
  ASSUME QueueTypeOK, NEW k \in Kinds, NEW n \in Notices, NEW d \in Boxes(k), Owed(k, n, d),
         NEW s, NEW sent \in 0 .. 1, NEW put \in 0 .. 1,
         delivered'[<<n, d>>] = delivered[<<n, d>>] + sent,
         attempts'[<<k, n>>] = attempts[<<k, n>>] + put,
         Due(k, n, d)' \subseteq Due(k, n, d) \cup {s},
         put = 0 => Due(k, n, d)' \subseteq Due(k, n, d),
         sent = 1 => s \in Due(k, n, d),
         sent = 1 /\ put = 0 => s \notin Due(k, n, d)'
  PROVE  Owed(k, n, d)'
  <1>1. PICK D \in SUBSET Slots : D = Due(k, n, d)
    BY OwedNumbers
  <1>2. PICK E \in SUBSET Slots : E = Due(k, n, d)'
    BY DEF Due
  <1>3. /\ Cardinality(D) \in Nat /\ Cardinality(E) \in Nat
        /\ E \subseteq D => Cardinality(E) <= Cardinality(D)
        /\ E \subseteq D \cup {s} => Cardinality(E) <= Cardinality(D) + 1
        /\ s \in D /\ E \subseteq D \ {s} => Cardinality(E) + 1 <= Cardinality(D)
    BY DueCounts
  <1>4. delivered[<<n, d>>] \in Nat /\ attempts[<<k, n>>] \in Nat
    BY OwedNumbers
  <1>5. delivered[<<n, d>>] + Cardinality(D) <= attempts[<<k, n>>]
    BY <1>1 DEF Owed
  <1>6. sent + Cardinality(E) <= Cardinality(D) + put
    <2>1. CASE put = 0 /\ sent = 0
      BY <1>1, <1>2, <1>3, <2>1
    <2>2. CASE put = 0 /\ sent = 1
      <3>1. s \in D /\ E \subseteq D \ {s}
        BY <1>1, <1>2, <2>2
      <3> QED BY <1>3, <2>2, <3>1
    <2>3. CASE put = 1 /\ sent = 0
      <3>1. E \subseteq D \cup {s}
        BY <1>1, <1>2
      <3> QED BY <1>3, <2>3, <3>1
    <2>4. CASE put = 1 /\ sent = 1
      <3>1. E \subseteq D
        BY <1>1, <1>2, <2>4
      <3> QED BY <1>3, <2>4, <3>1
    <2> QED BY <2>1, <2>2, <2>3, <2>4
  <1>7. delivered'[<<n, d>>] + Cardinality(E) <= attempts'[<<k, n>>]
    <2> DEFINE a == delivered[<<n, d>>]
               b == attempts[<<k, n>>]
               x == Cardinality(D)
               y == Cardinality(E)
    <2>1. a \in Nat /\ b \in Nat /\ x \in Nat /\ y \in Nat /\ a + x <= b /\ sent + y <= x + put
      BY <1>3, <1>4, <1>5, <1>6
    <2> HIDE DEF a, b, x, y
    <2>2. (a + sent) + y <= b + put
      BY <2>1
    <2> QED BY <2>2 DEF a, b, x, y
  <1> QED BY <1>2, <1>7 DEF Owed

Needs(t, k, n, d) ==
  /\ t.kind = k /\ t.notice = n
  /\ t.state = "queued" \/ (t.state = "running" /\ d \in t.left)

LEMMA DueNeeds == \A k, n, d : Due(k, n, d) = {s \in Slots : Needs(task[s], k, n, d)}
  BY DEF Due, Needs

\* One slot changes.
LEMMA PaidByReplacement ==
  ASSUME QueueTypeOK, Paid, NEW s \in Slots, NEW e \in Tasks, task' = [task EXCEPT ![s] = e],
         e.left \subseteq Boxes(e.kind),
         \A k \in Kinds, n \in Notices : \A d \in Boxes(k) : \E sent, put \in 0 .. 1 :
           /\ delivered'[<<n, d>>] = delivered[<<n, d>>] + sent
           /\ attempts'[<<k, n>>] = attempts[<<k, n>>] + put
           /\ put = 0 /\ Needs(e, k, n, d) => Needs(task[s], k, n, d)
           /\ sent = 1 => Needs(task[s], k, n, d)
           /\ sent = 1 /\ put = 0 => ~Needs(e, k, n, d)
  PROVE  Paid'
  <1>1. task'[s] = e /\ \A x \in Slots \ {s} : task'[x] = task[x]
    BY DEF QueueTypeOK
  <1>2. \A x \in Slots : task'[x].left \subseteq Boxes(task'[x].kind)
    BY <1>1 DEF Paid
  <1>3. ASSUME NEW k \in Kinds, NEW n \in Notices, NEW d \in Boxes(k)
        PROVE  Owed(k, n, d)'
    <2>1. Due(k, n, d) = {x \in Slots : Needs(task[x], k, n, d)}
      BY DueNeeds
    <2>2. Due(k, n, d)' = {x \in Slots : Needs(task'[x], k, n, d)}
      BY DEF Due, Needs
    <2>3. PICK sent \in 0 .. 1, put \in 0 .. 1 :
           /\ delivered'[<<n, d>>] = delivered[<<n, d>>] + sent
           /\ attempts'[<<k, n>>] = attempts[<<k, n>>] + put
           /\ put = 0 /\ Needs(e, k, n, d) => Needs(task[s], k, n, d)
           /\ sent = 1 => Needs(task[s], k, n, d)
           /\ sent = 1 /\ put = 0 => ~Needs(e, k, n, d)
      OBVIOUS
    <2>4. Due(k, n, d)' \subseteq Due(k, n, d) \cup {s}
      BY <1>1, <2>1, <2>2
    <2>5. put = 0 => Due(k, n, d)' \subseteq Due(k, n, d)
      BY <1>1, <2>1, <2>2, <2>3
    <2>6. sent = 1 => s \in Due(k, n, d)
      BY <2>1, <2>3
    <2>7. sent = 1 /\ put = 0 => s \notin Due(k, n, d)'
      BY <1>1, <2>2, <2>3
    <2>8. Owed(k, n, d)
      BY DEF Paid
    <2> QED BY <2>3, <2>4, <2>5, <2>6, <2>7, <2>8, OwedStep
  <1> QED BY <1>2, <1>3 DEF Paid

LEMMA PaidByBegin ==
  ASSUME QueueTypeOK, Paid, NEW s \in Slots, TaskBegin(s)
  PROVE  Paid'
  <1>1. PICK k \in Tasks : k = task[s]
    BY DEF QueueTypeOK, Tasks
  <1>2. k.state = "queued" /\ k \in Tasks \ {NoTask}
    BY <1>1 DEF TaskBegin, NoTask
  <1>3. Targets(k) \subseteq Boxes(k.kind) /\ Targets(k) \subseteq Devices \cup Users
    <2>1. k.kind \in Kinds /\ k.receiver \in Users
      BY <1>2 DEF Tasks
    <2> QED BY <1>1, <1>2, <2>1, TargetsTyped DEF Targets, Boxes, Kinds
  <1> DEFINE new == [k EXCEPT !.state = "running", !.left = Targets(k)]
  <1>4. new \in Tasks /\ new.kind = k.kind /\ new.notice = k.notice /\ new.left = Targets(k)
    BY <1>2, <1>3 DEF Tasks
  <1>5. task' = [task EXCEPT ![s] = new] \/ task' = [task EXCEPT ![s] = NoTask]
    BY <1>1 DEF TaskBegin
  <1> HIDE DEF new
  <1>6. NoTask \in Tasks /\ NoTask.left = {} /\ \A l, n, d : ~Needs(NoTask, l, n, d)
    BY DEF Tasks, NoTask, Needs
  <1>7. PICK e \in Tasks : /\ task' = [task EXCEPT ![s] = e] /\ e.left \subseteq Boxes(e.kind)
                           /\ \A l, n, d : Needs(e, l, n, d) => Needs(task[s], l, n, d)
    BY <1>1, <1>2, <1>3, <1>4, <1>5, <1>6 DEF Needs
  <1>8. UNCHANGED <<delivered, attempts>>
    BY DEF TaskBegin
  <1>9. ASSUME NEW l \in Kinds, NEW n \in Notices, NEW d \in Boxes(l)
        PROVE  \E sent, put \in 0 .. 1 :
                 /\ delivered'[<<n, d>>] = delivered[<<n, d>>] + sent
                 /\ attempts'[<<l, n>>] = attempts[<<l, n>>] + put
                 /\ put = 0 /\ Needs(e, l, n, d) => Needs(task[s], l, n, d)
                 /\ sent = 1 => Needs(task[s], l, n, d)
                 /\ sent = 1 /\ put = 0 => ~Needs(e, l, n, d)
    <2>1. delivered[<<n, d>>] \in Nat /\ attempts[<<l, n>>] \in Nat
      BY OwedNumbers
    <2> WITNESS 0 \in 0 .. 1, 0 \in 0 .. 1
    <2> QED BY <1>7, <1>8, <2>1
  <1> QED BY <1>7, <1>9, PaidByReplacement

\* How often a device has had a notification after one more delivery.
LEMMA DeliveredCounts ==
  ASSUME QueueTypeOK, NEW s \in Slots, NEW d, task[s].state = "running", d \in task[s].left,
         Delivered(s, d)
  PROVE  \A n \in Notices : \A x \in Devices \cup Users :
           delivered'[<<n, x>>] = delivered[<<n, x>>] + (IF n = task[s].notice /\ x = d THEN 1 ELSE 0)
  <1>1. PICK p \in Notices \X (Devices \cup Users) : p = <<task[s].notice, d>>
    BY DeliveredTyped
  <1>2. delivered' = [delivered EXCEPT ![p] = @ + 1]
    BY <1>1 DEF Delivered
  <1>3. ASSUME NEW n \in Notices, NEW x \in Devices \cup Users
        PROVE  delivered'[<<n, x>>] = delivered[<<n, x>>] + (IF n = task[s].notice /\ x = d THEN 1 ELSE 0)
    <2>1. PICK q \in Notices \X (Devices \cup Users) : q = <<n, x>>
      OBVIOUS
    <2>2. delivered'[q] = delivered[q] + (IF q = p THEN 1 ELSE 0)
      BY <1>2 DEF QueueTypeOK
    <2>3. q = p <=> n = task[s].notice /\ x = d
      BY <1>1, <2>1
    <2> QED BY <2>1, <2>2, <2>3
  <1> QED BY <1>3

\* A running task with d among its targets is one of kind l if d belongs to l.
LEMMA RunningNeeds ==
  ASSUME QueueTypeOK, Paid, NEW s \in Slots, NEW d, task[s].state = "running", d \in task[s].left,
         NEW l \in Kinds, NEW n, n = task[s].notice, d \in Boxes(l)
  PROVE  task[s].kind = l /\ Needs(task[s], l, n, d)
  <1>1. task[s].kind \in Kinds /\ d \in Boxes(task[s].kind)
    BY TaskRecords DEF Paid
  <1>2. task[s].kind = l
    BY <1>1, BoxesApart
  <1> QED BY <1>2 DEF Needs

LEMMA PaidBySending ==
  ASSUME QueueTypeOK, Paid, NEW s \in Slots, NEW d, TaskSends(s, d)
  PROVE  Paid'
  <1>1. PICK k \in Tasks : k = task[s]
    BY DEF QueueTypeOK, Tasks
  <1>2. k.state = "running" /\ k \in Tasks \ {NoTask} /\ d \in k.left
    BY <1>1 DEF TaskSends, NoTask
  <1> DEFINE new == [k EXCEPT !.left = k.left \ {d}]
  <1>3. /\ new \in Tasks /\ new.kind = k.kind /\ new.notice = k.notice
        /\ new.state = k.state /\ new.left = k.left \ {d}
    BY <1>2 DEF Tasks
  <1>4. task' = [task EXCEPT ![s] = new] \/ task' = [task EXCEPT ![s] = NoTask]
    BY <1>1 DEF TaskSends
  <1> HIDE DEF new
  <1>5. NoTask \in Tasks /\ NoTask.left = {} /\ \A l, n, x : ~Needs(NoTask, l, n, x)
    BY DEF Tasks, NoTask, Needs
  <1>6. PICK e \in Tasks : /\ task' = [task EXCEPT ![s] = e] /\ e.left \subseteq Boxes(e.kind)
                           /\ \A l, n, x : Needs(e, l, n, x) => Needs(task[s], l, n, x)
                           /\ \A l, n : ~Needs(e, l, n, d)
    <2>1. k.left \subseteq Boxes(k.kind)
      BY <1>1 DEF Paid
    <2> QED BY <1>1, <1>2, <1>3, <1>4, <1>5, <2>1 DEF Needs
  <1>7. attempts' = attempts /\ Delivered(s, d)
    BY DEF TaskSends
  <1>8. ASSUME NEW l \in Kinds, NEW n \in Notices, NEW x \in Boxes(l)
        PROVE  \E sent, put \in 0 .. 1 :
                 /\ delivered'[<<n, x>>] = delivered[<<n, x>>] + sent
                 /\ attempts'[<<l, n>>] = attempts[<<l, n>>] + put
                 /\ put = 0 /\ Needs(e, l, n, x) => Needs(task[s], l, n, x)
                 /\ sent = 1 => Needs(task[s], l, n, x)
                 /\ sent = 1 /\ put = 0 => ~Needs(e, l, n, x)
    <2>1. attempts[<<l, n>>] \in Nat
      BY OwedNumbers
    <2>2. PICK sent \in 0 .. 1 : sent = IF n = task[s].notice /\ x = d THEN 1 ELSE 0
      OBVIOUS
    <2>3. delivered'[<<n, x>>] = delivered[<<n, x>>] + sent
      BY <1>1, <1>2, <1>7, <2>2, DeliveredCounts, BoxesApart
    <2>4. sent = 1 => Needs(task[s], l, n, x) /\ ~Needs(e, l, n, x)
      BY <1>1, <1>2, <1>6, <2>2, RunningNeeds
    <2> WITNESS sent \in 0 .. 1, 0 \in 0 .. 1
    <2> QED BY <1>6, <1>7, <2>1, <2>3, <2>4
  <1> QED BY <1>6, <1>8, PaidByReplacement

LEMMA PaidByFailure ==
  ASSUME QueueTypeOK, Paid, NEW s \in Slots, NEW d, TaskFails(s, d)
  PROVE  Paid'
  <1>1. PICK k \in Tasks : k = task[s]
    BY DEF QueueTypeOK, Tasks
  <1>2. k.state = "running" /\ k \in Tasks \ {NoTask} /\ d \in k.left
    BY <1>1 DEF TaskFails, NoTask
  <1>3. PICK p \in Kinds \X Notices : p = <<task[s].kind, task[s].notice>>
    BY <1>1, <1>2, TaskRecords
  <1>4. ASSUME NEW l \in Kinds, NEW n \in Notices, NEW x \in Boxes(l)
        PROVE  \E sent \in 0 .. 1 :
                 /\ delivered'[<<n, x>>] = delivered[<<n, x>>] + sent
                 /\ sent = 1 => p = <<l, n>> /\ Needs(task[s], l, n, x)
    <2>1. delivered[<<n, x>>] \in Nat
      BY OwedNumbers
    <2>2. CASE UNCHANGED delivered
      <3> WITNESS 0 \in 0 .. 1
      <3> QED BY <2>1, <2>2
    <2>3. CASE Delivered(s, d)
      <3>1. PICK sent \in 0 .. 1 : sent = IF n = task[s].notice /\ x = d THEN 1 ELSE 0
        OBVIOUS
      <3>2. delivered'[<<n, x>>] = delivered[<<n, x>>] + sent
        BY <1>1, <1>2, <2>3, <3>1, DeliveredCounts, BoxesApart
      <3>3. sent = 1 => p = <<l, n>> /\ Needs(task[s], l, n, x)
        BY <1>1, <1>2, <1>3, <3>1, RunningNeeds
      <3> QED BY <3>2, <3>3
    <2> QED BY <2>2, <2>3 DEF TaskFails
  <1>5. CASE task[s].tries < MaxRetries
    <2> DEFINE again == [k EXCEPT !.state = "queued", !.left = {}, !.tries = k.tries + 1]
    <2>1. k.tries + 1 \in 0 .. MaxRetries
      <3>1. k.tries \in 0 .. MaxRetries /\ k.tries < MaxRetries /\ MaxRetries \in Nat
        BY <1>1, <1>2, <1>5, TaskRecords, QueueAssumption
      <3> QED BY <3>1
    <2>2. again \in Tasks /\ again.kind = k.kind /\ again.notice = k.notice /\ again.left = {}
      BY <1>2, <2>1 DEF Tasks
    <2>3. task' = [task EXCEPT ![s] = again]
      BY <1>1, <1>5 DEF TaskFails, Retried, QueueTypeOK
    <2> HIDE DEF again
    <2>4. attempts' = [attempts EXCEPT ![p] = @ + 1]
      BY <1>3, <1>5 DEF TaskFails, Retried
    <2>5. ASSUME NEW l \in Kinds, NEW n \in Notices, NEW x \in Boxes(l)
          PROVE  \E sent, put \in 0 .. 1 :
                   /\ delivered'[<<n, x>>] = delivered[<<n, x>>] + sent
                   /\ attempts'[<<l, n>>] = attempts[<<l, n>>] + put
                   /\ put = 0 /\ Needs(again, l, n, x) => Needs(task[s], l, n, x)
                   /\ sent = 1 => Needs(task[s], l, n, x)
                   /\ sent = 1 /\ put = 0 => ~Needs(again, l, n, x)
      <3>1. PICK sent \in 0 .. 1 : /\ delivered'[<<n, x>>] = delivered[<<n, x>>] + sent
                                   /\ sent = 1 => p = <<l, n>> /\ Needs(task[s], l, n, x)
        BY <1>4
      <3>2. PICK q \in Kinds \X Notices : q = <<l, n>>
        OBVIOUS
      <3>3. PICK put \in 0 .. 1 : put = IF q = p THEN 1 ELSE 0
        OBVIOUS
      <3>4. attempts'[q] = attempts[q] + put
        BY <2>4, <3>3 DEF QueueTypeOK
      <3>5. Needs(again, l, n, x) => q = p
        BY <1>1, <1>3, <2>2, <3>2 DEF Needs
      <3> WITNESS sent \in 0 .. 1, put \in 0 .. 1
      <3> QED BY <3>1, <3>2, <3>3, <3>4, <3>5
    <2> QED BY <2>2, <2>3, <2>5, PaidByReplacement
  <1>6. CASE ~(task[s].tries < MaxRetries)
    <2>1. NoTask \in Tasks /\ NoTask.left = {} /\ \A l, n, x : ~Needs(NoTask, l, n, x)
      BY DEF Tasks, NoTask, Needs
    <2>2. task' = [task EXCEPT ![s] = NoTask] /\ attempts' = attempts
      BY <1>6 DEF TaskFails, Retried
    <2>3. ASSUME NEW l \in Kinds, NEW n \in Notices, NEW x \in Boxes(l)
          PROVE  \E sent, put \in 0 .. 1 :
                   /\ delivered'[<<n, x>>] = delivered[<<n, x>>] + sent
                   /\ attempts'[<<l, n>>] = attempts[<<l, n>>] + put
                   /\ put = 0 /\ Needs(NoTask, l, n, x) => Needs(task[s], l, n, x)
                   /\ sent = 1 => Needs(task[s], l, n, x)
                   /\ sent = 1 /\ put = 0 => ~Needs(NoTask, l, n, x)
      <3>1. PICK sent \in 0 .. 1 : /\ delivered'[<<n, x>>] = delivered[<<n, x>>] + sent
                                   /\ sent = 1 => p = <<l, n>> /\ Needs(task[s], l, n, x)
        BY <1>4
      <3>2. attempts[<<l, n>>] \in Nat
        BY OwedNumbers
      <3> WITNESS sent \in 0 .. 1, 0 \in 0 .. 1
      <3> QED BY <2>1, <2>2, <3>1, <3>2
    <2> QED BY <2>1, <2>2, <2>3, PaidByReplacement
  <1> QED BY <1>5, <1>6

LEMMA PaidByDeath ==
  ASSUME QueueTypeOK, Paid, NEW s \in Slots, TaskLost(s)
  PROVE  Paid'
  <1>1. NoTask \in Tasks /\ NoTask.left = {} /\ \A l, n, x : ~Needs(NoTask, l, n, x)
    BY DEF Tasks, NoTask, Needs
  <1>2. task' = [task EXCEPT ![s] = NoTask] /\ UNCHANGED <<delivered, attempts>>
    BY DEF TaskLost
  <1>3. ASSUME NEW l \in Kinds, NEW n \in Notices, NEW x \in Boxes(l)
        PROVE  \E sent, put \in 0 .. 1 :
                 /\ delivered'[<<n, x>>] = delivered[<<n, x>>] + sent
                 /\ attempts'[<<l, n>>] = attempts[<<l, n>>] + put
                 /\ put = 0 /\ Needs(NoTask, l, n, x) => Needs(task[s], l, n, x)
                 /\ sent = 1 => Needs(task[s], l, n, x)
                 /\ sent = 1 /\ put = 0 => ~Needs(NoTask, l, n, x)
    <2>1. delivered[<<n, x>>] \in Nat /\ attempts[<<l, n>>] \in Nat
      BY OwedNumbers
    <2> WITNESS 0 \in 0 .. 1, 0 \in 0 .. 1
    <2> QED BY <1>1, <1>2, <2>1
  <1> QED BY <1>1, <1>2, <1>3, PaidByReplacement

LEMMA PaidByEnqueue ==
  ASSUME QueueTypeOK, Paid, NEW messages \in SUBSET (Kinds \X Notices), IsFiniteSet(messages), NEW rowOf,
         \A m \in messages : rowOf[m[2]].type \in Types /\ rowOf[m[2]].receiver \in Users,
         Enqueue(messages, rowOf), UNCHANGED delivered
  PROVE  Paid'
  <1>1. /\ \A a \in Kinds \X Notices :
              attempts'[a] = attempts[a] + (IF a \in messages THEN 1 ELSE 0)
        /\ \A s \in Slots :
              \/ task'[s] = task[s]
              \/ \E m \in messages : task'[s] = Fresh(m[1], m[2], rowOf[m[2]])
        /\ \A m \in messages : \E s \in Slots : \A x \in Slots \ {s} :
              \/ task'[x] = task[x]
              \/ \E k \in messages : k # m /\ task'[x] = Fresh(k[1], k[2], rowOf[k[2]])
    BY EnqueueEffect
  <1>2. \A m \in messages : LET f == Fresh(m[1], m[2], rowOf[m[2]])
                            IN f.kind = m[1] /\ f.notice = m[2] /\ f.left = {}
    BY DEF Fresh
  <1>3. \A s \in Slots : task'[s].left \subseteq Boxes(task'[s].kind)
    BY <1>1, <1>2 DEF Paid
  <1>4. ASSUME NEW k \in Kinds, NEW n \in Notices, NEW d \in Boxes(k)
        PROVE  Owed(k, n, d)'
    <2>1. Due(k, n, d) = {x \in Slots : Needs(task[x], k, n, d)}
      BY DueNeeds
    <2>2. Due(k, n, d)' = {x \in Slots : Needs(task'[x], k, n, d)}
      BY DEF Due, Needs
    <2>3. PICK a \in Kinds \X Notices : a = <<k, n>>
      OBVIOUS
    <2>4. \A m \in messages : Needs(Fresh(m[1], m[2], rowOf[m[2]]), k, n, d) => m = a
      BY <1>2, <2>3 DEF Needs
    <2>5. PICK put \in 0 .. 1 : put = IF a \in messages THEN 1 ELSE 0
      OBVIOUS
    <2>6. PICK s : Due(k, n, d)' \subseteq Due(k, n, d) \cup {s}
      <3>1. CASE a \in messages
        <4>1. PICK s \in Slots : \A x \in Slots \ {s} :
              \/ task'[x] = task[x]
              \/ \E m \in messages : m # a /\ task'[x] = Fresh(m[1], m[2], rowOf[m[2]])
          BY <1>1, <3>1
        <4>2. Due(k, n, d)' \subseteq Due(k, n, d) \cup {s}
          BY <2>1, <2>2, <2>4, <4>1
        <4> QED BY <4>2
      <3>2. CASE a \notin messages
        BY <1>1, <2>1, <2>2, <2>4, <3>2
      <3> QED BY <3>1, <3>2
    <2>7. put = 0 => Due(k, n, d)' \subseteq Due(k, n, d)
      BY <1>1, <2>1, <2>2, <2>4, <2>5
    <2>8. PICK sent \in 0 .. 1 : sent = 0
      OBVIOUS
    <2>9. attempts'[<<k, n>>] = attempts[<<k, n>>] + put
      BY <1>1, <2>3, <2>5
    <2>10. delivered'[<<n, d>>] = delivered[<<n, d>>] + sent
      <3>1. delivered[<<n, d>>] \in Nat
        BY OwedNumbers
      <3> QED BY <2>8, <3>1
    <2>11. Owed(k, n, d)
      BY DEF Paid
    <2>12. sent = 1 => s \in Due(k, n, d)
      BY <2>8
    <2>13. sent = 1 /\ put = 0 => s \notin Due(k, n, d)'
      BY <2>8
    <2> QED BY <2>6, <2>7, <2>9, <2>10, <2>11, <2>12, <2>13, OwedStep
  <1> QED BY <1>3, <1>4 DEF Paid

LEMMA PaidByPush ==
  ASSUME QueueTypeOK, Paid, NEW rows \in RowTables, SendPush(rows), UNCHANGED delivered
  PROVE  Paid'
  <1>1. PICK messages \in SUBSET (Kinds \X Notices) : messages = {"gcm", "apns"} \X Pushed(rows)
    BY Pushes
  <1>2. /\ IsFiniteSet(messages)
        /\ \A m \in messages : rows[m[2]].type \in Types /\ rows[m[2]].receiver \in Users
    BY <1>1, Pushes
  <1>3. Enqueue(messages, rows)
    BY <1>1 DEF SendPush
  <1> QED BY <1>2, <1>3, PaidByEnqueue

LEMMA PaidUnchanged ==
  ASSUME Paid, UNCHANGED <<task, delivered, attempts>>
  PROVE  Paid'
  BY DEF Paid, Owed, Due

LEMMA InitPaid == Init => Paid
  <1> SUFFICES ASSUME Init PROVE Paid
    OBVIOUS
  <1>1. \A s \in Slots : task[s] = NoTask
    BY DEF Init, QueueInit
  <1>2. ASSUME NEW k \in Kinds, NEW n \in Notices, NEW d \in Boxes(k)
        PROVE  Owed(k, n, d)
    <2>1. Due(k, n, d) = {}
      BY <1>1 DEF Due, NoTask
    <2>2. delivered[<<n, d>>] = 0 /\ attempts[<<k, n>>] = 0
      BY BoxesApart DEF Init, QueueInit
    <2> QED BY <2>1, <2>2, FS_EmptySet DEF Owed
  <1> QED BY <1>1, <1>2 DEF Paid, NoTask

LEMMA NextPaid == Typed /\ Paid /\ [Next]_vars => Paid'
  <1> SUFFICES ASSUME Typed, Paid, [Next]_vars PROVE Paid'
    OBVIOUS
  <1>1. QueueTypeOK
    BY DEF Typed, NoticesTypeOK
  <1>2. ASSUME NEW w \in Workers, NEW u \in Users, NEW t \in Trades,
               AskRead(w, u, t) \/ ResendRead(w, u, t) \/ \E source \in Sources : UpdateRead(w, u, t, source)
        PROVE  Paid'
    <2>1. UNCHANGED queueVars
      BY <1>2 DEF AskRead, ResendRead, UpdateRead
    <2> QED BY <2>1, PaidUnchanged DEF queueVars
  <1>3. ASSUME NEW w \in Workers, NEW u \in Users, NEW v \in Users, Propose(w, u, v)
        PROVE  Paid'
    <2>1. UNCHANGED delivered
      BY <1>3 DEF Propose
    <2> QED BY <1>1, <1>3, <2>1, ProposeCases, PaidByEnqueue
  <1>4. ASSUME NEW w \in Workers,
               AskCheck(w) \/ InsertNotice(w) \/ UpdateUpload(w) \/ Commit(w) \/ RequestFails(w)
        PROVE  Paid'
    <2>1. UNCHANGED <<task, delivered, attempts>>
      BY <1>4 DEF AskCheck, InsertNotice, UpdateUpload, Commit, RequestFails, queueVars
    <2> QED BY <2>1, PaidUnchanged
  <1>5. ASSUME NEW w \in Workers, PushNotice(w)
        PROVE  Paid'
    <2>1. SendPush(req[w].rows) /\ UNCHANGED delivered /\ req[w].rows \in RowTables
      BY <1>5, Fields DEF PushNotice
    <2> QED BY <1>1, <2>1, PaidByPush
  <1>6. ASSUME NEW w \in Workers, UpdateNotify(w)
        PROVE  Paid'
    <2>1. PICK r \in Doings : SendPush(r.rows)
      BY <1>6, UpdateNotifyCases
    <2>2. UNCHANGED delivered /\ r.rows \in RowTables
      BY <1>6 DEF UpdateNotify, Doings
    <2> QED BY <1>1, <2>1, <2>2, PaidByPush
  <1>7. CASE UserStep
    <2>1. UNCHANGED <<task, delivered, attempts>>
      BY <1>7 DEF UserStep, UpdateSettings, AddDevice, UpdateStatus, queueVars
    <2> QED BY <2>1, PaidUnchanged
  <1>8. ASSUME NEW s \in Slots, QueueStep(s)
        PROVE  Paid'
    BY <1>1, <1>8, PaidByBegin, PaidBySending, PaidByFailure, PaidByDeath DEF QueueStep, TaskStep
  <1>9. CASE UNCHANGED vars
    BY <1>9, PaidUnchanged DEF vars, queueVars
  <1> QED BY <1>2, <1>3, <1>4, <1>5, <1>6, <1>7, <1>8, <1>9 DEF Next, Request

LEMMA PaidMessages == Typed /\ Paid => OneMessagePerAttempt
  <1> SUFFICES ASSUME Typed, Paid PROVE OneMessagePerAttempt
    OBVIOUS
  <1>1. QueueTypeOK
    BY DEF Typed, NoticesTypeOK
  <1>2. ASSUME NEW k \in Kinds, NEW n \in Notices, NEW d \in Boxes(k)
        PROVE  delivered[<<n, d>>] <= attempts[<<k, n>>]
    <2>1. Cardinality(Due(k, n, d)) \in Nat
      <3>1. IsFiniteSet(Due(k, n, d))
        BY <1>1, OwedNumbers, QueueAssumption, FS_Subset
      <3> QED BY <3>1, FS_CardinalityType
    <2>2. Owed(k, n, d)
      BY DEF Paid
    <2>3. delivered[<<n, d>>] \in Nat /\ attempts[<<k, n>>] \in Nat
      BY <1>1, OwedNumbers
    <2> QED BY <2>1, <2>2, <2>3 DEF Owed
  <1> QED BY <1>2 DEF OneMessagePerAttempt, Boxes, Kinds

\* A device or mailbox gets a notification at most once per attempt, counting the
\* tasks that may still send it: a repeat means that a task failed after the
\* gateway had the message and was run again, or that somebody asked again
\* (OneMessagePerAttempt; contrib/tasks/notifications.py).
THEOREM MessagesArePaidFor == Spec => []OneMessagePerAttempt
  <1>1. Spec => [](Typed /\ Paid)
    <2>1. Init => Typed /\ Paid
      BY InitTyped, InitPaid
    <2>2. Typed /\ Paid /\ [Next]_vars => (Typed /\ Paid)'
      BY NextTyped, NextPaid
    <2> QED BY <2>1, <2>2, PTL DEF Spec
  <1> QED BY <1>1, PaidMessages, PTL

-----------------------------------------------------------------------------
(* One open request for the geodata of a trade. *)

\* A request that is about to be saved is the first of its kind.
Asking(r) ==
  /\ r.step = "insert" =>
       /\ \A m, n \in DOMAIN r.rows : m = n
       /\ \A n \in DOMAIN r.rows : r.rows[n].type = "geodata_missing" =>
            /\ r.rows[n].trade = r.trade /\ r.trade \in Trades
            /\ r.trade \in tangled \/ Duplicate(r.trade, r.rows[n].receiver) = {}
  /\ r.step = "commit" => \A n \in DOMAIN r.rows : r.rows[n].type # "geodata_missing"

Single == \A t \in Trades \ tangled, u \in Users : \A m, n \in Duplicate(t, u) : m = n

OpenOnce == Single /\ \A w \in Workers : Asking(req[w])

LEMMA SingleOpens == Typed /\ Single => OneOpenRequest
  <1> SUFFICES ASSUME Typed, Single, NEW t \in Trades \ tangled, NEW u \in Users
               PROVE  Cardinality(Duplicate(t, u)) <= 1
    BY DEF OneOpenRequest
  <1>1. CASE Duplicate(t, u) = {}
    BY <1>1, FS_EmptySet
  <1>2. CASE Duplicate(t, u) # {}
    <2>1. PICK n : n \in Duplicate(t, u)
      BY <1>2
    <2>2. Duplicate(t, u) = {n}
      BY <2>1 DEF Single
    <2> QED BY <2>2, FS_Singleton
  <1> QED BY <1>1, <1>2

\* No request becomes open in this step.
LEMMA OpenOnceQuietly ==
  ASSUME OpenOnce, NEW w \in Workers, tangled \subseteq tangled',
         \A t, u : Duplicate(t, u)' \subseteq Duplicate(t, u),
         \A v \in Workers \ {w} : req'[v] = req[v], Asking(req'[w])
  PROVE  OpenOnce'
  <1>1. Single'
    BY DEF OpenOnce, Single
  <1>2. \A v \in Workers : Asking(req'[v])
    BY DEF OpenOnce
  <1>3. ASSUME NEW v \in Workers PROVE Asking(req[v])'
    BY <1>2 DEF Asking
  <1> QED BY <1>1, <1>3 DEF OpenOnce

LEMMA SameDuplicates ==
  ASSUME UNCHANGED notice
  PROVE  \A t, u : Duplicate(t, u)' = Duplicate(t, u)
  BY DEF Duplicate, Missing, Stored

LEMMA OpenOnceMoves ==
  ASSUME Typed, OpenOnce, NEW w \in Workers, UNCHANGED notice,
         Done(w) \/ \E r \in Doings : Continue(w, r) /\ Asking(r)
  PROVE  OpenOnce'
  <1>1. \A t, u : Duplicate(t, u)' \subseteq Duplicate(t, u)
    BY SameDuplicates
  <1>2. CASE Done(w)
    <2>1. Asking(Idle)
      BY DEF Asking, Idle
    <2>2. req'[w] = Idle /\ (\A v \in Workers \ {w} : req'[v] = req[v]) /\ tangled' = tangled
      BY <1>2, Moves, IdleIsSensible DEF Done
    <2> QED BY <1>1, <2>1, <2>2, OpenOnceQuietly
  <1>3. ASSUME NEW r \in Doings, Continue(w, r), Asking(r) PROVE OpenOnce'
    <2>1. req'[w] = r /\ (\A v \in Workers \ {w} : req'[v] = req[v]) /\ tangled \subseteq tangled'
      BY <1>3, Moves DEF Continue
    <2> QED BY <1>1, <1>3, <2>1, OpenOnceQuietly
  <1> QED BY <1>2, <1>3

LEMMA OpenOnceByStart ==
  ASSUME Typed, OpenOnce, NEW w \in Workers, NEW u \in Users, NEW t \in Trades,
         AskRead(w, u, t) \/ ResendRead(w, u, t) \/ \E source \in Sources : UpdateRead(w, u, t, source)
  PROVE  OpenOnce'
  <1>1. UNCHANGED notice
    BY DEF AskRead, ResendRead, UpdateRead, tables
  <1>2. CASE AskRead(w, u, t)
    BY <1>1, <1>2, AskReadCases, OpenOnceMoves DEF Asking
  <1>3. CASE ResendRead(w, u, t)
    <2>1. PICK v \in Parties[t] \ {u}, r \in Doings :
            /\ v \in Users /\ Continue(w, r) /\ r.step = "insert"
            /\ r.rows = NewRow(FromTransaction("transaction_pending", t, v, u))
      BY <1>3, ResendReadCases
    <2>2. PICK row \in Row : row = FromTransaction("transaction_pending", t, v, u)
      BY <2>1, FromTransactionIsRow DEF Types
    <2>3. DOMAIN r.rows = {NewKey} /\ r.rows[NewKey] = row
      BY <1>3, <2>1, <2>2, NewRowTable DEF ResendRead
    <2>4. row.type # "geodata_missing"
      BY <2>2 DEF FromTransaction
    <2>5. Asking(r)
      BY <2>1, <2>3, <2>4 DEF Asking
    <2> QED BY <1>1, <2>1, <2>5, OpenOnceMoves
  <1>4. ASSUME NEW source \in Sources, UpdateRead(w, u, t, source)
        PROVE  OpenOnce'
    BY <1>1, <1>4, UpdateReadCases, OpenOnceMoves DEF Asking
  <1> QED BY <1>2, <1>3, <1>4

LEMMA OpenOnceByPropose ==
  ASSUME Typed, OpenOnce, NEW w \in Workers, NEW u \in Users, NEW v \in Users, Propose(w, u, v)
  PROVE  OpenOnce'
  <1>1. PICK r \in Doings :
           /\ Continue(w, r) /\ Unused # {} /\ r.step = "commit"
           /\ r.rows = NewRow(FromTransaction("transaction_pending", NoTrade, v, u))
    BY ProposeCases
  <1>2. PICK row \in Row : row = FromTransaction("transaction_pending", NoTrade, v, u)
    BY FromTransactionIsRow DEF Types
  <1>3. DOMAIN r.rows = {NewKey} /\ r.rows[NewKey] = row
    BY <1>1, <1>2, NewRowTable
  <1>4. row.type # "geodata_missing"
    BY <1>2 DEF FromTransaction
  <1>5. Asking(r)
    BY <1>1, <1>3, <1>4 DEF Asking
  <1>6. UNCHANGED notice
    BY DEF Propose, tables
  <1> QED BY <1>1, <1>5, <1>6, OpenOnceMoves

LEMMA OpenOnceByCheck ==
  ASSUME Typed, OpenOnce, NEW w \in Workers, AskCheck(w)
  PROVE  OpenOnce'
  <1>1. UNCHANGED notice
    BY DEF AskCheck, tables
  <1>2. PICK t \in req[w].left, r \in Doings :
           /\ t \in Trades /\ Buyer[t] \in Users
           /\ req[w].user \in Users /\ Continue(w, r) /\ r.trade = t
           /\ \/ r.step = "push"
              \/ /\ r.step = "insert"
                 /\ Duplicate(t, Buyer[t]) = {} /\ Unused # {}
                 /\ r.rows = NewRow(FromTransaction("geodata_missing", t, Buyer[t], req[w].user))
    BY AskCheckCases
  <1>3. CASE r.step = "push"
    BY <1>1, <1>2, <1>3, OpenOnceMoves DEF Asking
  <1>4. CASE r.step = "insert"
    <2>1. PICK row \in Row : row = FromTransaction("geodata_missing", t, Buyer[t], req[w].user)
      BY <1>2, FromTransactionIsRow DEF Types
    <2>2. DOMAIN r.rows = {NewKey} /\ r.rows[NewKey] = row
      BY <1>2, <1>4, <2>1, NewRowTable
    <2>3. row.trade = t /\ row.receiver = Buyer[t]
      BY <2>1 DEF FromTransaction
    <2>4. Asking(r)
      BY <1>2, <1>4, <2>2, <2>3 DEF Asking
    <2> QED BY <1>1, <1>2, <2>4, OpenOnceMoves
  <1> QED BY <1>2, <1>3, <1>4

\* Rows of a table after some were inserted.
LEMMA InsertedRows ==
  ASSUME Typed, NEW rows \in RowTables, notice' = With(rows)
  PROVE  /\ \A t : \A n \in Missing(t)' :
              \/ n \in DOMAIN rows /\ rows[n].type = "geodata_missing" /\ rows[n].trade = t
              \/ n \notin DOMAIN rows /\ n \in Missing(t)
         /\ \A t, u : \A n \in Duplicate(t, u)' :
              \/ /\ n \in DOMAIN rows /\ rows[n].type = "geodata_missing"
                 /\ rows[n].trade = t /\ rows[n].receiver = u
              \/ n \in Duplicate(t, u)
  <1>1. /\ Stored' = Stored \cup DOMAIN rows /\ DOMAIN rows \subseteq Notices
        /\ \A n \in Notices : notice'[n] = IF n \in DOMAIN rows THEN rows[n] ELSE notice[n]
    BY StoredWith, TableRows
  <1>2. Stored \subseteq Notices
    BY DEF Stored
  <1>3. ASSUME NEW t, NEW n \in Missing(t)'
        PROVE  \/ n \in DOMAIN rows /\ rows[n].type = "geodata_missing" /\ rows[n].trade = t
               \/ n \notin DOMAIN rows /\ n \in Missing(t)
    BY <1>1, <1>2 DEF Missing
  <1>4. ASSUME NEW t, NEW u, NEW n \in Duplicate(t, u)'
        PROVE  \/ /\ n \in DOMAIN rows /\ rows[n].type = "geodata_missing"
                  /\ rows[n].trade = t /\ rows[n].receiver = u
               \/ n \in Duplicate(t, u)
    <2>1. n \in Missing(t)' /\ n \in Notices /\ notice'[n].status = "pending" /\ notice'[n].receiver = u
      BY <1>1, <1>2 DEF Duplicate, Missing
    <2> QED BY <1>1, <1>3, <2>1 DEF Duplicate
  <1> QED BY <1>3, <1>4

LEMMA OpenOnceByInsert ==
  ASSUME Typed, Apart, OpenOnce, NEW w \in Workers, InsertNotice(w)
  PROVE  OpenOnce'
  <1>1. PICK r \in Doings : Continue(w, r) /\ r.step = "push"
    BY InsertNoticeCases
  <1>2. req'[w] = r /\ (\A v \in Workers \ {w} : req'[v] = req[v]) /\ tangled \subseteq tangled'
    BY <1>1, Moves DEF Continue
  <1>3. PICK rows \in RowTables : rows = req[w].rows
    BY Fields
  <1>4. \A t, u : \A n \in Duplicate(t, u)' :
              \/ /\ n \in DOMAIN rows /\ rows[n].type = "geodata_missing"
                 /\ rows[n].trade = t /\ rows[n].receiver = u
              \/ n \in Duplicate(t, u)
    BY <1>3, InsertedRows DEF InsertNotice
  <1>5. /\ \A m, n \in DOMAIN rows : m = n
        /\ \A n \in DOMAIN rows : rows[n].type = "geodata_missing" =>
             /\ rows[n].trade = req[w].trade /\ req[w].trade \in Trades
             /\ req[w].trade \in tangled \/ Duplicate(req[w].trade, rows[n].receiver) = {}
    BY <1>3 DEF InsertNotice, OpenOnce, Asking
  <1>6. Single'
    <2> SUFFICES ASSUME NEW t \in Trades \ tangled', NEW u \in Users,
                        NEW m \in Duplicate(t, u)', NEW n \in Duplicate(t, u)'
                 PROVE  m = n
      BY DEF Single
    <2>1. t \notin tangled
      BY <1>2
    <2>2. CASE m \in Duplicate(t, u) /\ n \in Duplicate(t, u)
      BY <2>1, <2>2 DEF OpenOnce, Single
    <2>3. CASE Duplicate(t, u) = {}
      BY <1>4, <1>5, <2>3
    <2>4. CASE Duplicate(t, u) # {}
      BY <1>4, <1>5, <2>1, <2>2, <2>4
    <2> QED BY <2>3, <2>4
  <1>7. ASSUME NEW v \in Workers \ {w}, NEW t \in Trades \ tangled, t = req[v].trade, NEW u
        PROVE  Duplicate(t, u)' \subseteq Duplicate(t, u)
    <2>1. \A x \in Workers : req[x].trade \in Trades => req[x].trade \in Concerns(req[x])
      BY QueueAssumption DEF Concerns
    <2>2. req[w].trade # t
      BY <1>7, <2>1 DEF Apart
    <2> QED BY <1>4, <1>5, <2>2
  <1>8. ASSUME NEW v \in Workers PROVE Asking(req[v])'
    <2>1. CASE v = w
      BY <1>1, <1>2, <2>1 DEF Asking
    <2>2. CASE v # w
      <3>1. req'[v] = req[v] /\ Asking(req[v])
        BY <1>2, <2>2 DEF OpenOnce
      <3>2. ASSUME NEW n \in DOMAIN req[v].rows, req[v].step = "insert",
                   req[v].rows[n].type = "geodata_missing"
            PROVE  req[v].trade \in tangled' \/ Duplicate(req[v].trade, req[v].rows[n].receiver)' = {}
        <4>1. /\ req[v].trade \in Trades
              /\ req[v].trade \in tangled \/ Duplicate(req[v].trade, req[v].rows[n].receiver) = {}
          BY <3>1, <3>2 DEF Asking
        <4>2. CASE req[v].trade \in tangled
          BY <1>2, <4>2
        <4>3. CASE req[v].trade \notin tangled
          <5>1. PICK t \in Trades \ tangled : t = req[v].trade
            BY <4>1, <4>3
          <5>2. PICK u : u = req[v].rows[n].receiver
            OBVIOUS
          <5>3. Duplicate(t, u)' \subseteq Duplicate(t, u) /\ Duplicate(t, u) = {}
            BY <1>7, <2>2, <4>1, <5>1, <5>2
          <5> QED BY <3>1, <5>1, <5>2, <5>3
        <4> QED BY <4>2, <4>3
      <3> QED BY <3>1, <3>2 DEF Asking
    <2> QED BY <2>1, <2>2
  <1> QED BY <1>6, <1>8 DEF OpenOnce

LEMMA OpenOnceByCommit ==
  ASSUME Typed, OpenOnce, NEW w \in Workers, Commit(w)
  PROVE  OpenOnce'
  <1>1. req'[w] = Idle /\ (\A v \in Workers \ {w} : req'[v] = req[v]) /\ tangled' = tangled
    BY Moves, IdleIsSensible DEF Commit, Done
  <1>2. PICK rows \in RowTables : rows = req[w].rows
    BY Fields
  <1>3. \A n \in DOMAIN rows : rows[n].type # "geodata_missing"
    BY <1>2 DEF Commit, OpenOnce, Asking
  <1>4. \A t, u : Duplicate(t, u)' \subseteq Duplicate(t, u)
    BY <1>2, <1>3, InsertedRows DEF Commit
  <1>5. Asking(Idle)
    BY DEF Asking, Idle
  <1> QED BY <1>1, <1>4, <1>5, OpenOnceQuietly

LEMMA ReadMissing ==
  ASSUME Typed, NEW u, NEW n \in Notices, UpdateStatus(u, n)
  PROVE  \A t : Missing(t)' = Missing(t) /\ \A x : Duplicate(t, x)' \subseteq Duplicate(t, x)
  <1>1. /\ Stored' = Stored /\ notice'[n].status = "read"
        /\ notice'[n].type = notice[n].type /\ notice'[n].trade = notice[n].trade
        /\ notice'[n].receiver = notice[n].receiver
        /\ \A m \in Notices \ {n} : notice'[m] = notice[m]
    BY ReadRows
  <1>2. Stored \subseteq Notices
    BY DEF Stored
  <1>3. \A m \in Stored : /\ notice'[m].type = notice[m].type /\ notice'[m].trade = notice[m].trade
                          /\ notice'[m].receiver = notice[m].receiver
                          /\ notice'[m].status = "pending" => notice[m].status = "pending"
    BY <1>1, <1>2
  <1> QED BY <1>1, <1>3 DEF Missing, Duplicate

LEMMA OpenOnceByUser ==
  ASSUME Typed, OpenOnce, UserStep
  PROVE  OpenOnce'
  <1>1. req' = req /\ tangled' = tangled
    BY DEF UserStep
  <1>2. \A t, u : Duplicate(t, u)' \subseteq Duplicate(t, u)
    BY SameDuplicates, ReadMissing DEF UserStep
  <1>3. Single'
    BY <1>1, <1>2 DEF OpenOnce, Single
  <1>4. ASSUME NEW v \in Workers PROVE Asking(req[v])'
    BY <1>1, <1>2 DEF OpenOnce, Asking
  <1> QED BY <1>3, <1>4 DEF OpenOnce

LEMMA InitOpenOnce == Init => OpenOnce
  <1> SUFFICES ASSUME Init PROVE OpenOnce
    OBVIOUS
  <1>1. \A t, u : Duplicate(t, u) = {}
    BY DEF Init, Duplicate, Missing, Stored
  <1> QED BY <1>1 DEF Init, OpenOnce, Single, Asking, Idle

LEMMA NextOpenOnce == Typed /\ Apart /\ OpenOnce /\ [Next]_vars => OpenOnce'
  <1> SUFFICES ASSUME Typed, Apart, OpenOnce, [Next]_vars PROVE OpenOnce'
    OBVIOUS
  <1>1. ASSUME NEW w \in Workers, PushNotice(w) \/ UpdateUpload(w) \/ UpdateNotify(w)
        PROVE  OpenOnce'
    <2>1. UNCHANGED notice
      BY <1>1 DEF PushNotice, UpdateUpload, UpdateNotify, tables
    <2>2. Done(w) \/ \E r \in Doings : Continue(w, r) /\ Asking(r)
      <3>1. CASE PushNotice(w)
        BY <3>1, PushNoticeCases DEF Asking
      <3>2. CASE UpdateUpload(w)
        BY <3>2, UpdateUploadCases DEF Asking
      <3>3. CASE UpdateNotify(w)
        <4>1. PICK r \in Doings : /\ Continue(w, r) /\ r.step = "commit"
                                  /\ \A n \in DOMAIN r.rows : r.rows[n].type = "geodata_updated"
          BY <3>3, UpdateNotifyCases
        <4>2. Asking(r)
          BY <4>1 DEF Asking
        <4> QED BY <4>1, <4>2
      <3> QED BY <1>1, <3>1, <3>2, <3>3
    <2> QED BY <2>1, <2>2, OpenOnceMoves
  <1>2. ASSUME NEW w \in Workers, RequestFails(w)
        PROVE  OpenOnce'
    <2>1. UNCHANGED notice /\ tangled \subseteq tangled'
      BY <1>2 DEF RequestFails, tables
    <2>2. req'[w] = Idle /\ \A v \in Workers \ {w} : req'[v] = req[v]
      BY <1>2, Moves, IdleIsSensible DEF RequestFails
    <2>3. Asking(Idle)
      BY DEF Asking, Idle
    <2> QED BY <2>1, <2>2, <2>3, SameDuplicates, OpenOnceQuietly
  <1>3. CASE (\E s \in Slots : QueueStep(s)) \/ UNCHANGED vars
    <2>1. UNCHANGED <<notice, req, tangled>>
      BY <1>3 DEF QueueStep, tables, vars
    <2>2. ASSUME NEW v \in Workers PROVE Asking(req[v])'
      BY <2>1, SameDuplicates DEF OpenOnce, Asking
    <2> QED BY <2>1, <2>2, SameDuplicates DEF OpenOnce, Single
  <1> QED BY <1>1, <1>2, <1>3, OpenOnceByStart, OpenOnceByPropose, OpenOnceByCheck,
             OpenOnceByInsert, OpenOnceByCommit, OpenOnceByUser DEF Next, Request

\* Nobody is asked twice for the same geodata while the first request is unread,
\* whoever asks, unless requests on the trade overlapped (OneOpenRequest;
\* notifications.py:57).
THEOREM RequestsAreOpenOnce == Spec => []OneOpenRequest
  <1>1. Spec => [](Typed /\ Kept /\ OpenOnce)
    <2>1. Init => Typed /\ Kept /\ OpenOnce
      BY InitTyped, InitKept, InitOpenOnce
    <2>2. Typed /\ Kept /\ OpenOnce /\ [Next]_vars => (Typed /\ Kept /\ OpenOnce)'
      BY NextTyped, NextKept, NextOpenOnce DEF Kept
    <2> QED BY <2>1, <2>2, PTL DEF Spec
  <1>2. Typed /\ Kept /\ OpenOnce => OneOpenRequest
    BY SingleOpens DEF OpenOnce
  <1> QED BY <1>1, <1>2, PTL

-----------------------------------------------------------------------------
(* Answers. *)

\* Rows that are not in the table yet have keys that nobody else uses.
Unsaved(r) == r.step \in {"insert", "commit"}

FreshKeys ==
  \A w \in Workers : Unsaved(req[w]) =>
    /\ DOMAIN req[w].rows \cap Stored = {}
    /\ \A v \in Workers \ {w} : Unsaved(req[v]) => DOMAIN req[w].rows \cap DOMAIN req[v].rows = {}

\* What a request still asks for is not there yet.
Wanting(r) ==
  /\ \A t \in r.left \ tangled : location[t] = "none"
  /\ r.step = "insert" => \A n \in DOMAIN r.rows :
       r.rows[n].type = "geodata_missing" => r.trade \in tangled \/ location[r.trade] = "none"

AnswerTo(n, row) ==
  /\ row.type = "geodata_updated" /\ row.trade = notice[n].trade
  /\ row.receiver = notice[n].creator

\* An update that is about to commit answers every request there is.
Answering(r) ==
  r.step = "commit" /\ r.trade \in Trades \ tangled =>
    \A n \in Missing(r.trade) : \E m \in DOMAIN r.rows : AnswerTo(n, r.rows[m])

Told ==
  \A t \in Trades \ tangled : location[t] # "none" =>
    \A n \in Missing(t) : \E m \in Stored : AnswerTo(n, notice[m])

\* A request is about a trade.
Placed == \A n \in Stored : notice[n].type = "geodata_missing" => notice[n].trade \in Trades

Heard ==
  /\ Told /\ Placed
  /\ \A w \in Workers : Wanting(req[w])
  /\ \A w \in Workers : Answering(req[w])

LEMMA ToldAskers ==
  ASSUME Heard
  PROVE  AskersHear
  BY DEF Heard, Told, Placed, AskersHear, AnswerTo, Missing

LEMMA FreshMoves ==
  ASSUME Typed, FreshKeys, NEW w \in Workers, Stored' = Stored,
         \A v \in Workers \ {w} : req'[v] = req[v],
         Unsaved(req'[w]) => DOMAIN req'[w].rows \subseteq Unused
  PROVE  FreshKeys'
  <1>1. \A n \in Unused : n \notin Stored /\ \A v \in Workers : n \notin DOMAIN req[v].rows
    BY DEF Unused
  <1>2. ASSUME NEW v \in Workers, Unsaved(req'[v])
        PROVE  DOMAIN req'[v].rows \cap Stored = {}
    BY <1>1, <1>2 DEF FreshKeys
  <1>3. ASSUME NEW v \in Workers, NEW x \in Workers \ {v}, Unsaved(req'[v]), Unsaved(req'[x])
        PROVE  DOMAIN req'[v].rows \cap DOMAIN req'[x].rows = {}
    <2>1. CASE v = w
      BY <1>1, <1>3, <2>1
    <2>2. CASE x = w
      BY <1>1, <1>3, <2>2
    <2>3. CASE v # w /\ x # w
      BY <1>3, <2>3 DEF FreshKeys
    <2> QED BY <2>1, <2>2, <2>3
  <1> QED BY <1>2, <1>3 DEF FreshKeys, Unsaved

LEMMA FreshSaves ==
  ASSUME Typed, FreshKeys, NEW w \in Workers, Unsaved(req[w]), Stored' = Stored \cup DOMAIN req[w].rows,
         \A v \in Workers \ {w} : req'[v] = req[v], ~Unsaved(req'[w])
  PROVE  FreshKeys'
  <1>1. ASSUME NEW v \in Workers, Unsaved(req'[v])
        PROVE  v # w /\ DOMAIN req'[v].rows \cap Stored' = {}
    BY <1>1 DEF FreshKeys
  <1>2. ASSUME NEW v \in Workers, NEW x \in Workers \ {v}, Unsaved(req'[v]), Unsaved(req'[x])
        PROVE  DOMAIN req'[v].rows \cap DOMAIN req'[x].rows = {}
    BY <1>1, <1>2 DEF FreshKeys
  <1> QED BY <1>1, <1>2 DEF FreshKeys, Unsaved

\* The table and the locations stay as they are.
LEMMA HeardQuietly ==
  ASSUME Heard, NEW w \in Workers, UNCHANGED <<notice, location>>, tangled \subseteq tangled',
         \A v \in Workers \ {w} : req'[v] = req[v], Wanting(req'[w]), Answering(req'[w])
  PROVE  Heard'
  <1>1. Stored' = Stored /\ \A t : Missing(t)' = Missing(t)
    BY DEF Stored, Missing
  <1>2. \A n, row : AnswerTo(n, row)' = AnswerTo(n, row)
    BY DEF AnswerTo
  <1>3. Told'
    BY <1>1 DEF Heard, Told, AnswerTo
  <1>4. ASSUME NEW v \in Workers PROVE Wanting(req[v])'
    <2>1. Wanting(req'[v])
      BY DEF Heard
    <2> QED BY <2>1 DEF Wanting
  <1>5. ASSUME NEW v \in Workers PROVE Answering(req[v])'
    <2>1. Answering(req'[v])
      BY DEF Heard
    <2>2. PICK r : r = req'[v]
      OBVIOUS
    <2>3. r.step = "commit" /\ r.trade \in Trades \ tangled' =>
            \A n \in Missing(r.trade) : \E m \in DOMAIN r.rows : AnswerTo(n, r.rows[m])
      BY <2>1, <2>2 DEF Answering
    <2>4. Missing(r.trade)' = Missing(req'[v].trade)
      BY <1>1, <2>2
    <2> QED BY <1>1, <2>2, <2>3 DEF Answering, AnswerTo, Missing, Stored
  <1>6. Placed'
    BY <1>1 DEF Heard, Placed
  <1> QED BY <1>3, <1>4, <1>5, <1>6 DEF Heard

LEMMA HeardMoves ==
  ASSUME Typed, Heard, NEW w \in Workers, UNCHANGED <<notice, location>>,
         Done(w) \/ \E r \in Doings : Continue(w, r) /\ Wanting(r) /\ Answering(r)
  PROVE  Heard'
  <1>1. CASE Done(w)
    <2>1. Wanting(Idle) /\ Answering(Idle)
      BY DEF Wanting, Answering, Idle
    <2>2. req'[w] = Idle /\ (\A v \in Workers \ {w} : req'[v] = req[v]) /\ tangled' = tangled
      BY <1>1, Moves, IdleIsSensible DEF Done
    <2> QED BY <2>1, <2>2, HeardQuietly
  <1>2. ASSUME NEW r \in Doings, Continue(w, r), Wanting(r), Answering(r) PROVE Heard'
    <2>1. req'[w] = r /\ (\A v \in Workers \ {w} : req'[v] = req[v]) /\ tangled \subseteq tangled'
      BY <1>2, Moves DEF Continue
    <2> QED BY <1>2, <2>1, HeardQuietly
  <1> QED BY <1>1, <1>2

LEMMA HeardByStart ==
  ASSUME Typed, Heard, NEW w \in Workers, NEW u \in Users, NEW t \in Trades,
         AskRead(w, u, t) \/ ResendRead(w, u, t) \/ \E source \in Sources : UpdateRead(w, u, t, source)
  PROVE  Heard'
  <1>1. UNCHANGED <<notice, location>>
    BY DEF AskRead, ResendRead, UpdateRead, tables
  <1>2. CASE AskRead(w, u, t)
    <2>1. \/ Done(w)
          \/ \E r \in Doings : /\ Continue(w, r) /\ r.step = "ask"
                               /\ \A f \in r.left : location[f] = "none"
      BY <1>2, AskReadCases
    <2>2. \A r : r.step = "ask" /\ (\A f \in r.left : location[f] = "none") => Wanting(r) /\ Answering(r)
      BY DEF Wanting, Answering
    <2> QED BY <1>1, <2>1, <2>2, HeardMoves
  <1>3. CASE ResendRead(w, u, t)
    <2>1. PICK v \in Parties[t] \ {u}, r \in Doings :
            /\ v \in Users /\ Continue(w, r) /\ r.step = "insert" /\ r.left = {}
            /\ r.rows = NewRow(FromTransaction("transaction_pending", t, v, u))
      BY <1>3, ResendReadCases
    <2>2. PICK row \in Row : row = FromTransaction("transaction_pending", t, v, u)
      BY <2>1, FromTransactionIsRow DEF Types
    <2>3. DOMAIN r.rows = {NewKey} /\ r.rows[NewKey] = row
      BY <1>3, <2>1, <2>2, NewRowTable DEF ResendRead
    <2>4. row.type # "geodata_missing"
      BY <2>2 DEF FromTransaction
    <2>5. Wanting(r) /\ Answering(r)
      BY <2>1, <2>3, <2>4 DEF Wanting, Answering
    <2> QED BY <1>1, <2>1, <2>5, HeardMoves
  <1>4. ASSUME NEW source \in Sources, UpdateRead(w, u, t, source)
        PROVE  Heard'
    <2>1. PICK r \in Doings : Continue(w, r) /\ r.step = "upload" /\ r.left = {}
      BY <1>4, UpdateReadCases
    <2>2. Wanting(r) /\ Answering(r)
      BY <2>1 DEF Wanting, Answering
    <2> QED BY <1>1, <2>1, <2>2, HeardMoves
  <1> QED BY <1>2, <1>3, <1>4

LEMMA HeardByPropose ==
  ASSUME Typed, Heard, NEW w \in Workers, NEW u \in Users, NEW v \in Users, Propose(w, u, v)
  PROVE  Heard'
  <1>1. PICK r \in Doings : Continue(w, r) /\ r.step = "commit" /\ r.trade = NoTrade /\ r.left = {}
    BY ProposeCases
  <1>2. Wanting(r) /\ Answering(r)
    BY <1>1, QueueAssumption DEF Wanting, Answering
  <1>3. UNCHANGED <<notice, location>>
    BY DEF Propose, tables
  <1> QED BY <1>1, <1>2, <1>3, HeardMoves

LEMMA HeardByCheck ==
  ASSUME Typed, Heard, NEW w \in Workers, AskCheck(w)
  PROVE  Heard'
  <1>1. UNCHANGED <<notice, location>>
    BY DEF AskCheck, tables
  <1>2. PICK t \in req[w].left, r \in Doings :
           /\ Continue(w, r) /\ r.trade = t /\ r.left = req[w].left \ {t}
           /\ r.step = "push" \/ r.step = "insert"
    BY AskCheckCases
  <1>3. \A x \in req[w].left \ tangled : location[x] = "none"
    BY DEF Heard, Wanting
  <1>4. Wanting(r)
    BY <1>2, <1>3 DEF Wanting
  <1>5. Answering(r)
    BY <1>2 DEF Answering
  <1> QED BY <1>1, <1>2, <1>4, <1>5, HeardMoves

LEMMA HeardByHandler ==
  ASSUME Typed, Heard, NEW w \in Workers, PushNotice(w) \/ UpdateUpload(w) \/ UpdateNotify(w)
  PROVE  Heard'
  <1>1. UNCHANGED <<notice, location>>
    BY DEF PushNotice, UpdateUpload, UpdateNotify, tables
  <1>2. \A x \in req[w].left \ tangled : location[x] = "none"
    BY DEF Heard, Wanting
  <1>3. CASE PushNotice(w)
    <2>1. ASSUME NEW r \in Doings, Continue(w, r), r.step = "ask", r.left = req[w].left
          PROVE  Wanting(r) /\ Answering(r)
      BY <1>2, <2>1 DEF Wanting, Answering
    <2> QED BY <1>1, <1>3, <2>1, PushNoticeCases, HeardMoves
  <1>4. CASE UpdateUpload(w)
    <2>1. PICK r \in Doings : Continue(w, r) /\ r.step = "notify" /\ r.left = req[w].left
      BY <1>4, UpdateUploadCases
    <2>2. Wanting(r) /\ Answering(r)
      BY <1>2, <2>1 DEF Wanting, Answering
    <2> QED BY <1>1, <2>1, <2>2, HeardMoves
  <1>5. CASE UpdateNotify(w)
    <2>1. PICK r \in Doings :
            /\ Continue(w, r) /\ r.step = "commit" /\ r.left = req[w].left
            /\ r.trade = req[w].trade
            /\ \A n \in DOMAIN r.rows : r.rows[n].type = "geodata_updated"
            /\ \A a \in Missing(req[w].trade) : \E n \in DOMAIN r.rows :
                 /\ r.rows[n].trade = req[w].trade
                 /\ r.rows[n].receiver = notice[a].creator
      BY <1>5, UpdateNotifyCases
    <2>2. Wanting(r)
      BY <1>2, <2>1 DEF Wanting
    <2>3. Answering(r)
      BY <2>1 DEF Answering, AnswerTo, Missing
    <2> QED BY <1>1, <2>1, <2>2, <2>3, HeardMoves
  <1> QED BY <1>3, <1>4, <1>5

\* A row that was in the table before some were inserted under new keys.
LEMMA OldRows ==
  ASSUME Typed, FreshKeys, NEW w \in Workers, Unsaved(req[w]), notice' = With(req[w].rows)
  PROVE  /\ Stored' = Stored \cup DOMAIN req[w].rows
         /\ \A n \in Stored : notice'[n] = notice[n]
         /\ \A n \in DOMAIN req[w].rows : notice'[n] = req[w].rows[n]
         /\ \A t : \A n \in Missing(t)' :
              \/ /\ n \in DOMAIN req[w].rows /\ req[w].rows[n].type = "geodata_missing"
                 /\ req[w].rows[n].trade = t
              \/ n \in Missing(t) /\ n \in Stored
  <1>1. PICK rows \in RowTables : rows = req[w].rows
    BY Fields
  <1>2. /\ Stored' = Stored \cup DOMAIN rows
        /\ \A n \in Notices : notice'[n] = IF n \in DOMAIN rows THEN rows[n] ELSE notice[n]
    BY <1>1, StoredWith
  <1>3. DOMAIN rows \cap Stored = {} /\ DOMAIN rows \subseteq Notices /\ Stored \subseteq Notices
    BY <1>1, TableRows DEF FreshKeys, Stored
  <1>4. \A t : \A n \in Missing(t)' :
              \/ n \in DOMAIN rows /\ rows[n].type = "geodata_missing" /\ rows[n].trade = t
              \/ n \in Missing(t)
    BY <1>1, InsertedRows
  <1>5. \A t : \A n \in Missing(t) : n \in Stored
    BY DEF Missing
  <1> QED BY <1>1, <1>2, <1>3, <1>4, <1>5

LEMMA HeardByInsert ==
  ASSUME Typed, Apart, FreshKeys, OpenOnce, Heard, NEW w \in Workers, InsertNotice(w)
  PROVE  Heard'
  <1>1. PICK r \in Doings : Continue(w, r) /\ r.step = "push" /\ r.left = req[w].left
    BY InsertNoticeCases
  <1>2. req'[w] = r /\ (\A v \in Workers \ {w} : req'[v] = req[v]) /\ tangled \subseteq tangled'
    BY <1>1, Moves DEF Continue
  <1>3. PICK rows \in RowTables : rows = req[w].rows
    BY Fields
  <1>4. /\ Stored' = Stored \cup DOMAIN rows
        /\ \A n \in Stored : notice'[n] = notice[n]
        /\ \A n \in DOMAIN rows : notice'[n] = rows[n]
        /\ \A t : \A n \in Missing(t)' :
              \/ n \in DOMAIN rows /\ rows[n].type = "geodata_missing" /\ rows[n].trade = t
              \/ n \in Missing(t) /\ n \in Stored
    BY <1>3, OldRows DEF InsertNotice, Unsaved
  <1>5. \A n \in DOMAIN rows : rows[n].type = "geodata_missing" =>
             /\ rows[n].trade = req[w].trade /\ req[w].trade \in Trades
             /\ req[w].trade \in tangled \/ location[req[w].trade] = "none"
    BY <1>3 DEF InsertNotice, OpenOnce, Asking, Heard, Wanting
  <1>6. location' = location
    BY DEF InsertNotice
  <1>7. ASSUME NEW n \in Stored, NEW row
        PROVE  AnswerTo(n, row)' <=> AnswerTo(n, row)
    BY <1>4 DEF AnswerTo
  <1>8. Told'
    <2> SUFFICES ASSUME NEW t \in Trades \ tangled', location[t] # "none", NEW n \in Missing(t)'
                 PROVE  \E m \in Stored' : AnswerTo(n, notice[m])'
      BY <1>6 DEF Told
    <2>1. n \in Missing(t) /\ n \in Stored
      BY <1>2, <1>4, <1>5
    <2>2. PICK m \in Stored : AnswerTo(n, notice[m])
      BY <1>2, <2>1 DEF Heard, Told
    <2>3. PICK row : row = notice[m] /\ row = notice'[m]
      BY <1>4
    <2>4. AnswerTo(n, row)'
      BY <1>7, <2>1, <2>2, <2>3
    <2>5. m \in Stored'
      BY <1>4
    <2> QED BY <2>3, <2>4, <2>5 DEF AnswerTo
  <1>9. Placed'
    BY <1>4, <1>5 DEF Heard, Placed
  <1>10. ASSUME NEW v \in Workers PROVE Wanting(req[v])'
    <2>1. CASE v = w
      BY <1>1, <1>2, <1>6, <2>1 DEF Heard, Wanting
    <2>2. CASE v # w
      BY <1>2, <1>6, <2>2 DEF Heard, Wanting
    <2> QED BY <2>1, <2>2
  <1>11. ASSUME NEW v \in Workers PROVE Answering(req[v])'
    <2>1. CASE v = w
      BY <1>1, <1>2, <2>1 DEF Answering
    <2>2. CASE v # w
      <3> SUFFICES ASSUME req[v].step = "commit", NEW t \in Trades \ tangled', t = req[v].trade,
                          NEW n \in Missing(t)'
                   PROVE  \E m \in DOMAIN req[v].rows : AnswerTo(n, req[v].rows[m])'
        BY <1>2, <2>2 DEF Answering
      <3>1. req[w].trade # t \/ t \in tangled
        <4>1. \A x \in Workers : req[x].trade \in Trades => req[x].trade \in Concerns(req[x])
          BY QueueAssumption DEF Concerns
        <4> QED BY <2>2, <4>1 DEF Apart
      <3>2. n \in Missing(t) /\ n \in Stored
        BY <1>2, <1>4, <1>5, <3>1
      <3>3. PICK m \in DOMAIN req[v].rows : AnswerTo(n, req[v].rows[m])
        BY <1>2, <3>2 DEF Heard, Answering
      <3>4. PICK row : row = req[v].rows[m] /\ row = req'[v].rows[m]
        BY <1>2, <2>2
      <3>5. AnswerTo(n, row)'
        BY <1>7, <3>2, <3>3, <3>4
      <3> QED BY <3>4, <3>5 DEF AnswerTo
    <2> QED BY <2>1, <2>2
  <1> QED BY <1>8, <1>9, <1>10, <1>11 DEF Heard

LEMMA HeardByCommit ==
  ASSUME Typed, Apart, FreshKeys, OpenOnce, Heard, NEW w \in Workers, Commit(w)
  PROVE  Heard'
  <1>1. req'[w] = Idle /\ (\A v \in Workers \ {w} : req'[v] = req[v]) /\ tangled' = tangled
    BY Moves, IdleIsSensible DEF Commit, Done
  <1>2. PICK rows \in RowTables : rows = req[w].rows
    BY Fields
  <1>3. PICK trade : trade = req[w].trade
    OBVIOUS
  <1>4. \A n \in DOMAIN rows : rows[n].type # "geodata_missing"
    BY <1>2 DEF Commit, OpenOnce, Asking
  <1>5. /\ Stored' = Stored \cup DOMAIN rows
        /\ \A n \in Stored : notice'[n] = notice[n]
        /\ \A n \in DOMAIN rows : notice'[n] = rows[n]
        /\ \A t : \A n \in Missing(t)' : n \in Missing(t) /\ n \in Stored
    BY <1>2, <1>4, OldRows DEF Commit, Unsaved
  <1>6. \A t \in Trades \ {trade} : location'[t] = location[t]
    BY <1>3 DEF Commit
  <1>7. ASSUME NEW n \in Stored, NEW row
        PROVE  AnswerTo(n, row)' <=> AnswerTo(n, row)
    BY <1>5 DEF AnswerTo
  <1>8. Told'
    <2> SUFFICES ASSUME NEW t \in Trades \ tangled, location'[t] # "none", NEW n \in Missing(t)'
                 PROVE  \E m \in Stored' : AnswerTo(n, notice[m])'
      BY <1>1 DEF Told
    <2>1. n \in Missing(t) /\ n \in Stored
      BY <1>5
    <2>2. PICK m, row : m \in Stored' /\ row = notice'[m] /\ AnswerTo(n, row)
      <3>1. CASE t = trade
        <4>1. PICK m \in DOMAIN rows : AnswerTo(n, rows[m])
          BY <1>2, <1>3, <2>1, <3>1 DEF Commit, Heard, Answering
        <4> QED BY <1>5, <4>1
      <3>2. CASE t # trade
        <4>1. PICK m \in Stored : AnswerTo(n, notice[m])
          BY <1>6, <2>1, <3>2 DEF Heard, Told
        <4> QED BY <1>5, <4>1
      <3> QED BY <3>1, <3>2
    <2>3. AnswerTo(n, row)'
      BY <1>7, <2>1, <2>2
    <2> QED BY <2>2, <2>3 DEF AnswerTo
  <1>9. Placed'
    BY <1>4, <1>5 DEF Heard, Placed
  <1>10. \A v \in Workers \ {w} : \A t \in Concerns(req[v]) \ tangled : t # trade
    <2>1. trade # NoTrade => trade \in Concerns(req[w])
      BY <1>3 DEF Concerns
    <2>2. \A v \in Workers : NoTrade \notin Concerns(req[v])
      BY DEF Concerns
    <2> QED BY <2>1, <2>2 DEF Apart
  <1>11. ASSUME NEW v \in Workers PROVE Wanting(req[v])'
    <2>1. CASE v = w
      BY <1>1, <2>1 DEF Wanting, Idle
    <2>2. CASE v # w
      <3>1. req'[v] = req[v] /\ req[v].left \subseteq Trades /\ req[v].trade \in Trades \cup {NoTrade}
        BY <1>1, <2>2, Fields
      <3>2. \A t \in Trades : t \in req[v].left \/ t = req[v].trade => t \in tangled \/ location'[t] = location[t]
        <4>1. \A t \in Trades : t \in req[v].left \/ t = req[v].trade => t \in Concerns(req[v])
          BY QueueAssumption DEF Concerns
        <4> QED BY <1>6, <1>10, <2>2, <4>1
      <3>3. \A n \in DOMAIN req[v].rows : req[v].step = "insert" /\ req[v].rows[n].type = "geodata_missing" =>
              req[v].trade \in Trades
        BY DEF OpenOnce, Asking
      <3>4. \A t \in req[v].left \ tangled : location'[t] = "none"
        BY <3>1, <3>2 DEF Heard, Wanting
      <3>5. req[v].step = "insert" => \A n \in DOMAIN req[v].rows :
              req[v].rows[n].type = "geodata_missing" =>
                req[v].trade \in tangled \/ location'[req[v].trade] = "none"
        BY <3>2, <3>3 DEF Heard, Wanting
      <3> QED BY <1>1, <3>1, <3>4, <3>5 DEF Wanting
    <2> QED BY <2>1, <2>2
  <1>12. ASSUME NEW v \in Workers PROVE Answering(req[v])'
    <2>1. CASE v = w
      BY <1>1, <2>1 DEF Answering, Idle
    <2>2. CASE v # w
      <3> SUFFICES ASSUME req[v].step = "commit", NEW t \in Trades \ tangled, t = req[v].trade,
                          NEW n \in Missing(t)'
                   PROVE  \E m \in DOMAIN req[v].rows : AnswerTo(n, req[v].rows[m])'
        BY <1>1, <2>2 DEF Answering
      <3>1. n \in Missing(t) /\ n \in Stored
        BY <1>5
      <3>2. PICK m \in DOMAIN req[v].rows : AnswerTo(n, req[v].rows[m])
        BY <3>1 DEF Heard, Answering
      <3>3. PICK row : row = req[v].rows[m] /\ row = req'[v].rows[m]
        BY <1>1, <2>2
      <3>4. AnswerTo(n, row)'
        BY <1>7, <3>1, <3>2, <3>3
      <3> QED BY <3>3, <3>4 DEF AnswerTo
    <2> QED BY <2>1, <2>2
  <1> QED BY <1>8, <1>9, <1>11, <1>12 DEF Heard

LEMMA HeardByUser ==
  ASSUME Typed, Heard, UserStep
  PROVE  Heard'
  <1>1. req' = req /\ tangled' = tangled /\ location' = location
    BY DEF UserStep
  <1>2. /\ Stored' = Stored /\ \A t : Missing(t)' = Missing(t)
        /\ \A n \in Stored : /\ notice'[n].type = notice[n].type /\ notice'[n].trade = notice[n].trade
                             /\ notice'[n].receiver = notice[n].receiver
                             /\ notice'[n].creator = notice[n].creator
    <2>1. CASE UNCHANGED notice
      BY <2>1 DEF Stored, Missing
    <2>2. ASSUME NEW u \in member, NEW n \in Notices, UpdateStatus(u, n)
          PROVE  /\ Stored' = Stored /\ \A t : Missing(t)' = Missing(t)
                 /\ \A m \in Stored : /\ notice'[m].type = notice[m].type /\ notice'[m].trade = notice[m].trade
                                      /\ notice'[m].receiver = notice[m].receiver
                                      /\ notice'[m].creator = notice[m].creator
      <3>1. Stored \subseteq Notices
        BY DEF Stored
      <3> QED BY <2>2, <3>1, ReadRows, ReadMissing
    <2> QED BY <2>1, <2>2 DEF UserStep
  <1>3. \A t : \A n \in Missing(t) : n \in Stored
    BY DEF Missing
  <1>4. ASSUME NEW n \in Stored, NEW row
        PROVE  AnswerTo(n, row)' <=> AnswerTo(n, row)
    BY <1>2 DEF AnswerTo
  <1>5. Told'
    BY <1>1, <1>2, <1>3 DEF Heard, Told, AnswerTo
  <1>6. Placed'
    BY <1>2 DEF Heard, Placed
  <1>7. ASSUME NEW v \in Workers PROVE Wanting(req[v])'
    BY <1>1 DEF Heard, Wanting
  <1>8. ASSUME NEW v \in Workers PROVE Answering(req[v])'
    <2>1. PICK r : r = req[v] /\ r = req'[v]
      BY <1>1
    <2>2. r.step = "commit" /\ r.trade \in Trades \ tangled =>
            \A n \in Missing(r.trade) : \E m \in DOMAIN r.rows : AnswerTo(n, r.rows[m])
      BY <2>1 DEF Heard, Answering
    <2>3. r.step = "commit" /\ r.trade \in Trades \ tangled' =>
            \A n \in Missing(r.trade)' : \E m \in DOMAIN r.rows : AnswerTo(n, r.rows[m])'
      BY <1>1, <1>2, <1>3, <1>4, <2>2
    <2>4. Answering(r)'
      BY <2>3 DEF Answering
    <2> QED BY <2>1, <2>4 DEF Answering
  <1> QED BY <1>5, <1>6, <1>7, <1>8 DEF Heard

LEMMA InitHeard == Init => FreshKeys /\ Heard
  <1> SUFFICES ASSUME Init PROVE FreshKeys /\ Heard
    OBVIOUS
  <1>1. Stored = {} /\ \A t : Missing(t) = {}
    BY DEF Init, Missing, Stored
  <1> QED BY <1>1 DEF Init, FreshKeys, Unsaved, Heard, Told, Placed, Wanting, Answering, Idle

LEMMA NextFresh == Typed /\ FreshKeys /\ [Next]_vars => FreshKeys'
  <1> SUFFICES ASSUME Typed, FreshKeys, [Next]_vars PROVE FreshKeys'
    OBVIOUS
  <1>1. ASSUME UNCHANGED notice PROVE Stored' = Stored
    BY <1>1 DEF Stored
  <1>2. ~Unsaved(Idle)
    BY DEF Unsaved, Idle
  <1>3. ASSUME NEW w \in Workers, UNCHANGED notice,
               Done(w) \/ \E r \in Doings : Continue(w, r) /\ (Unsaved(r) => DOMAIN r.rows \subseteq Unused)
        PROVE  FreshKeys'
    <2>1. CASE Done(w)
      <3>1. req'[w] = Idle /\ \A v \in Workers \ {w} : req'[v] = req[v]
        BY <2>1, Moves, IdleIsSensible DEF Done
      <3> QED BY <1>1, <1>2, <1>3, <3>1, FreshMoves
    <2>2. ASSUME NEW r \in Doings, Continue(w, r), Unsaved(r) => DOMAIN r.rows \subseteq Unused
          PROVE  FreshKeys'
      <3>1. req'[w] = r /\ \A v \in Workers \ {w} : req'[v] = req[v]
        BY <2>2, Moves DEF Continue
      <3> QED BY <1>1, <1>3, <2>2, <3>1, FreshMoves
    <2> QED BY <1>3, <2>1, <2>2
  <1>4. ASSUME NEW w \in Workers, NEW u \in Users, NEW t \in Trades,
               AskRead(w, u, t) \/ ResendRead(w, u, t) \/ \E source \in Sources : UpdateRead(w, u, t, source)
        PROVE  FreshKeys'
    <2>1. UNCHANGED notice
      BY <1>4 DEF AskRead, ResendRead, UpdateRead, tables
    <2>2. CASE AskRead(w, u, t)
      BY <1>3, <2>1, <2>2, AskReadCases DEF Unsaved
    <2>3. CASE ResendRead(w, u, t)
      <3>1. PICK v \in Users, r \in Doings :
              Continue(w, r) /\ r.rows = NewRow(FromTransaction("transaction_pending", t, v, u))
        BY <2>3, ResendReadCases
      <3>2. FromTransaction("transaction_pending", t, v, u) \in Row
        BY FromTransactionIsRow DEF Types
      <3>3. DOMAIN r.rows \subseteq Unused
        BY <2>3, <3>1, <3>2, NewRowTable DEF ResendRead
      <3> QED BY <1>3, <2>1, <3>1, <3>3
    <2>4. ASSUME NEW source \in Sources, UpdateRead(w, u, t, source)
          PROVE  FreshKeys'
      BY <1>3, <2>1, <2>4, UpdateReadCases DEF Unsaved
    <2> QED BY <1>4, <2>2, <2>3, <2>4
  <1>5. ASSUME NEW w \in Workers, NEW u \in Users, NEW v \in Users, Propose(w, u, v)
        PROVE  FreshKeys'
    <2>1. PICK r \in Doings :
            /\ Continue(w, r) /\ Unused # {}
            /\ r.rows = NewRow(FromTransaction("transaction_pending", NoTrade, v, u))
      BY <1>5, ProposeCases
    <2>2. FromTransaction("transaction_pending", NoTrade, v, u) \in Row
      BY FromTransactionIsRow DEF Types
    <2>3. DOMAIN r.rows \subseteq Unused
      BY <2>1, <2>2, NewRowTable
    <2>4. UNCHANGED notice
      BY <1>5 DEF Propose, tables
    <2> QED BY <1>3, <2>1, <2>3, <2>4
  <1>6. ASSUME NEW w \in Workers, AskCheck(w)
        PROVE  FreshKeys'
    <2>1. PICK t \in Trades, r \in Doings :
             /\ Buyer[t] \in Users /\ req[w].user \in Users /\ Continue(w, r)
             /\ \/ r.step = "push"
                \/ /\ Unused # {}
                   /\ r.rows = NewRow(FromTransaction("geodata_missing", t, Buyer[t], req[w].user))
      BY <1>6, AskCheckCases
    <2>2. FromTransaction("geodata_missing", t, Buyer[t], req[w].user) \in Row
      BY <2>1, FromTransactionIsRow DEF Types
    <2>3. Unsaved(r) => DOMAIN r.rows \subseteq Unused
      BY <2>1, <2>2, NewRowTable DEF Unsaved
    <2>4. UNCHANGED notice
      BY <1>6 DEF AskCheck, tables
    <2> QED BY <1>3, <2>1, <2>3, <2>4
  <1>7. ASSUME NEW w \in Workers, PushNotice(w) \/ UpdateUpload(w) \/ UpdateNotify(w)
        PROVE  FreshKeys'
    <2>1. UNCHANGED notice
      BY <1>7 DEF PushNotice, UpdateUpload, UpdateNotify, tables
    <2>2. Done(w) \/ \E r \in Doings : Continue(w, r) /\ (Unsaved(r) => DOMAIN r.rows \subseteq Unused)
      BY <1>7, PushNoticeCases, UpdateUploadCases, UpdateNotifyCases DEF Unsaved
    <2> QED BY <1>3, <2>1, <2>2
  <1>8. ASSUME NEW w \in Workers, InsertNotice(w) \/ Commit(w)
        PROVE  FreshKeys'
    <2>1. /\ Unsaved(req[w]) /\ Stored' = Stored \cup DOMAIN req[w].rows
      BY <1>8, Fields, StoredWith DEF InsertNotice, Commit, Unsaved
    <2>2. (\A v \in Workers \ {w} : req'[v] = req[v]) /\ ~Unsaved(req'[w])
      <3>1. CASE InsertNotice(w)
        BY <3>1, InsertNoticeCases, Moves DEF Continue, Unsaved
      <3>2. CASE Commit(w)
        BY <1>2, <3>2, Moves, IdleIsSensible DEF Commit, Done
      <3> QED BY <1>8, <3>1, <3>2
    <2> QED BY <2>1, <2>2, FreshSaves
  <1>9. ASSUME NEW w \in Workers, RequestFails(w)
        PROVE  FreshKeys'
    <2>1. UNCHANGED notice
      BY <1>9 DEF RequestFails, tables
    <2>2. req'[w] = Idle /\ \A v \in Workers \ {w} : req'[v] = req[v]
      BY <1>9, Moves, IdleIsSensible DEF RequestFails
    <2> QED BY <1>1, <1>2, <2>1, <2>2, FreshMoves
  <1>10. CASE UserStep
    <2>1. req' = req
      BY <1>10 DEF UserStep
    <2>2. Stored' = Stored
      BY <1>1, <1>10, ReadRows DEF UserStep
    <2> QED BY <2>1, <2>2 DEF FreshKeys, Unsaved
  <1>11. CASE (\E s \in Slots : QueueStep(s)) \/ UNCHANGED vars
    <2>1. UNCHANGED <<notice, req>>
      BY <1>11 DEF QueueStep, tables, vars
    <2> QED BY <1>1, <2>1 DEF FreshKeys, Unsaved
  <1> QED BY <1>4, <1>5, <1>6, <1>7, <1>8, <1>9, <1>10, <1>11 DEF Next, Request

LEMMA NextHeard == Typed /\ Apart /\ FreshKeys /\ OpenOnce /\ Heard /\ [Next]_vars => Heard'
  <1> SUFFICES ASSUME Typed, Apart, FreshKeys, OpenOnce, Heard, [Next]_vars PROVE Heard'
    OBVIOUS
  <1>1. ASSUME NEW w \in Workers, RequestFails(w)
        PROVE  Heard'
    <2>1. UNCHANGED <<notice, location>> /\ tangled \subseteq tangled'
      BY <1>1 DEF RequestFails, tables
    <2>2. req'[w] = Idle /\ \A v \in Workers \ {w} : req'[v] = req[v]
      BY <1>1, Moves, IdleIsSensible DEF RequestFails
    <2>3. Wanting(Idle) /\ Answering(Idle)
      BY DEF Wanting, Answering, Idle
    <2> QED BY <2>1, <2>2, <2>3, HeardQuietly
  <1>2. CASE (\E s \in Slots : QueueStep(s)) \/ UNCHANGED vars
    <2>1. UNCHANGED <<notice, location, req, tangled>>
      BY <1>2 DEF QueueStep, tables, vars
    <2> QED BY <2>1 DEF Heard, Told, Placed, Wanting, Answering, AnswerTo, Missing, Stored
  <1> QED BY <1>1, <1>2, HeardByStart, HeardByPropose, HeardByCheck, HeardByHandler,
             HeardByInsert, HeardByCommit, HeardByUser DEF Next, Request

\* Once a trade has its geodata, everyone whose request for it is in the table has
\* been told, read or not, unless requests on the trade overlapped or an update
\* stopped half-way (AskersHear; services.py:177).
THEOREM EveryAskerIsTold == Spec => []AskersHear
  <1>1. Spec => [](Typed /\ Kept /\ OpenOnce /\ FreshKeys /\ Heard)
    <2>1. Init => Typed /\ Kept /\ OpenOnce /\ FreshKeys /\ Heard
      BY InitTyped, InitKept, InitOpenOnce, InitHeard
    <2>2. Typed /\ Kept /\ OpenOnce /\ FreshKeys /\ Heard /\ [Next]_vars
            => (Typed /\ Kept /\ OpenOnce /\ FreshKeys /\ Heard)'
      BY NextTyped, NextKept, NextOpenOnce, NextFresh, NextHeard DEF Kept
    <2> QED BY <2>1, <2>2, PTL DEF Spec
  <1> QED BY <1>1, ToldAskers, PTL

=============================================================================
